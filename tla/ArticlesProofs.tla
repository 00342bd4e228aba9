--------------------------- MODULE ArticlesProofs ---------------------------
(***************************************************************************)
(* Proofs about Articles and, in the second half, about the forms that use *)
(* it (ArticleEditor).                                                     *)
(*                                                                         *)
(* The service: the requests keep what they decided true for as long as    *)
(* their version is current (IInv below), so every write is a legal step   *)
(* of ArticleRecords.  What is promised of the rows is then proved of      *)
(* ArticleRecords alone.                                                   *)
(*                                                                         *)
(* The forms: for any number of tabs, a form in use is about an article    *)
(* that exists, which is what makes every step of a form a step of the     *)
(* service.  For a single tab, the form and the row agree whenever their   *)
(* versions do (Fits below): with two tabs they need not, and an edit can  *)
(* be lost.                                                                *)
(***************************************************************************)
EXTENDS ArticleEditor, TLAPS

----------------------------------------------------------------------------
(* What a request decided when it checked the row it read.                 *)

Checking(h) == handler[h].step = "checked"

(* It is about to give an article its first address.                       *)
Naming(h) == /\ Checking(h) /\ handler[h].op = "publish"
             /\ handler[h].seen.address = NoAddress

Decided ==
  \A h \in Handler : Checking(h) =>
    /\ handler[h].seen.version > 0
    /\ handler[h].seen.version <= row[handler[h].article].version
    /\ handler[h].op = "save" =>
         /\ handler[h].address = handler[h].seen.address
         /\ handler[h].seen.status = "published" => handler[h].body # NoBody
    /\ handler[h].op = "publish" /\ handler[h].seen.address # NoAddress =>
         handler[h].address = handler[h].seen.address

(* An address about to be given is neither stored nor about to be given by *)
(* another request: it was generated for this one.                         *)
AddressesFresh ==
  /\ \A a \in Article : row[a].address \in minted \cup {NoAddress}
  /\ \A h \in Handler : Naming(h) =>
       /\ handler[h].address \in minted
       /\ \A a \in Article : row[a].address # handler[h].address
       /\ \A g \in Handler \ {h} : Naming(g) => handler[g].address # handler[h].address

IInv == TypeOK /\ VersionNamesRow /\ Decided /\ AddressesFresh

----------------------------------------------------------------------------
LEMMA TypesInit == Init => TypeOK
<1> SUFFICES ASSUME Init PROVE TypeOK
  OBVIOUS
<1>1. row \in [Article -> Records!Row]
  BY DEF Init, Records!Init, Records!Row
<1>2. handler \in [Handler -> Request] /\ \A h \in Handler : handler[h].op = "save"
  BY <1>1 DEF Init, Request, Text
<1> QED BY <1>1, <1>2 DEF Init, TypeOK, Records!RowsOK

(* The steps by which a request begins, seen from the outside.             *)
Began(h, a) ==
  /\ Idle(h)
  /\ a \in Article /\ Records!Exists(a)
  /\ handler' = [handler EXCEPT ![h] = handler'[h]]
  /\ handler'[h] \in Request
  /\ handler'[h].step = "checked" /\ handler'[h].article = a /\ handler'[h].seen = row[a]
  /\ handler'[h].op = "publish" => handler'[h].body \in Body
  /\ handler'[h].op = "save" =>
       /\ handler'[h].address = row[a].address
       /\ row[a].status = "published" => handler'[h].body # NoBody
  /\ \/ /\ handler'[h].op = "publish" =>
             row[a].address # NoAddress /\ handler'[h].address = row[a].address
        /\ minted' = minted
     \/ /\ handler'[h].op = "publish" /\ row[a].address = NoAddress
        /\ handler'[h].address \in Address \ minted
        /\ minted' = minted \cup {handler'[h].address}
  /\ row' = row

LEMMA BeginShape ==
  ASSUME TypeOK, NEW h \in Handler, Begin(h)
  PROVE  \E a \in Article : Began(h, a)
<1>1. /\ handler \in [Handler -> Request] /\ minted \subseteq Address
      /\ \A a \in Article : row[a] \in Records!Row /\ row[a].body \in Text
                            /\ row[a].address \in Address \cup {NoAddress}
  BY DEF TypeOK, Records!RowsOK, Records!Row, Text
<1>2. ASSUME NEW op \in {"save", "publish", "withdraw"}, NEW a \in Article, NEW body \in Text,
             NEW address \in Address \cup {NoAddress}, Checked(h, op, a, body, address)
      PROVE  /\ Idle(h) /\ Records!Exists(a) /\ row' = row
             /\ handler' = [handler EXCEPT ![h] = handler'[h]]
             /\ handler'[h] \in Request
             /\ handler'[h].step = "checked" /\ handler'[h].article = a
             /\ handler'[h].seen = row[a] /\ handler'[h].op = op
             /\ handler'[h].body = body /\ handler'[h].address = address
  <2> DEFINE new == [step |-> "checked", op |-> op, article |-> a, seen |-> row[a],
                     body |-> body, address |-> address]
  <2>1. new \in Request
    BY <1>1 DEF Request
  <2>2. handler' = [handler EXCEPT ![h] = new] /\ handler'[h] = new
    BY <1>1, <1>2 DEF Checked
  <2>3. /\ new.step = "checked" /\ new.article = a /\ new.seen = row[a] /\ new.op = op
        /\ new.body = body /\ new.address = address
    OBVIOUS
  <2>4. Idle(h) /\ Records!Exists(a) /\ row' = row
    BY <1>2 DEF Checked
  <2> HIDE DEF new
  <2> QED BY <2>1, <2>2, <2>3, <2>4
<1>3. PICK a \in Article : \/ BeginWithdraw(h, a)
                           \/ \E body \in Text : BeginSave(h, a, body) \/ BeginPublish(h, a, body)
  BY DEF Begin
<1>4. CASE BeginWithdraw(h, a)
  <2>1. Checked(h, "withdraw", a, row[a].body, row[a].address) /\ minted' = minted
    BY <1>4 DEF BeginWithdraw
  <2>2. row[a].body \in Text /\ row[a].address \in Address \cup {NoAddress}
    BY <1>1
  <2>3. /\ Idle(h) /\ Records!Exists(a) /\ row' = row
        /\ handler' = [handler EXCEPT ![h] = handler'[h]]
        /\ handler'[h] \in Request
        /\ handler'[h].step = "checked" /\ handler'[h].article = a
        /\ handler'[h].seen = row[a] /\ handler'[h].op = "withdraw"
    BY <1>2, <2>1, <2>2
  <2> QED BY <2>1, <2>3 DEF Began
<1>5. ASSUME NEW body \in Text, BeginSave(h, a, body) PROVE Began(h, a)
  <2>1. /\ Checked(h, "save", a, body, row[a].address) /\ minted' = minted
        /\ row[a].status = "published" => body # NoBody
    BY <1>5 DEF BeginSave
  <2> QED BY <1>1, <1>2, <2>1 DEF Began
<1>6. ASSUME NEW body \in Text, BeginPublish(h, a, body) PROVE Began(h, a)
  <2>1. body \in Body
    BY <1>6 DEF BeginPublish, Text
  <2>2. CASE row[a].address # NoAddress /\ minted' = minted
             /\ Checked(h, "publish", a, body, row[a].address)
    BY <1>1, <1>2, <2>1, <2>2 DEF Began
  <2>3. CASE row[a].address = NoAddress /\ \E address \in Address \ minted :
               Checked(h, "publish", a, body, address) /\ minted' = minted \cup {address}
    <3>1. PICK address \in Address \ minted :
            Checked(h, "publish", a, body, address) /\ minted' = minted \cup {address}
      BY <2>3
    <3> QED BY <1>1, <1>2, <2>1, <2>3, <3>1 DEF Began
  <2> QED BY <1>6, <2>2, <2>3 DEF BeginPublish
<1> QED BY <1>3, <1>4, <1>5, <1>6

(* The steps by which a request writes.                                    *)
Wrote(h, new) ==
  /\ Checking(h) /\ SameVersion(h)
  /\ new \in Records!Row
  /\ new.version = handler[h].seen.version + 1
  /\ row' = [row EXCEPT ![handler[h].article] = new]
  /\ handler' = [handler EXCEPT ![h].step = "written"]
  /\ minted' = minted

LEMMA WrittenShape ==
  ASSUME TypeOK, NEW h \in Handler, NEW status \in {"draft", "published"}, NEW body \in Text,
         NEW address \in Address \cup {NoAddress}, Written(h, status, body, address)
  PROVE  \E new : /\ Wrote(h, new)
                  /\ new.status = status /\ new.body = body /\ new.address = address
<1> DEFINE new == [version |-> handler[h].seen.version + 1, status |-> status,
                   body |-> body, address |-> address]
<1>1. handler[h].seen.version \in Nat
  BY DEF TypeOK, Request, Records!Row
<1>2. /\ new \in Records!Row /\ new.version = handler[h].seen.version + 1
      /\ new.status = status /\ new.body = body /\ new.address = address
  BY <1>1 DEF Records!Row, Text
<1>3. /\ Checking(h) /\ SameVersion(h) /\ minted' = minted
      /\ row' = [row EXCEPT ![handler[h].article] = new]
      /\ handler' = [handler EXCEPT ![h].step = "written"]
  BY DEF Written, Checking
<1> HIDE DEF new
<1> QED BY <1>2, <1>3 DEF Wrote

LEMMA WriteUpdateShape ==
  ASSUME TypeOK, NEW h \in Handler, WriteUpdate(h)
  PROVE  \E new : /\ Wrote(h, new)
                  /\ handler[h].op \in {"save", "publish"}
                  /\ new.body = handler[h].body /\ new.address = handler[h].address
                  /\ new.status = IF handler[h].op = "publish" THEN "published"
                                                               ELSE handler[h].seen.status
<1> DEFINE status == IF handler[h].op = "publish" THEN "published" ELSE handler[h].seen.status
<1>1. handler[h] \in Request
  BY DEF TypeOK
<1>2. /\ status \in {"draft", "published"} /\ handler[h].body \in Text
      /\ handler[h].address \in Address \cup {NoAddress}
  BY <1>1 DEF Request, Records!Row
<1>3. /\ Written(h, status, handler[h].body, handler[h].address)
      /\ handler[h].op \in {"save", "publish"}
  BY DEF WriteUpdate
<1> QED BY <1>2, <1>3, WrittenShape

LEMMA WriteWithdrawShape ==
  ASSUME TypeOK, NEW h \in Handler, WriteWithdraw(h)
  PROVE  LET now == row[handler[h].article] IN
         \E new : /\ Wrote(h, new)
                  /\ handler[h].op = "withdraw"
                  /\ now.status = "published"
                  /\ new.status = "draft" /\ new.body = now.body /\ new.address = now.address
<1> DEFINE now == row[handler[h].article]
<1>1. handler[h].article \in Article
  BY DEF TypeOK, Request
<1>2. now.body \in Text /\ now.address \in Address \cup {NoAddress}
  BY <1>1 DEF TypeOK, Records!RowsOK, Records!Row, Text
<1>3. /\ Written(h, "draft", now.body, now.address)
      /\ handler[h].op = "withdraw" /\ now.status = "published"
  BY DEF WriteWithdraw
<1> HIDE DEF now
<1>4. \E new : /\ Wrote(h, new)
               /\ new.status = "draft" /\ new.body = now.body /\ new.address = now.address
  BY <1>2, <1>3, WrittenShape
<1> QED BY <1>3, <1>4 DEF now

----------------------------------------------------------------------------
(* Every kind of step keeps the types and the requests' decisions.         *)

LEMMA CreateKeeps ==
  ASSUME IInv, NEW a \in Article, NEW body \in Text, Create(a, body)
  PROVE  IInv'
<1> DEFINE new == [row[a] EXCEPT !.version = 1, !.body = body]
<1>1. row[a] \in Records!Row /\ row \in [Article -> Records!Row]
  BY DEF IInv, TypeOK, Records!RowsOK
<1>2. new \in Records!Row /\ new.version = 1 /\ new.address = row[a].address
  BY <1>1 DEF Records!Row, Text
<1>3. /\ row[a].version = 0 /\ handler' = handler /\ minted' = minted
      /\ row' = [row EXCEPT ![a] = new]
  BY DEF Create
<1> HIDE DEF new
<1>4. TypeOK'
  BY <1>1, <1>2, <1>3 DEF IInv, TypeOK, Records!RowsOK
<1>5. \A h \in Handler : Checking(h) =>
        /\ handler[h].article # a
        /\ row'[handler[h].article] = row[handler[h].article]
  <2> SUFFICES ASSUME NEW h \in Handler, Checking(h)
               PROVE  /\ handler[h].article # a
                      /\ row'[handler[h].article] = row[handler[h].article]
    OBVIOUS
  <2>1. handler[h].article \in Article /\ handler[h].seen.version \in Nat
    BY DEF IInv, TypeOK, Request, Records!Row
  <2>2. handler[h].article # a
    BY <1>3, <2>1 DEF IInv, Decided
  <2> QED BY <1>1, <1>3, <2>1, <2>2
<1>6. VersionNamesRow' /\ Decided'
  BY <1>3, <1>5 DEF IInv, VersionNamesRow, SameVersion, Decided, Checking
<1>7. \A b \in Article : row'[b].address = row[b].address
  BY <1>1, <1>2, <1>3
<1>8. AddressesFresh'
  BY <1>3, <1>7 DEF IInv, AddressesFresh, Naming, Checking
<1> QED BY <1>4, <1>6, <1>8 DEF IInv

LEMMA BeginKeeps ==
  ASSUME IInv, NEW h \in Handler, NEW a \in Article, Began(h, a)
  PROVE  IInv'
<1>1. /\ handler' = [handler EXCEPT ![h] = handler'[h]] /\ handler'[h] \in Request
      /\ handler'[h].step = "checked" /\ handler'[h].article = a /\ handler'[h].seen = row[a]
      /\ row' = row /\ row[a].version > 0
  BY DEF Began, Records!Exists
<1>2. /\ row \in [Article -> Records!Row] /\ handler \in [Handler -> Request]
      /\ row[a] \in Records!Row /\ row[a].version \in Nat
  BY DEF IInv, TypeOK, Records!RowsOK, Records!Row
<1>3. \A g \in Handler \ {h} : handler'[g] = handler[g]
  BY <1>1, <1>2
<1>4. TypeOK'
  <2>1. handler' \in [Handler -> Request]
    BY <1>1, <1>2
  <2>2. handler'[h].op = "publish" => handler'[h].body \in Body
    BY DEF Began
  <2>3. handler'[h].op = "publish" => handler'[h].address \in Address
    BY <1>2 DEF Began, Records!Row
  <2>4. minted' \subseteq Address
    BY DEF Began, IInv, TypeOK
  <2> QED BY <1>1, <1>3, <2>1, <2>2, <2>3, <2>4 DEF IInv, TypeOK, Records!RowsOK
<1>5. VersionNamesRow'
  BY <1>1, <1>3 DEF IInv, VersionNamesRow, SameVersion
<1>6. Decided'
  <2>1. /\ handler'[h].op = "save" =>
             /\ handler'[h].address = handler'[h].seen.address
             /\ handler'[h].seen.status = "published" => handler'[h].body # NoBody
        /\ handler'[h].op = "publish" /\ handler'[h].seen.address # NoAddress =>
             handler'[h].address = handler'[h].seen.address
    BY <1>1 DEF Began
  <2>2. handler'[h].seen.version > 0 /\ handler'[h].seen.version <= row'[handler'[h].article].version
    BY <1>1, <1>2
  <2> QED BY <1>1, <1>3, <2>1, <2>2 DEF IInv, Decided, Checking
<1>7. AddressesFresh'
  <2>1. CASE handler'[h].op # "publish" \/ row[a].address # NoAddress
    <3>1. minted' = minted /\ ~ Naming(h)'
      BY <1>1, <2>1 DEF Began, Naming
    <3> QED BY <1>1, <1>3, <3>1 DEF IInv, AddressesFresh, Naming, Checking
  <2>2. CASE handler'[h].op = "publish" /\ row[a].address = NoAddress
    <3>1. /\ handler'[h].address \in Address \ minted
          /\ minted' = minted \cup {handler'[h].address}
      BY <2>2 DEF Began
    <3>2. \A b \in Article : row'[b].address \in minted \cup {NoAddress}
      BY <1>1 DEF IInv, AddressesFresh
    <3>3. \A b \in Article : row'[b].address # handler'[h].address
      BY <3>1, <3>2, ConstantsAssumption
    <3>4. \A g \in Handler \ {h} : Naming(g)' => Naming(g) /\ handler'[g].address \in minted
      BY <1>3 DEF IInv, AddressesFresh, Naming, Checking
    <3> QED BY <1>1, <1>3, <3>1, <3>2, <3>3, <3>4 DEF IInv, AddressesFresh
  <2> QED BY <2>1, <2>2
<1> QED BY <1>4, <1>5, <1>6, <1>7 DEF IInv

LEMMA WriteKeeps ==
  ASSUME IInv, NEW h \in Handler, NEW new, Wrote(h, new),
         \/ new.address = row[handler[h].article].address
         \/ Naming(h) /\ new.address = handler[h].address
  PROVE  IInv'
<1> DEFINE a == handler[h].article
<1>1. /\ Checking(h) /\ new \in Records!Row /\ minted' = minted
      /\ row' = [row EXCEPT ![a] = new]
      /\ handler' = [handler EXCEPT ![h].step = "written"]
  BY DEF Wrote
<1>2. /\ row \in [Article -> Records!Row] /\ handler \in [Handler -> Request]
      /\ a \in Article /\ row[a].version \in Nat
      /\ \A g \in Handler : handler[g].seen.version \in Nat /\ handler[g].article \in Article
  BY DEF IInv, TypeOK, Records!RowsOK, Records!Row, Request
<1>3. new.version = row[a].version + 1
  BY DEF Wrote, SameVersion
<1> HIDE DEF a
<1>4. /\ \A g \in Handler \ {h} : handler'[g] = handler[g]
      /\ \A g \in Handler : /\ handler'[g].op = handler[g].op
                            /\ handler'[g].body = handler[g].body
                            /\ handler'[g].address = handler[g].address
      /\ handler'[h].step = "written"
      /\ row'[a] = new /\ \A b \in Article \ {a} : row'[b] = row[b]
  BY <1>1, <1>2 DEF Request
<1>5. handler' \in [Handler -> Request]
  BY <1>1, <1>2 DEF Request
<1>6. TypeOK'
  BY <1>1, <1>2, <1>4, <1>5 DEF IInv, TypeOK, Records!RowsOK
<1>7. \A g \in Handler : Checking(g)' => g # h /\ Checking(g) /\ handler'[g] = handler[g]
  BY <1>4 DEF Checking
<1>8. \A b \in Article : row[b].version \in Nat
  BY <1>2 DEF Records!Row
<1>9. VersionNamesRow'
  <2> SUFFICES ASSUME NEW g \in Handler, Checking(g)', SameVersion(g)'
               PROVE  row'[handler'[g].article] = handler'[g].seen
    BY DEF VersionNamesRow, Checking
  <2>1. handler'[g] = handler[g] /\ Checking(g)
    BY <1>7
  <2>2. handler[g].seen.version <= row[handler[g].article].version
    BY <2>1 DEF IInv, Decided
  <2>3. handler[g].article # a
    BY <1>2, <1>3, <1>4, <2>1, <2>2 DEF SameVersion
  <2> QED BY <1>2, <1>4, <2>1, <2>3 DEF IInv, VersionNamesRow, SameVersion, Checking
<1>10. Decided'
  <2>1. \A b \in Article : row'[b].version >= row[b].version
    BY <1>3, <1>4, <1>8
  <2>2. \A b \in Article : row'[b].version \in Nat
    BY <1>3, <1>4, <1>8
  <2> SUFFICES ASSUME NEW g \in Handler, Checking(g), handler'[g] = handler[g]
               PROVE  handler[g].seen.version <= row'[handler[g].article].version
    BY <1>7 DEF IInv, Decided
  <2>3. handler[g].seen.version <= row[handler[g].article].version
    BY DEF IInv, Decided
  <2> QED BY <1>2, <1>8, <2>1, <2>2, <2>3
<1>11. AddressesFresh'
  <2>1. /\ new.address \in minted \cup {NoAddress}
        /\ \A g \in Handler \ {h} : Naming(g) => new.address # handler[g].address
    BY <1>2 DEF IInv, AddressesFresh, a
  <2>2. \A g \in Handler : Naming(g)' => g # h /\ Naming(g) /\ handler'[g] = handler[g]
    BY <1>7 DEF Naming
  <2> QED BY <1>1, <1>4, <2>1, <2>2 DEF IInv, AddressesFresh
<1> QED BY <1>6, <1>9, <1>10, <1>11 DEF IInv

LEMMA EndKeeps ==
  ASSUME IInv, NEW h \in Handler, row' = row, minted' = minted,
         handler' = [handler EXCEPT ![h].step = "idle"]
  PROVE  IInv'
<1>1. handler \in [Handler -> Request] /\ handler' \in [Handler -> Request]
  BY DEF IInv, TypeOK, Request
<1>2. \A g \in Handler : /\ handler'[g].op = handler[g].op
                         /\ handler'[g].body = handler[g].body
                         /\ handler'[g].address = handler[g].address
  BY <1>1 DEF Request
<1>3. \A g \in Handler : Checking(g)' => Checking(g) /\ handler'[g] = handler[g]
  BY <1>1 DEF Checking
<1>4. TypeOK'
  BY <1>1, <1>2 DEF IInv, TypeOK, Records!RowsOK
<1>5. VersionNamesRow' /\ Decided'
  BY <1>3 DEF IInv, VersionNamesRow, SameVersion, Decided, Checking
<1>6. AddressesFresh'
  BY <1>3 DEF IInv, AddressesFresh, Naming
<1> QED BY <1>4, <1>5, <1>6 DEF IInv

LEMMA InvariantInit == Init => IInv
<1> SUFFICES ASSUME Init PROVE IInv
  OBVIOUS
<1>1. \A h \in Handler : handler[h].step = "idle"
  BY DEF Init
<1>2. \A a \in Article : row[a].address = NoAddress
  BY DEF Init, Records!Init
<1> QED BY <1>1, <1>2, TypesInit
        DEF IInv, VersionNamesRow, Decided, AddressesFresh, Naming, Checking

(* A write gives the article the address it has, or the one generated for  *)
(* its first publication.                                                  *)
LEMMA UpdateAddress ==
  ASSUME IInv, NEW h \in Handler, NEW new, Wrote(h, new),
         handler[h].op \in {"save", "publish"}, new.address = handler[h].address
  PROVE  \/ new.address = row[handler[h].article].address
         \/ Naming(h) /\ new.address = handler[h].address
<1>1. Checking(h) /\ row[handler[h].article] = handler[h].seen
  BY DEF Wrote, IInv, VersionNamesRow, Checking
<1> QED BY <1>1 DEF IInv, Decided, Naming

LEMMA InvariantStep == IInv /\ [Next]_vars => IInv'
<1> SUFFICES ASSUME IInv, [Next]_vars PROVE IInv'
  OBVIOUS
<1>0. TypeOK
  BY DEF IInv
<1>1. ASSUME NEW a \in Article, NEW body \in Text, Create(a, body) PROVE IInv'
  BY <1>1, CreateKeeps
<1>2. ASSUME NEW h \in Handler, Begin(h) PROVE IInv'
  BY <1>0, <1>2, BeginShape, BeginKeeps
<1>3. ASSUME NEW h \in Handler, WriteUpdate(h) PROVE IInv'
  <2>1. PICK new : /\ Wrote(h, new) /\ handler[h].op \in {"save", "publish"}
                   /\ new.address = handler[h].address
    BY <1>0, <1>3, WriteUpdateShape
  <2> QED BY <2>1, UpdateAddress, WriteKeeps
<1>4. ASSUME NEW h \in Handler, WriteWithdraw(h) PROVE IInv'
  <2>1. PICK new : Wrote(h, new) /\ new.address = row[handler[h].article].address
    BY <1>0, <1>4, WriteWithdrawShape
  <2> QED BY <2>1, WriteKeeps
<1>5. ASSUME NEW h \in Handler, Reject(h) PROVE IInv'
  BY <1>5, EndKeeps DEF Reject
<1>6. ASSUME NEW h \in Handler, Answer(h) PROVE IInv'
  BY <1>6, EndKeeps DEF Answer
<1>7. CASE UNCHANGED vars
  BY <1>7 DEF vars, IInv, TypeOK, Records!RowsOK, VersionNamesRow, SameVersion, Decided,
              AddressesFresh, Naming, Checking
<1> QED BY <1>1, <1>2, <1>3, <1>4, <1>5, <1>6, <1>7 DEF Next

(* The types hold in every reachable state.                                *)
THEOREM ArticleTypes == Spec => []TypeOK
<1>1. IInv => TypeOK
  BY DEF IInv
<1> QED BY <1>1, InvariantInit, InvariantStep, PTL DEF Spec

(* A request whose version is still current has seen the row as it is:     *)
(* for any number of requests, whatever it decided from the row it read is *)
(* still right when its UPDATE goes through.                               *)
THEOREM VersionsNameRows == Spec => []VersionNamesRow
<1>1. IInv => VersionNamesRow
  BY DEF IInv
<1> QED BY <1>1, InvariantInit, InvariantStep, PTL DEF Spec

----------------------------------------------------------------------------
(* Every step is one of ArticleRecords, or changes no row.                 *)

LEMMA ChangedShape ==
  ASSUME Records!RowsOK, NEW a \in Article
  PROVE  /\ Records!Changed(a) \in Records!Row
         /\ Records!Changed(a) = [version |-> row[a].version + 1, status |-> row[a].status,
                                  body |-> row[a].body, address |-> row[a].address]
  BY DEF Records!RowsOK, Records!Row, Records!Changed

LEMMA RefinementStep == IInv /\ [Next]_vars => [Records!Next]_row
<1> SUFFICES ASSUME IInv, [Next]_vars PROVE Records!Next \/ row' = row
  OBVIOUS
<1>0. TypeOK /\ Records!RowsOK /\ row \in [Article -> Records!Row]
  BY DEF IInv, TypeOK, Records!RowsOK
<1>1. ASSUME NEW a \in Article, NEW body \in Text, Create(a, body) PROVE Records!Next
  <2>1. Records!Create(a, body)
    BY <1>0, <1>1 DEF Create, Records!Create, Records!Exists, Records!Row
  <2> QED BY <2>1 DEF Records!Next, Text
<1>2. ASSUME NEW h \in Handler, Begin(h) PROVE row' = row
  BY <1>0, <1>2, BeginShape DEF Began
<1>3. ASSUME NEW h \in Handler, WriteUpdate(h) PROVE Records!Next
  <2> DEFINE a == handler[h].article
             body == handler[h].body
             address == handler[h].address
  <2>1. PICK new : /\ Wrote(h, new) /\ handler[h].op \in {"save", "publish"}
                   /\ new.body = body /\ new.address = address
                   /\ new.status = IF handler[h].op = "publish" THEN "published"
                                                                ELSE handler[h].seen.status
    BY <1>0, <1>3, WriteUpdateShape
  <2>2. /\ handler[h].seen = row[a] /\ Checking(h) /\ new \in Records!Row
        /\ new.version = row[a].version + 1 /\ row' = [row EXCEPT ![a] = new]
    BY <2>1 DEF Wrote, IInv, VersionNamesRow, Checking
  <2>3. /\ a \in Article /\ body \in Text /\ address \in Address \cup {NoAddress}
        /\ Records!Exists(a)
    <3>1. handler[h] \in Request
      BY <1>0 DEF TypeOK
    <3> QED BY <2>2, <3>1 DEF Request, Records!Exists, IInv, Decided
  <2>4. /\ Records!Changed(a) \in Records!Row
        /\ Records!Changed(a).version = row[a].version + 1
        /\ Records!Changed(a).status = row[a].status
        /\ Records!Changed(a).address = row[a].address
    BY <1>0, <2>3, ChangedShape
  <2>5. body \in Body \cup {NoBody}
    BY <2>3 DEF Text
  <2> HIDE DEF a, body, address
  <2>6. CASE handler[h].op = "save"
    <3>1. address = row[a].address /\ (row[a].status = "published" => body # NoBody)
      BY <2>2, <2>6 DEF IInv, Decided, a, body, address
    <3>2. new = [Records!Changed(a) EXCEPT !.body = body]
      BY <2>1, <2>2, <2>4, <2>6, <3>1 DEF Records!Row
    <3>3. Records!Save(a, body)
      BY <2>2, <2>3, <3>1, <3>2 DEF Records!Save
    <3> QED BY <2>3, <2>5, <3>3 DEF Records!Next
  <2>7. CASE handler[h].op = "publish"
    <3>1. body # NoBody /\ address \in Address
      BY <2>7, ConstantsAssumption DEF IInv, TypeOK, body, address
    <3>2. IF row[a].address = NoAddress THEN address \in Address \ Records!Taken
                                        ELSE address = row[a].address
      <4>1. CASE row[a].address = NoAddress
        BY <2>2, <2>7, <3>1, <4>1
           DEF IInv, AddressesFresh, Naming, Records!Taken, a, address
      <4>2. CASE row[a].address # NoAddress
        BY <2>2, <2>7, <4>2 DEF IInv, Decided, a, address
      <4> QED BY <4>1, <4>2
    <3>3. new = [Records!Changed(a) EXCEPT !.status = "published", !.body = body,
                                           !.address = address]
      BY <2>1, <2>2, <2>4, <2>7 DEF Records!Row
    <3>4. Records!Publish(a, body, address)
      BY <2>2, <2>3, <3>1, <3>2, <3>3 DEF Records!Publish
    <3> QED BY <2>3, <2>5, <3>1, <3>4 DEF Records!Next
  <2> QED BY <2>1, <2>6, <2>7
<1>4. ASSUME NEW h \in Handler, WriteWithdraw(h) PROVE Records!Next
  <2> DEFINE a == handler[h].article
  <2>1. PICK new : /\ Wrote(h, new) /\ row[a].status = "published" /\ new.status = "draft"
                   /\ new.body = row[a].body /\ new.address = row[a].address
    BY <1>0, <1>4, WriteWithdrawShape
  <2>2. /\ new \in Records!Row /\ new.version = row[a].version + 1
        /\ row' = [row EXCEPT ![a] = new]
    BY <2>1 DEF Wrote, SameVersion
  <2>3. a \in Article
    BY <1>0 DEF TypeOK, Request
  <2>4. /\ Records!Changed(a) \in Records!Row
        /\ Records!Changed(a).version = row[a].version + 1
        /\ Records!Changed(a).body = row[a].body
        /\ Records!Changed(a).address = row[a].address
    BY <1>0, <2>3, ChangedShape
  <2> HIDE DEF a
  <2>5. new = [Records!Changed(a) EXCEPT !.status = "draft"]
    BY <2>1, <2>2, <2>4 DEF Records!Row
  <2> QED BY <2>1, <2>2, <2>3, <2>5 DEF Records!Withdraw, Records!Next
<1>5. ASSUME NEW h \in Handler, Reject(h) \/ Answer(h) PROVE row' = row
  BY <1>5 DEF Reject, Answer
<1>6. CASE UNCHANGED vars
  BY <1>6 DEF vars
<1> QED BY <1>1, <1>2, <1>3, <1>4, <1>5, <1>6 DEF Next

(* The article service implements ArticleRecords, for any number of        *)
(* requests: their separate reads and writes behave as single steps.       *)
THEOREM ArticlesImplementRecords == Spec => Implements
<1>1. Init => Records!Init
  BY DEF Init
<1> QED BY <1>1, InvariantInit, InvariantStep, RefinementStep, PTL
        DEF Spec, Implements, Records!Spec

----------------------------------------------------------------------------
(* What ArticleRecords promises.                                           *)

Unborn == \A a \in Article : ~ Records!Exists(a) =>
            row[a].status = "draft" /\ row[a].address = NoAddress

AddressesDistinct ==
  \A a, b \in Article : row[a].address # NoAddress /\ row[a].address = row[b].address => a = b

RecordsIInv == Records!RowsOK /\ Unborn /\ AddressesDistinct /\ PublishedIsWhole

LEMMA RecordsInit == Records!Init => RecordsIInv
  BY DEF Records!Init, RecordsIInv, Records!RowsOK, Records!Row, Unborn, AddressesDistinct,
         PublishedIsWhole, Records!PublishedIsWhole

(* One article changes, to a row that is whole and keeps its address or    *)
(* gets one nobody has.                                                    *)
Changes(a, new) ==
  /\ new \in Records!Row /\ new.version > 0
  /\ row' = [row EXCEPT ![a] = new]
  /\ new.status = "published" => new.body # NoBody /\ new.address # NoAddress
  /\ \/ new.address = row[a].address
     \/ row[a].address = NoAddress /\ new.address \notin Records!Taken

LEMMA RecordsShape ==
  ASSUME RecordsIInv, Records!Next
  PROVE  \E a \in Article : \E new : Changes(a, new)
<1>0. Records!RowsOK /\ row \in [Article -> Records!Row]
  BY DEF RecordsIInv, Records!RowsOK
<1>1. ASSUME NEW a \in Article
      PROVE  /\ row[a] \in Records!Row /\ row[a].version \in Nat
             /\ Records!Changed(a) \in Records!Row
             /\ Records!Changed(a).version = row[a].version + 1
             /\ Records!Changed(a).status = row[a].status
             /\ Records!Changed(a).body = row[a].body
             /\ Records!Changed(a).address = row[a].address
  BY <1>0, ChangedShape DEF Records!Row
<1>2. PICK a \in Article :
        \/ Records!Withdraw(a)
        \/ \E body \in Body \cup {NoBody} :
             \/ Records!Create(a, body) \/ Records!Save(a, body)
             \/ \E address \in Address : Records!Publish(a, body, address)
  BY DEF Records!Next
<1>3. CASE Records!Withdraw(a)
  <2> DEFINE new == [Records!Changed(a) EXCEPT !.status = "draft"]
  <2>1. /\ new \in Records!Row /\ new.version = row[a].version + 1 /\ new.status = "draft"
        /\ new.address = row[a].address
    BY <1>1 DEF Records!Row
  <2>2. row' = [row EXCEPT ![a] = new]
    BY <1>3 DEF Records!Withdraw
  <2>3. new.version > 0
    BY <1>1, <2>1
  <2> HIDE DEF new
  <2>4. Changes(a, new)
    BY <2>1, <2>2, <2>3 DEF Changes
  <2> QED BY <2>4
<1>4. ASSUME NEW body \in Body \cup {NoBody}, Records!Create(a, body)
      PROVE  \E new : Changes(a, new)
  <2> DEFINE new == [row[a] EXCEPT !.version = 1, !.body = body]
  <2>1. /\ new \in Records!Row /\ new.version = 1 /\ new.status = row[a].status
        /\ new.address = row[a].address
    BY <1>1 DEF Records!Row
  <2>2. row' = [row EXCEPT ![a] = new] /\ row[a].status = "draft"
    BY <1>4 DEF Records!Create, RecordsIInv, Unborn
  <2>3. new.version > 0
    BY <1>1, <2>1
  <2> HIDE DEF new
  <2>4. Changes(a, new)
    BY <2>1, <2>2, <2>3 DEF Changes
  <2> QED BY <2>4
<1>5. ASSUME NEW body \in Body \cup {NoBody}, Records!Save(a, body)
      PROVE  \E new : Changes(a, new)
  <2> DEFINE new == [Records!Changed(a) EXCEPT !.body = body]
  <2>1. /\ new \in Records!Row /\ new.version = row[a].version + 1
        /\ new.status = row[a].status /\ new.address = row[a].address /\ new.body = body
    BY <1>1 DEF Records!Row
  <2>2. /\ row' = [row EXCEPT ![a] = new]
        /\ row[a].status = "published" => body # NoBody /\ row[a].address # NoAddress
    BY <1>5 DEF Records!Save, RecordsIInv, PublishedIsWhole, Records!PublishedIsWhole
  <2>3. new.version > 0
    BY <1>1, <2>1
  <2> HIDE DEF new
  <2>4. Changes(a, new)
    BY <2>1, <2>2, <2>3 DEF Changes
  <2> QED BY <2>4
<1>6. ASSUME NEW body \in Body \cup {NoBody}, NEW address \in Address,
             Records!Publish(a, body, address)
      PROVE  \E new : Changes(a, new)
  <2> DEFINE new == [Records!Changed(a) EXCEPT !.status = "published", !.body = body,
                                               !.address = address]
  <2>1. /\ new \in Records!Row /\ new.version = row[a].version + 1
        /\ new.address = address /\ new.body = body
    BY <1>1 DEF Records!Row
  <2>2. /\ row' = [row EXCEPT ![a] = new] /\ body # NoBody
        /\ IF row[a].address = NoAddress THEN address \in Address \ Records!Taken
                                         ELSE address = row[a].address
    BY <1>6 DEF Records!Publish
  <2>3. address # NoAddress
    BY ConstantsAssumption
  <2>4. new.version > 0
    BY <1>1, <2>1
  <2> HIDE DEF new
  <2>5. Changes(a, new)
    BY <2>1, <2>2, <2>3, <2>4 DEF Changes
  <2> QED BY <2>5
<1> QED BY <1>2, <1>3, <1>4, <1>5, <1>6

LEMMA ChangesKeep ==
  ASSUME RecordsIInv, NEW a \in Article, NEW new, Changes(a, new)
  PROVE  /\ RecordsIInv'
         /\ \A b \in Article : row[b].address # NoAddress => row'[b].address = row[b].address
<1>1. /\ row \in [Article -> Records!Row] /\ new \in Records!Row
      /\ row' = [row EXCEPT ![a] = new]
  BY DEF RecordsIInv, Records!RowsOK, Changes
<1>2. row'[a] = new /\ \A b \in Article \ {a} : row'[b] = row[b]
  BY <1>1
<1>3. Records!RowsOK'
  BY <1>1 DEF Records!RowsOK, Records!Row
<1>4. Unborn'
  BY <1>2 DEF Unborn, Records!Exists, RecordsIInv, Changes
<1>5. \A b \in Article \ {a} : new.address # NoAddress => new.address # row[b].address
  BY DEF Changes, Records!Taken, RecordsIInv, AddressesDistinct
<1>6. AddressesDistinct'
  BY <1>2, <1>5 DEF AddressesDistinct, RecordsIInv
<1>7. PublishedIsWhole'
  <2> SUFFICES ASSUME NEW b \in Article, row'[b].status = "published"
               PROVE  /\ row'[b].body # NoBody /\ row'[b].address # NoAddress
                      /\ \A d \in Article \ {b} : row'[d].address # row'[b].address
    BY DEF PublishedIsWhole, Records!PublishedIsWhole
  <2>1. row'[b].body # NoBody /\ row'[b].address # NoAddress
    BY <1>2 DEF Changes, RecordsIInv, PublishedIsWhole, Records!PublishedIsWhole
  <2> QED BY <1>6, <2>1 DEF AddressesDistinct
<1>8. \A b \in Article : row[b].address # NoAddress => row'[b].address = row[b].address
  BY <1>2 DEF Changes
<1> QED BY <1>3, <1>4, <1>6, <1>7, <1>8 DEF RecordsIInv

LEMMA RecordsStep ==
  RecordsIInv /\ [Records!Next]_row =>
    /\ RecordsIInv'
    /\ [\A a \in Article : row[a].address # NoAddress =>
          row'[a].address = row[a].address]_row
<1>1. ASSUME RecordsIInv, Records!Next
      PROVE  /\ RecordsIInv'
             /\ \A a \in Article : row[a].address # NoAddress =>
                  row'[a].address = row[a].address
  BY <1>1, RecordsShape, ChangesKeep
<1>2. ASSUME RecordsIInv, row' = row PROVE RecordsIInv'
  BY <1>2 DEF RecordsIInv, Records!RowsOK, Unborn, Records!Exists, AddressesDistinct,
              PublishedIsWhole, Records!PublishedIsWhole
<1> QED BY <1>1, <1>2

(* A published article has a body and an address no other article has,     *)
(* whatever requests race: neither the CHECK nor the UNIQUE KEY of the     *)
(* table is ever what saves it.                                            *)
THEOREM PublishedArticlesAreWhole == Spec => []PublishedIsWhole
<1>1. RecordsIInv => PublishedIsWhole
  BY DEF RecordsIInv
<1> QED BY <1>1, ArticlesImplementRecords, RecordsInit, RecordsStep, PTL
        DEF Implements, Records!Spec

(* An article keeps its address for ever once it has one.                  *)
THEOREM AddressesArePermanent == Spec => AddressIsPermanent
<1> QED BY ArticlesImplementRecords, RecordsInit, RecordsStep, PTL
        DEF Implements, Records!Spec, AddressIsPermanent, Records!AddressIsPermanent

----------------------------------------------------------------------------
(* The forms of any number of tabs.                                        *)

FormTypes ==
  /\ tab \in [Handler -> Form]
  /\ \A h \in Handler :
       /\ tab[h].mode \in {"loading", "open"} =>
            tab[h].version > 0 /\ Records!Exists(tab[h].article)
       /\ tab[h].waits = "create" => Records!Exists(tab[h].article)

EditorIInv == IInv /\ FormTypes

LEMMA EditorStart == EditorInit => EditorIInv
<1> SUFFICES ASSUME EditorInit PROVE FormTypes
  BY InvariantInit DEF EditorIInv, EditorInit
<1>1. PICK a \in Article : tab = [h \in Handler |-> Fresh("closed", a)]
  BY DEF EditorInit
<1>2. /\ Fresh("closed", a) \in Form
      /\ Fresh("closed", a).mode = "closed" /\ Fresh("closed", a).waits = "nothing"
  BY DEF Fresh, Form, Text
<1> QED BY <1>1, <1>2 DEF FormTypes

(* What a form does is always to some step of the service, or to none.     *)
LEMMA EditorStepServes == EditorIInv /\ [EditorNext]_editorVars => [Next]_vars
<1> SUFFICES ASSUME EditorIInv, [EditorNext]_editorVars PROVE [Next]_vars
  OBVIOUS
<1>0. \A h \in Handler : tab[h] \in Form /\ tab[h].article \in Article /\ tab[h].text \in Text
  BY DEF EditorIInv, FormTypes, Form
<1>1. CASE UNCHANGED editorVars
  BY <1>1 DEF editorVars, vars
<1>2. CASE EditorNext
  <2>1. PICK h \in Handler :
          \/ NewForm(h) \/ Load(h) \/ LoadFails(h)
          \/ \E a \in Article : OpenForm(h, a) \/ SaveNew(h, a)
          \/ \E text \in Text : Type(h, text)
          \/ Save(h) \/ PublishForm(h) \/ WithdrawForm(h)
          \/ (WriteUpdate(h) \/ WriteWithdraw(h) \/ Reject(h)) /\ UNCHANGED tab
          \/ AnswerCreate(h) \/ AnswerForm(h) \/ RereadWithdrawn(h) \/ AnswerLost(h)
    BY <1>2 DEF EditorNext
  <2>2. CASE \/ NewForm(h) \/ Load(h) \/ LoadFails(h) \/ AnswerCreate(h) \/ RereadWithdrawn(h)
             \/ \E a \in Article : OpenForm(h, a)
             \/ \E text \in Text : Type(h, text)
    BY <2>2 DEF NewForm, Load, LoadFails, AnswerCreate, RereadWithdrawn, OpenForm, Type
  <2>3. ASSUME NEW a \in Article, SaveNew(h, a) PROVE Next
    BY <1>0, <2>3 DEF SaveNew, Next
  <2>4. CASE Save(h) \/ PublishForm(h) \/ WithdrawForm(h)
    <3>1. Begin(h)
      BY <1>0, <2>4 DEF Save, PublishForm, WithdrawForm, Begin
    <3> QED BY <3>1 DEF Next
  <2>5. CASE WriteUpdate(h) \/ WriteWithdraw(h) \/ Reject(h) \/ AnswerForm(h)
    BY <2>5 DEF AnswerForm, Next
  <2>6. CASE AnswerLost(h)
    BY <2>6 DEF AnswerLost, Next
  <2> QED BY <2>1, <2>2, <2>3, <2>4, <2>5, <2>6
<1> QED BY <1>1, <1>2

(* An article that exists goes on existing.                                *)
LEMMA ArticlesStay ==
  ASSUME IInv, [Next]_vars, NEW a \in Article, Records!Exists(a)
  PROVE  Records!Exists(a)'
<1>1. row[a].version > 0 /\ row \in [Article -> Records!Row]
  BY DEF Records!Exists, IInv, TypeOK, Records!RowsOK
<1>2. ASSUME NEW h \in Handler, NEW new, Wrote(h, new) PROVE row'[a].version > 0
  <2>1. /\ row' = [row EXCEPT ![handler[h].article] = new]
        /\ new.version = handler[h].seen.version + 1
        /\ handler[h].seen.version \in Nat
    BY <1>2 DEF Wrote, IInv, TypeOK, Request, Records!Row
  <2> QED BY <1>1, <2>1
<1>3. ASSUME NEW b \in Article, NEW body \in Text, Create(b, body) PROVE row'[a].version > 0
  <2>1. row' = [row EXCEPT ![b] = [row[b] EXCEPT !.version = 1, !.body = body]]
    BY <1>3 DEF Create
  <2>2. row[b].version = 0
    BY <1>3 DEF Create
  <2>3. a # b
    BY <1>1, <2>2
  <2> QED BY <1>1, <2>1, <2>3
<1>4. TypeOK
  BY DEF IInv
<1>5. ASSUME row' = row PROVE row'[a].version > 0
  BY <1>1, <1>5
<1>6. row'[a].version > 0
  <2>1. ASSUME NEW h \in Handler, Begin(h) PROVE row' = row
    BY <1>4, <2>1, BeginShape DEF Began
  <2>2. ASSUME NEW h \in Handler, WriteUpdate(h) PROVE row'[a].version > 0
    BY <1>2, <1>4, <2>2, WriteUpdateShape
  <2>3. ASSUME NEW h \in Handler, WriteWithdraw(h) PROVE row'[a].version > 0
    BY <1>2, <1>4, <2>3, WriteWithdrawShape
  <2>4. ASSUME NEW h \in Handler, Reject(h) \/ Answer(h) PROVE row' = row
    BY <2>4 DEF Reject, Answer
  <2>5. ASSUME UNCHANGED vars PROVE row' = row
    BY <2>5 DEF vars
  <2> QED BY <1>3, <1>5, <2>1, <2>2, <2>3, <2>4, <2>5 DEF Next
<1> QED BY <1>6 DEF Records!Exists

(* One form changes, to one that is as it should be.                       *)
LEMMA FormChanges ==
  ASSUME EditorIInv, [Next]_vars, NEW h \in Handler, NEW f \in Form,
         tab' = [tab EXCEPT ![h] = f],
         f.mode \in {"loading", "open"} => f.version > 0 /\ row'[f.article].version > 0,
         f.waits = "create" => row'[f.article].version > 0
  PROVE  FormTypes'
<1>1. tab \in [Handler -> Form]
  BY DEF EditorIInv, FormTypes
<1>2. tab' \in [Handler -> Form] /\ tab'[h] = f /\ \A g \in Handler \ {h} : tab'[g] = tab[g]
  BY <1>1
<1>3. ASSUME NEW g \in Handler \ {h}
      PROVE  /\ tab'[g].mode \in {"loading", "open"} =>
                  tab'[g].version > 0 /\ row'[tab'[g].article].version > 0
             /\ tab'[g].waits = "create" => row'[tab'[g].article].version > 0
  <2>1. tab[g].article \in Article /\ tab'[g] = tab[g]
    BY <1>1, <1>2 DEF Form
  <2>2. row[tab[g].article].version > 0 => row'[tab[g].article].version > 0
    BY <2>1, ArticlesStay DEF EditorIInv, Records!Exists
  <2>3. /\ tab[g].mode \in {"loading", "open"} =>
             tab[g].version > 0 /\ row[tab[g].article].version > 0
        /\ tab[g].waits = "create" => row[tab[g].article].version > 0
    BY DEF EditorIInv, FormTypes, Records!Exists
  <2> QED BY <2>1, <2>2, <2>3
<1>4. \A g \in Handler :
        /\ tab'[g].mode \in {"loading", "open"} =>
             tab'[g].version > 0 /\ row'[tab'[g].article].version > 0
        /\ tab'[g].waits = "create" => row'[tab'[g].article].version > 0
  BY <1>2, <1>3
<1> QED BY <1>2, <1>4 DEF FormTypes, Records!Exists

(* The form h has, and the row it is about.                                *)
LEMMA FormShape ==
  ASSUME EditorIInv, NEW h \in Handler
  PROVE  /\ tab \in [Handler -> Form] /\ tab[h] \in Form
         /\ tab[h].article \in Article /\ tab[h].text \in Text /\ tab[h].sent \in Text
         /\ tab[h].version \in Nat
         /\ Row(h) \in Records!Row /\ Row(h).version \in Nat /\ Row(h).body \in Text
         /\ Row(h).status \in {"draft", "published"}
         /\ tab[h].mode \in {"loading", "open"} => tab[h].version > 0 /\ Row(h).version > 0
         /\ tab[h].waits = "create" => Row(h).version > 0
<1>1. tab[h] \in Form /\ tab \in [Handler -> Form]
  BY DEF EditorIInv, FormTypes
<1>2. tab[h].article \in Article
  BY <1>1 DEF Form
<1>3. Row(h) \in Records!Row
  BY <1>2 DEF Row, EditorIInv, IInv, TypeOK, Records!RowsOK
<1>4. /\ tab[h].mode \in {"loading", "open"} => tab[h].version > 0 /\ Row(h).version > 0
      /\ tab[h].waits = "create" => Row(h).version > 0
  BY DEF EditorIInv, FormTypes, Row, Records!Exists
<1>5. /\ Row(h).version \in Nat /\ Row(h).body \in Text
      /\ Row(h).status \in {"draft", "published"}
  BY <1>3 DEF Records!Row, Text
<1>6. tab[h].text \in Text /\ tab[h].sent \in Text /\ tab[h].version \in Nat
  BY <1>1 DEF Form
<1> QED BY <1>1, <1>2, <1>3, <1>4, <1>5, <1>6

LEMMA FreshShape ==
  ASSUME NEW mode \in {"closed", "new", "loading", "open"}, NEW a \in Article
  PROVE  /\ Fresh(mode, a) \in Form
         /\ Fresh(mode, a).mode = mode /\ Fresh(mode, a).article = a
         /\ Fresh(mode, a).waits = "nothing" /\ Fresh(mode, a).version = 1
         /\ Fresh(mode, a).status = "draft" /\ Fresh(mode, a).known = FALSE
  BY DEF Fresh, Form, Text

LEMMA AdoptedShape ==
  ASSUME EditorIInv, NEW h \in Handler, NEW status \in {"draft", "published"}
  PROVE  /\ Adopted(h, status) \in Form
         /\ Adopted(h, status).mode = tab[h].mode
         /\ Adopted(h, status).article = tab[h].article
         /\ Adopted(h, status).waits = "nothing"
         /\ Adopted(h, status).version = Row(h).version
         /\ Adopted(h, status).status = status
         /\ Adopted(h, status).base = tab[h].base
         /\ Adopted(h, status).known = tab[h].known
  BY FormShape DEF Adopted, Form

LEMMA ConfirmedAsIs ==
  ASSUME EditorIInv, NEW h \in Handler
  PROVE  /\ Confirmed(h) \in Form
         /\ Confirmed(h).mode = tab[h].mode
         /\ Confirmed(h).article = tab[h].article /\ Confirmed(h).waits = "nothing"
         /\ Confirmed(h).version = Row(h).version /\ Confirmed(h).status = Row(h).status
         /\ Confirmed(h).base = tab[h].sent /\ Confirmed(h).known = TRUE
<1> DEFINE g == Adopted(h, Row(h).status)
<1>0. Row(h).status \in {"draft", "published"}
  BY FormShape
<1>1. /\ g \in Form /\ g.mode = tab[h].mode
      /\ g.article = tab[h].article /\ g.waits = "nothing"
      /\ g.version = Row(h).version /\ g.status = Row(h).status
  BY <1>0, AdoptedShape
<1>2. tab[h].sent \in Text
  BY FormShape
<1>3. Confirmed(h) = [g EXCEPT !.base = tab[h].sent, !.known = TRUE]
  BY DEF Confirmed
<1> HIDE DEF g
<1> QED BY <1>1, <1>2, <1>3 DEF Form

LEMMA ConfirmedShape ==
  ASSUME EditorIInv, NEW h \in Handler, NEW mode \in {"closed", "new", "loading", "open"}
  PROVE  LET f == [Confirmed(h) EXCEPT !.mode = mode] IN
         /\ f \in Form /\ f.mode = mode
         /\ f.article = tab[h].article /\ f.waits = "nothing"
         /\ f.version = Row(h).version /\ f.status = Row(h).status
         /\ f.base = tab[h].sent /\ f.known = TRUE
  BY ConfirmedAsIs DEF Form

----------------------------------------------------------------------------
(* Every step keeps the forms' types.                                      *)

LEMMA TypingKeepsForms ==
  ASSUME EditorIInv, [Next]_vars, NEW h \in Handler,
         \/ NewForm(h) \/ Load(h) \/ LoadFails(h)
         \/ \E a \in Article : OpenForm(h, a)
         \/ \E text \in Text : Type(h, text)
  PROVE  FormTypes'
<1>0. row' = row
  BY DEF NewForm, Load, LoadFails, OpenForm, Type, vars
<1>1. CASE NewForm(h)
  <2>0. PICK a \in Article : a = tab[h].article
    BY FormShape
  <2> DEFINE f == Fresh("new", a)
  <2>1. f \in Form /\ f.mode = "new" /\ f.waits = "nothing"
    BY DEF Fresh, Form, Text
  <2>2. tab' = [tab EXCEPT ![h] = f]
    BY <1>1, <2>0 DEF NewForm
  <2> HIDE DEF f
  <2> QED BY <2>1, <2>2, FormChanges
<1>2. ASSUME NEW a \in Article, OpenForm(h, a) PROVE FormTypes'
  <2> DEFINE f == Fresh("loading", a)
  <2>1. /\ f \in Form /\ f.article = a /\ f.version = 1 /\ f.waits = "nothing"
    BY FreshShape
  <2>2. tab' = [tab EXCEPT ![h] = f] /\ row'[a].version > 0
    BY <1>0, <1>2 DEF OpenForm, Records!Exists
  <2> HIDE DEF f
  <2>3. f.version > 0 /\ row'[f.article].version > 0
    BY <2>1, <2>2
  <2> QED BY <2>1, <2>2, <2>3, FormChanges
<1>3. CASE Load(h)
  <2> DEFINE f == [tab[h] EXCEPT
       !.mode = "open", !.version = Row(h).version, !.status = Row(h).status,
       !.text = Row(h).body, !.saved = Row(h).body, !.base = Row(h).body,
       !.known = TRUE]
  <2>1. tab' = [tab EXCEPT ![h] = f] /\ tab[h].mode = "loading"
    BY <1>3 DEF Load
  <2>2. f \in Form /\ f.version > 0 /\ f.article = tab[h].article /\ f.waits = tab[h].waits
    BY <2>1, FormShape DEF Form
  <2>3. row'[tab[h].article].version > 0
    BY <1>0, <2>1, FormShape DEF Row
  <2> HIDE DEF f
  <2> QED BY <2>1, <2>2, <2>3, FormChanges
<1>4. CASE LoadFails(h)
  <2> DEFINE f == [tab[h] EXCEPT !.mode = "open"]
  <2>1. tab' = [tab EXCEPT ![h] = f] /\ tab[h].mode = "loading"
    BY <1>4 DEF LoadFails
  <2>2. f \in Form /\ f.version > 0 /\ f.article = tab[h].article /\ f.waits = tab[h].waits
    BY <2>1, FormShape DEF Form
  <2>3. row'[tab[h].article].version > 0
    BY <1>0, <2>1, FormShape DEF Row
  <2> HIDE DEF f
  <2> QED BY <2>1, <2>2, <2>3, FormChanges
<1>5. ASSUME NEW text \in Text, Type(h, text) PROVE FormTypes'
  <2> DEFINE f == [tab[h] EXCEPT !.text = text]
  <2>1. tab' = [tab EXCEPT ![h] = f]
    BY <1>5 DEF Type
  <2>2. /\ f \in Form /\ f.version = tab[h].version /\ f.article = tab[h].article
        /\ f.waits = tab[h].waits /\ f.mode = tab[h].mode
    BY FormShape DEF Form
  <2>3. /\ tab[h].mode \in {"loading", "open"} =>
             tab[h].version > 0 /\ row'[tab[h].article].version > 0
        /\ tab[h].waits = "create" => row'[tab[h].article].version > 0
    BY <1>0, FormShape DEF Row
  <2> HIDE DEF f
  <2> QED BY <2>1, <2>2, <2>3, FormChanges
<1> QED BY <1>1, <1>2, <1>3, <1>4, <1>5

(* A form that goes on about the same article as before.                   *)
LEMMA FormGoesOn ==
  ASSUME EditorIInv, [Next]_vars, NEW h \in Handler, NEW f \in Form,
         tab' = [tab EXCEPT ![h] = f],
         f.article = tab[h].article, f.mode = tab[h].mode,
         f.version = tab[h].version \/ f.version = Row(h).version,
         f.waits \in {tab[h].waits, "nothing", "withdraw"}
  PROVE  FormTypes'
<1>1. tab[h].article \in Article
  BY FormShape
<1>2. Row(h).version > 0 => row'[tab[h].article].version > 0
  BY <1>1, ArticlesStay DEF EditorIInv, Row, Records!Exists
<1>3. /\ tab[h].mode \in {"loading", "open"} =>
           tab[h].version > 0 /\ Row(h).version > 0
      /\ tab[h].waits = "create" => Row(h).version > 0
  BY FormShape
<1>4. f.mode \in {"loading", "open"} => f.version > 0 /\ row'[f.article].version > 0
  BY <1>2, <1>3
<1>5. f.waits = "create" => row'[f.article].version > 0
  BY <1>2, <1>3
<1> QED BY <1>4, <1>5, FormChanges

LEMMA SendingKeepsForms ==
  ASSUME EditorIInv, [Next]_vars, NEW h \in Handler,
         \/ \E a \in Article : SaveNew(h, a)
         \/ Save(h) \/ PublishForm(h) \/ WithdrawForm(h)
  PROVE  FormTypes'
<1>1. ASSUME NEW a \in Article, SaveNew(h, a) PROVE FormTypes'
  <2> DEFINE f == [tab[h] EXCEPT !.waits = "create", !.article = a, !.sent = tab[h].text]
  <2>1. tab' = [tab EXCEPT ![h] = f] /\ tab[h].mode = "new"
    BY <1>1, FormShape DEF SaveNew
  <2>2. f \in Form /\ f.article = a /\ f.mode = "new"
    BY <2>1, FormShape DEF Form
  <2>3. row'[a].version = 1
    <3>1. row \in [Article -> Records!Row]
      BY DEF EditorIInv, IInv, TypeOK, Records!RowsOK
    <3> QED BY <1>1, <3>1 DEF SaveNew, Create, Records!Row
  <2> HIDE DEF f
  <2>4. row'[f.article].version > 0
    BY <2>2, <2>3
  <2> QED BY <2>1, <2>2, <2>4, FormChanges
<1>2. CASE Save(h) \/ PublishForm(h) \/ WithdrawForm(h)
  <2> DEFINE f == [tab[h] EXCEPT !.sent = tab[h].text]
  <2>1. tab' = [tab EXCEPT ![h] = f]
    BY <1>2, FormShape DEF Save, PublishForm, WithdrawForm, SendsCurrentVersion
  <2>2. /\ f \in Form /\ f.article = tab[h].article /\ f.mode = tab[h].mode
        /\ f.version = tab[h].version /\ f.waits = tab[h].waits
    BY FormShape DEF Form
  <2> HIDE DEF f
  <2> QED BY <2>1, <2>2, FormGoesOn
<1> QED BY <1>1, <1>2

LEMMA AnswersKeepForms ==
  ASSUME EditorIInv, [Next]_vars, NEW h \in Handler,
         AnswerCreate(h) \/ AnswerForm(h) \/ RereadWithdrawn(h) \/ AnswerLost(h)
  PROVE  FormTypes'
<1> DEFINE Waits(w) == [tab[h] EXCEPT !.waits = w]
<1>1. ASSUME NEW w \in {"nothing", "withdraw"}, tab' = [tab EXCEPT ![h] = Waits(w)]
      PROVE  FormTypes'
  <2>1. /\ Waits(w) \in Form /\ Waits(w).article = tab[h].article
        /\ Waits(w).mode = tab[h].mode /\ Waits(w).version = tab[h].version
        /\ Waits(w).waits = w
    BY FormShape DEF Form
  <2> HIDE DEF Waits
  <2> QED BY <1>1, <2>1, FormGoesOn
<1>2. CASE AnswerCreate(h)
  <2>1. PICK mode \in {"open", "new"} :
          tab' = [tab EXCEPT ![h] = [Confirmed(h) EXCEPT !.mode = mode]]
    BY <1>2 DEF AnswerCreate
  <2> DEFINE f == [Confirmed(h) EXCEPT !.mode = mode]
  <2>2. /\ f \in Form /\ f.article = tab[h].article /\ f.version = Row(h).version
        /\ f.waits = "nothing"
    BY ConfirmedShape
  <2>3. Row(h).version > 0 /\ row'[tab[h].article].version > 0
    BY <1>2, FormShape DEF AnswerCreate, vars, Row
  <2> HIDE DEF f
  <2> QED BY <2>1, <2>2, <2>3, FormChanges DEF f
<1>3. CASE AnswerForm(h)
  <2>1. CASE handler[h].op = "withdraw"
    BY <1>1, <1>3, <2>1 DEF AnswerForm
  <2>2. CASE handler[h].op # "withdraw"
    <3> DEFINE f == Confirmed(h)
    <3>1. tab' = [tab EXCEPT ![h] = f]
      BY <1>3, <2>2 DEF AnswerForm
    <3>2. /\ f \in Form /\ f.article = tab[h].article /\ f.version = Row(h).version
          /\ f.waits = "nothing" /\ f.mode = tab[h].mode
      BY ConfirmedAsIs
    <3> HIDE DEF f
    <3> QED BY <3>1, <3>2, FormGoesOn
  <2> QED BY <2>1, <2>2
<1>4. CASE RereadWithdrawn(h)
  <2> DEFINE f == Adopted(h, "draft")
  <2>1. tab' = [tab EXCEPT ![h] = f]
    BY <1>4 DEF RereadWithdrawn
  <2>2. /\ f \in Form /\ f.article = tab[h].article /\ f.version = Row(h).version
        /\ f.waits = "nothing" /\ f.mode = tab[h].mode
    BY AdoptedShape
  <2> HIDE DEF f
  <2> QED BY <2>1, <2>2, FormGoesOn
<1>5. CASE AnswerLost(h)
  <2>1. CASE UNCHANGED tab
    <3>1. tab' = [tab EXCEPT ![h] = tab[h]]
      BY <2>1, FormShape
    <3> QED BY <3>1, FormShape, FormGoesOn
  <2>2. CASE tab' = [tab EXCEPT ![h].waits = "nothing"]
    BY <1>1, <2>2
  <2> QED BY <1>5, <2>1, <2>2 DEF AnswerLost
<1> QED BY <1>2, <1>3, <1>4, <1>5

LEMMA EditorKeeps == EditorIInv /\ [EditorNext]_editorVars => EditorIInv'
<1> SUFFICES ASSUME EditorIInv, [EditorNext]_editorVars PROVE EditorIInv'
  OBVIOUS
<1>1. [Next]_vars
  BY EditorStepServes
<1>2. IInv'
  BY <1>1, InvariantStep DEF EditorIInv
<1>3. ASSUME UNCHANGED tab PROVE FormTypes'
  <2>1. \A h \in Handler : tab[h].article \in Article
    BY FormShape
  <2>2. \A h \in Handler :
          row[tab[h].article].version > 0 => row'[tab[h].article].version > 0
    BY <1>1, <2>1, ArticlesStay DEF EditorIInv, Records!Exists
  <2> QED BY <1>3, <2>2 DEF EditorIInv, FormTypes, Records!Exists
<1>4. FormTypes'
  <2>1. CASE UNCHANGED editorVars
    BY <1>3, <2>1 DEF editorVars
  <2>2. CASE EditorNext
    <3>1. PICK h \in Handler :
            \/ NewForm(h) \/ Load(h) \/ LoadFails(h)
            \/ \E a \in Article : OpenForm(h, a) \/ SaveNew(h, a)
            \/ \E text \in Text : Type(h, text)
            \/ Save(h) \/ PublishForm(h) \/ WithdrawForm(h)
            \/ (WriteUpdate(h) \/ WriteWithdraw(h) \/ Reject(h)) /\ UNCHANGED tab
            \/ AnswerCreate(h) \/ AnswerForm(h) \/ RereadWithdrawn(h) \/ AnswerLost(h)
      BY <2>2 DEF EditorNext
    <3> QED BY <1>1, <1>3, <3>1, TypingKeepsForms, SendingKeepsForms, AnswersKeepForms
  <2> QED BY <2>1, <2>2
<1> QED BY <1>2, <1>4 DEF EditorIInv

(* For any number of tabs, whatever is typed, sent, answered or lost in    *)
(* them: the forms keep their types, and an open form is about an article  *)
(* that exists, at a version it may be saved with.                         *)
THEOREM EditorTypes == EditorSpec => []EditorTypeOK
<1>1. EditorIInv => EditorTypeOK
  BY DEF EditorIInv, IInv, FormTypes, EditorTypeOK
<1> QED BY <1>1, EditorStart, EditorKeeps, PTL DEF EditorSpec

(* The forms use the article service as it may be used: whatever the tabs  *)
(* do is a behaviour of the service.                                       *)
THEOREM EditorUsesService == EditorSpec => Spec
<1>1. EditorInit => Init
  BY DEF EditorInit
<1> QED BY <1>1, EditorStart, EditorKeeps, EditorStepServes, PTL DEF EditorSpec, Spec

(* So what is proved of the service holds under the forms: the rows are    *)
(* those of ArticleRecords, and a published article is whole.              *)
COROLLARY EditorKeepsRecords == EditorSpec => Implements /\ []PublishedIsWhole
<1> QED BY EditorUsesService, ArticlesImplementRecords, PublishedArticlesAreWhole, PTL

----------------------------------------------------------------------------
(* The form of a single tab.                                               *)

OneTab == \A g, h \in Handler : g = h

(* A form, the request of its tab and the row it is about: the request     *)
(* writes the text that was sent over the text the form was given; until   *)
(* the answer is there, the form's version is behind the row's; and when   *)
(* it is not, the form has the row's status and was given the row's text.  *)
Fits(f, q, r) ==
  /\ f.waits # "nothing" => q.step = "idle"
  /\ f.waits = "create" => f.mode = "new" /\ r.body = f.sent
  /\ f.waits = "withdraw" =>
       /\ f.mode = "open" /\ r.status = "draft" /\ f.version < r.version
       /\ f.known => r.body = f.base
  /\ q.step # "idle" => f.mode = "open" /\ q.article = f.article
  /\ q.step = "checked" =>
       /\ q.seen.version = f.version
       /\ f.known => q.seen.body = f.base
       /\ q.op # "withdraw" => q.body = f.sent
  /\ q.step = "written" =>
       /\ f.version < r.version
       /\ q.op # "withdraw" => r.body = f.sent
       /\ q.op = "withdraw" => r.status = "draft" /\ (f.known => r.body = f.base)
  /\ f.mode = "loading" => f.version = 1 /\ f.status = "draft" /\ f.known = FALSE
  /\ f.mode = "open" =>
       /\ f.version <= r.version
       /\ f.version = r.version =>
            f.status = r.status /\ (f.known => r.body = f.base)

(* An article is created as a draft.                                       *)
BornDraft == \A a \in Article : row[a].version <= 1 => row[a].status = "draft"

FormFits == BornDraft /\ \A h \in Handler : Fits(tab[h], handler[h], Row(h))

TabIInv == EditorIInv /\ FormFits

LEMMA FormFitsInit == EditorInit => FormFits
<1> SUFFICES ASSUME EditorInit PROVE FormFits
  OBVIOUS
<1>1. BornDraft
  BY DEF EditorInit, Init, Records!Init, BornDraft
<1>2. ASSUME NEW h \in Handler PROVE Fits(tab[h], handler[h], Row(h))
  <2>1. tab[h].mode = "closed" /\ tab[h].waits = "nothing"
    BY DEF EditorInit, Fresh
  <2>2. handler[h].step = "idle"
    BY DEF EditorInit, Init
  <2> QED BY <2>1, <2>2 DEF Fits
<1> QED BY <1>1, <1>2 DEF FormFits

(* With one tab it is enough that its form fits.                           *)
LEMMA OneFormFits ==
  ASSUME OneTab, NEW h \in Handler, NEW f, NEW q, NEW r,
         tab' = [tab EXCEPT ![h] = f], tab \in [Handler -> Form],
         handler'[h] = q, row'[f.article] = r, Fits(f, q, r), BornDraft'
  PROVE  FormFits'
<1>1. tab'[h] = f /\ row'[tab'[h].article] = r
  OBVIOUS
<1>2. Fits(tab'[h], handler'[h], row'[tab'[h].article])
  BY <1>1
<1>3. \A g \in Handler : Fits(tab'[g], handler'[g], row'[tab'[g].article])
  BY <1>2 DEF OneTab
<1> QED BY <1>3 DEF FormFits, Row

(* What is done in the form alone.                                         *)
LEMMA TypingFits ==
  ASSUME OneTab, TabIInv, NEW h \in Handler,
         \/ NewForm(h) \/ Load(h) \/ LoadFails(h)
         \/ \E a \in Article : OpenForm(h, a)
         \/ \E text \in Text : Type(h, text)
  PROVE  FormFits'
<1> DEFINE q == handler[h]
           r == Row(h)
<1>0. /\ row' = row /\ handler' = handler /\ BornDraft'
      /\ Fits(tab[h], q, r) /\ r = row[tab[h].article]
  BY DEF NewForm, Load, LoadFails, OpenForm, Type, vars, TabIInv, FormFits, BornDraft, Row
<1>1. /\ tab \in [Handler -> Form] /\ tab[h] \in Form /\ tab[h].article \in Article
      /\ tab[h].version \in Nat /\ r.version \in Nat
  BY FormShape DEF TabIInv
<1>2. CASE NewForm(h)
  <2>0. PICK a \in Article : a = tab[h].article
    BY <1>1
  <2> DEFINE f == Fresh("new", a)
  <2>1. f.mode = "new" /\ f.waits = "nothing" /\ f.article = a
    BY DEF Fresh
  <2>2. tab' = [tab EXCEPT ![h] = f] /\ q.step = "idle"
    BY <1>2, <2>0 DEF NewForm, Quiet, Idle
  <2> HIDE DEF f, q, r
  <2>3. Fits(f, q, r)
    BY <2>1, <2>2 DEF Fits
  <2>4. handler'[h] = q /\ row'[f.article] = r
    BY <1>0, <2>0, <2>1 DEF q
  <2> QED BY <1>0, <1>1, <2>2, <2>3, <2>4, OneFormFits
<1>3. ASSUME NEW a \in Article, OpenForm(h, a) PROVE FormFits'
  <2> DEFINE f == Fresh("loading", a)
  <2>1. /\ f.mode = "loading" /\ f.waits = "nothing" /\ f.article = a /\ f.version = 1
        /\ f.status = "draft" /\ f.known = FALSE
    BY DEF Fresh
  <2>2. tab' = [tab EXCEPT ![h] = f] /\ q.step = "idle"
    BY <1>3 DEF OpenForm, Quiet, Idle
  <2> HIDE DEF f, q, r
  <2>3. Fits(f, q, row[a])
    BY <2>1, <2>2 DEF Fits
  <2>4. handler'[h] = q /\ row'[f.article] = row[a]
    BY <1>0, <2>1 DEF q
  <2> QED BY <1>0, <1>1, <2>2, <2>3, <2>4, OneFormFits
<1>4. CASE Load(h)
  <2> DEFINE f == [tab[h] EXCEPT
       !.mode = "open", !.version = r.version, !.status = r.status,
       !.text = r.body, !.saved = r.body, !.base = r.body, !.known = TRUE]
  <2>1. /\ f.mode = "open" /\ f.waits = tab[h].waits /\ f.article = tab[h].article
        /\ f.version = r.version /\ f.status = r.status /\ f.base = r.body
    BY <1>1 DEF Form
  <2>2. tab' = [tab EXCEPT ![h] = f] /\ tab[h].mode = "loading"
    BY <1>4 DEF Load
  <2> HIDE DEF f, q, r
  <2>3. q.step = "idle" /\ tab[h].waits = "nothing"
    <3>1. q.step = "idle" /\ tab[h].waits # "create" /\ tab[h].waits # "withdraw"
      BY <1>0, <2>2 DEF Fits
    <3> QED BY <1>1, <3>1 DEF Form
  <2>4. Fits(f, q, r)
    BY <1>1, <2>1, <2>3 DEF Fits
  <2>5. handler'[h] = q /\ row'[f.article] = r
    BY <1>0, <2>1 DEF q
  <2> QED BY <1>0, <1>1, <2>2, <2>4, <2>5, OneFormFits
<1>5. CASE LoadFails(h)
  <2> DEFINE f == [tab[h] EXCEPT !.mode = "open"]
  <2>1. /\ f.mode = "open" /\ f.waits = tab[h].waits /\ f.article = tab[h].article
        /\ f.version = tab[h].version /\ f.status = tab[h].status /\ f.known = tab[h].known
    BY <1>1 DEF Form
  <2>2. tab' = [tab EXCEPT ![h] = f] /\ tab[h].mode = "loading"
    BY <1>5 DEF LoadFails
  <2>3. r.version > 0 /\ (r.version <= 1 => r.status = "draft")
    BY <1>1, <2>2, FormShape DEF TabIInv, FormFits, BornDraft, Row
  <2> HIDE DEF f, q, r
  <2>4. q.step = "idle" /\ tab[h].waits = "nothing"
    <3>1. q.step = "idle" /\ tab[h].waits # "create" /\ tab[h].waits # "withdraw"
      BY <1>0, <2>2 DEF Fits
    <3> QED BY <1>1, <3>1 DEF Form
  <2>5. f.version = 1 /\ f.status = "draft" /\ f.known = FALSE
    BY <1>0, <2>1, <2>2 DEF Fits
  <2>6. f.version <= r.version /\ (f.version = r.version => f.status = r.status)
    BY <1>1, <2>3, <2>5
  <2>7. Fits(f, q, r)
    BY <2>1, <2>4, <2>5, <2>6 DEF Fits
  <2>8. handler'[h] = q /\ row'[f.article] = r
    BY <1>0, <2>1 DEF q
  <2> QED BY <1>0, <1>1, <2>2, <2>7, <2>8, OneFormFits
<1>6. ASSUME NEW text \in Text, Type(h, text) PROVE FormFits'
  <2> DEFINE f == [tab[h] EXCEPT !.text = text]
  <2>1. /\ f.mode = tab[h].mode /\ f.waits = tab[h].waits /\ f.article = tab[h].article
        /\ f.version = tab[h].version /\ f.status = tab[h].status
        /\ f.sent = tab[h].sent /\ f.base = tab[h].base /\ f.known = tab[h].known
    BY <1>1 DEF Form
  <2>2. tab' = [tab EXCEPT ![h] = f]
    BY <1>6 DEF Type
  <2> HIDE DEF f, q, r
  <2>3. Fits(f, q, r)
    BY <1>0, <2>1 DEF Fits
  <2>4. handler'[h] = q /\ row'[f.article] = r
    BY <1>0, <2>1 DEF q
  <2> QED BY <1>0, <1>1, <2>2, <2>3, <2>4, OneFormFits
<1> QED BY <1>2, <1>3, <1>4, <1>5, <1>6

(* What is sent.                                                           *)
LEMMA SavingNewFits ==
  ASSUME OneTab, TabIInv, NEW h \in Handler, NEW a \in Article, SaveNew(h, a)
  PROVE  FormFits'
<1> DEFINE f == [tab[h] EXCEPT !.waits = "create", !.article = a, !.sent = tab[h].text]
           r == [row[a] EXCEPT !.version = 1, !.body = tab[h].text]
<1>1. /\ tab \in [Handler -> Form] /\ tab[h] \in Form
      /\ row \in [Article -> Records!Row] /\ row[a] \in Records!Row
  BY FormShape DEF TabIInv, EditorIInv, IInv, TypeOK, Records!RowsOK
<1>2. /\ tab' = [tab EXCEPT ![h] = f] /\ row' = [row EXCEPT ![a] = r]
      /\ tab[h].mode = "new" /\ handler' = handler /\ handler[h].step = "idle"
      /\ row[a].version = 0
  BY <1>1 DEF SaveNew, Create, Quiet, Idle
<1>3. /\ f.mode = "new" /\ f.waits = "create" /\ f.article = a /\ f.sent = tab[h].text
      /\ r.body = tab[h].text /\ r.status = row[a].status
  BY <1>1, <1>2 DEF Form, Records!Row
<1> HIDE DEF f, r
<1>4. Fits(f, handler[h], r)
  BY <1>2, <1>3 DEF Fits
<1>5. row'[a] = r /\ \A b \in Article \ {a} : row'[b] = row[b]
  BY <1>1, <1>2
<1>6. row[a].status = "draft"
  BY <1>2 DEF TabIInv, FormFits, BornDraft
<1>7. BornDraft'
  BY <1>3, <1>5, <1>6 DEF TabIInv, FormFits, BornDraft
<1> QED BY <1>1, <1>2, <1>3, <1>4, <1>5, <1>7, OneFormFits

LEMMA SendingFits ==
  ASSUME OneTab, TabIInv, NEW h \in Handler, Save(h) \/ PublishForm(h) \/ WithdrawForm(h)
  PROVE  FormFits'
<1> DEFINE f == [tab[h] EXCEPT !.sent = tab[h].text]
           r == Row(h)
           q == handler'[h]
<1>1. /\ tab \in [Handler -> Form] /\ tab[h] \in Form /\ tab[h].article \in Article
      /\ handler \in [Handler -> Request]
  BY FormShape DEF TabIInv, EditorIInv, IInv, TypeOK
<1>2. /\ f.mode = tab[h].mode /\ f.waits = tab[h].waits /\ f.article = tab[h].article
      /\ f.version = tab[h].version /\ f.status = tab[h].status
      /\ f.sent = tab[h].text /\ f.base = tab[h].base /\ f.known = tab[h].known
  BY <1>1 DEF Form
<1>3. /\ tab' = [tab EXCEPT ![h] = f]
      /\ tab[h].mode = "open" /\ tab[h].waits = "nothing" /\ tab[h].version = r.version
  BY <1>1 DEF Save, PublishForm, WithdrawForm, SendsCurrentVersion, Quiet
<1>4. /\ q.step = "checked" /\ q.article = tab[h].article /\ q.seen = r
      /\ q.op # "withdraw" => q.body = tab[h].text
      /\ row' = row
  <2>1. ASSUME NEW op, NEW body, NEW address, Checked(h, op, tab[h].article, body, address)
        PROVE  /\ q.step = "checked" /\ q.article = tab[h].article /\ q.seen = r
               /\ q.op = op /\ q.body = body /\ row' = row
    BY <1>1, <2>1 DEF Checked, Row
  <2> HIDE DEF q, r
  <2>2. CASE Save(h)
    BY <2>1, <2>2 DEF Save, BeginSave
  <2>3. CASE PublishForm(h)
    BY <2>1, <2>3 DEF PublishForm, BeginPublish
  <2>4. CASE WithdrawForm(h)
    BY <2>1, <2>4 DEF WithdrawForm, BeginWithdraw
  <2> QED BY <2>2, <2>3, <2>4
<1>5. Fits(tab[h], handler[h], r) /\ r = row[tab[h].article]
  BY DEF TabIInv, FormFits, Row
<1>6. BornDraft'
  BY <1>4 DEF TabIInv, FormFits, BornDraft
<1> HIDE DEF f, r, q
<1>7. Fits(f, q, r)
  BY <1>2, <1>3, <1>4, <1>5 DEF Fits
<1>8. handler'[h] = q /\ row'[f.article] = r
  BY <1>2, <1>4, <1>5 DEF q
<1> QED BY <1>1, <1>3, <1>6, <1>7, <1>8, OneFormFits

(* What the request writes.                                                *)
LEMMA WritingFits ==
  ASSUME OneTab, TabIInv, NEW h \in Handler, WriteUpdate(h) \/ WriteWithdraw(h),
         UNCHANGED tab
  PROVE  FormFits'
<1> DEFINE f == tab[h]
           q == handler[h]
           p == [q EXCEPT !.step = "written"]
<1>0. TypeOK
  BY DEF TabIInv, EditorIInv, IInv
<1>1. /\ tab \in [Handler -> Form] /\ f \in Form /\ f.article \in Article
      /\ handler \in [Handler -> Request] /\ q \in Request
      /\ row \in [Article -> Records!Row]
  BY <1>0, FormShape DEF TabIInv, TypeOK, Records!RowsOK
<1>2. PICK new : /\ Wrote(h, new)
                 /\ \/ q.op # "withdraw" /\ new.body = q.body
                    \/ /\ q.op = "withdraw" /\ new.status = "draft"
                       /\ new.body = row[q.article].body
  <2>1. CASE WriteUpdate(h)
    BY <1>0, <2>1, WriteUpdateShape
  <2>2. CASE WriteWithdraw(h)
    BY <1>0, <2>2, WriteWithdrawShape
  <2> QED BY <2>1, <2>2
<1>3. /\ q.step = "checked" /\ row[q.article] = q.seen
      /\ q.seen.version > 0 /\ q.seen.version \in Nat
      /\ new.version = q.seen.version + 1
      /\ row' = [row EXCEPT ![q.article] = new]
      /\ handler' = [handler EXCEPT ![h] = p]
  <2>1. /\ Checking(h) /\ SameVersion(h) /\ new.version = q.seen.version + 1
        /\ row' = [row EXCEPT ![q.article] = new]
        /\ handler' = [handler EXCEPT ![h] = p]
    BY <1>2 DEF Wrote
  <2>2. row[q.article] = q.seen /\ q.seen.version > 0
    BY <2>1 DEF TabIInv, EditorIInv, IInv, VersionNamesRow, Decided, Checking
  <2>3. q.seen.version \in Nat
    BY <1>1 DEF Request, Records!Row
  <2> QED BY <2>1, <2>2, <2>3 DEF Checking
<1>4. /\ p.step = "written" /\ p.op = q.op /\ p.article = q.article /\ p.body = q.body
  BY <1>1 DEF Request
<1>5. Fits(f, q, row[f.article])
  BY DEF TabIInv, FormFits, Row
<1> HIDE DEF f, q, p
<1>6. /\ f.mode = "open" /\ q.article = f.article /\ f.version = q.seen.version
      /\ f.known => q.seen.body = f.base
      /\ q.op # "withdraw" => q.body = f.sent
      /\ f.waits = "nothing"
  <2>1. /\ f.mode = "open" /\ q.article = f.article /\ f.version = q.seen.version
        /\ f.known => q.seen.body = f.base
        /\ q.op # "withdraw" => q.body = f.sent
        /\ f.waits = "nothing" \/ q.step = "idle"
    BY <1>3, <1>5 DEF Fits
  <2> QED BY <1>3, <2>1
<1>7. Fits(f, p, new)
  <2>1. f.version < new.version
    BY <1>3, <1>6
  <2>2. f.version <= new.version /\ f.version # new.version
    BY <1>3, <1>6
  <2>3. /\ q.op # "withdraw" => new.body = f.sent
        /\ q.op = "withdraw" => new.status = "draft" /\ (f.known => new.body = f.base)
    BY <1>2, <1>3, <1>6
  <2> QED BY <1>4, <1>6, <2>1, <2>2, <2>3 DEF Fits
<1>8. row'[f.article] = new /\ \A a \in Article \ {f.article} : row'[a] = row[a]
  BY <1>1, <1>3, <1>6
<1>9. BornDraft'
  <2>1. ~ (new.version <= 1)
    BY <1>3
  <2> QED BY <1>8, <2>1 DEF TabIInv, FormFits, BornDraft
<1>10. handler'[h] = p /\ tab' = [tab EXCEPT ![h] = f]
  BY <1>1, <1>3 DEF f
<1> QED BY <1>1, <1>7, <1>8, <1>9, <1>10, OneFormFits

(* What is answered, refused or never heard of.                            *)
LEMMA AnswersFit ==
  ASSUME OneTab, TabIInv, NEW h \in Handler,
         \/ Reject(h) /\ UNCHANGED tab
         \/ AnswerCreate(h) \/ AnswerForm(h) \/ RereadWithdrawn(h) \/ AnswerLost(h)
  PROVE  FormFits'
<1> DEFINE q == handler[h]
           p == handler'[h]
           r == Row(h)
           Waits(w) == [tab[h] EXCEPT !.waits = w]
<1>0. /\ tab \in [Handler -> Form] /\ tab[h] \in Form /\ tab[h].article \in Article
      /\ tab[h].version \in Nat /\ r.version \in Nat
      /\ handler \in [Handler -> Request] /\ q \in Request
  BY FormShape DEF TabIInv, EditorIInv, IInv, TypeOK
<1>1. /\ row' = row /\ BornDraft' /\ Fits(tab[h], q, r) /\ r = row[tab[h].article]
  BY DEF Reject, AnswerCreate, AnswerForm, Answer, RereadWithdrawn, AnswerLost, vars,
         TabIInv, FormFits, BornDraft, Row
<1>2. ASSUME NEW w \in {"nothing", "withdraw"}
      PROVE  /\ Waits(w).mode = tab[h].mode /\ Waits(w).waits = w
             /\ Waits(w).article = tab[h].article
             /\ Waits(w).version = tab[h].version /\ Waits(w).status = tab[h].status
             /\ Waits(w).sent = tab[h].sent /\ Waits(w).base = tab[h].base
             /\ Waits(w).known = tab[h].known
  BY <1>0 DEF Form
<1> HIDE DEF q, p, r, Waits
<1>3. ASSUME NEW f, f.article = tab[h].article, tab' = [tab EXCEPT ![h] = f], Fits(f, p, r)
      PROVE  FormFits'
  BY <1>0, <1>1, <1>3, OneFormFits DEF p
<1>4. ASSUME q.step \in {"checked", "written"}, p.step = "idle", UNCHANGED tab PROVE FormFits'
  <2>1. tab' = [tab EXCEPT ![h] = tab[h]]
    BY <1>0, <1>4
  <2>2. tab[h].waits = "nothing" /\ tab[h].mode = "open"
    <3>1. tab[h].mode = "open" /\ (tab[h].waits = "nothing" \/ q.step = "idle")
      BY <1>1, <1>4 DEF Fits
    <3> QED BY <1>4, <3>1
  <2>3. Fits(tab[h], p, r)
    BY <1>1, <1>4, <2>2 DEF Fits
  <2> QED BY <1>3, <2>1, <2>3
<1>5. CASE Reject(h) /\ UNCHANGED tab
  <2>1. q.step = "checked" /\ p.step = "idle"
    BY <1>0, <1>5 DEF Reject, q, p
  <2> QED BY <1>4, <1>5, <2>1
<1>6. ASSUME Answer(h) PROVE q.step = "written" /\ p.step = "idle" /\ p.op = q.op
  BY <1>0, <1>6 DEF Answer, q, p, Request
<1>7. CASE AnswerForm(h)
  <2>1. /\ q.step = "written" /\ p.step = "idle" /\ tab[h].mode = "open"
        /\ q.op # "withdraw" => r.body = tab[h].sent
        /\ q.op = "withdraw" =>
             /\ r.status = "draft" /\ tab[h].version < r.version
             /\ tab[h].known => r.body = tab[h].base
    BY <1>1, <1>6, <1>7 DEF AnswerForm, Fits
  <2>2. CASE q.op = "withdraw"
    <3> DEFINE f == Waits("withdraw")
    <3>1. tab' = [tab EXCEPT ![h] = f]
      BY <1>7, <2>2 DEF AnswerForm, q, Waits
    <3>2. /\ f.mode = "open" /\ f.waits = "withdraw" /\ f.article = tab[h].article
          /\ f.version = tab[h].version /\ f.base = tab[h].base /\ f.known = tab[h].known
      BY <1>2, <2>1
    <3> HIDE DEF f
    <3>3. f.version <= r.version /\ f.version # r.version
      BY <1>0, <2>1, <2>2, <3>2
    <3>4. Fits(f, p, r)
      BY <2>1, <2>2, <3>2, <3>3 DEF Fits
    <3> QED BY <1>3, <3>1, <3>2, <3>4
  <2>3. CASE q.op # "withdraw"
    <3> DEFINE f == Confirmed(h)
    <3>1. tab' = [tab EXCEPT ![h] = f]
      BY <1>7, <2>3 DEF AnswerForm, q
    <3>2. /\ f.mode = "open" /\ f.waits = "nothing" /\ f.article = tab[h].article
          /\ f.version = r.version /\ f.status = r.status /\ f.base = tab[h].sent
      BY <2>1, ConfirmedAsIs DEF TabIInv, r
    <3> HIDE DEF f
    <3>3. Fits(f, p, r)
      BY <1>0, <2>1, <2>3, <3>2 DEF Fits
    <3> QED BY <1>3, <3>1, <3>2, <3>3
  <2> QED BY <2>2, <2>3
<1>8. ASSUME handler' = handler, tab[h].waits # "nothing" PROVE p = q /\ q.step = "idle"
  BY <1>1, <1>8 DEF Fits, p, q
<1>9. CASE AnswerCreate(h)
  <2>1. PICK mode \in {"open", "new"} :
          tab' = [tab EXCEPT ![h] = [Confirmed(h) EXCEPT !.mode = mode]]
    BY <1>9 DEF AnswerCreate
  <2> DEFINE f == [Confirmed(h) EXCEPT !.mode = mode]
  <2>2. /\ f.mode = mode /\ f.waits = "nothing" /\ f.article = tab[h].article
        /\ f.version = r.version /\ f.status = r.status /\ f.base = tab[h].sent
    BY ConfirmedAsIs DEF TabIInv, Form, r
  <2>3. p.step = "idle" /\ tab[h].waits = "create" /\ r.body = tab[h].sent
    BY <1>1, <1>8, <1>9 DEF AnswerCreate, vars, Fits
  <2> HIDE DEF f
  <2>4. Fits(f, p, r)
    BY <1>0, <2>2, <2>3 DEF Fits
  <2> QED BY <1>3, <2>1, <2>2, <2>4 DEF f
<1>10. CASE RereadWithdrawn(h)
  <2> DEFINE f == Adopted(h, "draft")
  <2>1. tab' = [tab EXCEPT ![h] = f] /\ tab[h].waits = "withdraw" /\ p.step = "idle"
    BY <1>8, <1>10 DEF RereadWithdrawn, vars
  <2>2. /\ f.mode = tab[h].mode /\ f.waits = "nothing" /\ f.article = tab[h].article
        /\ f.version = r.version /\ f.status = "draft" /\ f.base = tab[h].base
        /\ f.known = tab[h].known
    BY AdoptedShape DEF TabIInv, r
  <2>3. /\ tab[h].mode = "open" /\ r.status = "draft"
        /\ tab[h].known => r.body = tab[h].base
    BY <1>1, <2>1 DEF Fits
  <2> HIDE DEF f
  <2>4. Fits(f, p, r)
    BY <1>0, <2>1, <2>2, <2>3 DEF Fits
  <2> QED BY <1>3, <2>1, <2>2, <2>4
<1>11. CASE AnswerLost(h)
  <2>1. CASE Answer(h) /\ UNCHANGED tab
    BY <1>4, <1>6, <2>1
  <2>2. CASE /\ tab[h].waits # "nothing" /\ UNCHANGED vars
             /\ tab' = [tab EXCEPT ![h].waits = "nothing"]
    <3> DEFINE f == Waits("nothing")
    <3>1. tab' = [tab EXCEPT ![h] = f] /\ p = q /\ q.step = "idle"
      BY <1>8, <2>2 DEF vars, Waits
    <3>2. /\ f.mode = tab[h].mode /\ f.waits = "nothing" /\ f.article = tab[h].article
          /\ f.version = tab[h].version /\ f.status = tab[h].status
          /\ f.base = tab[h].base /\ f.known = tab[h].known
      BY <1>2
    <3> HIDE DEF f
    <3>3. Fits(f, p, r)
      BY <1>1, <3>1, <3>2 DEF Fits
    <3> QED BY <1>3, <3>1, <3>2, <3>3
  <2> QED BY <1>11, <2>1, <2>2 DEF AnswerLost
<1> QED BY <1>5, <1>7, <1>9, <1>10, <1>11

LEMMA TabKeeps == OneTab => (TabIInv /\ [EditorNext]_editorVars => TabIInv')
<1> SUFFICES ASSUME OneTab, TabIInv, [EditorNext]_editorVars PROVE FormFits'
  BY EditorKeeps DEF TabIInv
<1>1. CASE UNCHANGED editorVars
  BY <1>1 DEF editorVars, TabIInv, FormFits, BornDraft, Row
<1>2. CASE EditorNext
  <2>1. PICK h \in Handler :
          \/ NewForm(h) \/ Load(h) \/ LoadFails(h)
          \/ \E a \in Article : OpenForm(h, a) \/ SaveNew(h, a)
          \/ \E text \in Text : Type(h, text)
          \/ Save(h) \/ PublishForm(h) \/ WithdrawForm(h)
          \/ (WriteUpdate(h) \/ WriteWithdraw(h) \/ Reject(h)) /\ UNCHANGED tab
          \/ AnswerCreate(h) \/ AnswerForm(h) \/ RereadWithdrawn(h) \/ AnswerLost(h)
    BY <1>2 DEF EditorNext
  <2> QED BY <2>1, TypingFits, SavingNewFits, SendingFits, WritingFits, AnswersFit
<1> QED BY <1>1, <1>2

LEMMA TabInit == EditorInit => TabIInv
  BY EditorStart, FormFitsInit DEF TabIInv

(* A form that was given nothing still has the version and the status of a *)
(* blank one, so that it withdraws nothing either.                         *)
StillBlank(f, q) ==
  ~ f.known => /\ f.version = 1 /\ f.status = "draft" /\ f.waits # "withdraw"
               /\ q.step # "idle" => q.op # "withdraw"

UnknownIsBlank == \A h \in Handler : StillBlank(tab[h], handler[h])

LEMMA UnknownIsBlankInit == EditorInit => UnknownIsBlank
  BY DEF EditorInit, Init, Fresh, UnknownIsBlank, StillBlank

(* It is enough to look at the tab that takes the step.                    *)
LEMMA OneStaysBlank ==
  ASSUME EditorIInv, UnknownIsBlank, NEW h \in Handler, NEW f, NEW q,
         tab' = [tab EXCEPT ![h] = f], handler' = [handler EXCEPT ![h] = q],
         StillBlank(f, q)
  PROVE  UnknownIsBlank'
<1>1. tab \in [Handler -> Form] /\ handler \in [Handler -> Request]
  BY FormShape DEF EditorIInv, IInv, TypeOK
<1>2. ASSUME NEW g \in Handler PROVE StillBlank(tab'[g], handler'[g])
  <2>1. CASE g = h
    BY <1>1, <2>1
  <2>2. CASE g # h
    BY <1>1, <2>2 DEF UnknownIsBlank
  <2> QED BY <2>1, <2>2
<1> QED BY <1>2 DEF UnknownIsBlank

LEMMA UnknownStaysBlank ==
  EditorIInv /\ UnknownIsBlank /\ [EditorNext]_editorVars => UnknownIsBlank'
<1> SUFFICES ASSUME EditorIInv, UnknownIsBlank, [EditorNext]_editorVars
             PROVE  UnknownIsBlank'
  OBVIOUS
<1>1. CASE UNCHANGED editorVars
  BY <1>1 DEF editorVars, UnknownIsBlank
<1>2. ASSUME NEW h \in Handler,
             \/ NewForm(h) \/ Load(h) \/ LoadFails(h)
             \/ \E a \in Article : OpenForm(h, a)
             \/ \E text \in Text : Type(h, text)
      PROVE  UnknownIsBlank'
  <2>1. handler' = [handler EXCEPT ![h] = handler[h]] /\ tab \in [Handler -> Form]
    BY <1>2, FormShape
       DEF NewForm, Load, LoadFails, OpenForm, Type, vars, EditorIInv, IInv, TypeOK
  <2>2. StillBlank(tab[h], handler[h])
    BY DEF UnknownIsBlank
  <2>3. \E f : tab' = [tab EXCEPT ![h] = f] /\ StillBlank(f, handler[h])
    <3>1. ASSUME NEW mode \in {"new", "loading"}, NEW a \in Article, Idle(h)
          PROVE  StillBlank(Fresh(mode, a), handler[h])
      BY <3>1 DEF StillBlank, Fresh, Idle
    <3>2. CASE NewForm(h)
      BY <3>1, <3>2, FormShape DEF NewForm, Quiet
    <3>3. ASSUME NEW a \in Article, OpenForm(h, a)
          PROVE  \E f : tab' = [tab EXCEPT ![h] = f] /\ StillBlank(f, handler[h])
      BY <3>1, <3>3 DEF OpenForm, Quiet
    <3>4. CASE Load(h)
      <4> DEFINE f == [tab[h] EXCEPT
           !.mode = "open", !.version = Row(h).version, !.status = Row(h).status,
           !.text = Row(h).body, !.saved = Row(h).body, !.base = Row(h).body,
           !.known = TRUE]
      <4>1. tab' = [tab EXCEPT ![h] = f]
        BY <3>4 DEF Load
      <4>2. f.known = TRUE
        BY FormShape DEF Form
      <4> HIDE DEF f
      <4> QED BY <4>1, <4>2 DEF StillBlank
    <3>5. CASE LoadFails(h)
      <4> DEFINE f == [tab[h] EXCEPT !.mode = "open"]
      <4>1. tab' = [tab EXCEPT ![h] = f]
        BY <3>5 DEF LoadFails
      <4>2. StillBlank(f, handler[h])
        BY <2>2, FormShape DEF Form, StillBlank
      <4> QED BY <4>1, <4>2
    <3>6. ASSUME NEW text \in Text, Type(h, text)
          PROVE  \E f : tab' = [tab EXCEPT ![h] = f] /\ StillBlank(f, handler[h])
      <4> DEFINE f == [tab[h] EXCEPT !.text = text]
      <4>1. tab' = [tab EXCEPT ![h] = f]
        BY <3>6 DEF Type
      <4>2. StillBlank(f, handler[h])
        BY <2>2, FormShape DEF Form, StillBlank
      <4> QED BY <4>1, <4>2
    <3> QED BY <1>2, <3>2, <3>3, <3>4, <3>5, <3>6
  <2> QED BY <2>1, <2>3, OneStaysBlank
<1>3. ASSUME NEW h \in Handler,
             \/ \E a \in Article : SaveNew(h, a)
             \/ Save(h) \/ PublishForm(h) \/ WithdrawForm(h)
      PROVE  UnknownIsBlank'
  <2>1. StillBlank(tab[h], handler[h])
    BY DEF UnknownIsBlank
  <2>2. ASSUME NEW a \in Article, SaveNew(h, a) PROVE UnknownIsBlank'
    <3> DEFINE f == [tab[h] EXCEPT !.waits = "create", !.article = a, !.sent = tab[h].text]
    <3>1. tab' = [tab EXCEPT ![h] = f]
      BY <2>2, FormShape DEF SaveNew
    <3>2. handler' = [handler EXCEPT ![h] = handler[h]]
      BY <2>2 DEF SaveNew, Create, EditorIInv, IInv, TypeOK
    <3>3. StillBlank(f, handler[h])
      BY <2>1, FormShape DEF Form, StillBlank
    <3> HIDE DEF f
    <3> QED BY <3>1, <3>2, <3>3, OneStaysBlank
  <2>3. CASE Save(h) \/ PublishForm(h) \/ WithdrawForm(h)
    <3> DEFINE f == [tab[h] EXCEPT !.sent = tab[h].text]
    <3>1. tab' = [tab EXCEPT ![h] = f]
      BY <2>3, FormShape DEF Save, PublishForm, WithdrawForm, SendsCurrentVersion
    <3>2. PICK q : /\ handler' = [handler EXCEPT ![h] = q]
                   /\ q.op = "withdraw" => tab[h].status = "published"
      <4>1. ASSUME NEW op, NEW a, NEW body, NEW address, Checked(h, op, a, body, address)
            PROVE  \E q : handler' = [handler EXCEPT ![h] = q] /\ q.op = op
        <5> DEFINE q == [step |-> "checked", op |-> op, article |-> a, seen |-> row[a],
                         body |-> body, address |-> address]
        <5>1. handler' = [handler EXCEPT ![h] = q] /\ q.op = op
          BY <4>1 DEF Checked
        <5> HIDE DEF q
        <5> QED BY <5>1
      <4>2. CASE Save(h)
        BY <4>1, <4>2 DEF Save, BeginSave
      <4>3. CASE PublishForm(h)
        BY <4>1, <4>3 DEF PublishForm, BeginPublish
      <4>4. CASE WithdrawForm(h)
        BY <4>1, <4>4 DEF WithdrawForm, BeginWithdraw
      <4> QED BY <2>3, <4>2, <4>3, <4>4
    <3>3. StillBlank(f, q)
      BY <2>1, <3>2, FormShape DEF Form, StillBlank
    <3> HIDE DEF f
    <3> QED BY <3>1, <3>2, <3>3, OneStaysBlank
  <2> QED BY <1>3, <2>2, <2>3
<1>4. ASSUME NEW h \in Handler, UNCHANGED tab,
             WriteUpdate(h) \/ WriteWithdraw(h) \/ Reject(h) \/ Answer(h)
      PROVE  UnknownIsBlank'
  <2>1. handler \in [Handler -> Request] /\ tab \in [Handler -> Form]
    BY FormShape DEF EditorIInv, IInv, TypeOK
  <2>2. PICK step \in {"idle", "written"} : handler' = [handler EXCEPT ![h].step = step]
    BY <1>4 DEF WriteUpdate, WriteWithdraw, Written, Reject, Answer
  <2> DEFINE q == [handler[h] EXCEPT !.step = step]
  <2>3. handler' = [handler EXCEPT ![h] = q] /\ tab' = [tab EXCEPT ![h] = tab[h]]
    BY <1>4, <2>1, <2>2
  <2>4. handler[h].step # "idle" /\ q.op = handler[h].op
    BY <1>4, <2>1 DEF WriteUpdate, WriteWithdraw, Written, Reject, Answer, Request
  <2>5. StillBlank(tab[h], q)
    BY <2>4 DEF UnknownIsBlank, StillBlank
  <2> HIDE DEF q
  <2> QED BY <2>3, <2>5, OneStaysBlank
<1>5. ASSUME NEW h \in Handler,
             AnswerCreate(h) \/ AnswerForm(h) \/ RereadWithdrawn(h) \/ AnswerLost(h)
      PROVE  UnknownIsBlank'
  <2>1. handler \in [Handler -> Request] /\ tab \in [Handler -> Form]
    BY FormShape DEF EditorIInv, IInv, TypeOK
  <2>2. StillBlank(tab[h], handler[h])
    BY DEF UnknownIsBlank
  <2> DEFINE Waits(w) == [tab[h] EXCEPT !.waits = w]
             idle == [handler[h] EXCEPT !.step = "idle"]
  <2>3. /\ handler[h] = [handler[h] EXCEPT !.step = handler[h].step]
        /\ idle.step = "idle"
    BY <2>1 DEF Request
  <2>4. CASE AnswerCreate(h)
    <3>1. PICK mode \in {"open", "new"} :
            tab' = [tab EXCEPT ![h] = [Confirmed(h) EXCEPT !.mode = mode]]
      BY <2>4 DEF AnswerCreate
    <3> DEFINE f == [Confirmed(h) EXCEPT !.mode = mode]
    <3>2. f.known = TRUE
      BY ConfirmedShape
    <3>3. handler' = [handler EXCEPT ![h] = handler[h]] /\ tab' = [tab EXCEPT ![h] = f]
      BY <2>1, <2>4, <3>1 DEF AnswerCreate, vars
    <3> HIDE DEF f
    <3> QED BY <3>2, <3>3, OneStaysBlank DEF StillBlank
  <2>5. CASE AnswerForm(h)
    <3>1. handler' = [handler EXCEPT ![h] = idle] /\ handler[h].step # "idle"
      BY <2>1, <2>5 DEF AnswerForm, Answer
    <3>2. CASE handler[h].op = "withdraw"
      <4>1. tab' = [tab EXCEPT ![h] = Waits("withdraw")]
        BY <2>5, <3>2 DEF AnswerForm
      <4>2. tab[h].known /\ Waits("withdraw").known = tab[h].known
        BY <2>1, <2>2, <3>1, <3>2 DEF StillBlank, Form
      <4> HIDE DEF Waits, idle
      <4> QED BY <3>1, <4>1, <4>2, OneStaysBlank DEF StillBlank
    <3>3. CASE handler[h].op # "withdraw"
      <4>1. tab' = [tab EXCEPT ![h] = Confirmed(h)]
        BY <2>5, <3>3 DEF AnswerForm
      <4>2. Confirmed(h).known = TRUE
        BY ConfirmedAsIs
      <4> HIDE DEF idle
      <4> QED BY <3>1, <4>1, <4>2, OneStaysBlank DEF StillBlank
    <3> QED BY <3>2, <3>3
  <2>6. CASE RereadWithdrawn(h)
    <3>1. tab[h].known
      BY <2>2, <2>6 DEF RereadWithdrawn, StillBlank
    <3>2. Adopted(h, "draft").known
      BY <3>1, AdoptedShape
    <3>3. /\ tab' = [tab EXCEPT ![h] = Adopted(h, "draft")]
          /\ handler' = [handler EXCEPT ![h] = handler[h]]
      BY <2>1, <2>6 DEF RereadWithdrawn, vars
    <3> QED BY <3>2, <3>3, OneStaysBlank DEF StillBlank
  <2>7. CASE AnswerLost(h)
    <3>1. CASE Answer(h) /\ UNCHANGED tab
      BY <1>4, <3>1
    <3>2. CASE tab' = [tab EXCEPT ![h].waits = "nothing"] /\ UNCHANGED vars
      <4>1. /\ tab' = [tab EXCEPT ![h] = Waits("nothing")]
            /\ handler' = [handler EXCEPT ![h] = handler[h]]
        BY <2>1, <3>2 DEF vars
      <4>2. StillBlank(Waits("nothing"), handler[h])
        BY <2>1, <2>2 DEF StillBlank, Form
      <4> HIDE DEF Waits
      <4> QED BY <4>1, <4>2, OneStaysBlank
    <3> QED BY <2>7, <3>1, <3>2 DEF AnswerLost
  <2> QED BY <1>5, <2>4, <2>5, <2>6, <2>7
<1> QED BY <1>1, <1>2, <1>3, <1>4, <1>5 DEF EditorNext

(* With one tab, whatever is typed, sent, answered or lost, a save or a    *)
(* publish replaces the text the server last gave the tab or confirmed to  *)
(* it, or, from a form whose load failed, the text the article was created *)
(* with, for any number of articles and versions.                          *)
THEOREM OneTabLosesNoEdit == OneTab => (EditorSpec => NoLostEdit)
<1> DEFINE Seen == \A h \in Handler :
                     WriteUpdate(h) =>
                       \/ tab[h].known /\ Row(h).body = tab[h].base
                       \/ ~ tab[h].known /\ Row(h).version = 1
           Inv == TabIInv /\ UnknownIsBlank
<1>1. Inv => Seen
  <2> SUFFICES ASSUME TabIInv, UnknownIsBlank, NEW h \in Handler, WriteUpdate(h)
               PROVE  \/ tab[h].known /\ Row(h).body = tab[h].base
                      \/ ~ tab[h].known /\ Row(h).version = 1
    OBVIOUS
  <2>1. handler[h].step = "checked" /\ SameVersion(h)
    BY DEF WriteUpdate, Written
  <2>2. row[handler[h].article] = handler[h].seen
    BY <2>1 DEF TabIInv, EditorIInv, IInv, VersionNamesRow
  <2>3. /\ handler[h].article = tab[h].article
        /\ handler[h].seen.version = tab[h].version
        /\ tab[h].known => handler[h].seen.body = tab[h].base
    BY <2>1 DEF TabIInv, FormFits, Fits
  <2>4. CASE tab[h].known
    BY <2>2, <2>3, <2>4 DEF Row
  <2>5. CASE ~ tab[h].known
    BY <2>2, <2>3, <2>5 DEF Row, UnknownIsBlank, StillBlank
  <2> QED BY <2>4, <2>5
<1> SUFFICES ASSUME OneTab PROVE EditorSpec => NoLostEdit
  OBVIOUS
<1>2. Inv /\ [EditorNext]_editorVars => Inv' /\ [Seen]_editorVars
  <2>1. TabIInv => EditorIInv
    BY DEF TabIInv
  <2> HIDE DEF Seen
  <2> QED BY <1>1, <2>1, TabKeeps, UnknownStaysBlank
<1>3. EditorInit => Inv
  BY TabInit, UnknownIsBlankInit
<1> HIDE DEF Seen, Inv
<1>4. EditorSpec => [][Seen]_editorVars
  BY <1>2, <1>3, PTL DEF EditorSpec
<1> QED BY <1>4 DEF NoLostEdit, Seen

(* With one tab, a form at the row's version shows truly whether the       *)
(* article is public, even when it never loaded or lost the answers to     *)
(* what it did.                                                            *)
THEOREM OneTabStatusIsTrue == OneTab => (EditorSpec => []StatusTruthful)
<1> SUFFICES ASSUME OneTab PROVE EditorSpec => []StatusTruthful
  OBVIOUS
<1>1. TabIInv => StatusTruthful
  BY DEF TabIInv, FormFits, Fits, StatusTruthful
<1>2. TabIInv /\ [EditorNext]_editorVars => TabIInv'
  BY TabKeeps
<1> QED BY <1>1, <1>2, TabInit, PTL DEF EditorSpec
=============================================================================
