--------------------------- MODULE PageCacheProofs ---------------------------
(***************************************************************************)
(* Theorems about PageCache, for any requests, writers and bounds.         *)
(*                                                                         *)
(* The types need nothing else.  What a page under the version in force    *)
(* was rendered from (CurrentPageNotOlder) and what a visitor is answered  *)
(* (AnswerNotOlder) hold for as long as the version key has never been     *)
(* missing: the invariant is "it was missing once, or FreshIInv", and the  *)
(* one step that cannot keep FreshIInv, Flush, makes its first half true.  *)
(***************************************************************************)
EXTENDS PageCache, TLAPS

LEMMA CacheTypesInit == Init => TypeOK
  BY ConstantsAssumption
     DEF Init, TypeOK, Version, Content, Page, Idle, Request, Missing, NoPage

GoodRequest(q) ==
  /\ q \in Request
  /\ q.step \in {"get", "set"} => q.version # Missing
  /\ q.step \in {"set", "done"} => q.page # NoPage

LEMMA CacheTypesStep == TypeOK /\ [Next]_vars => TypeOK'
<1> SUFFICES ASSUME TypeOK, [Next]_vars PROVE TypeOK'
  OBVIOUS
<1>0. 1 \in Version
  BY ConstantsAssumption DEF Version
<1>1. /\ \A r \in Reader : GoodRequest(reader[r])
      /\ key \in Version \cup {Missing} /\ content \in Content /\ announced \in Content
      /\ pages \in [Version -> Page]
  BY DEF TypeOK, GoodRequest
<1>2. \A n \in Content : n \in Page /\ n # NoPage
  BY DEF Content, Page, NoPage
<1>3. ASSUME NEW r \in Reader, Start(r) PROVE TypeOK'
  <2> DEFINE new == [Idle EXCEPT !.step = "version", !.floor = announced]
  <2>1. GoodRequest(new)
    BY <1>3, <1>1 DEF Start, GoodRequest, Request, At, NoPage, Missing, Idle, Page
  <2>2. reader' = [reader EXCEPT ![r] = new]
    BY <1>3 DEF Start
  <2> HIDE DEF new
  <2>3. \A s \in Reader : GoodRequest(reader'[s])
    BY <1>1, <2>1, <2>2 DEF TypeOK
  <2>4. reader' \in [Reader -> Request]
    BY <2>1, <2>2 DEF TypeOK, GoodRequest
  <2>5. key' \in Version \cup {Missing} /\ pages' \in [Version -> Page]
    BY <1>3, <1>1, <1>2 DEF Start, Redis, TypeOK, At, GoodRequest, Request, Page, Missing, NoPage
  <2> QED BY <1>3, <2>3, <2>4, <2>5 DEF Start, TypeOK, Admin, GoodRequest
<1>4. ASSUME NEW r \in Reader, ReadVersion(r) PROVE TypeOK'
  <2> DEFINE new == [reader[r] EXCEPT !.step = IF key = Missing THEN "initialize" ELSE "get",
                                    !.version = key]
  <2>1. GoodRequest(new)
    BY <1>4, <1>1 DEF ReadVersion, GoodRequest, Request, At, NoPage, Missing
  <2>2. reader' = [reader EXCEPT ![r] = new]
    BY <1>4 DEF ReadVersion
  <2> HIDE DEF new
  <2>3. \A s \in Reader : GoodRequest(reader'[s])
    BY <1>1, <2>1, <2>2 DEF TypeOK
  <2>4. reader' \in [Reader -> Request]
    BY <2>1, <2>2 DEF TypeOK, GoodRequest
  <2>5. key' \in Version \cup {Missing} /\ pages' \in [Version -> Page]
    BY <1>4, <1>1, <1>2 DEF ReadVersion, Redis, TypeOK, At, GoodRequest, Request, Page, Missing, NoPage
  <2> QED BY <1>4, <2>3, <2>4, <2>5 DEF ReadVersion, TypeOK, Admin, GoodRequest
<1>5. ASSUME NEW r \in Reader, InitializeVersion(r) PROVE TypeOK'
  <2> DEFINE new == [reader[r] EXCEPT !.step = "get", !.version = 1]
  <2>0. reader[r] \in Request
    BY <1>1 DEF GoodRequest
  <2>1. GoodRequest(new)
    <3>1. new \in Request
      BY <1>0, <2>0 DEF Request
    <3>2. new.step = "get" /\ new.version = 1
      BY <2>0 DEF Request
    <3> HIDE DEF new
    <3> QED BY <3>1, <3>2 DEF GoodRequest, Missing
  <2>2. reader' = [reader EXCEPT ![r] = new]
    BY <1>5 DEF InitializeVersion
  <2> HIDE DEF new
  <2>3. \A s \in Reader : GoodRequest(reader'[s])
    BY <1>1, <2>1, <2>2 DEF TypeOK
  <2>4. reader' \in [Reader -> Request]
    BY <2>1, <2>2 DEF TypeOK, GoodRequest
  <2>5. key' \in Version \cup {Missing} /\ pages' \in [Version -> Page]
    BY <1>5, <1>1, <1>2 DEF InitializeVersion, Redis, TypeOK, At, GoodRequest, Request, Page, Missing, NoPage
  <2> QED BY <1>5, <2>3, <2>4, <2>5 DEF InitializeVersion, TypeOK, Admin, GoodRequest
<1>6. ASSUME NEW r \in Reader, VersionFails(r) PROVE TypeOK'
  <2> DEFINE new == [reader[r] EXCEPT !.step = "render", !.version = Missing]
  <2>1. GoodRequest(new)
    BY <1>6, <1>1 DEF VersionFails, GoodRequest, Request, At, NoPage, Missing
  <2>2. reader' = [reader EXCEPT ![r] = new]
    BY <1>6 DEF VersionFails
  <2> HIDE DEF new
  <2>3. \A s \in Reader : GoodRequest(reader'[s])
    BY <1>1, <2>1, <2>2 DEF TypeOK
  <2>4. reader' \in [Reader -> Request]
    BY <2>1, <2>2 DEF TypeOK, GoodRequest
  <2>5. key' \in Version \cup {Missing} /\ pages' \in [Version -> Page]
    BY <1>6, <1>1, <1>2 DEF VersionFails, Redis, TypeOK, At, GoodRequest, Request, Page, Missing, NoPage
  <2> QED BY <1>6, <2>3, <2>4, <2>5 DEF VersionFails, TypeOK, Admin, GoodRequest
<1>7. ASSUME NEW r \in Reader, Hit(r) PROVE TypeOK'
  <2> DEFINE new == [reader[r] EXCEPT !.step = "done", !.page = pages[reader[r].version]]
  <2>1. GoodRequest(new)
    BY <1>7, <1>1 DEF Hit, GoodRequest, Request, At, NoPage, Missing
  <2>2. reader' = [reader EXCEPT ![r] = new]
    BY <1>7 DEF Hit
  <2> HIDE DEF new
  <2>3. \A s \in Reader : GoodRequest(reader'[s])
    BY <1>1, <2>1, <2>2 DEF TypeOK
  <2>4. reader' \in [Reader -> Request]
    BY <2>1, <2>2 DEF TypeOK, GoodRequest
  <2>5. key' \in Version \cup {Missing} /\ pages' \in [Version -> Page]
    BY <1>7, <1>1, <1>2 DEF Hit, Redis, TypeOK, At, GoodRequest, Request, Page, Missing, NoPage
  <2> QED BY <1>7, <2>3, <2>4, <2>5 DEF Hit, TypeOK, Admin, GoodRequest
<1>8. ASSUME NEW r \in Reader, Miss(r) PROVE TypeOK'
  <2> DEFINE new == [reader[r] EXCEPT !.step = "render"]
  <2>1. GoodRequest(new)
    BY <1>8, <1>1 DEF Miss, GoodRequest, Request, At, NoPage, Missing
  <2>2. reader' = [reader EXCEPT ![r] = new]
    BY <1>8 DEF Miss
  <2> HIDE DEF new
  <2>3. \A s \in Reader : GoodRequest(reader'[s])
    BY <1>1, <2>1, <2>2 DEF TypeOK
  <2>4. reader' \in [Reader -> Request]
    BY <2>1, <2>2 DEF TypeOK, GoodRequest
  <2>5. key' \in Version \cup {Missing} /\ pages' \in [Version -> Page]
    BY <1>8, <1>1, <1>2 DEF Miss, Redis, TypeOK, At, GoodRequest, Request, Page, Missing, NoPage
  <2> QED BY <1>8, <2>3, <2>4, <2>5 DEF Miss, TypeOK, Admin, GoodRequest
<1>9. ASSUME NEW r \in Reader, Render(r) PROVE TypeOK'
  <2> DEFINE new == [reader[r] EXCEPT !.step = IF reader[r].version = Missing THEN "done" ELSE "set",
                                    !.page = content]
  <2>1. GoodRequest(new)
    BY <1>9, <1>1, <1>2 DEF Render, GoodRequest, Request, At, NoPage, Missing
  <2>2. reader' = [reader EXCEPT ![r] = new]
    BY <1>9 DEF Render
  <2> HIDE DEF new
  <2>3. \A s \in Reader : GoodRequest(reader'[s])
    BY <1>1, <2>1, <2>2 DEF TypeOK
  <2>4. reader' \in [Reader -> Request]
    BY <2>1, <2>2 DEF TypeOK, GoodRequest
  <2>5. key' \in Version \cup {Missing} /\ pages' \in [Version -> Page]
    BY <1>9, <1>1, <1>2 DEF Render, Redis, TypeOK, At, GoodRequest, Request, Page, Missing, NoPage
  <2> QED BY <1>9, <2>3, <2>4, <2>5 DEF Render, TypeOK, Admin, GoodRequest
<1>10. ASSUME NEW r \in Reader, Store(r) PROVE TypeOK'
  <2> DEFINE new == [reader[r] EXCEPT !.step = "done"]
  <2>1. GoodRequest(new)
    BY <1>10, <1>1 DEF Store, GoodRequest, Request, At, NoPage, Missing
  <2>2. reader' = [reader EXCEPT ![r] = new]
    BY <1>10 DEF Store
  <2> HIDE DEF new
  <2>3. \A s \in Reader : GoodRequest(reader'[s])
    BY <1>1, <2>1, <2>2 DEF TypeOK
  <2>4. reader' \in [Reader -> Request]
    BY <2>1, <2>2 DEF TypeOK, GoodRequest
  <2>5. key' \in Version \cup {Missing} /\ pages' \in [Version -> Page]
    BY <1>10, <1>1, <1>2 DEF Store, Redis, TypeOK, At, GoodRequest, Request, Page, Missing, NoPage
  <2> QED BY <1>10, <2>3, <2>4, <2>5 DEF Store, TypeOK, Admin, GoodRequest
<1>11. ASSUME NEW r \in Reader, Leave(r) PROVE TypeOK'
  <2> DEFINE new == Idle
  <2>1. GoodRequest(new)
    BY <1>11, <1>1, ConstantsAssumption DEF Leave, GoodRequest, Request, At, NoPage, Missing, Idle, Page, Content
  <2>2. reader' = [reader EXCEPT ![r] = new]
    BY <1>11 DEF Leave
  <2> HIDE DEF new
  <2>3. \A s \in Reader : GoodRequest(reader'[s])
    BY <1>1, <2>1, <2>2 DEF TypeOK
  <2>4. reader' \in [Reader -> Request]
    BY <2>1, <2>2 DEF TypeOK, GoodRequest
  <2>5. key' \in Version \cup {Missing} /\ pages' \in [Version -> Page]
    BY <1>11, <1>1, <1>2 DEF Leave, Redis, TypeOK, At, GoodRequest, Request, Page, Missing, NoPage
  <2> QED BY <1>11, <2>3, <2>4, <2>5 DEF Leave, TypeOK, Admin, GoodRequest
<1>12. ASSUME NEW w \in Writer, Commit(w) PROVE TypeOK'
  BY <1>12, ConstantsAssumption DEF Commit, TypeOK, Redis, Content
<1>13. ASSUME NEW w \in Writer, Invalidate(w) PROVE TypeOK'
  BY <1>13, ConstantsAssumption DEF Invalidate, TypeOK, Version, Missing
<1>14. ASSUME NEW w \in Writer, LoseInvalidation(w) PROVE TypeOK'
  BY <1>14 DEF LoseInvalidation, TypeOK, Redis
<1>15. ASSUME NEW v \in Version, Expire(v) PROVE TypeOK'
  BY <1>15 DEF Expire, TypeOK, Admin, Page
<1>16. CASE Flush
  BY <1>16 DEF Flush, TypeOK, Admin, Page
<1>17. CASE UNCHANGED vars
  BY <1>17 DEF vars, TypeOK
<1> QED
  BY <1>3, <1>4, <1>5, <1>6, <1>7, <1>8, <1>9, <1>10, <1>11, <1>12, <1>13, <1>14,
     <1>15, <1>16, <1>17 DEF Next, Read

(* The types hold in every reachable state, whatever faults there are.     *)
THEOREM CacheTypes == Spec => []TypeOK
<1> QED BY CacheTypesInit, CacheTypesStep, PTL DEF Spec
----------------------------------------------------------------------------
(* Fresh enough.  Three things keep a late store harmless: no request and  *)
(* no page is ahead of the version key; what is stored, or about to be,    *)
(* under the version in force is no older than the last invalidation; and  *)
(* what is about to be stored under a version that is no longer in force   *)
(* is still no older than anything a reader of that version may expect.    *)

Ordered ==
  /\ key # Missing
  /\ announced <= content
  /\ \A v \in Version : v > key => pages[v] = NoPage
  /\ \A r \in Reader : /\ reader[r].version <= key
                       /\ reader[r].floor <= announced
                       /\ ~ At(r, "initialize")

StoresNotOlder ==
  /\ CurrentPageNotOlder
  /\ \A r \in Reader :
       At(r, "set") /\ reader[r].version = key => reader[r].page >= announced

ReadsNotOlder ==
  /\ \A r \in Reader :
       At(r, "get") /\ pages[reader[r].version] # NoPage =>
         pages[reader[r].version] >= reader[r].floor
  /\ \A r, s \in Reader :
       At(r, "get") /\ At(s, "set") /\ reader[s].version = reader[r].version =>
         reader[s].page >= reader[r].floor
  /\ AnswerNotOlder
  /\ \A r \in Reader : At(r, "set") => reader[r].page >= reader[r].floor

FreshIInv == Ordered /\ StoresNotOlder /\ ReadsNotOlder

LEMMA FreshInit == InitialKey # Missing /\ Init => FreshIInv
<1> SUFFICES ASSUME InitialKey # Missing, Init PROVE FreshIInv
  OBVIOUS
<1>1. \A r \in Reader : reader[r] = Idle
  BY DEF Init
<1>2. Ordered
  BY <1>1, ConstantsAssumption DEF Init, Ordered, Idle, At, Missing
<1>3. /\ \A step : step # "idle" => \A r \in Reader : ~ At(r, step)
      /\ InitialKey \in Version /\ pages[key] = NoPage
  BY <1>1, ConstantsAssumption DEF Init, Idle, At, Version, Missing
<1>4. StoresNotOlder /\ ReadsNotOlder
  BY <1>3 DEF StoresNotOlder, ReadsNotOlder, CurrentPageNotOlder, AnswerNotOlder
<1> QED BY <1>2, <1>4 DEF FreshIInv

LEMMA FreshStep == TypeOK /\ FreshIInv /\ [Next]_vars /\ ~ Flush => FreshIInv'
<1> SUFFICES ASSUME TypeOK, FreshIInv, [Next]_vars, ~ Flush PROVE FreshIInv'
  OBVIOUS
<1>1. /\ content \in Nat /\ announced \in Nat /\ key \in Nat \ {0} /\ key \in Version
      /\ pages \in [Version -> Page] /\ Page \subseteq Int
      /\ \A v \in Version : v \in Nat \ {0}
      /\ 0 \notin Version /\ NoPage \in Int
  BY ConstantsAssumption DEF TypeOK, FreshIInv, Ordered, Content, Version, Page, NoPage, Missing
<1>2. \A r \in Reader : /\ reader[r] \in Request
                        /\ reader[r].version \in Nat /\ reader[r].page \in Int
                        /\ reader[r].floor \in Nat
                        /\ reader[r].step \in {"get", "set"} => reader[r].version \in Version
                        /\ reader[r].step \in {"set", "done"} => reader[r].page # NoPage
  <2> SUFFICES ASSUME NEW r \in Reader
               PROVE  /\ reader[r] \in Request
                      /\ reader[r].version \in Nat /\ reader[r].page \in Int
                      /\ reader[r].floor \in Nat
                      /\ reader[r].step \in {"get", "set"} => reader[r].version \in Version
                      /\ reader[r].step \in {"set", "done"} => reader[r].page # NoPage
    OBVIOUS
  <2>1. reader[r] \in Request
    BY DEF TypeOK
  <2>2. /\ reader[r].version \in Version \cup {Missing} /\ reader[r].page \in Page
        /\ reader[r].floor \in Content
    BY <2>1 DEF Request
  <2>3. /\ reader[r].step \in {"get", "set"} => reader[r].version # Missing
        /\ reader[r].step \in {"set", "done"} => reader[r].page # NoPage
    BY DEF TypeOK
  <2>4. Content \subseteq Nat /\ Missing \in Nat
    BY ConstantsAssumption DEF Content, Missing
  <2> QED BY <1>1, <2>1, <2>2, <2>3, <2>4
<1> USE DEF FreshIInv
<1>3. ASSUME NEW r \in Reader, Start(r) PROVE FreshIInv'
  <2>1. /\ UNCHANGED <<content, key, announced, pages>>
        /\ \A s \in Reader \ {r} : reader'[s] = reader[s]
    BY <1>3 DEF Start, Redis, Admin, TypeOK
  <2>2. /\ reader'[r].step = "version"
        /\ reader'[r].version = 0 /\ reader'[r].page = NoPage
        /\ reader'[r].floor = announced
    BY <1>3, <1>1, <1>2 DEF Start, TypeOK, Request, Idle, At, Missing, NoPage, Ordered, AnswerNotOlder, Version
  <2>3. reader'[r].version <= key' /\ reader'[r].floor <= announced'
    BY <1>1, <1>2, <2>1, <2>2 DEF Ordered
  <2>4. Ordered'
    <3>1. \A s \in Reader : /\ reader'[s].version <= key' /\ reader'[s].floor <= announced'
                            /\ ~ At(s, "initialize")'
      BY <2>1, <2>2, <2>3 DEF Ordered, At
    <3> QED BY <2>1, <3>1 DEF Ordered
  <2>5. StoresNotOlder'
    BY <1>3, <1>1, <1>2, <2>1, <2>2 DEF Ordered, StoresNotOlder, CurrentPageNotOlder, At, Missing
  <2>6. ReadsNotOlder'
    BY <1>3, <1>1, <1>2, <2>1, <2>2
       DEF Ordered, StoresNotOlder, CurrentPageNotOlder, ReadsNotOlder, AnswerNotOlder, At, Missing
  <2> QED BY <2>4, <2>5, <2>6
<1>4. ASSUME NEW r \in Reader, ReadVersion(r) PROVE FreshIInv'
  <2>1. /\ UNCHANGED <<content, key, announced, pages>>
        /\ \A s \in Reader \ {r} : reader'[s] = reader[s]
    BY <1>4 DEF ReadVersion, Redis, Admin, TypeOK
  <2>2. /\ reader[r].step = "version" /\ key # Missing
        /\ reader'[r].step = "get"
        /\ reader'[r].version = key /\ reader'[r].page = reader[r].page
        /\ reader'[r].floor = reader[r].floor
    BY <1>4, <1>1, <1>2 DEF ReadVersion, TypeOK, Request, Idle, At, Missing, NoPage, Ordered, AnswerNotOlder, Version
  <2>3. reader'[r].version <= key' /\ reader'[r].floor <= announced'
    <3>1. reader[r].floor <= announced
      BY DEF Ordered
    <3>2. key <= key
      BY <1>1
    <3> QED BY <2>1, <2>2, <3>1, <3>2
  <2>4. Ordered'
    <3>1. \A s \in Reader : /\ reader'[s].version <= key' /\ reader'[s].floor <= announced'
                            /\ ~ At(s, "initialize")'
      BY <2>1, <2>2, <2>3 DEF Ordered, At
    <3> QED BY <2>1, <3>1 DEF Ordered
  <2>5. StoresNotOlder'
    BY <1>4, <1>1, <1>2, <2>1, <2>2 DEF Ordered, StoresNotOlder, CurrentPageNotOlder, At, Missing
  <2>6. ReadsNotOlder'
    <3>1. /\ pages[key] # NoPage => pages[key] >= reader[r].floor
          /\ \A s \in Reader : At(s, "set") /\ reader[s].version = key =>
               reader[s].page >= reader[r].floor
      <4>1. reader[r].floor \in Int /\ announced \in Int /\ reader[r].floor <= announced
        BY <1>1, <1>2 DEF Ordered
      <4>3. pages[key] \in Int
        <5>1. pages[key] \in Page
          BY <1>1
        <5> QED BY <5>1, <1>1
      <4>4. \A s \in Reader : reader[s].page \in Int
        BY <1>2
      <4>2. \A p \in Int : p >= announced => p >= reader[r].floor
        BY <4>1
      <4> QED BY <2>2, <4>2, <4>3, <4>4 DEF StoresNotOlder, CurrentPageNotOlder
    <3>2. \A s \in Reader : s # r => reader'[s] = reader[s]
      BY <2>1
    <3>3. reader'[r].step # "set" /\ reader'[r].step # "done" /\ pages' = pages
      BY <2>1, <2>2
    <3>4. \A s \in Reader :
            At(s, "get")' /\ pages'[reader'[s].version] # NoPage =>
              pages'[reader'[s].version] >= reader'[s].floor
      <4> SUFFICES ASSUME NEW s \in Reader, At(s, "get")', pages'[reader'[s].version] # NoPage
                   PROVE  pages'[reader'[s].version] >= reader'[s].floor
        OBVIOUS
      <4>1. CASE s = r
        BY <4>1, <2>2, <3>1, <3>3
      <4>2. CASE s # r
        BY <4>2, <3>2, <3>3 DEF ReadsNotOlder, At
      <4> QED BY <4>1, <4>2
    <3>5. \A q, s \in Reader :
            At(q, "get")' /\ At(s, "set")' /\ reader'[s].version = reader'[q].version =>
              reader'[s].page >= reader'[q].floor
      <4> SUFFICES ASSUME NEW q \in Reader, NEW s \in Reader, At(q, "get")', At(s, "set")',
                          reader'[s].version = reader'[q].version
                   PROVE  reader'[s].page >= reader'[q].floor
        OBVIOUS
      <4>1. s # r /\ reader'[s] = reader[s]
        BY <3>2, <3>3 DEF At
      <4>2. CASE q = r
        BY <4>1, <4>2, <2>2, <3>1 DEF At
      <4>3. CASE q # r
        BY <4>1, <4>3, <3>2 DEF ReadsNotOlder, At
      <4> QED BY <4>2, <4>3
    <3>6. \A s \in Reader : At(s, "set")' \/ At(s, "done")' =>
            reader'[s].page >= reader'[s].floor
      BY <3>2, <3>3 DEF ReadsNotOlder, AnswerNotOlder, At
    <3> QED BY <3>4, <3>5, <3>6 DEF ReadsNotOlder, AnswerNotOlder
  <2> QED BY <2>4, <2>5, <2>6
<1>5. ASSUME NEW r \in Reader, InitializeVersion(r) PROVE FALSE
  BY <1>5 DEF InitializeVersion, Ordered
<1>6. ASSUME NEW r \in Reader, VersionFails(r) PROVE FreshIInv'
  <2>1. /\ UNCHANGED <<content, key, announced, pages>>
        /\ \A s \in Reader \ {r} : reader'[s] = reader[s]
    BY <1>6 DEF VersionFails, Redis, Admin, TypeOK
  <2>2. /\ reader'[r].step = "render"
        /\ reader'[r].version = 0 /\ reader'[r].page = reader[r].page
        /\ reader'[r].floor = reader[r].floor
    BY <1>6, <1>1, <1>2 DEF VersionFails, TypeOK, Request, Idle, At, Missing, NoPage, Ordered, AnswerNotOlder, Version
  <2>4. Ordered'
    BY <1>6, <1>1, <1>2, <2>1, <2>2 DEF Ordered, At
  <2>5. StoresNotOlder'
    BY <1>6, <1>1, <1>2, <2>1, <2>2 DEF Ordered, StoresNotOlder, CurrentPageNotOlder, At, Missing
  <2>6. ReadsNotOlder'
    BY <1>6, <1>1, <1>2, <2>1, <2>2
       DEF Ordered, StoresNotOlder, CurrentPageNotOlder, ReadsNotOlder, AnswerNotOlder, At, Missing
  <2> QED BY <2>4, <2>5, <2>6
<1>7. ASSUME NEW r \in Reader, Hit(r) PROVE FreshIInv'
  <2>1. /\ UNCHANGED <<content, key, announced, pages>>
        /\ \A s \in Reader \ {r} : reader'[s] = reader[s]
    BY <1>7 DEF Hit, Redis, Admin, TypeOK
  <2>2. /\ reader[r].step = "get" /\ pages[reader[r].version] # NoPage
        /\ reader'[r].step = "done"
        /\ reader'[r].version = reader[r].version /\ reader'[r].page = pages[reader[r].version]
        /\ reader'[r].floor = reader[r].floor
    BY <1>7, <1>1, <1>2 DEF Hit, TypeOK, Request, Idle, At, Missing, NoPage, Ordered, AnswerNotOlder, Version
  <2>4. Ordered'
    BY <1>7, <1>1, <1>2, <2>1, <2>2 DEF Ordered, At
  <2>5. StoresNotOlder'
    BY <1>7, <1>1, <1>2, <2>1, <2>2 DEF Ordered, StoresNotOlder, CurrentPageNotOlder, At, Missing
  <2>6. ReadsNotOlder'
    BY <1>7, <1>1, <1>2, <2>1, <2>2
       DEF Ordered, StoresNotOlder, CurrentPageNotOlder, ReadsNotOlder, AnswerNotOlder, At, Missing
  <2> QED BY <2>4, <2>5, <2>6
<1>8. ASSUME NEW r \in Reader, Miss(r) PROVE FreshIInv'
  <2>1. /\ UNCHANGED <<content, key, announced, pages>>
        /\ \A s \in Reader \ {r} : reader'[s] = reader[s]
    BY <1>8 DEF Miss, Redis, Admin, TypeOK
  <2>2. /\ reader'[r].step = "render"
        /\ reader'[r].version = reader[r].version /\ reader'[r].page = reader[r].page
        /\ reader'[r].floor = reader[r].floor
    BY <1>8, <1>1, <1>2 DEF Miss, TypeOK, Request, Idle, At, Missing, NoPage, Ordered, AnswerNotOlder, Version
  <2>4. Ordered'
    BY <1>8, <1>1, <1>2, <2>1, <2>2 DEF Ordered, At
  <2>5. StoresNotOlder'
    BY <1>8, <1>1, <1>2, <2>1, <2>2 DEF Ordered, StoresNotOlder, CurrentPageNotOlder, At, Missing
  <2>6. ReadsNotOlder'
    BY <1>8, <1>1, <1>2, <2>1, <2>2
       DEF Ordered, StoresNotOlder, CurrentPageNotOlder, ReadsNotOlder, AnswerNotOlder, At, Missing
  <2> QED BY <2>4, <2>5, <2>6
<1>9. ASSUME NEW r \in Reader, Render(r) PROVE FreshIInv'
  <2>1. /\ UNCHANGED <<content, key, announced, pages>>
        /\ \A s \in Reader \ {r} : reader'[s] = reader[s]
    BY <1>9 DEF Render, Redis, Admin, TypeOK
  <2>2. /\ reader'[r].step \in {"set", "done"}
        /\ reader'[r].version = reader[r].version /\ reader'[r].page = content
        /\ reader'[r].floor = reader[r].floor
    BY <1>9, <1>1, <1>2 DEF Render, TypeOK, Request, Idle, At, Missing, NoPage, Ordered, AnswerNotOlder, Version
  <2>4. Ordered'
    BY <1>9, <1>1, <1>2, <2>1, <2>2 DEF Ordered, At
  <2>5. StoresNotOlder'
    BY <1>9, <1>1, <1>2, <2>1, <2>2 DEF Ordered, StoresNotOlder, CurrentPageNotOlder, At, Missing
  <2>6. ReadsNotOlder'
    BY <1>9, <1>1, <1>2, <2>1, <2>2
       DEF Ordered, StoresNotOlder, CurrentPageNotOlder, ReadsNotOlder, AnswerNotOlder, At, Missing
  <2> QED BY <2>4, <2>5, <2>6
<1>10. ASSUME NEW r \in Reader, Store(r) PROVE FreshIInv'
  <2>1. /\ UNCHANGED <<content, key, announced>>
        /\ \A s \in Reader \ {r} : reader'[s] = reader[s]
    BY <1>10 DEF Store, Redis, Admin, TypeOK
  <2>2. /\ reader[r].step = "set"
        /\ reader'[r].step = "done"
        /\ reader'[r].version = reader[r].version /\ reader'[r].page = reader[r].page
        /\ reader'[r].floor = reader[r].floor
    BY <1>10, <1>1, <1>2 DEF Store, TypeOK, Request, Idle, At, Missing, NoPage, Ordered, AnswerNotOlder, Version
  <2>3. /\ pages' \in [Version -> Int] /\ reader[r].version \in Version
        /\ \A v \in Version : pages'[v] # pages[v] =>
             v = reader[r].version /\ pages'[v] = reader[r].page
    BY <1>10, <1>1, <1>2 DEF Store, At
  <2>4. Ordered'
    BY <1>10, <1>1, <1>2, <2>1, <2>2, <2>3 DEF Ordered, At
  <2>5. StoresNotOlder'
    BY <1>10, <1>1, <1>2, <2>1, <2>2, <2>3 DEF Ordered, StoresNotOlder, CurrentPageNotOlder, At, Missing
  <2>6. ReadsNotOlder'
    BY <1>10, <1>1, <1>2, <2>1, <2>2, <2>3
       DEF Ordered, StoresNotOlder, CurrentPageNotOlder, ReadsNotOlder, AnswerNotOlder, At, Missing
  <2> QED BY <2>4, <2>5, <2>6
<1>11. ASSUME NEW r \in Reader, Leave(r) PROVE FreshIInv'
  <2>1. /\ UNCHANGED <<content, key, announced, pages>>
        /\ \A s \in Reader \ {r} : reader'[s] = reader[s]
    BY <1>11 DEF Leave, Redis, Admin, TypeOK
  <2>2. /\ reader'[r].step = "idle"
        /\ reader'[r].version = 0 /\ reader'[r].page = NoPage
        /\ reader'[r].floor = 0
    BY <1>11, <1>1, <1>2 DEF Leave, TypeOK, Request, Idle, At, Missing, NoPage, Ordered, AnswerNotOlder, Version
  <2>4. Ordered'
    BY <1>11, <1>1, <1>2, <2>1, <2>2 DEF Ordered, At
  <2>5. StoresNotOlder'
    BY <1>11, <1>1, <1>2, <2>1, <2>2 DEF Ordered, StoresNotOlder, CurrentPageNotOlder, At, Missing
  <2>6. ReadsNotOlder'
    BY <1>11, <1>1, <1>2, <2>1, <2>2
       DEF Ordered, StoresNotOlder, CurrentPageNotOlder, ReadsNotOlder, AnswerNotOlder, At, Missing
  <2> QED BY <2>4, <2>5, <2>6
<1>12. ASSUME NEW w \in Writer, Commit(w) PROVE FreshIInv'
  <2>1. content' = content + 1 /\ UNCHANGED <<key, pages, reader, announced>>
    BY <1>12 DEF Commit, Redis
  <2> QED BY <1>1, <2>1 DEF Ordered, StoresNotOlder, ReadsNotOlder, CurrentPageNotOlder,
                            AnswerNotOlder, At
<1>13. ASSUME NEW w \in Writer, Invalidate(w) PROVE FreshIInv'
  <2>1. /\ key' = key + 1 /\ announced' = content /\ UNCHANGED <<content, pages, reader>>
        /\ key + 1 \in Version
    BY <1>1, <1>13, ConstantsAssumption DEF Invalidate, Version
  <2>2. Ordered'
    <3>1. key' # Missing /\ announced' <= content'
      BY <1>1, <2>1 DEF Missing
    <3>2. \A v \in Version : v > key' => pages'[v] = NoPage
      BY <1>1, <2>1 DEF Ordered
    <3>3. \A r \in Reader : /\ reader'[r].version <= key' /\ reader'[r].floor <= announced'
                            /\ ~ At(r, "initialize")'
      BY <1>1, <1>2, <2>1 DEF Ordered, At
    <3> QED BY <3>1, <3>2, <3>3 DEF Ordered
  <2>3. StoresNotOlder'
    BY <1>1, <1>2, <2>1 DEF Ordered, StoresNotOlder, CurrentPageNotOlder, At
  <2>4. ReadsNotOlder'
    BY <2>1 DEF ReadsNotOlder, AnswerNotOlder, At
  <2> QED BY <2>2, <2>3, <2>4
<1>14. ASSUME NEW w \in Writer, LoseInvalidation(w) PROVE FreshIInv'
  BY <1>14 DEF LoseInvalidation, Redis, Ordered, StoresNotOlder, ReadsNotOlder,
               CurrentPageNotOlder, AnswerNotOlder, At
<1>15. ASSUME NEW v \in Version, Expire(v) PROVE FreshIInv'
  <2>1. /\ UNCHANGED <<content, key, announced, reader>>
        /\ \A u \in Version : pages'[u] # pages[u] => pages'[u] = NoPage
    BY <1>15 DEF Expire, Admin, TypeOK
  <2> QED BY <1>1, <1>2, <2>1 DEF Ordered, StoresNotOlder, ReadsNotOlder,
                                   CurrentPageNotOlder, AnswerNotOlder, At
<1>16. CASE UNCHANGED vars
  BY <1>16 DEF vars, Ordered, StoresNotOlder, ReadsNotOlder, CurrentPageNotOlder,
               AnswerNotOlder, At
<1> QED
  BY <1>3, <1>4, <1>5, <1>6, <1>7, <1>8, <1>9, <1>10, <1>11, <1>12, <1>13, <1>14,
     <1>15, <1>16 DEF Next, Read

KeptIInv == missed \/ FreshIInv

LEMMA KeptInit == Init => KeptIInv
<1> SUFFICES ASSUME Init PROVE KeptIInv
  OBVIOUS
<1>1. CASE InitialKey = Missing
  BY <1>1 DEF Init, KeptIInv
<1>2. CASE InitialKey # Missing
  BY <1>2, FreshInit DEF KeptIInv
<1> QED BY <1>1, <1>2

(* No step makes missed false again.                                       *)
LEMMA MissedStays == missed /\ [Next]_vars => missed'
<1> SUFFICES ASSUME missed, [Next]_vars PROVE missed'
  OBVIOUS
<1>1. ASSUME NEW r \in Reader, Start(r) \/ Read(r) PROVE missed'
  BY <1>1 DEF Start, Read, ReadVersion, InitializeVersion, VersionFails, Hit, Miss,
              Render, Store, Leave, Admin
<1>2. ASSUME NEW w \in Writer, Commit(w) \/ Invalidate(w) \/ LoseInvalidation(w)
      PROVE  missed'
  BY <1>2 DEF Commit, Invalidate, LoseInvalidation
<1>3. ASSUME NEW v \in Version, Expire(v) PROVE missed'
  BY <1>3 DEF Expire, Admin
<1>4. CASE Flush
  BY <1>4 DEF Flush
<1>5. CASE UNCHANGED vars
  BY <1>5 DEF vars
<1> QED BY <1>1, <1>2, <1>3, <1>4, <1>5 DEF Next

LEMMA KeptStep == TypeOK /\ KeptIInv /\ [Next]_vars => KeptIInv'
<1> SUFFICES ASSUME TypeOK, KeptIInv, [Next]_vars PROVE KeptIInv'
  OBVIOUS
<1>1. CASE Flush
  <2>1. missed'
    BY <1>1 DEF Flush
  <2> QED BY <2>1 DEF KeptIInv
<1>2. CASE missed
  <2>1. missed'
    BY <1>2, MissedStays
  <2> QED BY <2>1 DEF KeptIInv
<1>3. CASE ~ Flush /\ FreshIInv
  <2>1. FreshIInv'
    BY <1>3, FreshStep
  <2> QED BY <2>1 DEF KeptIInv
<1> QED BY <1>1, <1>2, <1>3 DEF KeptIInv

(* As long as the version key was never missing, a page stored under the   *)
(* version in force is not older than the last invalidation, for any       *)
(* number of requests and of writers, and however many invalidations and   *)
(* Redis commands are lost.                                                *)
THEOREM CurrentPagesAreNotOlder == Spec => []KeptPageNotOlder
<1>1. KeptIInv => KeptPageNotOlder
  BY DEF KeptIInv, KeptPageNotOlder, FreshIInv, StoresNotOlder
<1> QED BY <1>1, CacheTypes, KeptInit, KeptStep, PTL DEF Spec

(* Under the same condition no visitor who comes after an invalidation is  *)
(* answered with content from before it.                                   *)
THEOREM AnswersAreNotOlder == Spec => []KeptAnswerNotOlder
<1>1. KeptIInv => KeptAnswerNotOlder
  BY DEF KeptIInv, KeptAnswerNotOlder, FreshIInv, ReadsNotOlder
<1> QED BY <1>1, CacheTypes, KeptInit, KeptStep, PTL DEF Spec
=============================================================================
