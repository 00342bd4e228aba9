------------------------- MODULE LoginLimiterProofs -------------------------
(***************************************************************************)
(* Proofs about LoginLimiter, for any number of accounts, addresses and    *)
(* overlapping attempts: what the table holds, how many failures a bucket  *)
(* can count, and when it forgets them.                                    *)
(***************************************************************************)
EXTENDS LoginLimiter, FiniteSetTheorems, TLAPS

(* The types, and that the table is finite: Cardinality says nothing of a  *)
(* set that is not.                                                        *)
Typed == TypeOK /\ IsFiniteSet(DOMAIN entries)

LEMMA AttemptHasKeys ==
  ASSUME TypeOK, NEW a \in Attempt
  PROVE  /\ attempt[a].account \in Account /\ attempt[a].ip \in Ip
         /\ Keys(a) \subseteq Key /\ IsFiniteSet(Keys(a))
<1>1. attempt[a].account \in Account /\ attempt[a].ip \in Ip
  BY DEF TypeOK, Request
<1>2. IsFiniteSet({attempt[a].account} \cup {attempt[a].ip})
  BY FS_Singleton, FS_Union
<1> QED BY <1>1, <1>2 DEF Keys, Key

(* A table that loses entries keeps its types and its bound.               *)
LEMMA KeepTyped ==
  ASSUME Typed, NEW K, K \subseteq DOMAIN entries, entries' = Keep(K),
         now' \in Nat, attempt' \in [Attempt -> Request]
  PROVE  Typed'
<1>1. IsFiniteSet(K) /\ Cardinality(K) <= Cardinality(DOMAIN entries)
  BY FS_Subset DEF Typed
<1>2. Cardinality(K) \in Nat /\ Cardinality(DOMAIN entries) \in Nat /\ MaxEntries \in Nat
  BY <1>1, FS_CardinalityType, ConstantsAssumption DEF Typed
<1>3. DOMAIN entries' = K /\ entries' \in [K -> Entry]
  BY DEF Keep, Typed, TypeOK
<1>4. Cardinality(K) <= MaxEntries
  BY <1>1, <1>2 DEF Typed, TypeOK
<1> QED BY <1>1, <1>3, <1>4 DEF Typed, TypeOK

(* A table that there is room for.                                         *)
LEMMA GrowTyped ==
  ASSUME Typed, NEW keys, keys \subseteq Key, IsFiniteSet(keys), ~ Full(keys, now),
         entries' \in [Live(now) \cup keys -> Entry],
         now' \in Nat, attempt' \in [Attempt -> Request]
  PROVE  Typed'
<1> DEFINE K == Live(now) \cup keys
<1>1. Live(now) \subseteq DOMAIN entries
  BY DEF Live
<1>2. IsFiniteSet(Live(now))
  BY <1>1, FS_Subset DEF Typed
<1>3. IsFiniteSet(K)
  BY <1>2, FS_Union
<1>4. Cardinality(K) \in Nat /\ MaxEntries \in Nat
  BY <1>3, FS_CardinalityType, ConstantsAssumption
<1>5. Cardinality(K) <= MaxEntries
  BY <1>4 DEF Full
<1>6. DOMAIN entries' = K
  OBVIOUS
<1> HIDE DEF K
<1> QED BY <1>1, <1>3, <1>5, <1>6 DEF Typed, TypeOK, K

LEMMA EntryTyped ==
  ASSUME TypeOK, NEW k \in DOMAIN entries
  PROVE  /\ entries[k] \in Entry /\ entries[k].started \in Nat /\ entries[k].count \in Nat
         /\ entries[k] = [started |-> entries[k].started, count |-> entries[k].count]
         /\ Deadline(k) \in Nat
BY ConstantsAssumption DEF TypeOK, Entry, Deadline

LEMMA CountedTyped ==
  ASSUME TypeOK, NEW k
  PROVE  /\ Counted(k) \in Entry
         /\ Counted(k).count = IF k \in Live(now) THEN Count(k) + 1 ELSE 1
         /\ k \in Live(now) /\ Count(k) > 0 => Counted(k).started = entries[k].started
<1>1. CASE k \in Live(now)
  <2>1. k \in DOMAIN entries
    BY <1>1 DEF Live
  <2>2. /\ entries[k].started \in Nat /\ entries[k].count \in Nat
        /\ entries[k] = [started |-> entries[k].started, count |-> entries[k].count]
    BY <2>1, EntryTyped
  <2>3. CASE entries[k].count > 0
    <3>1. Counted(k) = [started |-> entries[k].started, count |-> entries[k].count + 1]
      BY <1>1, <2>2, <2>3 DEF Counted
    <3> QED BY <1>1, <2>1, <2>2, <2>3, <3>1 DEF Count, Entry
  <2>4. CASE ~ (entries[k].count > 0)
    <3>1. entries[k].count = 0
      BY <2>2, <2>4
    <3>2. Counted(k) = [started |-> now, count |-> 1]
      BY <2>4 DEF Counted
    <3> QED BY <1>1, <2>1, <3>1, <3>2 DEF Count, Entry, TypeOK
  <2> QED BY <2>3, <2>4
<1>2. CASE k \notin Live(now)
  BY <1>2 DEF Counted, Entry, TypeOK
<1> QED BY <1>1, <1>2

LEMMA CountTyped ==
  ASSUME TypeOK, NEW k
  PROVE  Count(k) \in Nat
BY EntryTyped DEF Count

(* How the end of an attempt changes what the attempts are.                *)
LEMMA AttemptEnds ==
  ASSUME TypeOK, NEW a \in Attempt, Ends(a)
  PROVE  /\ attempt' \in [Attempt -> Request]
         /\ attempt'[a].checking = FALSE
         /\ \A b \in Attempt \ {a} : attempt'[b] = attempt[b]
BY DEF TypeOK, Request, Ends

----------------------------------------------------------------------------
LEMMA TypedInit == Init => Typed
<1> SUFFICES ASSUME Init PROVE Typed
  OBVIOUS
<1>1. DOMAIN entries = {} /\ entries \in [{} -> Entry]
  BY DEF Init
<1>2. attempt \in [Attempt -> Request]
  BY DEF Init, Request
<1>3. IsFiniteSet(DOMAIN entries) /\ Cardinality(DOMAIN entries) = 0
  BY <1>1, FS_EmptySet
<1>4. Cardinality(DOMAIN entries) <= MaxEntries
  BY <1>3, ConstantsAssumption
<1>5. entries \in [DOMAIN entries -> Entry] /\ DOMAIN entries \subseteq Key /\ now \in Nat
  BY <1>1 DEF Init
<1> QED BY <1>2, <1>3, <1>4, <1>5 DEF Typed, TypeOK

LEMMA PairOfKeys ==
  ASSUME NEW account \in Account, NEW ip \in Ip
  PROVE  {account, ip} \subseteq Key /\ IsFiniteSet({account, ip})
<1>1. IsFiniteSet({account} \cup {ip})
  BY FS_Singleton, FS_Union
<1> QED BY <1>1 DEF Key

LEMMA LiveInTable == \A time : Live(time) \subseteq DOMAIN entries
BY DEF Live

LEMMA TypedNext == Typed /\ [Next]_vars => Typed'
<1> SUFFICES ASSUME Typed, [Next]_vars PROVE Typed'
  OBVIOUS
<1> USE DEF Typed
<1>1. ASSUME NEW account \in Account, NEW ip \in Ip, Refuse(account, ip) PROVE Typed'
  BY <1>1, LiveInTable, KeepTyped DEF Refuse, TypeOK
<1>2. ASSUME NEW account \in Account, NEW ip \in Ip, NEW a \in Attempt, Allow(a, account, ip)
      PROVE  Typed'
  <2> DEFINE keys == {account, ip}
  <2>1. entries' \in [Live(now) \cup keys -> Entry]
    <3>1. \A k \in Live(now) : entries[k] \in Entry
      BY LiveInTable, EntryTyped
    <3>2. [started |-> now, count |-> 0] \in Entry
      BY DEF TypeOK, Entry
    <3> QED BY <1>2, <3>1, <3>2 DEF Allow
  <2>2. attempt' \in [Attempt -> Request]
    BY <1>2 DEF Allow, TypeOK, Request
  <2>3. ~ Full(keys, now) /\ now' \in Nat
    BY <1>2 DEF Allow, Refused, TypeOK
  <2>4. keys \subseteq Key /\ IsFiniteSet(keys)
    BY PairOfKeys
  <2> HIDE DEF keys
  <2> QED BY <2>1, <2>2, <2>3, <2>4, GrowTyped
<1>3. ASSUME NEW a \in Attempt, Fail(a) PROVE Typed'
  <2>1. attempt' \in [Attempt -> Request] /\ now' \in Nat
    BY <1>3, AttemptEnds DEF Fail, TypeOK
  <2>2. CASE Full(Keys(a), now)
    BY <1>3, <2>1, <2>2, LiveInTable, KeepTyped DEF Fail
  <2>3. CASE ~ Full(Keys(a), now)
    <3>1. entries' \in [Live(now) \cup Keys(a) -> Entry]
      <4>1. \A k \in Live(now) : entries[k] \in Entry
        BY LiveInTable, EntryTyped
      <4>2. \A k \in Keys(a) : Counted(k) \in Entry
        BY CountedTyped
      <4> QED BY <1>3, <2>3, <4>1, <4>2 DEF Fail
    <3> QED BY <2>1, <2>3, <3>1, AttemptHasKeys, GrowTyped
  <2> QED BY <2>2, <2>3
<1>4. ASSUME NEW a \in Attempt, Succeed(a) PROVE Typed'
  <2>1. attempt' \in [Attempt -> Request] /\ now' \in Nat
    BY <1>4, AttemptEnds DEF Succeed, TypeOK
  <2> QED BY <1>4, <2>1, KeepTyped DEF Succeed
<1>5. ASSUME NEW a \in Attempt, Cancel(a) PROVE Typed'
  <2>1. attempt' \in [Attempt -> Request] /\ now' \in Nat
    BY <1>5, AttemptEnds DEF Cancel, TypeOK
  <2> QED BY <1>5, <2>1, KeepTyped DEF Cancel
<1>6. CASE Tick
  BY <1>6 DEF Tick, TypeOK
<1>7. CASE UNCHANGED vars
  BY <1>7 DEF vars, TypeOK
<1> QED BY <1>1, <1>2, <1>3, <1>4, <1>5, <1>6, <1>7 DEF Next

LEMMA TypedAlways == Spec => []Typed
BY TypedInit, TypedNext, PTL DEF Spec

(* The table of internal/adminapi never outgrows loginLimiterMaxEntries,   *)
(* although attempts that were given room and lost it report back later.   *)
THEOREM LimiterTypes == Spec => []TypeOK
<1>1. Typed => TypeOK
  BY DEF Typed
<1> QED BY <1>1, TypedAlways, PTL

----------------------------------------------------------------------------
(* A step that counts nothing: what stays, stays as it is.                 *)
LEMMA KeptCount ==
  ASSUME TypeOK, NEW K, K \subseteq DOMAIN entries, entries' = Keep(K), NEW k
  PROVE  /\ Count(k)' \in Nat /\ Count(k)' <= Count(k)
         /\ k \in K => Count(k)' = Count(k)
         /\ k \notin K => Count(k)' = 0
<1>1. Count(k) \in Nat
  BY CountTyped
<1>2. CASE k \in K
  <2>1. Count(k)' = entries[k].count
    BY <1>2 DEF Count, Keep
  <2> QED BY <1>1, <1>2, <2>1 DEF Count
<1>3. CASE k \notin K
  <2>1. Count(k)' = 0
    BY <1>3 DEF Count, Keep
  <2> QED BY <1>1, <1>3, <2>1
<1> QED BY <1>2, <1>3

LEMMA UsingFinite ==
  ASSUME NEW k
  PROVE  /\ IsFiniteSet(Using(k)) /\ Cardinality(Using(k)) \in Nat
         /\ Cardinality(Attempt) \in Nat /\ Cardinality(Using(k)) <= Cardinality(Attempt)
BY ConstantsAssumption, FS_Subset, FS_CardinalityType DEF Using

LEMMA UsingEnds ==
  ASSUME TypeOK, NEW a \in Attempt, Ends(a), NEW k
  PROVE  /\ Using(k)' = Using(k) \ {a}
         /\ a \in Using(k) <=> k \in Keys(a)
         /\ Cardinality(Using(k)') =
              IF k \in Keys(a) THEN Cardinality(Using(k)) - 1 ELSE Cardinality(Using(k))
<1>1. /\ attempt'[a].checking = FALSE
      /\ \A b \in Attempt \ {a} : attempt'[b] = attempt[b]
  BY AttemptEnds
<1>2. Using(k)' = Using(k) \ {a}
  BY <1>1 DEF Using, Checking, Keys
<1>3. a \in Using(k) <=> k \in Keys(a)
  BY DEF Ends, Using
<1> QED BY <1>2, <1>3, UsingFinite, FS_RemoveElement

LEMMA UsingBegins ==
  ASSUME TypeOK, NEW a \in Attempt, NEW account, NEW ip, Allow(a, account, ip), NEW k
  PROVE  Using(k)' = IF k \in {account, ip} THEN Using(k) \cup {a} ELSE Using(k)
<1>1. /\ attempt'[a] = [checking |-> TRUE, account |-> account, ip |-> ip]
      /\ \A b \in Attempt \ {a} : attempt'[b] = attempt[b]
  BY DEF Allow, TypeOK
<1>2. Keys(a)' = {account, ip} /\ Checking(a)' /\ ~ Checking(a)
  BY <1>1 DEF Keys, Checking, Allow
<1> QED BY <1>1, <1>2 DEF Using, Checking, Keys

LEMMA BoundHolds ==
  ASSUME TypeOK, NEW k \in Key
  PROVE  /\ Limit(k) \in Nat \ {0} /\ Cardinality(Attempt) \in Nat
         /\ Count(k) \in Nat /\ Cardinality(Using(k)) \in Nat
BY ConstantsAssumption, CountTyped, UsingFinite DEF Limit

(* What may be counted without a wait is what GuessesAreBounded leaves     *)
(* open: an attempt in progress that fails uses up its own place in it.    *)
LEMMA GuessesNext == Typed /\ GuessesAreBounded /\ [Next]_vars => GuessesAreBounded'
<1> SUFFICES ASSUME Typed, GuessesAreBounded, [Next]_vars, NEW k \in Key
             PROVE  Count(k)' + Cardinality(Using(k)') < Limit(k) + Cardinality(Attempt)
  BY DEF GuessesAreBounded, Limit
<1> DEFINE Goal == Count(k)' + Cardinality(Using(k)') < Limit(k) + Cardinality(Attempt)
<1>0. /\ TypeOK
      /\ Limit(k) \in Nat \ {0} /\ Cardinality(Attempt) \in Nat
      /\ Count(k) \in Nat /\ Cardinality(Using(k)) \in Nat
      /\ Count(k) + Cardinality(Using(k)) < Limit(k) + Cardinality(Attempt)
  BY BoundHolds DEF GuessesAreBounded, Typed
(* It is enough that neither grows.                                        *)
<1>1. ASSUME NEW K, K \subseteq DOMAIN entries, entries' = Keep(K),
             Cardinality(Using(k)') \in Nat, Cardinality(Using(k)') <= Cardinality(Using(k))
      PROVE  Goal
  <2>1. Count(k)' \in Nat /\ Count(k)' <= Count(k)
    BY <1>0, <1>1, KeptCount
  <2> QED BY <1>0, <1>1, <2>1
<1>2. ASSUME attempt' = attempt PROVE Using(k)' = Using(k)
  BY <1>2 DEF Using, Checking, Keys
<1>3. ASSUME NEW a \in Attempt, Ends(a)
      PROVE  Cardinality(Using(k)') \in Nat /\ Cardinality(Using(k)') <= Cardinality(Using(k))
  BY <1>0, <1>3, UsingEnds, FS_CardinalityType, FS_Subset, UsingFinite
<1>4. ASSUME NEW account \in Account, NEW ip \in Ip, Refuse(account, ip) PROVE Goal
  <2>1. Using(k)' = Using(k)
    BY <1>2, <1>4 DEF Refuse
  <2> QED BY <1>0, <1>1, <1>4, <2>1, LiveInTable DEF Refuse
<1>5. ASSUME NEW account \in Account, NEW ip \in Ip, NEW a \in Attempt, Allow(a, account, ip)
      PROVE  Goal
  <2> DEFINE keys == {account, ip}
  <2>1. CASE k \in keys
    <3>1. Using(k)' \in SUBSET Attempt
      BY <1>0, <1>5, <2>1, UsingBegins DEF Using
    <3>2. Cardinality(Using(k)') \in Nat /\ Cardinality(Using(k)') <= Cardinality(Attempt)
      BY <3>1, ConstantsAssumption, FS_Subset, FS_CardinalityType
    <3>3. Count(k)' < Limit(k) /\ Count(k)' \in Nat
      <4>1. entries'[k] = IF k \in Live(now) THEN entries[k] ELSE [started |-> now, count |-> 0]
        BY <1>5, <2>1 DEF Allow
      <4>2. k \in DOMAIN entries'
        BY <1>5, <2>1 DEF Allow
      <4>3. CASE k \in Live(now)
        <5>1. k \in DOMAIN entries /\ ~ (entries[k].count >= Limit(k))
          BY <1>5, <2>1, <4>3 DEF Allow, Refused, Blocked, Live
        <5>2. Count(k)' = Count(k) /\ Count(k) = entries[k].count
          BY <4>1, <4>2, <4>3, <5>1 DEF Count
        <5> QED BY <1>0, <5>1, <5>2
      <4>4. CASE k \notin Live(now)
        <5>1. Count(k)' = 0
          BY <4>1, <4>2, <4>4 DEF Count
        <5> QED BY <1>0, <5>1
      <4> QED BY <4>3, <4>4
    <3> QED BY <1>0, <3>2, <3>3
  <2>2. CASE k \notin keys
    <3>1. Using(k)' = Using(k)
      BY <1>0, <1>5, <2>2, UsingBegins
    <3>2. Count(k)' \in {0, Count(k)}
      BY <1>5, <2>2 DEF Allow, Count, Live
    <3> QED BY <1>0, <3>1, <3>2
  <2> QED BY <2>1, <2>2
<1>6. ASSUME NEW a \in Attempt, Fail(a) PROVE Goal
  <2>1. Ends(a)
    BY <1>6 DEF Fail
  <2>2. CASE Full(Keys(a), now)
    BY <1>1, <1>3, <1>6, <2>1, <2>2, LiveInTable DEF Fail
  <2>3. CASE ~ Full(Keys(a), now)
    <3>1. entries' = [i \in Live(now) \cup Keys(a) |-> IF i \in Keys(a) THEN Counted(i) ELSE entries[i]]
      BY <1>6, <2>3 DEF Fail
    <3>2. CASE k \in Keys(a)
      <4>1. Count(k)' = IF k \in Live(now) THEN Count(k) + 1 ELSE 1
        BY <1>0, <3>1, <3>2, CountedTyped DEF Count
      <4>2. Cardinality(Using(k)') = Cardinality(Using(k)) - 1
        BY <1>0, <2>1, <3>2, UsingEnds
      <4>3. Cardinality(Using(k)) <= Cardinality(Attempt)
        BY UsingFinite
      <4> QED BY <1>0, <4>1, <4>2, <4>3
    <3>3. CASE k \notin Keys(a)
      <4>1. Count(k)' \in {0, Count(k)}
        BY <3>1, <3>3 DEF Count, Live
      <4>2. Cardinality(Using(k)') = Cardinality(Using(k))
        BY <1>0, <2>1, <3>3, UsingEnds
      <4> QED BY <1>0, <4>1, <4>2
    <3> QED BY <3>2, <3>3
  <2> QED BY <2>2, <2>3
<1>7. ASSUME NEW a \in Attempt, Succeed(a) PROVE Goal
  BY <1>1, <1>3, <1>7 DEF Succeed
<1>8. ASSUME NEW a \in Attempt, Cancel(a) PROVE Goal
  BY <1>1, <1>3, <1>8 DEF Cancel
<1>9. CASE Tick \/ UNCHANGED vars
  <2>1. Count(k)' = Count(k) /\ Using(k)' = Using(k)
    BY <1>2, <1>9 DEF Tick, vars, Count
  <2> QED BY <1>0, <2>1
<1> QED BY <1>4, <1>5, <1>6, <1>7, <1>8, <1>9 DEF Next

(* However many attempts overlap between the check of a bucket and the     *)
(* report of its failure, a bucket never counts more than its limit and    *)
(* the other attempts that can be in progress.                             *)
THEOREM GuessesStayBounded == Spec => []GuessesAreBounded
<1>1. Init => GuessesAreBounded
  <2> SUFFICES ASSUME Init, NEW k \in Key
               PROVE  Count(k) + Cardinality(Using(k)) < Limit(k) + Cardinality(Attempt)
    BY DEF GuessesAreBounded
  <2>1. Count(k) = 0
    BY DEF Init, Count
  <2>2. Using(k) = {}
    BY DEF Init, Using, Checking
  <2>3. Cardinality(Using(k)) = 0
    BY <2>2, FS_EmptySet
  <2>4. Limit(k) \in Nat \ {0} /\ Cardinality(Attempt) \in Nat
    BY ConstantsAssumption, FS_CardinalityType DEF Limit
  <2> QED BY <2>1, <2>3, <2>4
<1> QED BY <1>1, GuessesNext, TypedAlways, PTL DEF Spec

----------------------------------------------------------------------------
(* Of the deadlines of two blocked keys one is the last.                   *)
LEMMA LastDeadline ==
  ASSUME TypeOK, NEW account, NEW ip, Blocked({account, ip}, now) # {}
  PROVE  \E t \in {Deadline(k) : k \in Blocked({account, ip}, now)} :
           \A k \in Blocked({account, ip}, now) : Deadline(k) <= t
<1> DEFINE B == Blocked({account, ip}, now)
<1>1. B \subseteq {account, ip} /\ \A k \in B : Deadline(k) \in Nat
  BY EntryTyped DEF Blocked, Live
<1>2. PICK k \in B : \A i \in B : Deadline(i) <= Deadline(k)
  <2>0. B # {}
    OBVIOUS
  <2> HIDE DEF B
  <2>1. CASE account \in B /\ ip \in B
    <3>1. CASE Deadline(account) <= Deadline(ip)
      BY <1>1, <2>1, <3>1
    <3>2. CASE Deadline(ip) <= Deadline(account)
      BY <1>1, <2>1, <3>2
    <3> QED BY <1>1, <2>1, <3>1, <3>2
  <2>2. CASE account \in B /\ ip \notin B
    BY <1>1, <2>2
  <2>3. CASE account \notin B
    BY <1>1, <2>0, <2>3
  <2> QED BY <2>1, <2>2, <2>3
<1> QED BY <1>2

(* The Retry-After of a blocked attempt is exact: it is what the types of  *)
(* the table make of it, in every state.                                   *)
THEOREM RetryAfterStaysExact == Spec => []RetryAfterIsExact
<1>1. TypeOK => RetryAfterIsExact
  <2> SUFFICES ASSUME TypeOK, NEW account \in Account, NEW ip \in Ip,
                      Blocked({account, ip}, now) # {}
               PROVE  /\ \A wait \in 0 .. RetryAfter({account, ip}) - 1 :
                           Refused({account, ip}, now + wait)
                      /\ Blocked({account, ip}, now + RetryAfter({account, ip})) = {}
    BY DEF RetryAfterIsExact
  <2> DEFINE keys == {account, ip}
             B == Blocked(keys, now)
             Last(t) == \A k \in B : Deadline(k) <= t
             last == CHOOSE t \in {Deadline(k) : k \in B} : Last(t)
  <2>1. last \in {Deadline(k) : k \in B} /\ Last(last)
    <3>1. \E t \in {Deadline(k) : k \in B} : Last(t)
      BY LastDeadline
    <3> HIDE DEF B, Last
    <3> QED BY <3>1
  <2>2. RetryAfter(keys) = last - now
    BY DEF RetryAfter
  <2> HIDE DEF last
  <2>3. PICK k \in B : last = Deadline(k)
    BY <2>1
  <2>4. /\ k \in keys /\ k \in DOMAIN entries /\ entries[k].count >= Limit(k)
        /\ now < Deadline(k)
    BY DEF Blocked, Live
  <2>5. now \in Nat /\ last \in Nat /\ now < last /\ RetryAfter(keys) \in Nat
    <3>1. now \in Nat /\ Deadline(k) \in Nat
      BY <2>4, EntryTyped DEF TypeOK
    <3> QED BY <2>2, <2>3, <2>4, <3>1
  <2>6. ASSUME NEW wait \in 0 .. RetryAfter(keys) - 1 PROVE Refused(keys, now + wait)
    <3>1. now + wait < Deadline(k)
      BY <2>2, <2>3, <2>5
    <3> QED BY <2>4, <3>1 DEF Refused, Blocked, Live
  <2>7. ASSUME NEW i \in Blocked(keys, now + RetryAfter(keys)) PROVE FALSE
    <3>1. /\ i \in keys /\ i \in DOMAIN entries /\ entries[i].count >= Limit(i)
          /\ now + RetryAfter(keys) < Deadline(i)
      BY DEF Blocked, Live
    <3>2. Deadline(i) \in Nat /\ last < Deadline(i) /\ now < Deadline(i)
      BY <2>2, <2>5, <3>1, EntryTyped
    <3>3. i \in B
      BY <3>1, <3>2 DEF Blocked, Live
    <3>4. Deadline(i) <= last
      BY <2>1, <3>3
    <3> QED BY <2>5, <3>2, <3>4
  <2> QED BY <2>6, <2>7
<1> QED BY <1>1, LimiterTypes, PTL

----------------------------------------------------------------------------
(* What a step leaves of an entry that is live and counts something.       *)
LEMMA LiveEntryStays ==
  ASSUME TypeOK, Next, NEW k \in DOMAIN entries, now < Deadline(k), Count(k) > 0
  PROVE  \/ k \in DOMAIN entries' /\ entries'[k] = entries[k]
         \/ /\ k \in DOMAIN entries' /\ Count(k)' = Count(k) + 1
            /\ entries'[k].started = entries[k].started
         \/ k \in Account /\ \E a \in Using(k) : Succeed(a)
<1> DEFINE Same == k \in DOMAIN entries' /\ entries'[k] = entries[k]
<1>0. k \in Live(now) /\ entries[k].count = Count(k) /\ Count(k) \in Nat
  BY CountTyped DEF Live, Count
<1>1. ASSUME NEW account \in Account, NEW ip \in Ip, Refuse(account, ip) PROVE Same
  BY <1>0, <1>1 DEF Refuse, Keep
<1>2. ASSUME NEW account \in Account, NEW ip \in Ip, NEW a \in Attempt, Allow(a, account, ip)
      PROVE  Same
  BY <1>0, <1>2 DEF Allow
<1>3. ASSUME NEW a \in Attempt, Fail(a)
      PROVE  \/ Same
             \/ /\ k \in DOMAIN entries' /\ Count(k)' = Count(k) + 1
                /\ entries'[k].started = entries[k].started
  <2>1. CASE Full(Keys(a), now)
    BY <1>0, <1>3, <2>1 DEF Fail, Keep
  <2>2. CASE ~ Full(Keys(a), now)
    <3>1. k \in DOMAIN entries' /\ entries'[k] = IF k \in Keys(a) THEN Counted(k) ELSE entries[k]
      BY <1>0, <1>3, <2>2 DEF Fail
    <3>2. Count(k)' = entries'[k].count
      BY <3>1 DEF Count
    <3> QED BY <1>0, <3>1, <3>2, CountedTyped
  <2> QED BY <2>1, <2>2
<1>4. ASSUME NEW a \in Attempt, Succeed(a)
      PROVE  Same \/ (k \in Account /\ \E b \in Using(k) : Succeed(b))
  <2>1. k \notin Unused(a)
    BY <1>0 DEF Unused
  <2>2. CASE k = attempt[a].account
    <3>1. a \in Using(k) /\ k \in Account
      BY <1>4, <2>2, AttemptHasKeys DEF Succeed, Ends, Using, Keys
    <3> QED BY <1>4, <3>1
  <2>3. CASE k # attempt[a].account
    BY <1>4, <2>1, <2>3 DEF Succeed, Keep
  <2> QED BY <2>2, <2>3
<1>5. ASSUME NEW a \in Attempt, Cancel(a) PROVE Same
  <2>1. k \notin Unused(a)
    BY <1>0 DEF Unused
  <2> QED BY <1>5, <2>1 DEF Cancel, Keep
<1>6. CASE Tick
  BY <1>6 DEF Tick
<1> QED BY <1>1, <1>2, <1>3, <1>4, <1>5, <1>6 DEF Next

(* loginLimiter forgets failures only after their window, or those of an   *)
(* account by a success on it.                                             *)
THEOREM OnlyTimeOrSuccessEverForgives == Spec => OnlyTimeOrSuccessForgives
<1> DEFINE Forgiven(k) == \/ now >= Deadline(k)
                          \/ k \in Account /\ \E a \in Using(k) : Succeed(a)
           Step == \A k \in Key : Count(k)' < Count(k) => Forgiven(k)
<1>1. Typed /\ Typed' /\ [Next]_vars => [Step]_vars
  <2> SUFFICES ASSUME TypeOK, TypeOK', Next, NEW k \in Key, Count(k)' < Count(k)
               PROVE  Forgiven(k)
    BY DEF Typed
  <2>1. Count(k) \in Nat /\ Count(k)' \in Nat
    <3>1. Count(k)' \in Nat
      BY DEF TypeOK, Entry, Count
    <3> QED BY <3>1, CountTyped
  <2>2. k \in DOMAIN entries /\ Count(k) > 0
    BY <2>1 DEF Count
  <2>3. CASE now < Deadline(k)
    <3>1. CASE k \in DOMAIN entries' /\ entries'[k] = entries[k]
      BY <2>1, <2>2, <3>1 DEF Count
    <3> QED BY <2>1, <2>2, <2>3, <3>1, LiveEntryStays
  <2>4. CASE ~ (now < Deadline(k))
    BY <2>2, <2>4, EntryTyped DEF TypeOK
  <2> QED BY <2>3, <2>4
<1> QED BY <1>1, TypedAlways, PTL DEF Spec, OnlyTimeOrSuccessForgives

(* Failures that are reported late do not move the window of their bucket. *)
THEOREM WindowStaysFixed == Spec => WindowIsFixed
<1> DEFINE Step == \A k \in DOMAIN entries :
                     Count(k) > 0 /\ Count(k)' > Count(k) /\ now < Deadline(k) =>
                       entries'[k].started = entries[k].started
<1>1. Typed /\ [Next]_vars => [Step]_vars
  <2> SUFFICES ASSUME TypeOK, Next, NEW k \in DOMAIN entries,
                      Count(k) > 0, Count(k)' > Count(k), now < Deadline(k)
               PROVE  entries'[k].started = entries[k].started
    BY DEF Typed
  <2>1. CASE k \in Account /\ \E a \in Using(k) : Succeed(a)
    <3>1. PICK a \in Using(k) : Succeed(a)
      BY <2>1
    <3>2. DOMAIN entries \ (Unused(a) \cup {attempt[a].account}) \subseteq DOMAIN entries
      OBVIOUS
    <3>3. Count(k)' <= Count(k) /\ Count(k)' \in Nat /\ Count(k) \in Nat
      BY <3>1, <3>2, KeptCount, CountTyped DEF Succeed
    <3> QED BY <3>3
  <2> QED BY <2>1, LiveEntryStays
<1> QED BY <1>1, TypedAlways, PTL DEF Spec, WindowIsFixed

(* A reservation goes with the last attempt it was made for, unless that   *)
(* one failed and the table had no room to count it.                       *)
THEOREM ReservationsAreAlwaysReturned == Spec => ReservationsAreReturned
<1> DEFINE Uncounted == \E a \in Attempt : Fail(a) /\ Full(Keys(a), now)
           Step == Stray' \subseteq Stray \/ Uncounted
<1>1. Typed /\ [Next]_vars => [Step]_vars
  <2> SUFFICES ASSUME TypeOK, Next, NEW k \in Stray', ~ Uncounted
               PROVE  k \in Stray
    BY DEF Typed
  <2>0. /\ k \in DOMAIN entries' /\ now' < entries'[k].started + Window
        /\ entries'[k].count = 0 /\ Using(k)' = {}
    BY DEF Stray, Live, Deadline
  (* It is enough that the entry is an old one, and was not used.           *)
  <2>1. ASSUME k \in DOMAIN entries, entries'[k] = entries[k], now' = now,
               Using(k)' = Using(k)
        PROVE  k \in Stray
    BY <2>0, <2>1 DEF Stray, Live, Deadline
  <2>2. ASSUME NEW account \in Account, NEW ip \in Ip, Refuse(account, ip)
        PROVE  k \in Stray
    <3>1. Using(k)' = Using(k)
      BY <2>2 DEF Refuse, Using, Checking, Keys
    <3> QED BY <2>0, <2>1, <2>2, <3>1, LiveInTable DEF Refuse, Keep
  <2>3. ASSUME NEW account \in Account, NEW ip \in Ip, NEW a \in Attempt, Allow(a, account, ip)
        PROVE  k \in Stray
    <3>1. k \notin {account, ip} /\ Using(k)' = Using(k)
      BY <2>0, <2>3, UsingBegins
    <3>2. k \in Live(now) /\ entries'[k] = entries[k] /\ now' = now
      BY <2>0, <2>3, <3>1 DEF Allow
    <3> QED BY <2>1, <3>1, <3>2, LiveInTable
  <2>4. ASSUME NEW a \in Attempt, Fail(a) PROVE k \in Stray
    <3>1. entries' = [i \in Live(now) \cup Keys(a) |-> IF i \in Keys(a) THEN Counted(i) ELSE entries[i]]
      BY <2>4 DEF Fail
    <3>2. k \notin Keys(a)
      <4>1. ASSUME k \in Keys(a) PROVE FALSE
        <5>1. Counted(k).count = 0
          BY <2>0, <3>1, <4>1
        <5> QED BY <5>1, CountedTyped, CountTyped
      <4> QED BY <4>1
    <3>3. Using(k)' = Using(k)
      BY <2>4, <3>2, UsingEnds DEF Fail
    <3>4. k \in Live(now) /\ entries'[k] = entries[k] /\ now' = now
      BY <2>0, <2>4, <3>1, <3>2 DEF Fail
    <3> QED BY <2>1, <3>3, <3>4, LiveInTable
  <2>5. ASSUME NEW a \in Attempt, Ends(a), NEW K, K \subseteq DOMAIN entries \ Unused(a),
               entries' = Keep(K), now' = now
        PROVE  k \in Stray
    <3>1. k \in DOMAIN entries /\ k \notin Unused(a) /\ entries'[k] = entries[k]
      BY <2>0, <2>5 DEF Keep
    <3>2. k \notin Keys(a)
      BY <2>0, <3>1 DEF Unused
    <3>3. Using(k)' = Using(k)
      BY <2>5, <3>2, UsingEnds
    <3> QED BY <2>1, <2>5, <3>1, <3>3
  <2>6. ASSUME NEW a \in Attempt, Succeed(a) \/ Cancel(a) PROVE k \in Stray
    BY <2>5, <2>6 DEF Succeed, Cancel
  <2>7. CASE Tick
    <3>1. Using(k)' = Using(k) /\ entries' = entries /\ now' = now + 1
      BY <2>7 DEF Tick, Using, Checking, Keys
    <3>2. k \in DOMAIN entries /\ Deadline(k) \in Nat /\ now \in Nat
      BY <2>0, <3>1, EntryTyped DEF TypeOK
    <3> QED BY <2>0, <3>1, <3>2 DEF Stray, Live, Deadline
  <2> QED BY <2>2, <2>3, <2>4, <2>6, <2>7 DEF Next
<1> QED BY <1>1, TypedAlways, PTL DEF Spec, ReservationsAreReturned
=============================================================================
