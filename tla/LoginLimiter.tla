---------------------------- MODULE LoginLimiter ----------------------------
(***************************************************************************)
(* The login limiter of internal/adminapi: one table of failure counts by  *)
(* account and by client address, behind a mutex.  An attempt asks the     *)
(* table for leave, checks the password without holding the mutex, and     *)
(* then reports how that went, so that attempts overlap.  Logins and       *)
(* reauthentications use it alike.                                         *)
(***************************************************************************)
EXTENDS Integers, FiniteSets

CONSTANTS
  Account, Ip,      \* the keys of the table (loginLimitKey, by kind)
  Attempt,          \* requests at once
  Window,           \* loginFailureWindow
  AccountLimit,     \* loginFailureLimit
  IpLimit,          \* loginIPFailureLimit
  MaxEntries,       \* loginLimiterMaxEntries
  MaxTime           \* bound: the clock stops here

ASSUME ConstantsAssumption ==
  /\ Account \cap Ip = {} /\ IsFiniteSet(Attempt)
  /\ Window \in Nat \ {0}
  /\ AccountLimit \in Nat \ {0} /\ IpLimit \in Nat \ {0}
  /\ MaxEntries \in Nat /\ MaxTime \in Nat

Key == Account \cup Ip

VARIABLES
  entries,   \* the table: a function on the keys it holds
  now,       \* the clock
  attempt    \* what each request asked leave for, while it has it

vars == <<entries, now, attempt>>

Entry == [started : Nat, count : Nat]

Request == [checking : BOOLEAN, account : Account, ip : Ip]

(* The table never outgrows its bound, although attempts that were given   *)
(* room and lost it report back later.                                     *)
TypeOK ==
  /\ DOMAIN entries \subseteq Key
  /\ Cardinality(DOMAIN entries) <= MaxEntries
  /\ entries \in [DOMAIN entries -> Entry]
  /\ now \in Nat
  /\ attempt \in [Attempt -> Request]

Init ==
  /\ entries = [k \in {} |-> [started |-> 0, count |-> 0]]
  /\ now = 0
  /\ \E account \in Account, ip \in Ip :
       attempt = [a \in Attempt |->
                    [checking |-> FALSE, account |-> account, ip |-> ip]]

----------------------------------------------------------------------------
Limit(k) == IF k \in Ip THEN IpLimit ELSE AccountLimit

Count(k) == IF k \in DOMAIN entries THEN entries[k].count ELSE 0

Deadline(k) == entries[k].started + Window

(* What pruneExpiredLocked leaves at a time.                               *)
Live(time) == {k \in DOMAIN entries : time < Deadline(k)}

Keep(K) == [k \in K |-> entries[k]]

(* A wrong one: one failure too many passes.                               *)
BlockedLate(keys, time) ==
  {k \in keys \cap Live(time) : entries[k].count > Limit(k)}

Blocked(keys, time) == {k \in keys \cap Live(time) : entries[k].count >= Limit(k)}

Full(keys, time) == Cardinality(Live(time) \cup keys) > MaxEntries

Refused(keys, time) == Blocked(keys, time) # {} \/ Full(keys, time)

(* A wrong RetryAfter: the first of the deadlines.                         *)
FirstDeadline(keys) ==
  (CHOOSE t \in {Deadline(k) : k \in Blocked(keys, now)} :
     \A k \in Blocked(keys, now) : Deadline(k) >= t) - now

(* retryAfter of allow when a bucket is the reason: the last of the        *)
(* deadlines.                                                              *)
RetryAfter(keys) ==
  (CHOOSE t \in {Deadline(k) : k \in Blocked(keys, now)} :
     \A k \in Blocked(keys, now) : Deadline(k) <= t) - now

----------------------------------------------------------------------------
Keys(a) == {attempt[a].account, attempt[a].ip}

Checking(a) == attempt[a].checking

Ends(a) ==
  /\ Checking(a)
  /\ attempt' = [attempt EXCEPT ![a].checking = FALSE]

(* allow, blocked: only what has expired goes.                             *)
Refuse(account, ip) ==
  /\ Refused({account, ip}, now)
  /\ entries' = Keep(Live(now))
  /\ UNCHANGED <<now, attempt>>

(* A wrong Allow: the table has no room to be kept to.                     *)
AllowAlways(a, account, ip) ==
  LET keys == {account, ip} IN
  /\ ~ Checking(a)
  /\ Blocked(keys, now) = {}
  /\ entries' = [k \in Live(now) \cup keys |->
                   IF k \in Live(now) THEN entries[k] ELSE [started |-> now, count |-> 0]]
  /\ attempt' = [attempt EXCEPT ![a] =
                   [checking |-> TRUE, account |-> account, ip |-> ip]]
  /\ UNCHANGED now

(* allow: the keys the table does not hold yet are reserved with 0.        *)
Allow(a, account, ip) ==
  LET keys == {account, ip} IN
  /\ ~ Checking(a)
  /\ ~ Refused(keys, now)
  /\ entries' = [k \in Live(now) \cup keys |->
                   IF k \in Live(now) THEN entries[k] ELSE [started |-> now, count |-> 0]]
  /\ attempt' = [attempt EXCEPT ![a] =
                   [checking |-> TRUE, account |-> account, ip |-> ip]]
  /\ UNCHANGED now

(* A wrong Counted: every failure starts the window again.                 *)
CountedAnew(k) == [started |-> now, count |-> Count(k) + 1]

(* failure: the first one counted starts the window of its bucket.         *)
Counted(k) ==
  IF k \in Live(now) /\ entries[k].count > 0
  THEN [entries[k] EXCEPT !.count = @ + 1]
  ELSE [started |-> now, count |-> 1]

(* The password was wrong.  With no room for a bucket that has meanwhile   *)
(* gone from the table, neither is counted.                                *)
Fail(a) ==
  /\ Ends(a)
  /\ entries' = IF Full(Keys(a), now) THEN Keep(Live(now))
                ELSE [k \in Live(now) \cup Keys(a) |->
                        IF k \in Keys(a) THEN Counted(k) ELSE entries[k]]
  /\ UNCHANGED now

Unused(a) == {k \in Keys(a) \cap DOMAIN entries : entries[k].count = 0}

(* A wrong Succeed: the failures of the address are forgiven, too.         *)
SucceedForAll(a) ==
  /\ Ends(a)
  /\ entries' = Keep(DOMAIN entries \ Keys(a))
  /\ UNCHANGED now

(* success: the account is forgiven.                                       *)
Succeed(a) ==
  /\ Ends(a)
  /\ entries' = Keep(DOMAIN entries \ (Unused(a) \cup {attempt[a].account}))
  /\ UNCHANGED now

(* A wrong Cancel: the reservations stay.                                  *)
CancelNothing(a) ==
  /\ Ends(a)
  /\ UNCHANGED <<entries, now>>

(* cancel: the check could not be made.                                    *)
Cancel(a) ==
  /\ Ends(a)
  /\ entries' = Keep(DOMAIN entries \ Unused(a))
  /\ UNCHANGED now

Tick ==
  /\ now < MaxTime
  /\ now' = now + 1
  /\ UNCHANGED <<entries, attempt>>

Next ==
  \/ \E account \in Account, ip \in Ip :
       \/ Refuse(account, ip)
       \/ \E a \in Attempt : Allow(a, account, ip)
  \/ \E a \in Attempt : Fail(a) \/ Succeed(a) \/ Cancel(a)
  \/ Tick

Spec == Init /\ [][Next]_vars

----------------------------------------------------------------------------
(* The attempts in progress on a key.                                      *)
Using(k) == {a \in Attempt : Checking(a) /\ k \in Keys(a)}

(* Overlapping attempts pass the same check before any of them is counted; *)
(* yet in one window a bucket never counts more failures than its limit    *)
(* and the other attempts that can be in progress at once.                 *)
GuessesAreBounded ==
  \A k \in Key :
    Count(k) + Cardinality(Using(k)) < Limit(k) + Cardinality(Attempt)

(* Failures are forgotten only when their window is over or, those of an   *)
(* account, by a success on that account: never by a success elsewhere, by *)
(* an attempt that is cancelled, or for want of room.                      *)
OnlyTimeOrSuccessForgives ==
  [][\A k \in Key :
       Count(k)' < Count(k) =>
         \/ now >= Deadline(k)
         \/ k \in Account /\ \E a \in Using(k) : Succeed(a)]_vars

(* A bucket stays blocked exactly until the window of its first failure is *)
(* over: failures reported late do not move it.                            *)
WindowIsFixed ==
  [][\A k \in DOMAIN entries :
       Count(k) > 0 /\ Count(k)' > Count(k) /\ now < Deadline(k) =>
         entries'[k].started = entries[k].started]_vars

(* A live entry that counts nothing stands for attempts in progress.  When *)
(* the last of them ends it goes, too, unless that attempt failed and the  *)
(* table had no room to count it.                                          *)
Stray == {k \in Live(now) : entries[k].count = 0 /\ Using(k) = {}}

ReservationsAreReturned ==
  [][Stray' \subseteq Stray
       \/ \E a \in Attempt : Fail(a) /\ Full(Keys(a), now)]_vars

(* The answer to a blocked attempt says exactly how long to wait: until    *)
(* then every attempt would be refused again, and from then on only for    *)
(* want of room or for new failures.                                       *)
RetryAfterIsExact ==
  \A account \in Account, ip \in Ip :
    LET keys == {account, ip} IN
    Blocked(keys, now) # {} =>
      /\ \A wait \in 0 .. RetryAfter(keys) - 1 : Refused(keys, now + wait)
      /\ Blocked(keys, now + RetryAfter(keys)) = {}
=============================================================================
