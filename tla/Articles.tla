------------------------------ MODULE Articles ------------------------------
(***************************************************************************)
(* The article service of internal/article and its handlers in             *)
(* internal/adminapi.  Each request reads the row, checks it, then writes  *)
(* everything it decided from what it read (status, address, version) in   *)
(* one transaction guarded only by the version, and reads the row again    *)
(* for its answer.  Requests of several tabs interleave between any two of *)
(* these steps, and any of them may fail.                                  *)
(***************************************************************************)
EXTENDS Integers

CONSTANTS
  Article, Body, NoBody, Address, NoAddress, MaxVersion,
  ValidBody,    \* bodies that render and whose images are all stored
  Handler       \* requests in progress at once

ASSUME ConstantsAssumption ==
  /\ NoBody \notin Body /\ NoAddress \notin Address /\ MaxVersion \in Nat
  /\ ValidBody \subseteq Body

VARIABLES
  row,          \* table articles, with the article_media rows of each
  handler,      \* the requests
  minted        \* every ULID ever generated, stored or not

vars == <<row, handler, minted>>

Records == INSTANCE ArticleRecords

Text == Body \cup {NoBody}

(* seen is the row as the request read it.                                 *)
Request == [step : {"idle", "checked", "written"},
            op : {"save", "publish", "withdraw"}, article : Article,
            seen : Records!Row, body : Text, address : Address \cup {NoAddress}]

TypeOK ==
  /\ Records!RowsOK
  /\ handler \in [Handler -> Request]
  /\ \A h \in Handler : handler[h].op = "publish" =>
       handler[h].body \in Body /\ handler[h].address \in Address
  /\ minted \subseteq Address

Init ==
  /\ Records!Init
  /\ \E a \in Article :
       handler = [h \in Handler |->
                    [step |-> "idle", op |-> "save", article |-> a, seen |-> row[a],
                     body |-> NoBody, address |-> NoAddress]]
  /\ minted = {}

----------------------------------------------------------------------------
Idle(h) == handler[h].step = "idle"

(* CreateDraft: a single transaction.                                      *)
Create(a, body) ==
  /\ row[a].version = 0
  /\ body \in ValidBody \cup {NoBody}
  /\ row' = [row EXCEPT ![a] = [@ EXCEPT !.version = 1, !.body = body]]
  /\ UNCHANGED <<handler, minted>>

(* The request got past its checks of the row it read; a request that does *)
(* not (another version, a blank body, a draft to withdraw) changes        *)
(* nothing.                                                                *)
Checked(h, op, a, body, address) ==
  /\ Idle(h)
  /\ Records!Exists(a)
  /\ handler' = [handler EXCEPT ![h] =
       [step |-> "checked", op |-> op, article |-> a, seen |-> row[a],
        body |-> body, address |-> address]]
  /\ UNCHANGED row

(* A wrong BeginSave: a published article may lose its body.               *)
BeginAnySave(h, a, body) ==
  /\ Checked(h, "save", a, body, row[a].address)
  /\ UNCHANGED minted

BeginSave(h, a, body) ==
  /\ row[a].status = "published" => body # NoBody
  /\ Checked(h, "save", a, body, row[a].address)
  /\ UNCHANGED minted

(* Wrong BeginPublish: of a blank body; with a new address every time.     *)
PublishBlank(h, a, body) ==
  \E address \in Address \ minted :
    /\ row[a].address = NoAddress
    /\ Checked(h, "publish", a, body, address)
    /\ minted' = minted \cup {address}

PublishElsewhere(h, a, body) ==
  /\ body # NoBody
  /\ \E address \in Address \ minted :
       /\ Checked(h, "publish", a, body, address)
       /\ minted' = minted \cup {address}

(* A first publication generates its ULID before it writes.                *)
BeginPublish(h, a, body) ==
  /\ body # NoBody
  /\ \/ /\ row[a].address # NoAddress
        /\ Checked(h, "publish", a, body, row[a].address)
        /\ UNCHANGED minted
     \/ /\ row[a].address = NoAddress
        /\ \E address \in Address \ minted :
             /\ Checked(h, "publish", a, body, address)
             /\ minted' = minted \cup {address}

BeginWithdraw(h, a) ==
  /\ row[a].status = "published"
  /\ Checked(h, "withdraw", a, row[a].body, row[a].address)
  /\ UNCHANGED minted

----------------------------------------------------------------------------
(* A wrong SameVersion: WHERE id = ? alone.                                *)
AnyVersion(h) == row[handler[h].article].version > 0

(* WHERE id = ? AND version = ?                                            *)
SameVersion(h) == row[handler[h].article].version = handler[h].seen.version

(* A wrong Written: the version stays.                                     *)
WrittenInPlace(h, status, body, address) ==
  /\ handler[h].step = "checked"
  /\ SameVersion(h)
  /\ handler[h].seen.version < MaxVersion
  /\ row' = [row EXCEPT ![handler[h].article] =
               [version |-> handler[h].seen.version, status |-> status,
                body |-> body, address |-> address]]
  /\ handler' = [handler EXCEPT ![h].step = "written"]
  /\ UNCHANGED minted

Written(h, status, body, address) ==
  /\ handler[h].step = "checked"
  /\ SameVersion(h)
  /\ handler[h].seen.version < MaxVersion
  /\ row' = [row EXCEPT ![handler[h].article] =
               [version |-> handler[h].seen.version + 1, status |-> status,
                body |-> body, address |-> address]]
  /\ handler' = [handler EXCEPT ![h].step = "written"]
  /\ UNCHANGED minted

(* UpdateArticleWithMedia: the row and its media references, or nothing.   *)
(* The status and the address written are those decided at the check.      *)
WriteUpdate(h) ==
  LET req == handler[h] IN
  /\ req.op \in {"save", "publish"}
  /\ req.body \in ValidBody \cup {NoBody}
  /\ Written(h, IF req.op = "publish" THEN "published" ELSE req.seen.status,
             req.body, req.address)

(* WithdrawArticle: one UPDATE that also requires status = 'published'.    *)
WriteWithdraw(h) ==
  LET now == row[handler[h].article] IN
  /\ handler[h].op = "withdraw"
  /\ now.status = "published"
  /\ Written(h, "draft", now.body, now.address)

(* Version conflict, missing image or a failing statement: rolled back.    *)
Reject(h) ==
  /\ handler[h].step = "checked"
  /\ handler' = [handler EXCEPT ![h].step = "idle"]
  /\ UNCHANGED <<row, minted>>

(* The row is read again and answered, or that read fails: the request is  *)
(* over either way and its write stays.                                    *)
Answer(h) ==
  /\ handler[h].step = "written"
  /\ handler' = [handler EXCEPT ![h].step = "idle"]
  /\ UNCHANGED <<row, minted>>

Begin(h) ==
  \E a \in Article :
    \/ BeginWithdraw(h, a)
    \/ \E body \in Text : BeginSave(h, a, body) \/ BeginPublish(h, a, body)

Next ==
  \/ \E a \in Article, body \in Text : Create(a, body)
  \/ \E h \in Handler :
       Begin(h) \/ WriteUpdate(h) \/ WriteWithdraw(h) \/ Reject(h) \/ Answer(h)

Spec == Init /\ [][Next]_vars

----------------------------------------------------------------------------
(* The separate reads and writes behave as if each operation were one step *)
(* on the row it changes: every status, address and body check still holds *)
(* when the transaction commits.                                           *)
Implements == Records!Spec

(* The version stands for the whole row: a request that still finds its    *)
(* version finds everything else it read and decided upon, too.            *)
VersionNamesRow ==
  \A h \in Handler :
    handler[h].step = "checked" /\ SameVersion(h) =>
      row[handler[h].article] = handler[h].seen

(* What the abstract records promise holds of the service.                 *)
PublishedIsWhole == Records!PublishedIsWhole
AddressIsPermanent == Records!AddressIsPermanent
=============================================================================
