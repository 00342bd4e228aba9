--------------------------- MODULE ArticleRecords ---------------------------
(***************************************************************************)
(* What the article service promises, with no request, no concurrency and  *)
(* no failure in sight: an article changes only by one of four whole       *)
(* operations, each of them legal in the very state it changes.            *)
(* internal/article reaches this with separate reads and writes; module    *)
(* Articles models those and is checked to implement this one.             *)
(***************************************************************************)
EXTENDS Integers

CONSTANTS
  Article,      \* article ids
  Body,         \* Markdown bodies that are not blank
  NoBody,       \* a body that is NULL or blank
  Address,      \* public ULIDs
  NoAddress,    \* public_ulid IS NULL
  MaxVersion    \* bound: no article is changed past this version

VARIABLE row    \* table articles; version 0 for one never created

(* address stands for public_ulid and first_published_at, which are set    *)
(* together and never apart; body for the title, the body, what is derived *)
(* from it and its rows of article_media, which one transaction replaces.  *)
Row == [version : Nat, status : {"draft", "published"},
        body : Body \cup {NoBody}, address : Address \cup {NoAddress}]

RowsOK == row \in [Article -> Row]

Exists(a) == row[a].version > 0

Taken == {row[a].address : a \in Article}

Init == row = [a \in Article |-> [version |-> 0, status |-> "draft",
                                  body |-> NoBody, address |-> NoAddress]]

Create(a, body) ==
  /\ ~ Exists(a)
  /\ row' = [row EXCEPT ![a] = [@ EXCEPT !.version = 1, !.body = body]]

Changed(a) == [row[a] EXCEPT !.version = @ + 1]

(* A published article keeps a body.                                       *)
Save(a, body) ==
  /\ Exists(a)
  /\ row[a].status = "published" => body # NoBody
  /\ row' = [row EXCEPT ![a] = [Changed(a) EXCEPT !.body = body]]

(* Publishing gives an address once and for all.                           *)
Publish(a, body, address) ==
  /\ Exists(a)
  /\ body # NoBody
  /\ IF row[a].address = NoAddress THEN address \in Address \ Taken
                                   ELSE address = row[a].address
  /\ row' = [row EXCEPT ![a] = [Changed(a) EXCEPT !.status = "published",
                                                  !.body = body, !.address = address]]

Withdraw(a) ==
  /\ row[a].status = "published"
  /\ row' = [row EXCEPT ![a] = [Changed(a) EXCEPT !.status = "draft"]]

Next ==
  \E a \in Article :
    \/ Withdraw(a)
    \/ \E body \in Body \cup {NoBody} :
         \/ Create(a, body) \/ Save(a, body)
         \/ \E address \in Address : Publish(a, body, address)

Spec == Init /\ [][Next]_row

----------------------------------------------------------------------------
(* Whatever readers can open is whole: it has a body and an address, and   *)
(* no other article has that address (chk_articles_published_fields and    *)
(* uq_articles_public_ulid are never what stops a write).                  *)
PublishedIsWhole ==
  \A a \in Article : row[a].status = "published" =>
    /\ row[a].body # NoBody
    /\ row[a].address # NoAddress
    /\ \A b \in Article \ {a} : row[b].address # row[a].address

(* An address, once given, is the article's for ever: through saves,       *)
(* withdrawals and publishing again, by whatever requests.                 *)
AddressIsPermanent ==
  [][\A a \in Article : row[a].address # NoAddress =>
       row'[a].address = row[a].address]_row
=============================================================================
