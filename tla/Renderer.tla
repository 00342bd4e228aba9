------------------------------ MODULE Renderer ------------------------------
(***************************************************************************)
(* What internal/markdown derives from a document.  A document is the      *)
(* sequence of its headings and images, the nodes with a meaning beyond    *)
(* their text.  A slug, and the id made of it, is the sequence of what its *)
(* hyphens separate, so that the second "a" and a heading "a 2" both ask   *)
(* for a-2.                                                                *)
(***************************************************************************)
EXTENDS Integers, Sequences, FiniteSets

CONSTANTS
  Asset,       \* what an exact reference to an image of this site can name
  Elsewhere,   \* any other destination of an image
  PlainAlt,    \* alternative texts that are not blank, plain and short
  BadAlt,      \* any other
  Word         \* what the hyphens of a slug separate, other than numbers

Node == [kind : {"heading"}, level : 1 .. 6, slug : Seq(Word \cup Nat)]
   \cup [kind : {"image"}, asset : Asset \cup {Elsewhere}, alt : PlainAlt \cup {BadAlt}]

Images(doc) == {p \in DOMAIN doc : doc[p].kind = "image"}

(* Only h2 and h3 get an id and an entry in the table of contents.         *)
Headings(doc) == {p \in DOMAIN doc : doc[p].kind = "heading" /\ doc[p].level \in {2, 3}}

ValidateMediaDestination(image) == image.asset \in Asset
ValidateImageAlt(image) == image.alt \in PlainAlt

(* A document is refused for an image that is not of this site, has no     *)
(* plain alternative text, or has another one elsewhere in the document.   *)
Renders(doc) ==
  \A p \in Images(doc) :
    /\ ValidateMediaDestination(doc[p]) /\ ValidateImageAlt(doc[p])
    /\ \A q \in Images(doc) : doc[p].asset = doc[q].asset => doc[p].alt = doc[q].alt

(* ast.Walk: in the order of first appearance, each image once.            *)
MediaReferences(doc) ==
  LET after[n \in 0 .. Len(doc)] ==
        IF n = 0 THEN <<>>
        ELSE LET refs == after[n - 1] IN
             IF n \notin Images(doc) \/ \E i \in DOMAIN refs : refs[i].asset = doc[n].asset
             THEN refs
             ELSE Append(refs, [asset |-> doc[n].asset, alt |-> doc[n].alt])
  IN  after[Len(doc)]

(* base, or the first of base-2, base-3, ... that is not taken.            *)
UniqueHeadingID(base, used) ==
  IF base \notin used THEN base
  ELSE LET free == {n \in 2 .. Cardinality(used) + 2 : Append(base, n) \notin used}
       IN  Append(base, CHOOSE n \in free : \A m \in free : n <= m)

(* ast.Walk: the table of contents; the same ids, in the same order, are   *)
(* the id attributes of the headings in the HTML.                          *)
TOC(doc) ==
  LET after[n \in 0 .. Len(doc)] ==
        IF n = 0 THEN <<>>
        ELSE LET items == after[n - 1] IN
             IF n \notin Headings(doc) THEN items
             ELSE Append(items,
                    [id |-> UniqueHeadingID(doc[n].slug, {items[i].id : i \in DOMAIN items}),
                     level |-> doc[n].level])
  IN  after[Len(doc)]

(* newHTMLPolicy: an image keeps its source when it is one of this site.   *)
KeepsSource(image) == image.asset \in Asset

(* What a browser will ask for when it shows the HTML.                     *)
HTMLImages(doc) == {doc[p].asset : p \in {p \in Images(doc) : KeepsSource(doc[p])}}
=============================================================================
