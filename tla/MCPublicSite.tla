--------------------------- MODULE MCPublicSite ---------------------------
EXTENDS PublicSite, TLC

CONSTANTS m1, m2, plain, other, word

Heading(level, slug) == [kind |-> "heading", level |-> level, slug |-> slug]
Image(asset, alt) == [kind |-> "image", asset |-> asset, alt |-> alt]

(* Headings whose words meet the numbers given to others, and one image    *)
(* twice; a document with another image; and three that are refused.       *)
Numbered ==
  <<Heading(2, <<word>>), Image(m1, plain), Heading(3, <<word, 2>>), Heading(2, <<word>>),
    Image(m1, plain), Heading(4, <<word>>)>>
Illustrated == <<Image(m2, plain), Image(m1, other)>>

Documents ==
  {<<>>, Numbered, Illustrated, <<Image(Elsewhere, plain)>>, <<Image(m1, BadAlt)>>,
   <<Image(m1, plain), Image(m1, other)>>}

Symmetry == Permutations(Article) \cup Permutations(Project)
=============================================================================
