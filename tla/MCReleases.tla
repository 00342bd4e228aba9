---------------------------- MODULE MCReleases ----------------------------
(* Releases of two configurations besides the legacy one.  r3 and r4 have  *)
(* another than r1 and r2; r3 has the images of r1.                        *)
EXTENDS Releases

CONSTANTS r1, r2, r3, r4

ConfigIn == [r \in {r1, r2, r3, r4, Legacy} |->
               CASE r \in {r1, r2} -> 1 [] r \in {r3, r4} -> 2 [] r = Legacy -> 0]

ImagesIn == [r \in {r1, r2, r3, r4, Legacy} |->
               CASE r \in {r1, r3} -> "one" [] r = r2 -> "two" [] r = r4 -> "four"
                 [] r = Legacy -> "pair"]
=============================================================================
