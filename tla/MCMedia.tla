------------------------------ MODULE MCMedia ------------------------------
EXTENDS Media, TLC

CONSTANTS Red, Green, Blue

(* A picture whose eight turns all differ.                                 *)
Square(last) ==
  [width |-> 2, height |-> 2,
   at |-> [cell \in Cells(2, 2) |-> CASE cell = <<0, 0>> -> Red
                                     [] cell = <<1, 0>> -> last
                                     [] OTHER -> Blue]]

Rows(width, height) ==
  [width |-> width, height |-> height, at |-> [cell \in Cells(width, height) |-> Blue]]

Fields(orientation) ==
  [sound |-> TRUE,
   entries |-> <<[tag |-> "make", fits |-> TRUE, short |-> FALSE, value |-> 8],
                 [tag |-> "orientation", fits |-> TRUE, short |-> TRUE, value |-> orientation]>>]

Segment(marker, tiff) == [marker |-> marker, fits |-> TRUE, tiff |-> tiff]
NoFields == [sound |-> FALSE, entries |-> <<>>]

Plain(head, picture) ==
  [head |-> head, size |-> 2, chunks |-> <<>>, segments |-> <<>>, sound |-> TRUE,
   picture |-> picture, held |-> 1, still |-> TRUE]

(* One pixel is of this photo alone: no wrong turn of it is a right turn of*)
(* another.                                                                *)
Photo(orientation) ==
  [Plain("jpeg", Square(orientation)) EXCEPT
     !.segments = <<Segment("other", NoFields), Segment("exif", NoFields),
                    Segment("exif", Fields(orientation)), Segment("exif", Fields(3)),
                    Segment("scan", NoFields), Segment("exif", Fields(2))>>,
     !.held = orientation]

Chunk(type, moves, fits) == [type |-> type, moves |-> moves, fits |-> fits]

Webp(last) ==
  [Plain("webp", Square(last)) EXCEPT
     !.chunks = <<Chunk("VP8X", FALSE, TRUE), Chunk("VP8 ", FALSE, TRUE)>>]

Moving(type, moves) ==
  [Webp(Green) EXCEPT
     !.chunks = <<Chunk("VP8X", FALSE, TRUE), Chunk(type, moves, TRUE)>>, !.still = FALSE]

Accept == {Photo(5), Photo(6), [Photo(8) EXCEPT !.size = 3], Webp(Clear)}
Refuse == {Plain("gif", Square(Green)), Plain("png", Rows(4, 1)), Plain("png", Rows(3, 2)),
           Moving("ANIM", FALSE), Moving("VP8X", TRUE),
           [Plain("png", Square(Green)) EXCEPT !.size = 4],
           [Plain("png", Square(Green)) EXCEPT !.sound = FALSE]}
Files == Accept \cup Refuse

(* The theorem about the refinement speaks of such files.                  *)
ASSUME FilesAssumption == FilesAreShownAsTheyAre

Symmetry == Permutations(Asset)
=============================================================================
