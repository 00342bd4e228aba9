------------------------------ MODULE Pictures ------------------------------
(***************************************************************************)
(* What internal/media makes of one uploaded file, from its first bytes to *)
(* the picture it stores.  A file is what the code tells apart: the kind   *)
(* its first bytes name, its length, the WebP chunks, the JPEG segments    *)
(* and the picture the decoder finds.  A picture is a table of pixels.     *)
(***************************************************************************)
EXTENDS Integers, Sequences

CONSTANTS
  Clear,             \* a pixel that is not fully opaque
  MaxUploadBytes, MaxImagePixels, MaxImageEdge

ASSUME LimitsAssumption ==
  MaxUploadBytes \in Nat \ {0} /\ MaxImagePixels \in Nat \ {0} /\ MaxImageEdge \in Nat \ {0}

Cells(width, height) == (0 .. width - 1) \X (0 .. height - 1)

Width(picture) == picture.width
Height(picture) == picture.height

----------------------------------------------------------------------------
(* Reading stops one byte past the limit, which is enough to refuse.       *)
ReadUpload(size) ==
  LET read == IF size > MaxUploadBytes THEN MaxUploadBytes + 1 ELSE size
  IN  read <= MaxUploadBytes

DetectMediaType(file) ==
  IF file.head \in {"png", "jpeg", "webp"} THEN file.head ELSE "unknown"

(* Chunks are visited until one says the file moves or one does not fit.   *)
WebpIsAnimated(chunks) ==
  \E i \in DOMAIN chunks :
    /\ \/ chunks[i].type = "VP8X" /\ chunks[i].moves
       \/ chunks[i].type \in {"ANIM", "ANMF"}
    /\ \A j \in 1 .. i - 1 : chunks[j].fits

(* 0 when the directory is not sound or its first entry with the tag does  *)
(* not hold one of the eight values.                                       *)
ParseTIFFOrientation(tiff) ==
  LET tagged == {i \in DOMAIN tiff.entries : tiff.entries[i].tag = "orientation"} IN
  IF tiff.sound /\ \E i \in tagged :
       /\ \A j \in tagged : i <= j
       /\ \A j \in 1 .. i : tiff.entries[j].fits
       /\ tiff.entries[i].short /\ tiff.entries[i].value \in 1 .. 8
  THEN tiff.entries[CHOOSE i \in tagged : \A j \in tagged : i <= j].value
  ELSE 0

(* The first Exif segment that holds an orientation, unless the scan or a  *)
(* broken segment comes before it; 1, upright, without one.                *)
JpegOrientation(segments) ==
  LET Holds(i) == /\ segments[i].marker = "exif" /\ segments[i].fits
                  /\ ParseTIFFOrientation(segments[i].tiff) # 0
      Passed(i) == segments[i].marker # "scan" /\ segments[i].fits
      found == {i \in DOMAIN segments :
                  Holds(i) /\ \A j \in 1 .. i - 1 : Passed(j) /\ ~ Holds(j)}
  IN  IF found = {} THEN 1
      ELSE ParseTIFFOrientation(segments[CHOOSE i \in found : TRUE].tiff)

CheckDimensions(width, height) ==
  /\ width > 0 /\ height > 0
  /\ width <= MaxImageEdge /\ height <= MaxImageEdge
  /\ width <= MaxImagePixels \div height

----------------------------------------------------------------------------
(* A wrong SourceCell: the quarter turns the other way.                    *)
SourceCellReversed(width, height, orientation, x, y) ==
  CASE orientation = 2 -> <<width - 1 - x, y>>
    [] orientation = 3 -> <<width - 1 - x, height - 1 - y>>
    [] orientation = 4 -> <<x, height - 1 - y>>
    [] orientation = 5 -> <<y, x>>
    [] orientation = 6 -> <<width - 1 - y, x>>
    [] orientation = 7 -> <<width - 1 - y, height - 1 - x>>
    [] orientation = 8 -> <<y, height - 1 - x>>
    [] OTHER -> <<x, y>>

(* Where the pixel at <<x, y>> of the turned picture comes from.           *)
SourceCell(width, height, orientation, x, y) ==
  CASE orientation = 2 -> <<width - 1 - x, y>>
    [] orientation = 3 -> <<width - 1 - x, height - 1 - y>>
    [] orientation = 4 -> <<x, height - 1 - y>>
    [] orientation = 5 -> <<y, x>>
    [] orientation = 6 -> <<y, height - 1 - x>>
    [] orientation = 7 -> <<width - 1 - y, height - 1 - x>>
    [] orientation = 8 -> <<width - 1 - y, x>>
    [] OTHER -> <<x, y>>

ApplyOrientation(picture, orientation) ==
  LET width == Width(picture)
      height == Height(picture)
      turned == orientation \in 5 .. 8
      outWidth == IF turned THEN height ELSE width
      outHeight == IF turned THEN width ELSE height
  IN  [width |-> outWidth, height |-> outHeight,
       at |-> [cell \in Cells(outWidth, outHeight) |->
                 picture.at[SourceCell(width, height, orientation, cell[1], cell[2])]]]

HasTransparency(picture) ==
  \E cell \in Cells(Width(picture), Height(picture)) : picture.at[cell] = Clear

(* A wrong NormalizeImage: a file keeps the type it came with.             *)
NormalizeNothing(file) == [type |-> DetectMediaType(file), picture |-> file.picture]

(* The type an accepted file is stored as, and the picture stored: decoded *)
(* and encoded again, so that nothing else of the file is left.            *)
NormalizeImage(file) ==
  LET source == DetectMediaType(file)
      decoded == IF source = "jpeg"
                 THEN ApplyOrientation(file.picture, JpegOrientation(file.segments))
                 ELSE file.picture
  IN  [type |-> IF source # "webp" THEN source
                ELSE IF HasTransparency(decoded) THEN "png" ELSE "jpeg",
       picture |-> decoded]

(* Every check of Upload before it touches a disk; a file that fails one   *)
(* is refused and leaves nothing.                                          *)
Accepted(file) ==
  /\ ReadUpload(file.size)
  /\ DetectMediaType(file) # "unknown"
  /\ DetectMediaType(file) = "webp" => ~ WebpIsAnimated(file.chunks)
  /\ file.sound
  /\ CheckDimensions(Width(file.picture), Height(file.picture))
=============================================================================
