----------------------------- MODULE ImageStore -----------------------------
(***************************************************************************)
(* What an author may rely on: an image whose upload was answered with     *)
(* success is kept whole and for good, shows what the file showed, and was *)
(* a still picture within the limits.  Which of the files uploaded it came *)
(* from is not part of it.  Module Media is checked to implement this.     *)
(***************************************************************************)
EXTENDS Integers

CONSTANTS
  Asset,     \* ids of images
  File,      \* files that may be uploaded, each with what a viewer shows of it
  NoImage, Clear, MaxUploadBytes, MaxImagePixels, MaxImageEdge

VARIABLE image   \* the images authors know of

Mirror(picture) ==
  [picture EXCEPT !.at = [cell \in DOMAIN @ |->
                            @[<<picture.width - 1 - cell[1], cell[2]>>]]]

Flip(picture) ==
  [picture EXCEPT !.at = [cell \in DOMAIN @ |->
                            @[<<cell[1], picture.height - 1 - cell[2]>>]]]

Transpose(picture) ==
  [width |-> picture.height, height |-> picture.width,
   at |-> [cell \in (0 .. picture.height - 1) \X (0 .. picture.width - 1) |->
             picture.at[<<cell[2], cell[1]>>]]]

(* The eight Exif orientations: how a camera was held is how its picture   *)
(* is to be turned.                                                        *)
Upright(picture, orientation) ==
  CASE orientation = 1 -> picture
    [] orientation = 2 -> Mirror(picture)
    [] orientation = 3 -> Flip(Mirror(picture))
    [] orientation = 4 -> Flip(picture)
    [] orientation = 5 -> Transpose(picture)
    [] orientation = 6 -> Mirror(Transpose(picture))
    [] orientation = 7 -> Flip(Mirror(Transpose(picture)))
    [] orientation = 8 -> Flip(Transpose(picture))

WithinLimits(file) ==
  /\ file.size <= MaxUploadBytes
  /\ file.picture.width <= MaxImageEdge /\ file.picture.height <= MaxImageEdge
  /\ file.picture.width * file.picture.height <= MaxImagePixels

(* Transparency survives; JPEG stays JPEG.                                 *)
Opaque(picture) == \A cell \in DOMAIN picture.at : picture.at[cell] # Clear

TypeFits(file, type) ==
  /\ type \in {"png", "jpeg"}
  /\ ~ Opaque(file.picture) => type = "png"
  /\ file.head \in {"png", "jpeg"} => type = file.head

Init == image = [a \in Asset |-> NoImage]

Add(a, file, type) ==
  /\ image[a] = NoImage
  /\ file.still /\ WithinLimits(file) /\ TypeFits(file, type)
  /\ image' = [image EXCEPT ![a] = [type |-> type,
                                    picture |-> Upright(file.picture, file.held)]]

Next == \E a \in Asset, file \in File, type \in {"png", "jpeg"} : Add(a, file, type)

Spec == Init /\ [][Next]_image
=============================================================================
