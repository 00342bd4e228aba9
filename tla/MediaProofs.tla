----------------------------- MODULE MediaProofs -----------------------------
(***************************************************************************)
(* Proofs about Media and the pictures it stores, for files and pictures   *)
(* of any size, any number of uploads and requests, and any faults.        *)
(***************************************************************************)
EXTENDS Media, TLAPS

----------------------------------------------------------------------------
(* Pictures.                                                               *)

Table(width, height, at) == [width |-> width, height |-> height, at |-> at]

LEMMA TableExcept ==
  ASSUME NEW width, NEW height, NEW at, NEW other
  PROVE  [Table(width, height, at) EXCEPT !.at = other] = Table(width, height, other)
BY DEF Table

LEMMA MirrorOf ==
  ASSUME NEW width \in Nat, NEW height \in Nat, NEW at, DOMAIN at = Cells(width, height)
  PROVE  Store!Mirror(Table(width, height, at)) =
           Table(width, height,
                 [cell \in Cells(width, height) |-> at[<<width - 1 - cell[1], cell[2]>>]])
<1> DEFINE picture == Table(width, height, at)
<1>1. picture.width = width /\ picture.at = at
  BY DEF Table
<1> HIDE DEF picture
<1>2. Store!Mirror(picture) =
        [picture EXCEPT !.at = [cell \in DOMAIN picture.at |->
                                  picture.at[<<picture.width - 1 - cell[1], cell[2]>>]]]
  BY DEF Store!Mirror
<1> DEFINE turned == [cell \in Cells(width, height) |-> at[<<width - 1 - cell[1], cell[2]>>]]
<1>3. Store!Mirror(picture) = [picture EXCEPT !.at = turned]
  BY <1>1, <1>2
<1> HIDE DEF turned
<1>4. [picture EXCEPT !.at = turned] = Table(width, height, turned)
  BY TableExcept DEF picture
<1>5. Store!Mirror(picture) = Table(width, height, turned)
  BY <1>3, <1>4
<1> QED BY <1>5 DEF picture, turned

LEMMA FlipOf ==
  ASSUME NEW width \in Nat, NEW height \in Nat, NEW at, DOMAIN at = Cells(width, height)
  PROVE  Store!Flip(Table(width, height, at)) =
           Table(width, height,
                 [cell \in Cells(width, height) |-> at[<<cell[1], height - 1 - cell[2]>>]])
<1> DEFINE picture == Table(width, height, at)
<1>1. picture.height = height /\ picture.at = at
  BY DEF Table
<1> HIDE DEF picture
<1>2. Store!Flip(picture) =
        [picture EXCEPT !.at = [cell \in DOMAIN picture.at |->
                                  picture.at[<<cell[1], picture.height - 1 - cell[2]>>]]]
  BY DEF Store!Flip
<1> DEFINE turned == [cell \in Cells(width, height) |-> at[<<cell[1], height - 1 - cell[2]>>]]
<1>3. Store!Flip(picture) = [picture EXCEPT !.at = turned]
  BY <1>1, <1>2
<1> HIDE DEF turned
<1>4. [picture EXCEPT !.at = turned] = Table(width, height, turned)
  BY TableExcept DEF picture
<1>5. Store!Flip(picture) = Table(width, height, turned)
  BY <1>3, <1>4
<1> QED BY <1>5 DEF picture, turned

LEMMA TransposeOf ==
  ASSUME NEW width \in Nat, NEW height \in Nat, NEW at, DOMAIN at = Cells(width, height)
  PROVE  Store!Transpose(Table(width, height, at)) =
           Table(height, width,
                 [cell \in Cells(height, width) |-> at[<<cell[2], cell[1]>>]])
BY DEF Store!Transpose, Cells, Table

(* The pixels of a picture that ApplyOrientation has turned, one by one.   *)
LEMMA AppliedStraight ==
  ASSUME NEW width, NEW height, NEW at, NEW o, o \notin 5 .. 8
  PROVE  ApplyOrientation(Table(width, height, at), o) =
           Table(width, height,
                 [cell \in Cells(width, height) |->
                    at[SourceCell(width, height, o, cell[1], cell[2])]])
BY DEF ApplyOrientation, Width, Height, Table

LEMMA AppliedAcross ==
  ASSUME NEW width, NEW height, NEW at, NEW o, o \in 5 .. 8
  PROVE  ApplyOrientation(Table(width, height, at), o) =
           Table(height, width,
                 [cell \in Cells(height, width) |->
                    at[SourceCell(width, height, o, cell[1], cell[2])]])
BY DEF ApplyOrientation, Width, Height, Table

(* applyOrientation makes each of the eight Exif orientations upright, for *)
(* a picture of any width and height: the formulas for the source of a     *)
(* pixel are what mirroring, flipping and transposing come to.             *)
THEOREM OrientationIsUpright ==
  ASSUME NEW picture, PictureOK(picture), NEW o \in 1 .. 8
  PROVE  ApplyOrientation(picture, o) = Store!Upright(picture, o)
<1> DEFINE width == Width(picture)
           height == Height(picture)
           at == [cell \in Cells(width, height) |-> picture.at[cell]]
<1>1. width \in Nat /\ height \in Nat /\ picture = Table(width, height, at)
  BY DEF PictureOK, Table
<1>2. DOMAIN at = Cells(width, height) /\ at = [cell \in Cells(width, height) |-> at[cell]]
  OBVIOUS
<1> HIDE DEF width, height, at
<1>3. /\ \A cell \in Cells(width, height) :
           /\ cell[1] \in Int /\ cell[2] \in Int /\ cell = <<cell[1], cell[2]>>
           /\ <<width - 1 - cell[1], cell[2]>> \in Cells(width, height)
           /\ <<cell[1], height - 1 - cell[2]>> \in Cells(width, height)
      /\ \A cell \in Cells(height, width) :
           /\ cell[1] \in Int /\ cell[2] \in Int /\ cell = <<cell[1], cell[2]>>
           /\ <<cell[2], cell[1]>> \in Cells(width, height)
           /\ <<height - 1 - cell[1], cell[2]>> \in Cells(height, width)
           /\ <<cell[1], width - 1 - cell[2]>> \in Cells(height, width)
  BY <1>1 DEF Cells
<1> DEFINE P == Table(width, height, at)
           M == [cell \in Cells(width, height) |-> at[<<width - 1 - cell[1], cell[2]>>]]
           T == [cell \in Cells(height, width) |-> at[<<cell[2], cell[1]>>]]
           MT == [cell \in Cells(height, width) |-> T[<<height - 1 - cell[1], cell[2]>>]]
<1>4. Store!Mirror(P) = Table(width, height, M) /\ DOMAIN M = Cells(width, height)
  BY <1>1, <1>2, MirrorOf
<1>5. Store!Transpose(P) = Table(height, width, T) /\ DOMAIN T = Cells(height, width)
  BY <1>1, <1>2, TransposeOf
<1>6. /\ Store!Mirror(Table(height, width, T)) = Table(height, width, MT)
      /\ DOMAIN MT = Cells(height, width)
  <2> HIDE DEF T
  <2> QED BY <1>1, <1>5, MirrorOf
<1> DEFINE S == [cell \in Cells(width, height) |-> at[SourceCell(width, height, o, cell[1], cell[2])]]
           ST == [cell \in Cells(height, width) |-> at[SourceCell(width, height, o, cell[1], cell[2])]]
<1>7. /\ o \notin 5 .. 8 => ApplyOrientation(P, o) = Table(width, height, S)
      /\ o \in 5 .. 8 => ApplyOrientation(P, o) = Table(height, width, ST)
  <2>1. o \notin 5 .. 8 => ApplyOrientation(P, o) = Table(width, height, S)
    BY AppliedStraight
  <2>2. o \in 5 .. 8 => ApplyOrientation(P, o) = Table(height, width, ST)
    BY AppliedAcross
  <2> QED BY <2>1, <2>2
<1> HIDE DEF P, M, T, MT, S, ST
<1>8. CASE o = 1
  <2>1. \A x, y : SourceCell(width, height, o, x, y) = <<x, y>>
    BY <1>8 DEF SourceCell
  <2>2. S = [cell \in Cells(width, height) |-> at[cell]]
    BY <1>3, <2>1 DEF S
  <2>3. Store!Upright(P, o) = P
    BY <1>8 DEF Store!Upright
  <2> QED BY <1>1, <1>2, <1>7, <1>8, <2>2, <2>3 DEF P
<1>9. CASE o = 2
  <2>1. \A x, y : SourceCell(width, height, o, x, y) = <<width - 1 - x, y>>
    BY <1>9 DEF SourceCell
  <2>2. S = M
    BY <2>1 DEF S, M
  <2>3. Store!Upright(P, o) = Store!Mirror(P)
    BY <1>9 DEF Store!Upright
  <2> QED BY <1>1, <1>4, <1>7, <1>9, <2>2, <2>3 DEF P
<1>10. CASE o = 3
  <2> DEFINE FM == [cell \in Cells(width, height) |-> M[<<cell[1], height - 1 - cell[2]>>]]
  <2>1. \A x, y : SourceCell(width, height, o, x, y) = <<width - 1 - x, height - 1 - y>>
    BY <1>10 DEF SourceCell
  <2>2. S = FM
    <3>1. FM = [cell \in Cells(width, height) |-> at[<<width - 1 - cell[1], height - 1 - cell[2]>>]]
      BY <1>3 DEF M
    <3> HIDE DEF FM
    <3> QED BY <2>1, <3>1 DEF S
  <2>3. Store!Upright(P, o) = Store!Flip(Store!Mirror(P))
    BY <1>10 DEF Store!Upright
  <2>4. Store!Flip(Table(width, height, M)) = Table(width, height, FM)
    BY <1>1, <1>4, FlipOf
  <2> HIDE DEF FM
  <2> QED BY <1>1, <1>4, <1>7, <1>10, <2>2, <2>3, <2>4 DEF P
<1>11. CASE o = 4
  <2> DEFINE F == [cell \in Cells(width, height) |-> at[<<cell[1], height - 1 - cell[2]>>]]
  <2>1. \A x, y : SourceCell(width, height, o, x, y) = <<x, height - 1 - y>>
    BY <1>11 DEF SourceCell
  <2>2. S = F
    BY <2>1 DEF S
  <2>3. Store!Upright(P, o) = Store!Flip(P)
    BY <1>11 DEF Store!Upright
  <2>4. Store!Flip(P) = Table(width, height, F)
    BY <1>1, <1>2, FlipOf DEF P
  <2> HIDE DEF F
  <2> QED BY <1>1, <1>7, <1>11, <2>2, <2>3, <2>4 DEF P
<1>12. CASE o = 5
  <2>1. \A x, y : SourceCell(width, height, o, x, y) = <<y, x>>
    BY <1>12 DEF SourceCell
  <2>2. ST = T
    BY <2>1 DEF ST, T
  <2>3. Store!Upright(P, o) = Store!Transpose(P)
    BY <1>12 DEF Store!Upright
  <2> QED BY <1>1, <1>5, <1>7, <1>12, <2>2, <2>3 DEF P
<1>13. CASE o = 6
  <2>1. \A x, y : SourceCell(width, height, o, x, y) = <<y, height - 1 - x>>
    BY <1>13 DEF SourceCell
  <2>2. ST = MT
    BY <1>3, <2>1 DEF ST, T, MT
  <2>3. Store!Upright(P, o) = Store!Mirror(Store!Transpose(P))
    BY <1>13 DEF Store!Upright
  <2> QED BY <1>1, <1>5, <1>6, <1>7, <1>13, <2>2, <2>3 DEF P
<1>14. CASE o = 7
  <2> DEFINE FMT == [cell \in Cells(height, width) |-> MT[<<cell[1], width - 1 - cell[2]>>]]
  <2>1. \A x, y : SourceCell(width, height, o, x, y) = <<width - 1 - y, height - 1 - x>>
    BY <1>14 DEF SourceCell
  <2>2. ST = FMT
    BY <1>3, <2>1 DEF ST, T, MT
  <2>3. Store!Upright(P, o) = Store!Flip(Store!Mirror(Store!Transpose(P)))
    BY <1>14 DEF Store!Upright
  <2>4. Store!Flip(Table(height, width, MT)) = Table(height, width, FMT)
    BY <1>1, <1>6, FlipOf
  <2> HIDE DEF FMT
  <2> QED BY <1>1, <1>5, <1>6, <1>7, <1>14, <2>2, <2>3, <2>4 DEF P
<1>15. CASE o = 8
  <2> DEFINE FT == [cell \in Cells(height, width) |-> T[<<cell[1], width - 1 - cell[2]>>]]
  <2>1. \A x, y : SourceCell(width, height, o, x, y) = <<width - 1 - y, x>>
    BY <1>15 DEF SourceCell
  <2>2. ST = FT
    BY <1>3, <2>1 DEF ST, T
  <2>3. Store!Upright(P, o) = Store!Flip(Store!Transpose(P))
    BY <1>15 DEF Store!Upright
  <2>4. Store!Flip(Table(height, width, T)) = Table(height, width, FT)
    BY <1>1, <1>5, FlipOf
  <2> HIDE DEF FT
  <2> QED BY <1>1, <1>5, <1>7, <1>15, <2>2, <2>3, <2>4 DEF P
<1> QED BY <1>8, <1>9, <1>10, <1>11, <1>12, <1>13, <1>14, <1>15

(* What the service stores of an accepted file is a table of pixels again. *)
LEMMA NormalizedFields ==
  ASSUME NEW f \in File, Accepted(f)
  PROVE  /\ DetectMediaType(f) \in {"png", "jpeg", "webp"}
         /\ ImageOK(NormalizeImage(f))
         /\ PictureOK(NormalizeImage(f).picture)
         /\ NormalizeImage(f) = [type |-> NormalizeImage(f).type,
                                 picture |-> NormalizeImage(f).picture]
         /\ NormalizeImage(f) # NoImage
         /\ MediaAsset(DetectMediaType(f), NormalizeImage(f)) # NoImage
<1> DEFINE o == JpegOrientation(f.segments)
           turned == ApplyOrientation(f.picture, o)
           stored == NormalizeImage(f)
<1>1. PictureOK(f.picture) /\ DOMAIN f.picture.at = Cells(Width(f.picture), Height(f.picture))
  <2>1. PictureOK(f.picture)
    BY FileAssumption
  <2> QED BY <2>1 DEF PictureOK
<1>2. PictureOK(turned) /\ DOMAIN turned.at = Cells(Width(turned), Height(turned))
  <2> DEFINE width == IF o \in 5 .. 8 THEN Height(f.picture) ELSE Width(f.picture)
             height == IF o \in 5 .. 8 THEN Width(f.picture) ELSE Height(f.picture)
             at == [cell \in Cells(width, height) |->
                      f.picture.at[SourceCell(Width(f.picture), Height(f.picture), o, cell[1], cell[2])]]
  <2>1. turned = [width |-> width, height |-> height, at |-> at]
    BY DEF ApplyOrientation
  <2>2. width \in Nat /\ height \in Nat
    BY <1>1 DEF PictureOK
  <2>3. at = [cell \in Cells(width, height) |-> at[cell]]
    OBVIOUS
  <2> HIDE DEF width, height, at, turned
  <2> QED BY <2>1, <2>2, <2>3 DEF PictureOK, Width, Height
<1>3. DetectMediaType(f) \in {"png", "jpeg", "webp"}
  BY DEF Accepted, DetectMediaType
<1> HIDE DEF turned
<1>4. stored.picture \in {turned, f.picture} /\ stored.type \in {"png", "jpeg"}
      /\ stored = [type |-> stored.type, picture |-> stored.picture]
  BY <1>3 DEF NormalizeImage, turned
<1> HIDE DEF stored
<1>5. ImageOK(stored) /\ PictureOK(stored.picture)
  BY <1>1, <1>2, <1>4 DEF ImageOK
<1> QED BY <1>3, <1>4, <1>5, FileAssumption DEF stored

----------------------------------------------------------------------------
(* The inductive invariant, in two parts.  What uploads and the store rely *)
(* on: an upload has its asset to itself, nobody knows of it, and what is  *)
(* on the disk and in the table is what its step says; and what somebody   *)
(* knows is complete.                                                      *)
UploadIInv(p) ==
  Running(p) =>
    LET u == upload[p] IN
    /\ u.asset \notin known
    /\ \E f \in File : /\ Accepted(f) /\ u.source = DetectMediaType(f)
                       /\ u.stored = NormalizeImage(f)
    /\ \A q \in Uploader : Running(q) /\ upload[q].asset = u.asset => q = p
    /\ u.step = "writing" => asset[u.asset] = NoImage /\ file[u.asset] = NoImage
    /\ u.step = "moved" => asset[u.asset] = NoImage /\ file[u.asset] = u.stored
    /\ u.step = "registered" => /\ asset[u.asset] = MediaAsset(u.source, u.stored)
                               /\ file[u.asset] = u.stored

KnownIInv(a) ==
  a \in known =>
    /\ asset[a] # NoImage /\ file[a] # NoImage
    /\ asset[a].sum = file[a].picture /\ asset[a].type = file[a].type
    /\ asset[a].width = Width(file[a].picture) /\ asset[a].height = Height(file[a].picture)

AssetOK(a) ==
  /\ asset[a] # NoImage =>
       /\ asset[a].source \in {"png", "jpeg", "webp"}
       /\ ImageOK([type |-> asset[a].type, picture |-> asset[a].sum])
  /\ file[a] # NoImage => ImageOK(file[a])

StoreIInv ==
  /\ DOMAIN asset = Asset /\ DOMAIN file = Asset /\ DOMAIN upload = Uploader
  /\ temp \subseteq Asset /\ known \subseteq Asset /\ disturbed \in BOOLEAN
  /\ \A p \in Uploader : UploadOK(upload[p]) /\ UploadIInv(p)
  /\ \A a \in Asset : AssetOK(a) /\ KnownIInv(a)
  /\ NoStrayFiles

(* What a request relies on: the holders it counts hold the image still,   *)
(* the one that opens a file without being the administrator's found a     *)
(* reference, and the one that looks at projects found no article that had *)
(* referred to the image all along.                                        *)
ReaderIInv(r) ==
  Asking(r) =>
    LET q == reader[r] IN
    /\ CitedBy(Holder, q.asset) => q.ever
    /\ q.held \subseteq {h \in Holder : q.asset \in cited[h]}
    /\ q.known => q.asset \in known
    /\ q.step = "open" /\ ~ q.admin => q.ever
    /\ q.step \in {"article", "project"} => ~ q.admin
    /\ q.step = "project" => q.held \cap Article = {}

ReadersIInv ==
  /\ DOMAIN reader = Reader /\ cited \in [Holder -> SUBSET Asset]
  /\ \A r \in Reader : ReaderOK(reader[r]) /\ ReaderIInv(r)
  /\ ImageAnswersAreRight

IInv == StoreIInv /\ ReadersIInv

LEMMA InvariantInit == Init => IInv
<1> SUFFICES ASSUME Init PROVE IInv
  OBVIOUS
<1>1. /\ DOMAIN asset = Asset /\ DOMAIN file = Asset /\ DOMAIN upload = Uploader
      /\ DOMAIN reader = Reader
      /\ temp = {} /\ known = {} /\ disturbed = FALSE
      /\ cited \in [Holder -> SUBSET Asset]
      /\ \A a \in Asset : asset[a] = NoImage /\ file[a] = NoImage
      /\ \A p \in Uploader : upload[p] = IdleUpload
      /\ \A r \in Reader : reader[r] = IdleReader
  BY DEF Init
<1>2. /\ \A p \in Uploader : UploadOK(upload[p]) /\ ~ Running(p)
      /\ \A r \in Reader : /\ ReaderOK(reader[r]) /\ ~ Asking(r)
                           /\ reader[r].step \notin {"served", "missing", "lost"}
  BY <1>1 DEF UploadOK, ReaderOK, Running, Asking, IdleUpload, IdleReader
<1>3. StoreIInv
  BY <1>1, <1>2 DEF StoreIInv, UploadIInv, AssetOK, KnownIInv, NoStrayFiles
<1>4. ReadersIInv
  BY <1>1, <1>2 DEF ReadersIInv, ReaderIInv, ImageAnswersAreRight
<1> QED BY <1>3, <1>4 DEF IInv

----------------------------------------------------------------------------
(* A step of an upload.                                                    *)

LEMMA RunningFields ==
  ASSUME StoreIInv, NEW p \in Uploader, Running(p)
  PROVE  /\ upload[p] = [step |-> upload[p].step, asset |-> upload[p].asset,
                         source |-> upload[p].source, stored |-> upload[p].stored]
         /\ upload[p].step \in {"writing", "moved", "registered", "failed"}
         /\ upload[p].asset \in Asset
         /\ upload[p].source \in {"png", "jpeg", "webp"} /\ ImageOK(upload[p].stored)
         /\ upload[p].stored # NoImage
         /\ MediaAsset(upload[p].source, upload[p].stored) # NoImage
<1>1. UploadOK(upload[p]) /\ UploadIInv(p)
  BY DEF StoreIInv
<1>2. upload[p].stored # NoImage /\ MediaAsset(upload[p].source, upload[p].stored) # NoImage
  BY <1>1, NormalizedFields DEF UploadIInv
<1> QED BY <1>1, <1>2 DEF UploadOK, Running, IdleUpload

(* How a step changes the upload it is about.                              *)
Becomes(p, u) ==
  /\ DOMAIN upload' = Uploader /\ upload'[p] = u
  /\ \A q \in Uploader \ {p} : upload'[q] = upload[q]

LEMMA GoBecomes ==
  ASSUME StoreIInv, NEW p \in Uploader, Running(p), NEW step, Go(p, step)
  PROVE  Becomes(p, [step |-> step, asset |-> upload[p].asset,
                     source |-> upload[p].source, stored |-> upload[p].stored])
<1>1. upload'[p] = [upload[p] EXCEPT !.step = step]
  BY DEF Go, StoreIInv
<1>2. [upload[p] EXCEPT !.step = step] =
        [step |-> step, asset |-> upload[p].asset,
         source |-> upload[p].source, stored |-> upload[p].stored]
  <2>1. PICK a, b, c, d : upload[p] = [step |-> a, asset |-> b, source |-> c, stored |-> d]
    BY RunningFields
  <2>2. [[step |-> a, asset |-> b, source |-> c, stored |-> d] EXCEPT !.step = step] =
          [step |-> step, asset |-> b, source |-> c, stored |-> d]
    OBVIOUS
  <2>3. upload[p].asset = b /\ upload[p].source = c /\ upload[p].stored = d
    BY <2>1
  <2> QED BY <2>1, <2>2, <2>3
<1> QED BY <1>1, <1>2 DEF Go, StoreIInv, Becomes

LEMMA StopBecomes ==
  ASSUME StoreIInv, NEW p \in Uploader, Stop(p)
  PROVE  Becomes(p, IdleUpload)
BY DEF StoreIInv, Stop, Becomes

(* No other upload has the asset u.                                        *)
Alone(p, a) == \A q \in Uploader \ {p} : Running(q) => upload[q].asset # a

LEMMA AloneRunning ==
  ASSUME StoreIInv, NEW p \in Uploader, Running(p)
  PROVE  Alone(p, upload[p].asset) /\ upload[p].asset \notin known
BY DEF StoreIInv, UploadIInv, Alone

(* An upload relies on nothing another one does to an asset of its own.    *)
LEMMA OthersKept ==
  ASSUME StoreIInv, NEW p \in Uploader, NEW u, NEW a \in Asset, Becomes(p, u), Alone(p, a),
         u.step = "idle" \/ u.asset = a,
         \A b \in Asset \ {a} : /\ asset'[b] = asset[b] /\ file'[b] = file[b]
                                /\ b \in known' => b \in known
  PROVE  \A q \in Uploader \ {p} : UploadOK(upload[q])' /\ UploadIInv(q)'
<1> SUFFICES ASSUME NEW q \in Uploader \ {p}
             PROVE  UploadOK(upload[q])' /\ UploadIInv(q)'
  OBVIOUS
<1>1. upload'[q] = upload[q] /\ UploadOK(upload[q]) /\ UploadIInv(q)
  BY DEF StoreIInv, Becomes
<1>2. UploadOK(upload[q])'
  BY <1>1 DEF UploadOK
<1>3. ASSUME Running(q) PROVE UploadIInv(q)'
  <2> DEFINE b == upload[q].asset
  <2>1. b \in Asset \ {a} /\ b \notin known
    BY <1>3, RunningFields, AloneRunning DEF Alone
  <2>2. asset'[b] = asset[b] /\ file'[b] = file[b] /\ b \notin known'
    BY <2>1
  <2>3. \A r \in Uploader : Running(r)' /\ upload'[r].asset = b => r = q
    BY <1>1, <1>3, <2>1 DEF UploadIInv, Becomes, Running
  <2> QED BY <1>1, <1>3, <2>2, <2>3 DEF UploadIInv, Running
<1>4. ~ Running(q) => UploadIInv(q)'
  BY <1>1 DEF UploadIInv, Running
<1> QED BY <1>2, <1>3, <1>4

(* The invariant again, from what holds of the upload that made the step   *)
(* and of its asset.                                                       *)
LEMMA UploadStep ==
  ASSUME StoreIInv, NEW p \in Uploader, NEW u, NEW a \in Asset, Becomes(p, u), Alone(p, a),
         u.step = "idle" \/ u.asset = a,
         \A b \in Asset \ {a} : /\ asset'[b] = asset[b] /\ file'[b] = file[b]
                                /\ b \in known' <=> b \in known
                                /\ b \in temp' <=> b \in temp,
         DOMAIN asset' = Asset, DOMAIN file' = Asset, temp' \subseteq Asset,
         known' \subseteq Asset, disturbed' \in BOOLEAN, disturbed => disturbed',
         UploadOK(u), UploadIInv(p)', AssetOK(a)', KnownIInv(a)',
         ~ Running(p) \/ upload[p].asset = a,
         ~ disturbed' => /\ file'[a] # NoImage => asset'[a] # NoImage \/ u.step # "idle"
                         /\ a \in temp' => u.step = "writing"
  PROVE  StoreIInv'
<1>1. \A q \in Uploader : UploadOK(upload[q])' /\ UploadIInv(q)'
  <2>1. \A q \in Uploader \ {p} : UploadOK(upload[q])' /\ UploadIInv(q)'
    BY OthersKept
  <2>2. UploadOK(upload[p])'
    BY DEF Becomes, UploadOK
  <2> QED BY <2>1, <2>2
<1>2. \A b \in Asset : AssetOK(b)' /\ KnownIInv(b)'
  <2> SUFFICES ASSUME NEW b \in Asset \ {a} PROVE AssetOK(b)' /\ KnownIInv(b)'
    OBVIOUS
  <2>1. AssetOK(b) /\ KnownIInv(b)
    BY DEF StoreIInv
  <2> QED BY <2>1 DEF AssetOK, KnownIInv
<1>3. NoStrayFiles'
  <2> SUFFICES ASSUME ~ disturbed', NEW b \in Asset
               PROVE  /\ file'[b] # NoImage => asset'[b] # NoImage
                            \/ \E q \in Uploader : Running(q)' /\ upload'[q].asset = b
                      /\ b \in temp' => \E q \in Uploader : At(q, "writing")' /\ upload'[q].asset = b
    BY DEF NoStrayFiles, At, Running
  <2>1. CASE b = a
    BY <2>1 DEF Becomes, Running, At
  <2>2. CASE b # a
    <3>1. /\ file[b] # NoImage => asset[b] # NoImage
               \/ \E q \in Uploader : Running(q) /\ upload[q].asset = b
          /\ b \in temp => \E q \in Uploader : At(q, "writing") /\ upload[q].asset = b
      BY DEF StoreIInv, NoStrayFiles
    <3>2. \A q \in Uploader : Running(q) /\ upload[q].asset = b => upload'[q] = upload[q]
      BY <2>2 DEF Becomes
    <3> QED BY <2>2, <3>1, <3>2 DEF Running, At
  <2> QED BY <2>1, <2>2
<1> QED BY <1>1, <1>2, <1>3 DEF StoreIInv, Becomes

LEMMA BeginKeeps ==
  ASSUME StoreIInv, NEW p \in Uploader, NEW f \in File, Begin(p, f)
  PROVE  StoreIInv'
<1> DEFINE stored == NormalizeImage(f)
           source == DetectMediaType(f)
<1>1. PICK a \in Asset :
        /\ asset[a] = NoImage /\ file[a] = NoImage /\ a \notin temp
        /\ \A q \in Uploader : Running(q) => upload[q].asset # a
        /\ temp' = temp \cup {a}
        /\ upload' = [upload EXCEPT ![p] =
             [step |-> "writing", asset |-> a, source |-> source, stored |-> stored]]
  BY DEF Begin
<1>2. /\ ~ Running(p) /\ Accepted(f)
      /\ UNCHANGED <<asset, file, known, cited, reader, disturbed>>
  BY DEF Begin
<1>3. source \in {"png", "jpeg", "webp"} /\ ImageOK(stored)
  BY <1>2, NormalizedFields
<1> DEFINE u == [step |-> "writing", asset |-> a, source |-> source, stored |-> stored]
<1>4. Becomes(p, u) /\ Alone(p, a)
  BY <1>1 DEF Becomes, Alone, StoreIInv
<1>5. UploadOK(u)
  BY <1>3 DEF UploadOK
<1>6. AssetOK(a)' /\ KnownIInv(a)' /\ a \notin known
  BY <1>1, <1>2 DEF StoreIInv, AssetOK, KnownIInv
<1>7. UploadIInv(p)'
  <2>1. \A q \in Uploader \ {p} : Running(q)' => upload'[q].asset # a
    BY <1>1, <1>4 DEF Becomes, Running
  <2> QED BY <1>1, <1>2, <1>4, <1>6, <2>1 DEF UploadIInv, Becomes, Running
<1>8. /\ temp \subseteq Asset /\ known \subseteq Asset /\ disturbed \in BOOLEAN
      /\ DOMAIN asset = Asset /\ DOMAIN file = Asset
  BY DEF StoreIInv
<1> HIDE DEF source, stored
<1> QED BY <1>1, <1>2, <1>4, <1>5, <1>6, <1>7, <1>8, UploadStep

(* What is the same for every step of an upload that is under way.         *)
LEMMA UploadFacts ==
  ASSUME StoreIInv, NEW p \in Uploader, Running(p), NEW a, a = upload[p].asset
  PROVE  /\ temp \subseteq Asset /\ known \subseteq Asset /\ disturbed \in BOOLEAN
         /\ DOMAIN asset = Asset /\ DOMAIN file = Asset
         /\ a \in Asset /\ a \notin known /\ Alone(p, a)
         /\ AssetOK(a) /\ UploadIInv(p)
BY RunningFields, AloneRunning DEF StoreIInv

(* An upload that stops.                                                   *)
LEMMA IdleOK ==
  ASSUME NEW p \in Uploader, Becomes(p, IdleUpload)
  PROVE  IdleUpload.step = "idle" /\ UploadOK(IdleUpload) /\ UploadIInv(p)'
BY DEF UploadOK, UploadIInv, Becomes, Running, IdleUpload

LEMMA WriteFailsKeeps ==
  ASSUME StoreIInv, NEW p \in Uploader, WriteFails(p)
  PROVE  StoreIInv'
<1>1. PICK a : a = upload[p].asset
  OBVIOUS
<1>2. /\ Running(p) /\ upload[p].step = "writing" /\ temp' = temp \ {a} /\ Stop(p)
      /\ UNCHANGED <<asset, file, known, cited, reader, disturbed>>
  BY <1>1 DEF WriteFails, At
<1>3. Becomes(p, IdleUpload) /\ UploadOK(IdleUpload) /\ UploadIInv(p)'
      /\ IdleUpload.step = "idle"
  BY <1>2, StopBecomes, IdleOK
<1>4. asset[a] = NoImage /\ file[a] = NoImage
  BY <1>1, <1>2, UploadFacts DEF UploadIInv
<1>5. AssetOK(a)' /\ KnownIInv(a)'
  BY <1>1, <1>2, <1>4, UploadFacts DEF AssetOK, KnownIInv
<1> QED BY <1>1, <1>2, <1>3, <1>4, <1>5, UploadFacts, UploadStep

LEMMA MoveKeeps ==
  ASSUME StoreIInv, NEW p \in Uploader, Move(p)
  PROVE  StoreIInv'
<1>1. PICK a, source, stored :
        a = upload[p].asset /\ source = upload[p].source /\ stored = upload[p].stored
  OBVIOUS
<1>2. /\ Running(p) /\ upload[p].step = "writing" /\ temp' = temp \ {a}
      /\ file' = [file EXCEPT ![a] = stored] /\ Go(p, "moved")
      /\ UNCHANGED <<asset, known, cited, reader, disturbed>>
  BY <1>1 DEF Move, At
<1> DEFINE u == [step |-> "moved", asset |-> a, source |-> source, stored |-> stored]
<1>3. Becomes(p, u)
  BY <1>1, <1>2, GoBecomes
<1>4. UploadOK(u)
  BY <1>1, <1>2, RunningFields DEF UploadOK
<1>5. /\ asset[a] = NoImage /\ file'[a] = stored /\ ImageOK(stored)
      /\ \A b \in Asset \ {a} : file'[b] = file[b]
  BY <1>1, <1>2, UploadFacts, RunningFields DEF UploadIInv
<1>6. AssetOK(a)' /\ KnownIInv(a)'
  BY <1>1, <1>2, <1>5, UploadFacts DEF AssetOK, KnownIInv
<1>7. UploadIInv(p)'
  <2>1. \A q \in Uploader \ {p} : Running(q)' => upload'[q].asset # a
    BY <1>1, <1>2, <1>3, UploadFacts DEF Becomes, Running, Alone
  <2> QED BY <1>1, <1>2, <1>3, <1>5, <2>1, UploadFacts DEF UploadIInv, Becomes, Running
<1> QED BY <1>1, <1>2, <1>3, <1>4, <1>5, <1>6, <1>7, UploadFacts, UploadStep

LEMMA RegisterKeeps ==
  ASSUME StoreIInv, NEW p \in Uploader, Register(p) \/ RegisterFails(p)
  PROVE  StoreIInv'
<1>1. PICK a, source, stored :
        a = upload[p].asset /\ source = upload[p].source /\ stored = upload[p].stored
  OBVIOUS
<1>2. PICK step \in {"registered", "failed"} :
        /\ Running(p) /\ upload[p].step = "moved" /\ Go(p, step)
        /\ \/ asset' = [asset EXCEPT ![a] = MediaAsset(source, stored)]
           \/ step = "failed" /\ UNCHANGED asset
        /\ UNCHANGED <<file, temp, known, cited, reader, disturbed>>
  BY <1>1 DEF Register, RegisterFails, At
<1> DEFINE u == [step |-> step, asset |-> a, source |-> source, stored |-> stored]
<1>3. Becomes(p, u)
  BY <1>1, <1>2, GoBecomes
<1>4. UploadOK(u)
  BY <1>1, <1>2, RunningFields DEF UploadOK
<1>5. /\ asset[a] = NoImage /\ file[a] = stored /\ ImageOK(stored)
      /\ source \in {"png", "jpeg", "webp"}
      /\ DOMAIN asset' = Asset
      /\ \A b \in Asset \ {a} : asset'[b] = asset[b]
      /\ asset'[a] = IF step = "registered" \/ asset' # asset
                     THEN MediaAsset(source, stored) ELSE NoImage
  BY <1>1, <1>2, UploadFacts, RunningFields DEF UploadIInv
<1>6. AssetOK(a)' /\ KnownIInv(a)'
  <2> DEFINE row == MediaAsset(source, stored)
  <2>1. row.source = source /\ ImageOK([type |-> row.type, picture |-> row.sum])
    BY <1>5 DEF MediaAsset, ImageOK
  <2>2. asset'[a] # NoImage => asset'[a] = row
    BY <1>5
  <2> HIDE DEF row
  <2>3. AssetOK(a)'
    BY <1>2, <1>5, <2>1, <2>2 DEF AssetOK
  <2>4. a \notin known'
    BY <1>1, <1>2, UploadFacts
  <2> QED BY <2>3, <2>4 DEF KnownIInv
<1>7. UploadIInv(p)'
  <2>1. \A q \in Uploader \ {p} : Running(q)' => upload'[q].asset # a
    BY <1>1, <1>2, <1>3, UploadFacts DEF Becomes, Running, Alone
  <2> QED BY <1>1, <1>2, <1>3, <1>5, <2>1, UploadFacts DEF UploadIInv, Becomes, Running
<1>8. a \notin temp' \/ disturbed' \/ u.step = "writing"
  <2> SUFFICES ASSUME a \in temp, ~ disturbed PROVE FALSE
    BY <1>2
  <2>1. PICK q \in Uploader : At(q, "writing") /\ upload[q].asset = a
    BY DEF StoreIInv, NoStrayFiles
  <2> QED BY <1>1, <1>2, <2>1, UploadFacts DEF Alone, At
<1> QED BY <1>1, <1>2, <1>3, <1>4, <1>5, <1>6, <1>7, <1>8, UploadFacts, UploadStep

LEMMA UndoKeeps ==
  ASSUME StoreIInv, NEW p \in Uploader, Undo(p)
  PROVE  StoreIInv'
<1>1. PICK a : a = upload[p].asset
  OBVIOUS
<1>2. /\ Running(p) /\ upload[p].step = "failed" /\ Stop(p)
      /\ \/ file' = [file EXCEPT ![a] = NoImage] /\ disturbed' = disturbed
         \/ file' = file /\ disturbed' = TRUE
      /\ UNCHANGED <<asset, temp, known, cited, reader>>
  BY <1>1 DEF Undo, At
<1>3. Becomes(p, IdleUpload) /\ UploadOK(IdleUpload) /\ UploadIInv(p)'
      /\ IdleUpload.step = "idle"
  BY <1>2, StopBecomes, IdleOK
<1>4. /\ DOMAIN file' = Asset /\ \A b \in Asset \ {a} : file'[b] = file[b]
      /\ ~ disturbed' => file'[a] = NoImage
      /\ file'[a] \in {NoImage, file[a]}
  BY <1>1, <1>2, UploadFacts
<1>5. AssetOK(a)' /\ KnownIInv(a)'
  BY <1>1, <1>2, <1>4, UploadFacts DEF AssetOK, KnownIInv
<1>6. a \notin temp' \/ disturbed'
  <2> SUFFICES ASSUME a \in temp, ~ disturbed PROVE FALSE
    BY <1>2
  <2>1. PICK q \in Uploader : At(q, "writing") /\ upload[q].asset = a
    BY DEF StoreIInv, NoStrayFiles
  <2> QED BY <1>1, <1>2, <2>1, UploadFacts DEF Alone, At
<1>7. disturbed' \in BOOLEAN /\ (disturbed => disturbed')
  <2>1. disturbed \in BOOLEAN
    BY <1>2, UploadFacts
  <2>2. CASE disturbed' = disturbed
    BY <2>1, <2>2, Zenon
  <2>3. CASE disturbed' = TRUE
    BY <2>3
  <2> QED BY <1>2, <2>2, <2>3
<1> QED BY <1>1, <1>2, <1>3, <1>4, <1>5, <1>6, <1>7, UploadFacts, UploadStep

LEMMA AnswerKeeps ==
  ASSUME StoreIInv, NEW p \in Uploader, Answer(p)
  PROVE  StoreIInv'
<1>1. PICK a, source, stored :
        a = upload[p].asset /\ source = upload[p].source /\ stored = upload[p].stored
  OBVIOUS
<1>2. /\ Running(p) /\ upload[p].step = "registered" /\ Stop(p)
      /\ known' \in {known, known \cup {a}}
      /\ UNCHANGED <<asset, file, temp, cited, reader, disturbed>>
  BY <1>1 DEF Answer, At
<1>3. Becomes(p, IdleUpload) /\ UploadOK(IdleUpload) /\ UploadIInv(p)'
      /\ IdleUpload.step = "idle"
  BY <1>2, StopBecomes, IdleOK
<1>4. /\ asset[a] = MediaAsset(source, stored) /\ file[a] = stored
      /\ asset[a] # NoImage /\ file[a] # NoImage
  BY <1>1, <1>2, UploadFacts, RunningFields DEF UploadIInv
<1>5. AssetOK(a)' /\ KnownIInv(a)'
  BY <1>1, <1>2, <1>4, UploadFacts DEF AssetOK, KnownIInv, MediaAsset
<1>6. a \notin temp' \/ disturbed'
  <2> SUFFICES ASSUME a \in temp, ~ disturbed PROVE FALSE
    BY <1>2
  <2>1. PICK q \in Uploader : At(q, "writing") /\ upload[q].asset = a
    BY DEF StoreIInv, NoStrayFiles
  <2> QED BY <1>1, <1>2, <2>1, UploadFacts DEF Alone, At
<1> QED BY <1>1, <1>2, <1>3, <1>4, <1>5, <1>6, UploadFacts, UploadStep

----------------------------------------------------------------------------
(* What is left of the steps that touch neither the disk nor the table.    *)

LEMMA CrashKeeps ==
  ASSUME StoreIInv, Crash
  PROVE  StoreIInv'
<1>1. /\ upload' = [p \in Uploader |-> IdleUpload] /\ disturbed' = TRUE
      /\ UNCHANGED <<asset, file, temp, known, cited>>
  BY DEF Crash
<1>2. DOMAIN upload' = Uploader /\ \A p \in Uploader : UploadOK(upload[p])' /\ UploadIInv(p)'
  BY <1>1 DEF UploadOK, UploadIInv, Running, IdleUpload
<1>3. \A a \in Asset : AssetOK(a)' /\ KnownIInv(a)'
  BY <1>1 DEF StoreIInv, AssetOK, KnownIInv
<1> QED BY <1>1, <1>2, <1>3 DEF StoreIInv, NoStrayFiles

LEMMA StoreUnchanged ==
  ASSUME StoreIInv, UNCHANGED <<asset, file, temp, upload, known, disturbed>>
  PROVE  StoreIInv'
<1>1. \A p \in Uploader : UploadOK(upload[p])' /\ UploadIInv(p)'
  BY DEF StoreIInv, UploadOK, UploadIInv, Running
<1>2. \A a \in Asset : AssetOK(a)' /\ KnownIInv(a)'
  BY DEF StoreIInv, AssetOK, KnownIInv
<1>3. NoStrayFiles'
  BY DEF StoreIInv, NoStrayFiles, Running, At
<1> QED BY <1>1, <1>2, <1>3 DEF StoreIInv

(* What an upload, a request and the rest may do, each as one action.      *)
UploadNext(p) ==
  \/ \E f \in File : Begin(p, f)
  \/ WriteFails(p) \/ Move(p) \/ Register(p) \/ RegisterFails(p) \/ Undo(p) \/ Answer(p)

ReaderNext(r) ==
  \/ \E a \in Asset, admin \in BOOLEAN : Ask(r, a, admin)
  \/ ReadRow(r) \/ CheckArticle(r) \/ CheckProject(r) \/ GetMedia(r) \/ PublicMedia(r)
  \/ ReadFails(r)

LEMMA NextParts ==
  ASSUME [Next]_vars
  PROVE  \/ \E p \in Uploader : UploadNext(p)
         \/ \E h \in Holder, images \in SUBSET Asset : Cite(h, images)
         \/ \E r \in Reader : ReaderNext(r)
         \/ Crash
         \/ UNCHANGED vars
BY DEF Next, UploadNext, ReaderNext

LEMMA ReaderFrame ==
  ASSUME NEW r \in Reader, ReaderNext(r)
  PROVE  UNCHANGED <<asset, file, temp, upload, known, cited, disturbed>>
BY DEF ReaderNext, Ask, ReadRow, CheckArticle, CheckProject, GetMedia, PublicMedia, OpenFile,
       ReadFails

LEMMA UploadFrame ==
  ASSUME NEW p \in Uploader, UploadNext(p)
  PROVE  UNCHANGED <<cited, reader>> /\ known \subseteq known'
BY DEF UploadNext, Begin, WriteFails, Move, Register, RegisterFails, Undo, Answer

LEMMA StoreStep ==
  ASSUME StoreIInv, [Next]_vars
  PROVE  StoreIInv'
<1>1. ASSUME NEW p \in Uploader, UploadNext(p) PROVE StoreIInv'
  BY <1>1, BeginKeeps, WriteFailsKeeps, MoveKeeps, RegisterKeeps, UndoKeeps, AnswerKeeps
     DEF UploadNext
<1>2. ASSUME NEW h \in Holder, NEW images \in SUBSET Asset, Cite(h, images) PROVE StoreIInv'
  BY <1>2, StoreUnchanged DEF Cite
<1>3. ASSUME NEW r \in Reader, ReaderNext(r) PROVE StoreIInv'
  BY <1>3, StoreUnchanged, ReaderFrame
<1>4. CASE UNCHANGED vars
  BY <1>4, StoreUnchanged DEF vars
<1> QED BY <1>1, <1>2, <1>3, <1>4, CrashKeeps, NextParts

----------------------------------------------------------------------------
(* Requests for an image.                                                  *)

(* The request of another reader, or one that nothing happens to.          *)
LEMMA ReaderUntouched ==
  ASSUME ReadersIInv, NEW r \in Reader, reader'[r] = reader[r], cited' = cited,
         known \subseteq known'
  PROVE  ReaderOK(reader[r])' /\ ReaderIInv(r)'
<1>1. ReaderOK(reader[r]) /\ ReaderIInv(r)
  BY DEF ReadersIInv
<1>2. ReaderOK(reader[r])'
  BY <1>1 DEF ReaderOK
<1>3. ReaderIInv(r)'
  BY <1>1 DEF ReaderIInv, Asking, CitedBy
<1> QED BY <1>2, <1>3

AnswerRight(q) ==
  /\ q.step = "served" /\ ~ q.admin => q.ever
  /\ q.step = "missing" /\ q.known => ~ q.admin /\ q.held = {}
  /\ q.step = "lost" => ~ q.known

(* How a step changes the request it is about.                             *)
Turns(r, q) ==
  /\ DOMAIN reader' = Reader /\ reader'[r] = q
  /\ \A s \in Reader \ {r} : reader'[s] = reader[s]

LEMMA RequestStep ==
  ASSUME ReadersIInv, NEW r \in Reader, NEW q, Turns(r, q),
         cited' = cited, known \subseteq known',
         ReaderOK(q), AnswerRight(q), ReaderIInv(r)'
  PROVE  ReadersIInv'
<1>1. \A s \in Reader : ReaderOK(reader[s])' /\ ReaderIInv(s)'
  BY ReaderUntouched DEF ReaderOK, Turns
<1>2. ImageAnswersAreRight'
  BY DEF ReadersIInv, ImageAnswersAreRight, AnswerRight, Turns
<1> QED BY <1>1, <1>2 DEF ReadersIInv, Turns

Request(step, a, admin, wasKnown, ever, held) ==
  [step |-> step, asset |-> a, admin |-> admin, known |-> wasKnown, ever |-> ever, held |-> held]

LEMMA RequestFields ==
  ASSUME NEW step, NEW a, NEW admin, NEW wasKnown, NEW ever, NEW held, NEW next
  PROVE  LET q == Request(step, a, admin, wasKnown, ever, held) IN
         /\ q.step = step /\ q.asset = a /\ q.admin = admin /\ q.known = wasKnown
         /\ q.ever = ever /\ q.held = held
         /\ [q EXCEPT !.step = next] = Request(next, a, admin, wasKnown, ever, held)
BY DEF Request

LEMMA AskingFields ==
  ASSUME ReadersIInv, NEW r \in Reader, Asking(r)
  PROVE  \E step \in {"row", "article", "project", "open"}, a \in Asset,
            admin \in BOOLEAN, wasKnown \in BOOLEAN, ever \in BOOLEAN, held \in SUBSET Holder :
           reader[r] = Request(step, a, admin, wasKnown, ever, held)
BY DEF ReadersIInv, ReaderOK, Asking, IdleReader, Request

LEMMA RequestOK ==
  ASSUME NEW step \in {"row", "article", "project", "open",
                       "missing", "served", "lost", "unavailable"},
         NEW a \in Asset, NEW admin \in BOOLEAN, NEW wasKnown \in BOOLEAN,
         NEW ever \in BOOLEAN, NEW held \in SUBSET Holder
  PROVE  ReaderOK(Request(step, a, admin, wasKnown, ever, held))
BY DEF ReaderOK, Request

LEMMA StepTurns ==
  ASSUME ReadersIInv, NEW r \in Reader, NEW step, NEW a, NEW admin, NEW wasKnown, NEW ever,
         NEW held, NEW next,
         reader[r] = Request(step, a, admin, wasKnown, ever, held), Step(r, next)
  PROVE  Turns(r, Request(next, a, admin, wasKnown, ever, held))
<1>1. [reader[r] EXCEPT !.step = next] = Request(next, a, admin, wasKnown, ever, held)
  BY RequestFields
<1> QED BY <1>1 DEF Step, Turns, ReadersIInv

LEMMA AskKeeps ==
  ASSUME ReadersIInv, NEW r \in Reader, NEW a \in Asset, NEW admin \in BOOLEAN,
         Ask(r, a, admin)
  PROVE  ReadersIInv'
<1>1. PICK wasKnown \in BOOLEAN, ever \in BOOLEAN, held \in SUBSET Holder :
        /\ wasKnown = (a \in known) /\ ever = CitedBy(Holder, a)
        /\ held = {h \in Holder : a \in cited[h]}
  <2>1. (a \in known) \in BOOLEAN /\ CitedBy(Holder, a) \in BOOLEAN
    BY DEF CitedBy
  <2> QED BY <2>1
<1> DEFINE q == Request("row", a, admin, wasKnown, ever, held)
<1>2. reader' = [reader EXCEPT ![r] = q] /\ UNCHANGED <<known, cited>>
  BY <1>1 DEF Ask, Request
<1>3. /\ q.step = "row" /\ q.asset = a /\ q.known = wasKnown /\ q.ever = ever /\ q.held = held
  BY RequestFields
<1>4. ReaderOK(q)
  BY RequestOK
<1> HIDE DEF q
<1>5. Turns(r, q)
  BY <1>2 DEF Turns, ReadersIInv
<1>6. AnswerRight(q)
  BY <1>3 DEF AnswerRight
<1>7. ReaderIInv(r)'
  <2>1. (CitedBy(Holder, a) => ever) /\ (wasKnown => a \in known)
    BY <1>1
  <2> QED BY <1>1, <1>2, <1>3, <1>5, <2>1 DEF Turns, ReaderIInv, CitedBy
<1> QED BY <1>2, <1>4, <1>5, <1>6, <1>7, RequestStep

(* The steps of a request: from the row to the articles, the projects and  *)
(* the file, or to an answer.                                              *)
LEMMA ReaderKeeps ==
  ASSUME StoreIInv, ReadersIInv, NEW r \in Reader,
         \/ ReadRow(r) \/ CheckArticle(r) \/ CheckProject(r) \/ GetMedia(r) \/ PublicMedia(r)
         \/ ReadFails(r)
  PROVE  ReadersIInv'
<1>1. Asking(r) /\ UNCHANGED <<asset, file, known, cited>>
  BY DEF ReadRow, CheckArticle, CheckProject, GetMedia, PublicMedia, OpenFile, ReadFails, Reads
<1>2. PICK step \in {"row", "article", "project", "open"}, a \in Asset, admin \in BOOLEAN,
           wasKnown \in BOOLEAN, ever \in BOOLEAN, held \in SUBSET Holder :
        reader[r] = Request(step, a, admin, wasKnown, ever, held)
  BY <1>1, AskingFields
<1>3. /\ reader[r].step = step /\ reader[r].asset = a /\ reader[r].admin = admin
      /\ reader[r].known = wasKnown /\ reader[r].ever = ever /\ reader[r].held = held
  BY <1>2, RequestFields
<1>4. /\ CitedBy(Holder, a) => ever
      /\ held \subseteq {h \in Holder : a \in cited[h]}
      /\ wasKnown => a \in known
      /\ step = "open" /\ ~ admin => ever
      /\ step \in {"article", "project"} => ~ admin
      /\ step = "project" => held \cap Article = {}
  BY <1>1, <1>3 DEF ReadersIInv, ReaderIInv
<1>5. wasKnown => asset[a] # NoImage /\ file[a] # NoImage
  BY <1>4 DEF StoreIInv, KnownIInv
<1>6. ASSUME NEW next \in {"article", "project", "open",
                           "missing", "served", "lost", "unavailable"},
             Step(r, next),
             next = "article" => ~ admin,
             next = "project" => ~ admin /\ held \cap Article = {},
             next = "open" => admin \/ ever,
             next = "missing" /\ wasKnown => ~ admin /\ held = {},
             next = "served" => admin \/ ever,
             next = "lost" => ~ wasKnown
      PROVE  ReadersIInv'
  <2> DEFINE q == Request(next, a, admin, wasKnown, ever, held)
  <2>1. Turns(r, q)
    BY <1>2, <1>6, StepTurns
  <2>2. ReaderOK(q)
    BY RequestOK
  <2>3. /\ q.step = next /\ q.asset = a /\ q.admin = admin /\ q.known = wasKnown
        /\ q.ever = ever /\ q.held = held
    BY RequestFields
  <2> HIDE DEF q
  <2>4. AnswerRight(q)
    BY <1>6, <2>3 DEF AnswerRight
  <2>5. ReaderIInv(r)'
    BY <1>1, <1>4, <1>6, <2>1, <2>3 DEF Turns, ReaderIInv, CitedBy
  <2> QED BY <1>1, <2>1, <2>2, <2>4, <2>5, RequestStep
<1>7. CASE ReadRow(r)
  BY <1>3, <1>5, <1>6, <1>7 DEF ReadRow, Reads
<1>8. CASE CheckArticle(r)
  BY <1>3, <1>4, <1>6, <1>8
     DEF CheckArticle, Reads, IsMediaReferencedByPublishedArticle, CitedBy, Holder
<1>9. CASE CheckProject(r)
  BY <1>3, <1>4, <1>6, <1>9
     DEF CheckProject, Reads, IsMediaReferencedByPublicProject, CitedBy, Holder
<1>10. CASE GetMedia(r) \/ PublicMedia(r)
  BY <1>3, <1>4, <1>5, <1>6, <1>10 DEF GetMedia, PublicMedia, OpenFile, Reads
<1>11. CASE ReadFails(r)
  BY <1>6, <1>11 DEF ReadFails
<1> QED BY <1>7, <1>8, <1>9, <1>10, <1>11

(* What is public changes: the requests under way take note of it.         *)
LEMMA CiteKeeps ==
  ASSUME ReadersIInv, NEW h \in Holder, NEW images \in SUBSET Asset, Cite(h, images)
  PROVE  ReadersIInv'
<1>1. /\ cited' = [cited EXCEPT ![h] = images] /\ UNCHANGED known
      /\ cited' \in [Holder -> SUBSET Asset]
      /\ \A g \in Holder : cited'[g] = IF g = h THEN images ELSE cited[g]
  BY DEF Cite, ReadersIInv
<1>2. DOMAIN reader' = Reader
  BY DEF Cite
<1>3. ASSUME NEW r \in Reader
      PROVE  ReaderOK(reader[r])' /\ ReaderIInv(r)' /\ AnswerRight(reader'[r])
  <2>1. ReaderOK(reader[r]) /\ ReaderIInv(r) /\ AnswerRight(reader[r])
    BY DEF ReadersIInv, ImageAnswersAreRight, AnswerRight
  <2>2. CASE ~ Asking(r)
    <3>1. reader'[r] = reader[r]
      BY <2>2 DEF Cite
    <3> QED BY <2>1, <2>2, <3>1 DEF ReaderOK, ReaderIInv, Asking
  <2>3. CASE Asking(r)
    <3>1. PICK step \in {"row", "article", "project", "open"}, a \in Asset, admin \in BOOLEAN,
               wasKnown \in BOOLEAN, ever \in BOOLEAN, held \in SUBSET Holder :
            reader[r] = Request(step, a, admin, wasKnown, ever, held)
      BY <2>3, AskingFields
    <3>2. /\ reader[r].step = step /\ reader[r].asset = a /\ reader[r].admin = admin
          /\ reader[r].known = wasKnown /\ reader[r].ever = ever /\ reader[r].held = held
      BY <3>1, RequestFields
    <3>3. PICK ever2 \in BOOLEAN, held2 \in SUBSET Holder :
            /\ ever2 = (ever \/ a \in images)
            /\ held2 = IF a \in images THEN held ELSE held \ {h}
      OBVIOUS
    <3>4. reader'[r] = Request(step, a, admin, wasKnown, ever2, held2)
      <4>1. reader'[r] = [reader[r] EXCEPT
                !.ever = @ \/ reader[r].asset \in images,
                !.held = IF reader[r].asset \in images THEN @ ELSE @ \ {h}]
        BY <2>3 DEF Cite
      <4>2. reader'[r] = [Request(step, a, admin, wasKnown, ever, held) EXCEPT
                            !.ever = ever2, !.held = held2]
        BY <3>1, <3>2, <3>3, <4>1
      <4> QED BY <4>2 DEF Request
    <3>5. /\ reader'[r].step = step /\ reader'[r].asset = a /\ reader'[r].admin = admin
          /\ reader'[r].known = wasKnown /\ reader'[r].ever = ever2 /\ reader'[r].held = held2
      BY <3>4, RequestFields
    <3>6. ReaderOK(reader[r])'
      BY <3>4, RequestOK DEF ReaderOK
    <3>7. AnswerRight(reader'[r])
      BY <3>5 DEF AnswerRight
    <3>8. /\ CitedBy(Holder, a) => ever
          /\ held \subseteq {g \in Holder : a \in cited[g]}
          /\ wasKnown => a \in known
          /\ step = "open" /\ ~ admin => ever
          /\ step \in {"article", "project"} => ~ admin
          /\ step = "project" => held \cap Article = {}
      BY <2>1, <2>3, <3>2 DEF ReaderIInv
    <3>9. ever => ever2
      BY <3>3
    <3>10. CitedBy(Holder, a)' => ever2
      BY <1>1, <3>3, <3>8 DEF CitedBy
    <3>11. /\ held2 \subseteq {g \in Holder : a \in cited'[g]}
           /\ held2 \subseteq held
      BY <1>1, <3>3, <3>8
    <3> QED BY <1>1, <3>5, <3>6, <3>7, <3>8, <3>9, <3>10, <3>11 DEF ReaderIInv, CitedBy
  <2> QED BY <2>2, <2>3
<1>4. ImageAnswersAreRight'
  BY <1>3 DEF ImageAnswersAreRight, AnswerRight
<1> QED BY <1>1, <1>2, <1>3, <1>4 DEF ReadersIInv

LEMMA ReadersStep ==
  ASSUME StoreIInv, ReadersIInv, [Next]_vars
  PROVE  ReadersIInv'
<1>1. ASSUME UNCHANGED <<reader, cited>>, known \subseteq known' PROVE ReadersIInv'
  <2>1. \A r \in Reader : ReaderOK(reader[r])' /\ ReaderIInv(r)'
    BY <1>1, ReaderUntouched
  <2> QED BY <1>1, <2>1 DEF ReadersIInv, ImageAnswersAreRight
<1>2. ASSUME NEW p \in Uploader, UploadNext(p) PROVE ReadersIInv'
  BY <1>1, <1>2, UploadFrame
<1>3. ASSUME NEW h \in Holder, NEW images \in SUBSET Asset, Cite(h, images) PROVE ReadersIInv'
  BY <1>3, CiteKeeps
<1>4. ASSUME NEW r \in Reader, ReaderNext(r) PROVE ReadersIInv'
  BY <1>4, AskKeeps, ReaderKeeps DEF ReaderNext
<1>5. CASE Crash
  <2>1. reader' = [r \in Reader |-> IdleReader] /\ UNCHANGED <<cited, known>>
    BY <1>5 DEF Crash
  <2>2. \A r \in Reader : ReaderOK(reader[r])' /\ ReaderIInv(r)'
    BY <2>1 DEF ReaderOK, ReaderIInv, Asking, IdleReader
  <2> QED BY <2>1, <2>2 DEF ReadersIInv, ImageAnswersAreRight, IdleReader
<1>6. CASE UNCHANGED vars
  BY <1>1, <1>6 DEF vars
<1> QED BY <1>2, <1>3, <1>4, <1>5, <1>6, NextParts

LEMMA InvariantAlways == Spec => []IInv
<1>1. IInv /\ [Next]_vars => IInv'
  BY StoreStep, ReadersStep DEF IInv
<1> QED BY InvariantInit, <1>1, PTL DEF Spec

(* Uploads, requests and the store are of the shapes the code gives them.  *)
THEOREM MediaTypes == Spec => []TypeOK
<1>1. IInv => TypeOK
  BY DEF IInv, StoreIInv, ReadersIInv, AssetOK, TypeOK
<1> QED BY <1>1, InvariantAlways, PTL

(* Without a stop, and unless a file cannot be removed, every file in      *)
(* place belongs to a row or to an upload under way, and every temporary   *)
(* file to an upload that is writing it.                                   *)
THEOREM NoFileIsLeftBehind == Spec => []NoStrayFiles
<1>1. IInv => NoStrayFiles
  BY DEF IInv, StoreIInv
<1> QED BY <1>1, InvariantAlways, PTL

(* A visitor is served only what was public at some moment of the request; *)
(* what one article or project refers to throughout is found; a known      *)
(* image never lacks its file.                                             *)
THEOREM ImageAnswersAreAlwaysRight == Spec => []ImageAnswersAreRight
<1>1. IInv => ImageAnswersAreRight
  BY DEF IInv, ReadersIInv
<1> QED BY <1>1, InvariantAlways, PTL

----------------------------------------------------------------------------
(* The service implements the store that authors rely on.                  *)

(* Bounding the width by the quotient, as the code does to keep the        *)
(* product from overflowing, bounds the product.                           *)
LEMMA QuotientBounds ==
  ASSUME NEW width \in Nat, NEW height \in Nat \ {0}, NEW max \in Nat,
         width <= max \div height
  PROVE  width * height <= max
<1> DEFINE quotient == max \div height
<1>1. quotient \in Nat /\ height * quotient <= max
  OBVIOUS
<1> HIDE DEF quotient
<1>2. width <= quotient
  BY DEF quotient
<1>3. width * height <= quotient * height
  BY <1>1, <1>2
<1> QED BY <1>1, <1>3

(* A WebP file whose chunks are whole is told by the one that moves it.    *)
LEMMA StillIsAccepted ==
  ASSUME NEW f \in File, Accepted(f), FileIsShownAs(f)
  PROVE  f.still
<1> SUFFICES ASSUME ~ f.still PROVE FALSE
  OBVIOUS
<1>1. f.head = "webp" /\ f.sound
  BY DEF FileIsShownAs, Accepted
<1>2. PICK i \in DOMAIN f.chunks : \/ f.chunks[i].type = "VP8X" /\ f.chunks[i].moves
                                  \/ f.chunks[i].type \in {"ANIM", "ANMF"}
  BY DEF FileIsShownAs
<1>3. \A j \in DOMAIN f.chunks : f.chunks[j].fits
  BY <1>1 DEF FileIsShownAs
<1>4. 1 .. i - 1 \subseteq DOMAIN f.chunks
  <2>1. Len(f.chunks) \in Nat /\ DOMAIN f.chunks = 1 .. Len(f.chunks)
    BY FileAssumption
  <2> QED BY <1>2, <2>1
<1>5. WebpIsAnimated(f.chunks)
  BY <1>2, <1>3, <1>4 DEF WebpIsAnimated
<1> QED BY <1>1, <1>5 DEF Accepted, DetectMediaType

LEMMA AcceptedFits ==
  ASSUME NEW f \in File, Accepted(f), FileIsShownAs(f)
  PROVE  /\ f.still /\ Store!WithinLimits(f) /\ Store!TypeFits(f, NormalizeImage(f).type)
         /\ NormalizeImage(f).picture = Store!Upright(f.picture, f.held)
<1>1. PictureOK(f.picture) /\ f.size \in Nat /\ f.held \in 1 .. 8
  BY FileAssumption
<1>2. Store!WithinLimits(f)
  <2>1. f.picture.width \in Nat /\ f.picture.height \in Nat
    BY <1>1 DEF PictureOK, Width, Height
  <2>2. /\ f.picture.height > 0 /\ f.picture.width <= MaxImagePixels \div f.picture.height
        /\ f.picture.width <= MaxImageEdge /\ f.picture.height <= MaxImageEdge
    BY DEF Accepted, CheckDimensions, Width, Height
  <2>3. f.picture.width * f.picture.height <= MaxImagePixels
    BY <2>1, <2>2, QuotientBounds, LimitsAssumption
  <2>4. f.size <= MaxUploadBytes
    BY <1>1, LimitsAssumption DEF Accepted, ReadUpload
  <2> QED BY <2>2, <2>3, <2>4 DEF Store!WithinLimits
<1>3. HasTransparency(f.picture) <=> ~ Store!Opaque(f.picture)
  <2>1. DOMAIN f.picture.at = Cells(Width(f.picture), Height(f.picture))
    BY <1>1 DEF PictureOK
  <2> QED BY <2>1 DEF HasTransparency, Store!Opaque
<1>4. CASE f.head = "jpeg"
  <2>1. DetectMediaType(f) = "jpeg"
    BY <1>4 DEF DetectMediaType
  <2>2. /\ NormalizeImage(f).picture = ApplyOrientation(f.picture, f.held)
        /\ NormalizeImage(f).type = "jpeg" /\ ~ HasTransparency(f.picture)
    BY <1>4, <2>1 DEF NormalizeImage, FileIsShownAs
  <2>3. Store!TypeFits(f, NormalizeImage(f).type)
    BY <1>3, <1>4, <2>2 DEF Store!TypeFits
  <2> QED BY <1>1, <1>2, <2>2, <2>3, OrientationIsUpright, StillIsAccepted
<1>5. CASE f.head \in {"png", "webp"}
  <2>1. DetectMediaType(f) = f.head
    BY <1>5 DEF DetectMediaType
  <2>2. /\ NormalizeImage(f).picture = f.picture /\ f.held = 1
        /\ NormalizeImage(f).type = IF f.head = "png" THEN "png"
             ELSE IF HasTransparency(f.picture) THEN "png" ELSE "jpeg"
    BY <1>5, <2>1 DEF NormalizeImage, FileIsShownAs
  <2>3. Store!Upright(f.picture, f.held) = f.picture
    BY <2>2 DEF Store!Upright
  <2>4. Store!TypeFits(f, NormalizeImage(f).type)
    BY <1>3, <1>5, <2>2 DEF Store!TypeFits
  <2> QED BY <1>2, <2>2, <2>3, <2>4, StillIsAccepted
<1> QED BY <1>4, <1>5 DEF Accepted, DetectMediaType

(* Whatever happens but an answer, what somebody knows stays as it is.     *)
LEMMA KnownStays ==
  ASSUME StoreIInv, [Next]_vars, known' = known
  PROVE  Image' = Image
<1> SUFFICES ASSUME NEW a \in known
             PROVE  asset'[a] = asset[a] /\ file'[a] = file[a]
  BY DEF Image, Shown
<1>1. a \in Asset /\ DOMAIN asset = Asset /\ DOMAIN file = Asset
  BY DEF StoreIInv
<1>2. ASSUME NEW p \in Uploader, UploadNext(p)
      PROVE  asset'[a] = asset[a] /\ file'[a] = file[a]
  <2>1. Running(p) => upload[p].asset # a
    BY AloneRunning
  <2>2. CASE Running(p)
    BY <1>1, <1>2, <2>1, <2>2
       DEF UploadNext, Begin, WriteFails, Move, Register, RegisterFails, Undo, Answer
  <2>3. CASE ~ Running(p)
    BY <1>2, <2>3
       DEF UploadNext, Begin, WriteFails, Move, Register, RegisterFails, Undo, Answer, At
  <2> QED BY <2>2, <2>3
<1>3. ASSUME NEW r \in Reader, ReaderNext(r)
      PROVE  asset'[a] = asset[a] /\ file'[a] = file[a]
  BY <1>3, ReaderFrame
<1> QED BY <1>2, <1>3, NextParts DEF Cite, Crash, vars

(* An answer makes known what its upload stored.                           *)
LEMMA AnswerAdds ==
  ASSUME FilesAreShownAsTheyAre, StoreIInv, NEW p \in Uploader, Answer(p), known' # known
  PROVE  \E a \in Asset, f \in File, type \in {"png", "jpeg"} :
           /\ Image[a] = NoImage
           /\ f.still /\ Store!WithinLimits(f) /\ Store!TypeFits(f, type)
           /\ Image' = [Image EXCEPT ![a] = [type |-> type,
                                             picture |-> Store!Upright(f.picture, f.held)]]
<1>1. PICK a, source, stored :
        a = upload[p].asset /\ source = upload[p].source /\ stored = upload[p].stored
  OBVIOUS
<1>2. /\ Running(p) /\ upload[p].step = "registered" /\ known' = known \cup {a}
      /\ UNCHANGED <<asset, file>>
  BY <1>1 DEF Answer, At
<1>3. /\ a \in Asset /\ a \notin known
      /\ asset[a] = MediaAsset(source, stored) /\ file[a] = stored
      /\ asset[a] # NoImage /\ file[a] # NoImage
  BY <1>1, <1>2, UploadFacts, RunningFields DEF UploadIInv
<1>4. PICK f \in File : Accepted(f) /\ stored = NormalizeImage(f)
  BY <1>1, <1>2, UploadFacts DEF UploadIInv
<1>5. FileIsShownAs(f)
  BY DEF FilesAreShownAsTheyAre
<1>6. PictureOK(stored.picture) /\ stored.type \in {"png", "jpeg"}
  BY <1>4, NormalizedFields DEF ImageOK
<1>7. stored.picture = Store!Upright(f.picture, f.held)
  BY <1>4, <1>5, AcceptedFits
<1>8. Shown(a)' = [type |-> stored.type, picture |-> stored.picture]
  <2>1. Shown(a)' = [type |-> stored.type,
                     picture |-> [width |-> Width(stored.picture),
                                  height |-> Height(stored.picture),
                                  at |-> stored.picture.at]]
    BY <1>2, <1>3 DEF Shown, MediaAsset
  <2>2. stored.picture = [width |-> Width(stored.picture), height |-> Height(stored.picture),
                          at |-> stored.picture.at]
    BY <1>6 DEF PictureOK
  <2> QED BY <2>1, <2>2
<1>9. \A b \in Asset \ {a} : Shown(b)' = Shown(b)
  BY <1>2 DEF Shown
<1>10. Image' = [Image EXCEPT ![a] = [type |-> stored.type, picture |-> stored.picture]]
  BY <1>3, <1>8, <1>9 DEF Image
<1>11. Image[a] = NoImage
  BY <1>3 DEF Image, Shown
<1> QED BY <1>3, <1>4, <1>5, <1>6, <1>7, <1>10, <1>11, AcceptedFits

(* The service implements ImageStore, for files that are shown as they are *)
(* held: an image whose upload was answered is kept for good, upright,     *)
(* still, opaque only if it was, and within the limits.                    *)
THEOREM MediaImplementsStore == FilesAreShownAsTheyAre => (Spec => Implements)
<1> SUFFICES ASSUME FilesAreShownAsTheyAre PROVE Spec => Implements
  OBVIOUS
<1>1. Init => Store!Init
  BY DEF Init, Store!Init, Image, Shown
<1>2. StoreIInv /\ [Next]_vars => [Store!Next]_Image
  <2> SUFFICES ASSUME StoreIInv, [Next]_vars, Image' # Image PROVE Store!Next
    BY DEF Image
  <2>1. known' # known
    BY KnownStays
  <2>2. PICK p \in Uploader : UploadNext(p)
    BY <2>1, NextParts, ReaderFrame DEF Cite, Crash, vars
  <2>3. Answer(p)
    BY <2>1, <2>2 DEF UploadNext, Begin, WriteFails, Move, Register, RegisterFails, Undo
  <2> QED BY <2>1, <2>3, AnswerAdds DEF Store!Next, Store!Add
<1>3. IInv => StoreIInv
  BY DEF IInv
<1> QED BY <1>1, <1>2, <1>3, InvariantAlways, PTL DEF Spec, Implements, Store!Spec
=============================================================================
