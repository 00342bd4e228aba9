------------------------------- MODULE Media -------------------------------
(***************************************************************************)
(* The image service of internal/media with its handlers.  An upload       *)
(* writes a temporary file, moves it into place, then inserts its row; the *)
(* process may stop between any two of these.  A request for an image      *)
(* reads the row, then whether a published article and then whether a      *)
(* public project refers to it, each by a statement of its own, and then   *)
(* opens the file, while articles and projects change.                     *)
(***************************************************************************)
EXTENDS Pictures

CONSTANTS
  Asset, File, NoImage,
  Article, Project,   \* what may refer to images
  Uploader, Reader,   \* requests in progress
  Faults              \* which of "crash", "lost", "remove" may happen

Holder == Article \cup Project

VARIABLES
  asset,      \* table media_assets
  file,       \* the files in place, by the asset of their storage key
  temp,       \* temporary files, by the asset they are to become
  upload,     \* the uploads in progress
  known,      \* ids some author was answered
  cited,      \* images a published article or a public project refers to
  reader,     \* the requests for an image
  disturbed   \* the process was stopped, or a file could not be removed

vars == <<asset, file, temp, upload, known, cited, reader, disturbed>>

IdleUpload == [step |-> "idle"]
IdleReader == [step |-> "idle"]

Running(p) == upload[p].step # "idle"
Asking(r) == reader[r].step \in {"row", "article", "project", "open"}

Init ==
  /\ asset = [a \in Asset |-> NoImage] /\ file = asset
  /\ temp = {} /\ known = {}
  /\ upload = [p \in Uploader |-> IdleUpload]
  /\ cited = [h \in Holder |-> {}]
  /\ reader = [r \in Reader |-> IdleReader]
  /\ disturbed = FALSE

----------------------------------------------------------------------------
(* CreateMediaAsset: what the row says of the bytes read back from the     *)
(* temporary file.                                                         *)
MediaAsset(source, stored) ==
  [source |-> source, type |-> stored.type,
   width |-> Width(stored.picture), height |-> Height(stored.picture),
   sum |-> stored.picture]

(* A file is a table of pixels and a list of chunks however sound it is,   *)
(* and how it is to be turned one of the eight Exif orientations.          *)
PictureOK(picture) ==
  /\ Width(picture) \in Nat /\ Height(picture) \in Nat
  /\ picture = [width |-> Width(picture), height |-> Height(picture),
                at |-> [cell \in Cells(Width(picture), Height(picture)) |-> picture.at[cell]]]

ASSUME FileAssumption ==
  \A f \in File :
    /\ PictureOK(f.picture) /\ f.size \in Nat /\ f.held \in 1 .. 8
    /\ Len(f.chunks) \in Nat /\ DOMAIN f.chunks = 1 .. Len(f.chunks)
    /\ NoImage # NormalizeImage(f)
    /\ NoImage # MediaAsset(DetectMediaType(f), NormalizeImage(f))

(* What a viewer takes from a file, in the terms of the code: the Exif     *)
(* orientation turns a JPEG, which has no transparency, and nothing else;  *)
(* a WebP image moves when one of its chunks says so, and one that can be  *)
(* decoded is whole.                                                       *)
FileIsShownAs(f) ==
  /\ f.held = IF f.head = "jpeg" THEN JpegOrientation(f.segments) ELSE 1
  /\ f.head = "jpeg" => ~ HasTransparency(f.picture)
  /\ f.still <=> ~ (f.head = "webp" /\ \E i \in DOMAIN f.chunks :
                      \/ f.chunks[i].type = "VP8X" /\ f.chunks[i].moves
                      \/ f.chunks[i].type \in {"ANIM", "ANMF"})
  /\ f.head = "webp" /\ f.sound => \A i \in DOMAIN f.chunks : f.chunks[i].fits

FilesAreShownAsTheyAre == \A f \in File : FileIsShownAs(f)

At(p, step) == Running(p) /\ upload[p].step = step
Go(p, step) == upload' = [upload EXCEPT ![p].step = step]
Stop(p) == upload' = [upload EXCEPT ![p] = IdleUpload]

(* The checks, a new id, and a temporary file.                             *)
Begin(p, f) ==
  /\ ~ Running(p)
  /\ Accepted(f)
  /\ \E a \in Asset :
       /\ asset[a] = NoImage /\ file[a] = NoImage /\ a \notin temp
       /\ \A q \in Uploader : Running(q) => upload[q].asset # a
       /\ temp' = temp \cup {a}
       /\ upload' = [upload EXCEPT ![p] =
            [step |-> "writing", asset |-> a, source |-> DetectMediaType(f),
             stored |-> NormalizeImage(f)]]
  /\ UNCHANGED <<asset, file, known, cited, reader, disturbed>>

(* Writing, its permissions, reading it back or moving it failed: the      *)
(* deferred removal takes the temporary file away.                         *)
WriteFails(p) ==
  /\ At(p, "writing")
  /\ temp' = temp \ {upload[p].asset}
  /\ Stop(p)
  /\ UNCHANGED <<asset, file, known, cited, reader, disturbed>>

Move(p) ==
  /\ At(p, "writing")
  /\ temp' = temp \ {upload[p].asset}
  /\ file' = [file EXCEPT ![upload[p].asset] = upload[p].stored]
  /\ Go(p, "moved")
  /\ UNCHANGED <<asset, known, cited, reader, disturbed>>

(* The insert, which may fail, or take effect although its answer is lost. *)
Register(p) ==
  /\ At(p, "moved")
  /\ asset' = [asset EXCEPT ![upload[p].asset] = MediaAsset(upload[p].source, upload[p].stored)]
  /\ \/ Go(p, "registered")
     \/ "lost" \in Faults /\ Go(p, "failed")
  /\ UNCHANGED <<file, temp, known, cited, reader, disturbed>>

RegisterFails(p) ==
  /\ At(p, "moved")
  /\ Go(p, "failed")
  /\ UNCHANGED <<asset, file, temp, known, cited, reader, disturbed>>

(* A wrong Undo: the file of a failed insert stays.                        *)
UndoNothing(p) ==
  /\ At(p, "failed")
  /\ Stop(p)
  /\ UNCHANGED <<asset, file, temp, known, cited, reader, disturbed>>

(* The file is removed; that this may fail is ignored.                     *)
Undo(p) ==
  /\ At(p, "failed")
  /\ \/ /\ file' = [file EXCEPT ![upload[p].asset] = NoImage]
        /\ UNCHANGED disturbed
     \/ /\ "remove" \in Faults /\ disturbed' = TRUE
        /\ UNCHANGED file
  /\ Stop(p)
  /\ UNCHANGED <<asset, temp, known, cited, reader>>

(* 201, or an error although the image is stored: the request had another  *)
(* part, or went on past the limit.                                        *)
Answer(p) ==
  /\ At(p, "registered")
  /\ known' \in {known, known \cup {upload[p].asset}}
  /\ Stop(p)
  /\ UNCHANGED <<asset, file, temp, cited, reader, disturbed>>

----------------------------------------------------------------------------
(* What is public changes, in one transaction of internal/article or       *)
(* internal/project, whose foreign keys want rows for the images.          *)
Cite(h, images) ==
  /\ images \subseteq known
  /\ \A a \in images : asset[a] # NoImage
  /\ images # cited[h]
  /\ cited' = [cited EXCEPT ![h] = images]
  /\ reader' = [r \in Reader |->
       IF ~ Asking(r) THEN reader[r]
       ELSE [reader[r] EXCEPT !.ever = @ \/ reader[r].asset \in images,
                              !.held = IF reader[r].asset \in images THEN @ ELSE @ \ {h}]]
  /\ UNCHANGED <<asset, file, temp, upload, known, disturbed>>

----------------------------------------------------------------------------
CitedBy(holders, a) == \E h \in holders : a \in cited[h]

IsMediaReferencedByPublishedArticle(a) == CitedBy(Article, a)
IsMediaReferencedByPublicProject(a) == CitedBy(Project, a)

Reads(r, step) == Asking(r) /\ reader[r].step = step
Step(r, step) == reader' = [reader EXCEPT ![r].step = step]

(* GET of an image, by a visitor or (admin) by the administrator.  ever    *)
(* and held follow its public references while the request lasts.          *)
Ask(r, a, admin) ==
  /\ ~ Asking(r)
  /\ reader' = [reader EXCEPT ![r] =
       [step |-> "row", asset |-> a, admin |-> admin, known |-> a \in known,
        ever |-> CitedBy(Holder, a), held |-> {h \in Holder : a \in cited[h]}]]
  /\ UNCHANGED <<asset, file, temp, upload, known, cited, disturbed>>

(* A wrong CheckArticle: an image no article refers to is not public.      *)
CheckArticleOnly(r) ==
  /\ Reads(r, "article")
  /\ Step(r, IF IsMediaReferencedByPublishedArticle(reader[r].asset) THEN "open" ELSE "missing")
  /\ UNCHANGED <<asset, file, temp, upload, known, cited, disturbed>>

ReadRow(r) ==
  /\ Reads(r, "row")
  /\ Step(r, IF asset[reader[r].asset] = NoImage THEN "missing"
              ELSE IF reader[r].admin THEN "open" ELSE "article")
  /\ UNCHANGED <<asset, file, temp, upload, known, cited, disturbed>>

CheckArticle(r) ==
  /\ Reads(r, "article")
  /\ Step(r, IF IsMediaReferencedByPublishedArticle(reader[r].asset) THEN "open" ELSE "project")
  /\ UNCHANGED <<asset, file, temp, upload, known, cited, disturbed>>

CheckProject(r) ==
  /\ Reads(r, "project")
  /\ Step(r, IF IsMediaReferencedByPublicProject(reader[r].asset) THEN "open" ELSE "missing")
  /\ UNCHANGED <<asset, file, temp, upload, known, cited, disturbed>>

(* Served with the digest of the row as ETag (or found unmodified by it);  *)
(* 503, or 500 to a visitor, when the file is not there.                   *)
OpenFile(r, admin) ==
  /\ Reads(r, "open") /\ reader[r].admin = admin
  /\ Step(r, IF file[reader[r].asset] = NoImage THEN "lost" ELSE "served")
  /\ UNCHANGED <<asset, file, temp, upload, known, cited, disturbed>>

GetMedia(r) == OpenFile(r, TRUE)
PublicMedia(r) == OpenFile(r, FALSE)

(* A statement fails: an error, and nothing said of the image.             *)
ReadFails(r) ==
  /\ Asking(r)
  /\ Step(r, "unavailable")
  /\ UNCHANGED <<asset, file, temp, upload, known, cited, disturbed>>

(* The process stops: uploads and requests are gone, files and rows stay.  *)
Crash ==
  /\ "crash" \in Faults
  /\ \E p \in Uploader : Running(p)
  /\ upload' = [p \in Uploader |-> IdleUpload]
  /\ reader' = [r \in Reader |-> IdleReader]
  /\ disturbed' = TRUE
  /\ UNCHANGED <<asset, file, temp, known, cited>>

Next ==
  \/ \E p \in Uploader :
       \/ \E f \in File : Begin(p, f)
       \/ WriteFails(p) \/ Move(p) \/ Register(p) \/ RegisterFails(p) \/ Undo(p) \/ Answer(p)
  \/ \E h \in Holder, images \in SUBSET Asset : Cite(h, images)
  \/ \E r \in Reader :
       \/ \E a \in Asset, admin \in BOOLEAN : Ask(r, a, admin)
       \/ ReadRow(r) \/ CheckArticle(r) \/ CheckProject(r) \/ GetMedia(r) \/ PublicMedia(r)
       \/ ReadFails(r)
  \/ Crash

Spec == Init /\ [][Next]_vars

----------------------------------------------------------------------------
ImageOK(i) ==
  /\ i.type \in {"png", "jpeg"}
  /\ DOMAIN i.picture.at = Cells(Width(i.picture), Height(i.picture))

UploadOK(u) ==
  \/ u = IdleUpload
  \/ /\ u = [step |-> u.step, asset |-> u.asset, source |-> u.source, stored |-> u.stored]
     /\ u.step \in {"writing", "moved", "registered", "failed"}
     /\ u.asset \in Asset /\ u.source \in {"png", "jpeg", "webp"} /\ ImageOK(u.stored)

ReaderOK(q) ==
  \/ q = IdleReader
  \/ q \in [step : {"row", "article", "project", "open",
                    "missing", "served", "lost", "unavailable"},
            asset : Asset, admin : BOOLEAN, known : BOOLEAN, ever : BOOLEAN,
            held : SUBSET Holder]

TypeOK ==
  /\ \A a \in Asset :
       /\ asset[a] # NoImage =>
            /\ asset[a].source \in {"png", "jpeg", "webp"}
            /\ ImageOK([type |-> asset[a].type, picture |-> asset[a].sum])
       /\ file[a] # NoImage => ImageOK(file[a])
  /\ temp \subseteq Asset /\ known \subseteq Asset
  /\ \A p \in Uploader : UploadOK(upload[p])
  /\ cited \in [Holder -> SUBSET Asset]
  /\ \A r \in Reader : ReaderOK(reader[r])
  /\ disturbed \in BOOLEAN

(* What an author sees of an id that an upload was answered with.          *)
Shown(a) ==
  IF a \notin known THEN NoImage
  ELSE IF asset[a] # NoImage /\ file[a] # NoImage
          /\ asset[a].sum = file[a].picture /\ asset[a].type = file[a].type
  THEN [type |-> asset[a].type,
        picture |-> [width |-> asset[a].width, height |-> asset[a].height,
                     at |-> file[a].picture.at]]
  ELSE [type |-> "broken"]

Image == [a \in Asset |-> Shown(a)]

Store == INSTANCE ImageStore WITH image <- Image

(* An image somebody was told of has its row and its file, they agree, and *)
(* it shows upright what the file showed: whatever fails or stops on the   *)
(* way, and whatever was kept of uploads that did not succeed.             *)
Implements == Store!Spec

(* Left to itself the service leaves nothing behind: without a stop or a   *)
(* file that cannot be removed, every file belongs to an upload under way  *)
(* or to a row.                                                            *)
NoStrayFiles ==
  ~ disturbed =>
    /\ \A a \in Asset : file[a] # NoImage =>
         asset[a] # NoImage \/ \E p \in Uploader : Running(p) /\ upload[p].asset = a
    /\ \A a \in temp : \E p \in Uploader : At(p, "writing") /\ upload[p].asset = a

(* A visitor is served only what was public at some moment of the request, *)
(* however articles and projects change between its statements.  An image  *)
(* that one article or project refers to from beginning to end is found,   *)
(* and so is any known image by the administrator; and a known image never *)
(* lacks its file.                                                         *)
ImageAnswersAreRight ==
  \A r \in Reader :
    /\ reader[r].step = "served" /\ ~ reader[r].admin => reader[r].ever
    /\ reader[r].step = "missing" /\ reader[r].known =>
         ~ reader[r].admin /\ reader[r].held = {}
    /\ reader[r].step = "lost" => ~ reader[r].known
=============================================================================
