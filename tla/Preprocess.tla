------------------------------ MODULE Preprocess ------------------------------
(***************************************************************************)
(* What the handler does with an upload, apart from what it shares with    *)
(* other requests: ValidateUpload refuses it or PrepareWithOptions turns   *)
(* it into text or images, and Extract (module ExtractService) sends these *)
(* to the model.                                                           *)
(*                                                                         *)
(* A PDF is rendered by pdftoppm, under a timeout of its own which the     *)
(* client's disconnect does not end, and its text layer is read; which of  *)
(* the two comes first depends on the document type, and a failed          *)
(* rendering is tried a second time when the text layer is of no use.      *)
(***************************************************************************)
EXTENDS ExtractService, Sequences

CONSTANTS
    Uploads,     \* the files that are sent
    Texts,       \* the text layers a PDF may have
    Pictures,    \* width and height of images and of rendered pages
    RenderTime,  \* timeout of preparePDFVision, in ticks
    Unread       \* no text layer was read, or reading it failed

\* What DetectContentType says, the kind the extension stands for, and
\* Options.PreferVision of the document type.
Upload == [sniffed : {"pdf", "image", "other"},
           ext : {"none", "unknown", "pdf", "image"}, preferVision : BOOLEAN]

\* What usablePDFText counts in a text: its bytes, letters and blanks, whether
\* a keyword or a run of 8 digits is in it, whether it is a dump of PDF objects.
Text == [len : Nat \ {0}, letters : Nat, spaces : Nat,
         signal : BOOLEAN, dump : BOOLEAN]

ASSUME PreprocessAssumption ==
    /\ Uploads \subseteq Upload /\ Texts \subseteq Text
    /\ Pictures \subseteq Nat \X Nat
    /\ RenderTime \in Nat /\ Unread \notin Text

MinPDFTextChars == 200
MaxPDFTextChars == 12000
MaxVisionPages  == 2
MaxImageEdge    == 1600
MaxDecodePixels == 20000000

VARIABLES
    step,      \* where PrepareWithOptions is
    upload,
    text,      \* the text layer
    pages,     \* rendered pages that are still to be compacted
    images,    \* PreparedDocument.Images
    mode,      \* PreparedDocument.Mode
    rendered   \* history: how the renderings ended

prepared == <<upload, text, pages, images, mode, rendered>>
uvars    == <<vars, step, prepared>>

UploadTypeOK ==
    /\ TypeOK
    /\ step \in {"validate", "compact", "render", "pages", "text", "weak", "ready", "failed"}
    /\ upload \in Uploads /\ text \in Text \cup {Unread}
    /\ pages \in 0..MaxVisionPages
    /\ images \in Seq(Nat \X Nat) /\ Len(images) + pages <= MaxVisionPages
    /\ mode \in {"none", "text", "vision"}
    /\ rendered \in Seq({"pages", "nothing"})

-----------------------------------------------------------------------------
\* ValidateUpload; readUpload has refused empty and oversized files before.
ValidUpload(u) ==
    u.sniffed # "other" /\ u.ext \in {"none", "unknown", u.sniffed}

UsablePDFText(t) ==
    /\ t # Unread
    /\ t.len >= MinPDFTextChars /\ t.letters >= 60 /\ ~t.dump
    /\ t.signal \/ (t.letters >= 400 /\ t.spaces >= 40)

Truncated(t) == [t EXCEPT !.len = IF @ > MaxPDFTextChars THEN MaxPDFTextChars ELSE @]

\* CompactImage: one edge scaled as float64 and cut to an int, which may lose
\* one when the exact product is whole.
ScaledEdgeOnlyIfWide(x, w, h) ==
    IF w <= MaxImageEdge THEN {x} ELSE {(x * MaxImageEdge) \div w}
ScaledEdge(x, w, h) ==
    LET longest == IF w > h THEN w ELSE h
        exact   == (x * MaxImageEdge) \div longest
        results == {exact} \cup
                   IF (x * MaxImageEdge) % longest = 0 THEN {exact - 1} ELSE {}
    IN  IF longest <= MaxImageEdge THEN {x}
        ELSE {IF n < 1 THEN 1 ELSE n : n \in results}

Compactable(p) == p[1] > 0 /\ p[2] > 0 /\ p[1] * p[2] <= MaxDecodePixels
Compacted(p)   == ScaledEdge(p[1], p[1], p[2]) \X ScaledEdge(p[2], p[1], p[2])

-----------------------------------------------------------------------------
UploadInit ==
    /\ Init
    /\ step = "validate" /\ upload \in Uploads /\ text = Unread
    /\ pages = 0 /\ images = <<>> /\ mode = "none" /\ rendered = <<>>

\* mapPreprocessError: 400 for all that is left after readUpload.
Reject ==
    /\ step' = "failed" /\ pc' = "done" /\ status' = 400
    /\ UNCHANGED <<phase, attempt, reply, err, calls, elapsed, last>>

Ready(m) == step' = "ready" /\ mode' = m /\ UNCHANGED vars

Refused ==
    /\ step = "validate" /\ ~ValidUpload(upload)
    /\ Reject /\ UNCHANGED prepared

Validated ==
    /\ step = "validate" /\ ValidUpload(upload)
    /\ step' = CASE upload.sniffed = "image" -> "compact"
                 [] upload.sniffed = "pdf"   -> IF upload.preferVision THEN "render" ELSE "text"
    /\ UNCHANGED <<vars, prepared>>

ImageReady(p) ==
    /\ step = "compact" /\ Compactable(p)
    /\ \E c \in Compacted(p) : images' = <<c>>
    /\ Ready("vision")
    /\ UNCHANGED <<upload, text, pages, rendered>>

\* The image does not decode, has too many pixels, or stays too large.
ImageFails == step = "compact" /\ Reject /\ UNCHANGED prepared

RenderTakes == \E d \in 0..RenderTime : elapsed' = elapsed + d

\* PDFPagesToJPEG returns pages ...
Rendered ==
    /\ step = "render"
    /\ step' = "pages" /\ pages' \in 1..MaxVisionPages
    /\ rendered' = Append(rendered, "pages") /\ RenderTakes
    /\ UNCHANGED <<pc, phase, attempt, reply, err, status, calls, last>>
    /\ UNCHANGED <<upload, text, images, mode>>

\* ... or none: no pdftoppm, no temporary file, an error or the timeout.  The
\* text layer is next, unless it was read before and was of no use.
RenderAgain ==
    /\ step = "render"
    /\ step' = IF rendered = <<>> THEN "render" ELSE IF text = Unread THEN "text" ELSE "weak"
    /\ rendered' = Append(rendered, "nothing") /\ RenderTakes
    /\ UNCHANGED <<pc, phase, attempt, reply, err, status, calls, last>>
    /\ UNCHANGED <<upload, text, pages, images, mode>>
NothingRendered ==
    /\ step = "render"
    /\ step' = IF upload.preferVision /\ rendered = <<>> THEN "text" ELSE "weak"
    /\ rendered' = Append(rendered, "nothing") /\ RenderTakes
    /\ UNCHANGED <<pc, phase, attempt, reply, err, status, calls, last>>
    /\ UNCHANGED <<upload, text, pages, images, mode>>

PageReady(p) ==
    /\ step = "pages" /\ Compactable(p)
    /\ \E c \in Compacted(p) : images' = Append(images, c)
    /\ pages' = pages - 1
    /\ IF pages = 1 THEN Ready("vision") ELSE UNCHANGED <<vars, step, mode>>
    /\ UNCHANGED <<upload, text, rendered>>

\* One page that cannot be compacted fails the document, whatever its text.
PageFails == step = "pages" /\ Reject /\ UNCHANGED prepared

\* TextFromPDF returns a text that is not empty, or an error (Unread) when the
\* file does not open, has no pages, or has no text in the first three.
TextFromPDF == Texts \cup {Unread}

\* A usable text layer is taken; otherwise the pages are rendered.
AnyTextAccepted(t) ==
    /\ step = "text"
    /\ IF t # Unread
       THEN text' = Truncated(t) /\ Ready("text")
       ELSE text' = t /\ step' = "render" /\ UNCHANGED <<vars, mode>>
    /\ UNCHANGED <<upload, pages, images, rendered>>
TextRead(t) ==
    /\ step = "text"
    /\ IF UsablePDFText(t)
       THEN text' = Truncated(t) /\ Ready("text")
       ELSE text' = t /\ step' = "render" /\ UNCHANGED <<vars, mode>>
    /\ UNCHANGED <<upload, pages, images, rendered>>

\* Nothing was rendered: any text is better than none.
WeakText ==
    /\ step = "weak" /\ text # Unread
    /\ text' = Truncated(text) /\ Ready("text")
    /\ UNCHANGED <<upload, pages, images, rendered>>
NoText == step = "weak" /\ text = Unread /\ Reject /\ UNCHANGED prepared

Prepare ==
    \/ Refused \/ Validated \/ ImageFails \/ Rendered \/ NothingRendered
    \/ PageFails \/ WeakText \/ NoText
    \/ \E p \in Pictures : ImageReady(p) \/ PageReady(p)
    \/ \E t \in TextFromPDF : TextRead(t)

UploadNext ==
    \/ Prepare
    \/ step = "ready" /\ Next /\ UNCHANGED <<step, prepared>>

UploadSpec == UploadInit /\ [][UploadNext]_uvars

\* The rendering, every HTTP request and every pause have a timeout; the rest
\* computes.
UploadFairSpec == UploadSpec /\ WF_uvars(UploadNext)

-----------------------------------------------------------------------------
(***************************************************************************)
(* Properties                                                              *)
(***************************************************************************)

\* Whatever way a document was prepared, the model gets either a text within
\* the prompt's budget or one or two images within the edge limit, never a
\* mixture of both.
PreparedWithinLimits ==
    step = "ready" =>
        \/ /\ mode = "text" /\ images = <<>>
           /\ text.len \in 1..MaxPDFTextChars
        \/ /\ mode = "vision" /\ Len(images) \in 1..MaxVisionPages
           /\ \A i \in 1..Len(images) :
                 images[i][1] \in 1..MaxImageEdge /\ images[i][2] \in 1..MaxImageEdge

\* The comment on usablePDFText, "so we fall through to vision instead of
\* feeding garbage to the LLM": a weak text layer, and any text layer of a
\* type that prefers vision, is used only if the last rendering gave nothing.
VisionBeforeWeakText ==
    step = "ready" /\ mode = "text" =>
        \/ UsablePDFText(text) /\ ~upload.preferVision
        \/ rendered # <<>> /\ rendered[Len(rendered)] = "nothing"

\* The time one upload may hold its handler: two renderings, for each of two
\* chats every attempt up to its timeout, and the pauses between attempts.
UploadTimeBounded ==
    elapsed <= 2 * RenderTime + 2 * MaxAttempts * AttemptTime
               + MaxAttempts * (MaxAttempts - 1) * WaitTime

=============================================================================
