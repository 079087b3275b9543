--------------------------- MODULE PreprocessProofs ---------------------------
(***************************************************************************)
(* What one upload may cost, send and be told, for every timeout, number   *)
(* of attempts and set of files.                                           *)
(*                                                                         *)
(* The calls of a chat are counted by its attempts, the chat before it     *)
(* counts for MaxAttempts; the time is bounded by the renderings, the      *)
(* calls and the pauses that are over.                                     *)
(***************************************************************************)
EXTENDS Preprocess, SequenceTheorems, TLAPS

-----------------------------------------------------------------------------
(***************************************************************************)
(* The inductive invariant                                                 *)
(***************************************************************************)

\* What Extract has in hand at each of its steps.
ServiceInOrder ==
    /\ pc = "start" => /\ attempt = 0 /\ phase = "first" /\ calls = 0
                       /\ reply = "none" /\ last = {}
    /\ pc \in {"chat", "wait"} => attempt >= 1 /\ reply = "none"
    /\ pc = "wait" => attempt < MaxAttempts
    /\ pc = "decode" => attempt >= 1 /\ last = {"content"}
    /\ pc # "done" => status = 0

\* The HTTP requests a chat has sent when it is in this attempt.
Sent == IF pc = "chat" THEN attempt - 1 ELSE attempt

CallsCounted ==
    calls <= (IF phase = "repair" THEN MaxAttempts ELSE 0) + Sent

\* Twice the units of WaitTime that a chat waits up to its n-th attempt.
Pauses(n) == n * (n - 1)

\* The pauses of the chat before, and of this one: all of them when it ended,
\* since it may have ended in one.
PausesBefore == IF phase = "repair" THEN Pauses(MaxAttempts) ELSE 0
PausesNow    == IF pc = "done" THEN Pauses(MaxAttempts) ELSE Pauses(attempt)

TimeSpent ==
    2 * elapsed <= 2 * (Len(rendered) * RenderTime) + 2 * (calls * AttemptTime)
                   + PausesBefore * WaitTime + PausesNow * WaitTime

\* Extract is called when the document is prepared, and not if it is refused.
PreparedFirst ==
    /\ step \notin {"ready", "failed"} => pc = "start"
    /\ step = "failed" => pc = "done" /\ status = 400

\* How far the two renderings and the text layer are.
RenderInOrder ==
    /\ step \in {"validate", "compact"} => rendered = <<>>
    /\ step = "render" => Len(rendered) <= 1
    /\ step = "text" => Len(rendered) = IF upload.preferVision THEN 1 ELSE 0
    /\ step = "text" /\ rendered # <<>> => rendered[1] = "nothing"
    /\ step = "weak" => rendered # <<>> /\ rendered[Len(rendered)] = "nothing"
    /\ Len(rendered) <= 2

\* Images are there only once pages were rendered, and fit whenever they are.
ImagesInOrder ==
    /\ step \in {"validate", "compact", "render", "text", "weak"} => images = <<>> /\ pages = 0
    /\ step = "pages" => pages >= 1
    /\ \A i \in 1..Len(images) :
          images[i][1] \in 1..MaxImageEdge /\ images[i][2] \in 1..MaxImageEdge

UploadInv ==
    /\ UploadTypeOK /\ ServiceInOrder /\ CallsCounted /\ TimeSpent
    /\ PreparedFirst /\ RenderInOrder /\ ImagesInOrder
    /\ StatusTellsCause /\ BusyIsReported
    /\ PreparedWithinLimits /\ VisionBeforeWeakText

-----------------------------------------------------------------------------
(***************************************************************************)
(* Lemmas about the operators                                              *)
(***************************************************************************)

LEMMA PauseAdds ==
  ASSUME NEW n \in Nat, NEW w \in Nat
  PROVE  /\ Pauses(n) \in Int
         /\ Pauses(n + 1) * w = Pauses(n) * w + 2 * (n * w)
<1>1. Pauses(n + 1) = Pauses(n) + 2 * n /\ Pauses(n) \in Int
  BY DEF Pauses
<1>2. (Pauses(n) + 2 * n) * w = Pauses(n) * w + 2 * (n * w)
  BY <1>1
<1> QED
  BY <1>1, <1>2

LEMMA MulMono ==
  ASSUME NEW a \in Int, NEW b \in Int, NEW c \in Nat, a <= b
  PROVE  a * c <= b * c
  OBVIOUS

LEMMA PausesGrow ==
  ASSUME NEW m \in Nat, NEW n \in Nat, n <= m, NEW w \in Nat
  PROVE  /\ 0 <= Pauses(n) * w
         /\ Pauses(n) * w <= Pauses(m) * w
<1>1. Pauses(n) \in Nat /\ Pauses(m) \in Nat
  <2>1. ASSUME NEW k \in Nat PROVE Pauses(k) \in Nat
    <3>1. CASE k = 0
      BY <3>1 DEF Pauses
    <3>2. CASE k >= 1
      BY <3>2 DEF Pauses
    <3> QED
      BY <3>1, <3>2
  <2> QED
    BY <2>1
<1>2. Pauses(n) <= Pauses(m)
  <2>1. CASE n = 0
    BY <2>1, <1>1 DEF Pauses
  <2>2. CASE n >= 1
    <3>1. n * (n - 1) <= m * (n - 1)
      BY <2>2, MulMono
    <3>2. (n - 1) * m <= (m - 1) * m
      BY <2>2, MulMono
    <3>3. m * (n - 1) = (n - 1) * m /\ m * (m - 1) = (m - 1) * m
      OBVIOUS
    <3> QED
      BY <3>1, <3>2, <3>3 DEF Pauses
  <2> QED
    BY <2>1, <2>2
<1> QED
  BY <1>1, <1>2, MulMono

\* An edge of a picture is scaled to at least one pixel and at most the limit.
LEMMA ScaledEdgeFits ==
  ASSUME NEW w \in Nat, NEW h \in Nat, w > 0, h > 0, NEW x \in {w, h},
         NEW n \in ScaledEdge(x, w, h)
  PROVE  n \in 1..MaxImageEdge
<1> DEFINE longest == IF w > h THEN w ELSE h
           exact   == (x * MaxImageEdge) \div longest
<1>1. longest \in Nat /\ longest > 0 /\ x \in Nat /\ x > 0 /\ x <= longest
  OBVIOUS
<1>2. CASE longest <= MaxImageEdge
  BY <1>1, <1>2 DEF ScaledEdge, MaxImageEdge
<1>3. CASE longest > MaxImageEdge
  <2>1. exact \in Int /\ exact <= MaxImageEdge
    <3>1. ASSUME NEW l \in Nat, l > 0, NEW y \in Nat, y <= l
          PROVE  (y * 1600) \div l \in Int /\ (y * 1600) \div l <= 1600
      <4>1. PICK q \in Int : q = (y * 1600) \div l
        BY <3>1
      <4>2. l * q <= y * 1600
        BY <3>1, <4>1
      <4>3. q <= 1600
        <5> SUFFICES ASSUME q >= 1601 PROVE FALSE
          BY <4>1
        <5>1. 1601 * l <= q * l
          BY <3>1, MulMono
        <5>2. q * l = l * q
          BY <3>1, <4>1
        <5> QED
          BY <5>1, <5>2, <4>2, <3>1
      <4> QED
        BY <4>1, <4>3
    <3> QED
      BY <3>1, <1>1 DEF MaxImageEdge
  <2>2. PICK k \in {exact, exact - 1} : n = IF k < 1 THEN 1 ELSE k
    <3> DEFINE results == {exact} \cup
                          IF (x * MaxImageEdge) % longest = 0 THEN {exact - 1} ELSE {}
               Scaled(k) == IF k < 1 THEN 1 ELSE k
    <3>1. ScaledEdge(x, w, h) = IF longest <= MaxImageEdge THEN {x}
                                ELSE {Scaled(k) : k \in results}
      BY Zenon DEF ScaledEdge
    <3>2. ~(longest <= MaxImageEdge)
      BY <1>1, <1>3 DEF MaxImageEdge
    <3>3. results \subseteq {exact, exact - 1}
      OBVIOUS
    <3> HIDE DEF results, exact, longest
    <3>4. n \in {Scaled(k) : k \in results}
      BY <3>1, <3>2
    <3> QED
      BY <3>3, <3>4
  <2> HIDE DEF exact, longest
  <2> QED
    BY <2>1, <2>2 DEF MaxImageEdge
<1> QED
  BY <1>1, <1>2, <1>3 DEF MaxImageEdge

LEMMA CompactedFits ==
  ASSUME NEW p \in Nat \X Nat, Compactable(p), NEW c \in Compacted(p)
  PROVE  /\ c \in Nat \X Nat
         /\ c[1] \in 1..MaxImageEdge /\ c[2] \in 1..MaxImageEdge
<1>1. /\ p[1] \in Nat /\ p[2] \in Nat /\ p[1] > 0 /\ p[2] > 0
  BY DEF Compactable
<1>2. PICK a \in ScaledEdge(p[1], p[1], p[2]), b \in ScaledEdge(p[2], p[1], p[2]) : c = <<a, b>>
  BY DEF Compacted
<1>3. a \in 1..MaxImageEdge /\ b \in 1..MaxImageEdge
  BY <1>1, ScaledEdgeFits
<1>4. c[1] = a /\ c[2] = b
  BY <1>2
<1>5. a \in Nat /\ b \in Nat
  BY <1>3 DEF MaxImageEdge
<1> QED
  BY <1>2, <1>3, <1>4, <1>5

\* Cutting a text to the prompt's budget keeps it a text, and a usable one.
LEMMA TruncatedFits ==
  ASSUME NEW t \in Text
  PROVE  /\ Truncated(t) \in Text /\ Truncated(t).len \in 1..MaxPDFTextChars
         /\ UsablePDFText(t) => UsablePDFText(Truncated(t))
<1>0. PICK n \in 1..MaxPDFTextChars :
          n = IF t.len > MaxPDFTextChars THEN MaxPDFTextChars ELSE t.len
  <2>1. t.len \in Nat \ {0}
    BY DEF Text
  <2>2. PICK l \in Nat \ {0} : l = t.len
    BY <2>1
  <2>3. \E n \in 1..MaxPDFTextChars : n = IF l > MaxPDFTextChars THEN MaxPDFTextChars ELSE l
    <3>1. CASE l > MaxPDFTextChars
      BY <3>1 DEF MaxPDFTextChars
    <3>2. CASE l <= MaxPDFTextChars
      BY <3>2 DEF MaxPDFTextChars
    <3>3. l > MaxPDFTextChars \/ l <= MaxPDFTextChars
      BY DEF MaxPDFTextChars
    <3> QED
      BY <3>1, <3>2, <3>3, Zenon
  <2> QED
    BY <2>2, <2>3
<1>1. /\ Truncated(t) \in Text /\ Truncated(t).len \in 1..MaxPDFTextChars
      /\ Truncated(t).letters = t.letters /\ Truncated(t).spaces = t.spaces
      /\ Truncated(t).signal = t.signal /\ Truncated(t).dump = t.dump
      /\ Truncated(t).len = n
  <2>1. Truncated(t) = [t EXCEPT !.len = n]
    BY <1>0 DEF Truncated
  <2>2. n \in Nat \ {0}
    BY DEF MaxPDFTextChars
  <2> QED
    BY <2>1, <2>2 DEF Text
<1>2. Truncated(t) # Unread
  BY <1>1, PreprocessAssumption
<1>3. ASSUME UsablePDFText(t) PROVE UsablePDFText(Truncated(t))
  <2>1. Truncated(t).len >= MinPDFTextChars
    <3>1. PICK l \in Nat : l = t.len
      BY DEF Text
    <3>2. l >= MinPDFTextChars
      BY <3>1, <1>3 DEF UsablePDFText
    <3>3. n = IF l > MaxPDFTextChars THEN MaxPDFTextChars ELSE l
      BY <3>1, <1>0
    <3>4. n >= MinPDFTextChars
      BY <3>2, <3>3 DEF MinPDFTextChars, MaxPDFTextChars
    <3> QED
      BY <3>4, <1>1
  <2> QED
    BY <2>1, <1>1, <1>2, <1>3 DEF UsablePDFText
<1> QED
  BY <1>1, <1>3

-----------------------------------------------------------------------------
(***************************************************************************)
(* The steps of Extract                                                    *)
(***************************************************************************)

LEMMA UploadInitInv == UploadInit => UploadInv
<1> SUFFICES ASSUME UploadInit PROVE UploadInv
  OBVIOUS
<1> USE DEF UploadInit, Init
<1>1. UploadTypeOK
  <2>1. TypeOK
    BY TimeAssumption DEF TypeOK, Failures, Replies, ErrorParts
  <2>2. images \in Seq(Nat \X Nat) /\ Len(images) + pages <= MaxVisionPages
        /\ rendered \in Seq({"pages", "nothing"})
    BY DEF MaxVisionPages
  <2> QED
    BY <2>1, <2>2 DEF UploadTypeOK, MaxVisionPages
<1>2. ServiceInOrder /\ PreparedFirst /\ RenderInOrder /\ ImagesInOrder
  BY DEF ServiceInOrder, PreparedFirst, RenderInOrder, ImagesInOrder
<1>3. CallsCounted
  BY DEF CallsCounted, Sent
<1>4. TimeSpent
  <2>1. Len(rendered) = 0 /\ Pauses(attempt) = 0 /\ PausesBefore = 0 /\ PausesNow = 0
    BY DEF Pauses, PausesBefore, PausesNow
  <2> QED
    BY <2>1, TimeAssumption, PreprocessAssumption DEF TimeSpent
<1>5. /\ StatusTellsCause /\ BusyIsReported /\ PreparedWithinLimits /\ VisionBeforeWeakText
  BY DEF StatusTellsCause, BusyIsReported, PreparedWithinLimits, VisionBeforeWeakText
<1> QED
  BY <1>1, <1>2, <1>3, <1>4, <1>5 DEF UploadInv

\* What mapExtractError makes of the error of a failed chat.
LEMMA ChatErrorMapped ==
  ASSUME NEW f \in Failures, phase \in {"first", "repair"}
  PROVE  /\ ChatError(f) \subseteq ErrorParts
         /\ MapExtractError(ChatError(f)) \in {413, 422, 429, 502}
         /\ MapExtractError(ChatError(f)) = 422 => phase = "repair"
         /\ MapExtractError(ChatError(f)) = 502 => phase = "first"
         /\ "http429" \in f => MapExtractError(ChatError(f)) = 429
<1>1. f \subseteq {"http429", "http413", "rate", "large"}
  BY DEF Failures, ProviderWords
<1>2. /\ ChatError(f) \subseteq ErrorParts /\ "unknown" \notin ChatError(f)
      /\ f \subseteq ChatError(f)
      /\ phase = "first" => "llm" \in ChatError(f) /\ "invalid" \notin ChatError(f)
      /\ phase = "repair" => "invalid" \in ChatError(f)
  BY <1>1 DEF ChatError, ErrorParts
<1>3. "http429" \in f => {"http429", "rate"} \cap ChatError(f) # {}
  BY <1>2
<1> QED
  BY <1>2, <1>3 DEF MapExtractError

\* A step of Extract takes the chats in order ...
LEMMA ServiceTyped ==
  ASSUME UploadInv, Next
  PROVE  /\ TypeOK' /\ ServiceInOrder' /\ CallsCounted'
         /\ StatusTellsCause' /\ BusyIsReported'
<1>t. TypeOK /\ ServiceInOrder /\ CallsCounted /\ StatusTellsCause /\ BusyIsReported
  BY DEF UploadInv, UploadTypeOK
<1>a. AttemptTime \in Nat \ {0} /\ WaitTime \in Nat /\ MaxAttempts \in Nat \ {0}
  BY TimeAssumption
<1> USE DEF Fail
<1>1. CASE UnknownDocType
  <2>1. PICK e : /\ e \in SUBSET ErrorParts /\ "unknown" \in e
                 /\ err' = e /\ status' = MapExtractError(e) /\ pc' = "done"
    BY <1>1 DEF UnknownDocType, ErrorParts, ProviderWords
  <2>2. status' \in {400, 413, 429}
    BY <2>1 DEF MapExtractError
  <2> QED
    BY <2>1, <2>2, <1>1, <1>t, <1>a DEF UnknownDocType, TypeOK, ServiceInOrder, CallsCounted,
       Sent, StatusTellsCause, BusyIsReported
<1>2. CASE StartChat
  BY <1>2, <1>t, <1>a DEF StartChat, TypeOK, ServiceInOrder, CallsCounted, Sent,
     StatusTellsCause, BusyIsReported
<1>3. ASSUME NEW c \in Replies, ChatContent(c)
      PROVE  /\ TypeOK' /\ ServiceInOrder' /\ CallsCounted'
             /\ StatusTellsCause' /\ BusyIsReported'
  <2>1. elapsed' \in Nat /\ calls' = calls + 1
    BY <1>3, <1>t, <1>a DEF ChatContent, Spend, TypeOK
  <2>2. TypeOK'
    BY <2>1, <1>3, <1>t DEF ChatContent, TypeOK
  <2> QED
    BY <2>1, <2>2, <1>3, <1>t, <1>a DEF ChatContent, TypeOK, ServiceInOrder, CallsCounted, Sent,
       StatusTellsCause, BusyIsReported
<1>4. ASSUME NEW f \in Failures, ChatFails(f)
      PROVE  /\ TypeOK' /\ ServiceInOrder' /\ CallsCounted'
             /\ StatusTellsCause' /\ BusyIsReported'
  <2>1. elapsed' \in Nat /\ calls' = calls + 1
    BY <1>4, <1>t, <1>a DEF ChatFails, Spend, TypeOK
  <2>2. CASE Retries(f)
    <3>1. TypeOK' /\ ServiceInOrder'
      BY <2>1, <2>2, <1>4, <1>t, <1>a DEF ChatFails, Retries, TypeOK, ServiceInOrder
    <3> QED
      BY <3>1, <2>1, <2>2, <1>4, <1>t, <1>a DEF ChatFails, TypeOK, ServiceInOrder,
         CallsCounted, Sent, StatusTellsCause, BusyIsReported
  <2>3. CASE ~Retries(f)
    <3>1. phase \in {"first", "repair"}
      BY <1>t DEF TypeOK
    <3>2. PICK e \in SUBSET ErrorParts, s \in {413, 422, 429, 502} :
            /\ e = ChatError(f) /\ s = MapExtractError(e)
            /\ s = 422 => phase = "repair"
            /\ s = 502 => phase = "first"
            /\ "http429" \in f => s = 429
      BY <3>1, ChatErrorMapped
    <3>3. /\ err' = e /\ status' = s /\ pc' = "done" /\ last' = f /\ pc = "chat"
          /\ UNCHANGED <<phase, attempt, reply>>
      BY <3>2, <2>3, <1>4 DEF ChatFails
    <3>4. TypeOK'
      BY <3>2, <3>3, <2>1, <1>t DEF TypeOK
    <3> QED
      BY <3>2, <3>3, <3>4, <2>1, <1>t, <1>a DEF TypeOK, ServiceInOrder, CallsCounted, Sent,
         StatusTellsCause, BusyIsReported
  <2> QED
    BY <2>2, <2>3
<1>5. CASE WaitOver
  <2>1. attempt * WaitTime \in Nat
    BY <1>t, <1>a DEF TypeOK
  <2> QED
    BY <2>1, <1>5, <1>t, <1>a DEF WaitOver, TypeOK, ServiceInOrder, CallsCounted, Sent,
       StatusTellsCause, BusyIsReported
<1>6. CASE WaitCancelled
  <2>1. attempt * WaitTime \in Nat
    BY <1>t, <1>a DEF TypeOK
  <2>2. elapsed' \in Nat
    BY <2>1, <1>6, <1>t DEF WaitCancelled, TypeOK
  <2>3. {} \in Failures /\ phase \in {"first", "repair"}
    BY <1>t DEF Failures, TypeOK
  <2>4. PICK e \in SUBSET ErrorParts, s \in {413, 422, 429, 502} :
          /\ e = ChatError({}) /\ s = MapExtractError(e)
          /\ s = 422 => phase = "repair"
          /\ s = 502 => phase = "first"
    BY <2>3, ChatErrorMapped
  <2>5. /\ err' = e /\ status' = s /\ pc' = "done" /\ pc = "wait"
        /\ UNCHANGED <<phase, attempt, reply, calls, last>>
    BY <2>4, <1>6 DEF WaitCancelled
  <2> QED
    BY <2>2, <2>4, <2>5, <1>t, <1>a DEF TypeOK, ServiceInOrder, CallsCounted, Sent,
       StatusTellsCause, BusyIsReported
<1>7. CASE DecodeOk
  BY <1>7, <1>t, <1>a DEF DecodeOk, TypeOK, ServiceInOrder, CallsCounted, Sent,
     StatusTellsCause, BusyIsReported
<1>8. CASE StartRepair
  BY <1>8, <1>t, <1>a DEF StartRepair, TypeOK, ServiceInOrder, CallsCounted, Sent,
     StatusTellsCause, BusyIsReported
<1>9. CASE RepairFails
  <2>1. MapExtractError({"invalid"}) = 422
    BY DEF MapExtractError
  <2> QED
    BY <2>1, <1>9, <1>t, <1>a DEF RepairFails, TypeOK, ServiceInOrder, CallsCounted, Sent,
       StatusTellsCause, BusyIsReported, ErrorParts
<1> QED
  BY <1>1, <1>2, <1>3, <1>4, <1>5, <1>6, <1>7, <1>8, <1>9 DEF Next

\* ... and adds to the time at most what it adds to the bound.
LEMMA ServiceTime ==
  ASSUME UploadInv, Next, UNCHANGED rendered
  PROVE  TimeSpent'
<1>t. /\ TypeOK /\ ServiceInOrder /\ TimeSpent
      /\ attempt \in Nat /\ attempt <= MaxAttempts /\ calls \in Nat /\ elapsed \in Nat
  BY TimeAssumption DEF UploadInv, UploadTypeOK, TypeOK
<1>a. AttemptTime \in Nat /\ WaitTime \in Nat /\ MaxAttempts \in Nat \ {0} /\ RenderTime \in Nat
  BY TimeAssumption, PreprocessAssumption
<1>n. TypeOK' /\ attempt' \in Nat /\ attempt' <= MaxAttempts /\ calls' \in Nat /\ elapsed' \in Nat
  BY ServiceTyped, <1>a DEF TypeOK
<1> DEFINE P(k) == Pauses(k) * WaitTime
           Before == PausesBefore * WaitTime
           Now    == PausesNow * WaitTime
           Called == calls * AttemptTime
<1>p. \A k \in Nat : P(k) \in Int /\ P(k + 1) = P(k) + 2 * (k * WaitTime) /\ k * WaitTime \in Nat
  BY <1>a, PauseAdds
<1>m. \A k \in Nat : k <= MaxAttempts => 0 <= P(k) /\ P(k) <= P(MaxAttempts)
  BY <1>a, PausesGrow
<1>z. P(0) = 0 /\ P(1) = 0 /\ 0 * WaitTime = 0
  BY <1>a DEF Pauses
<1>b. /\ Before = IF phase = "repair" THEN P(MaxAttempts) ELSE 0
      /\ Before' = IF phase' = "repair" THEN P(MaxAttempts) ELSE 0
      /\ Now = IF pc = "done" THEN P(MaxAttempts) ELSE P(attempt)
      /\ Now' = IF pc' = "done" THEN P(MaxAttempts) ELSE P(attempt)'
      /\ P(attempt)' = P(attempt')
  BY <1>z DEF PausesBefore, PausesNow
<1>r. PICK r \in Int : r = 2 * (Len(rendered) * RenderTime)
  BY <1>a DEF UploadInv, UploadTypeOK
<1>c. Called \in Nat /\ Called' \in Nat /\ (calls + 1) * AttemptTime = Called + AttemptTime
  <2>1. \A k, l \in Nat : k * l \in Nat /\ (k + 1) * l = k * l + l
    OBVIOUS
  <2> QED
    BY <2>1, <1>t, <1>a, <1>n
<1>s. 2 * elapsed <= r + 2 * Called + Before + Now
  BY <1>r, <1>t DEF TimeSpent
<1> SUFFICES 2 * elapsed' <= r + 2 * Called' + Before' + Now'
  BY <1>r DEF TimeSpent
<1>x. 0 \in Nat /\ 1 \in Nat /\ attempt + 1 \in Nat /\ 1 <= MaxAttempts
  BY <1>t, <1>a
<1> HIDE DEF P, Before, Now, Called
<1>i. /\ P(attempt) \in Int /\ P(MaxAttempts) \in Int /\ P(attempt) <= P(MaxAttempts)
      /\ Before \in Int
  BY <1>p, <1>m, <1>t, <1>a, <1>b
<1>1. CASE UNCHANGED <<calls, elapsed, phase>> /\ pc' = "done" /\ pc # "done"
  <2>1. Called' = Called
    BY <1>1 DEF Called
  <2>2. Before' = Before /\ Now = P(attempt) /\ Now' = P(MaxAttempts)
    BY <1>1, <1>b
  <2> QED
    BY <2>1, <2>2, <1>1, <1>s, <1>i, <1>c, <1>t
<1>2. CASE StartChat
  <2>1. Called' = Called /\ elapsed' = elapsed
    BY <1>2 DEF Called, StartChat
  <2>2. Before' = Before /\ Now = P(0) /\ Now' = P(1)
    BY <1>2, <1>b, <1>t DEF StartChat, ServiceInOrder
  <2> QED
    BY <2>1, <2>2, <1>s, <1>z, <1>c, <1>t
<1>3. CASE (\E c \in Replies : ChatContent(c)) \/ (\E f \in Failures : ChatFails(f))
  <2>1. /\ pc = "chat" /\ UNCHANGED <<phase, attempt>> /\ calls' = calls + 1
        /\ \E d \in 0..AttemptTime : elapsed' = elapsed + d
    BY <1>3 DEF ChatContent, ChatFails, Spend
  <2>2. PICK d \in 0..AttemptTime : elapsed' = elapsed + d
    BY <2>1
  <2>3. Called' = Called + AttemptTime
    BY <2>1, <1>c DEF Called
  <2>4. /\ Before' = Before /\ Now = P(attempt)
        /\ Now' = P(attempt) \/ Now' = P(MaxAttempts)
    BY <2>1, <1>b
  <2> QED
    BY <2>2, <2>3, <2>4, <1>i, <1>s, <1>c, <1>t, <1>a
<1>4. CASE WaitOver \/ WaitCancelled
  <2>1. /\ pc = "wait" /\ UNCHANGED <<phase, calls>>
        /\ \/ pc' = "chat" /\ attempt' = attempt + 1
           \/ pc' = "done"
        /\ \E d \in 0..attempt * WaitTime : elapsed' = elapsed + d
    BY <1>4, <1>t, <1>p DEF WaitOver, WaitCancelled, Fail
  <2>2. PICK d \in 0..attempt * WaitTime : elapsed' = elapsed + d
    BY <2>1
  <2>3. Called' = Called
    BY <2>1 DEF Called
  <2>4. attempt + 1 <= MaxAttempts
    BY <2>1, <1>t, <1>a DEF ServiceInOrder
  <2>5. /\ Before' = Before /\ Now = P(attempt)
        /\ Now' = P(attempt + 1) \/ Now' = P(MaxAttempts)
    BY <2>1, <1>b
  <2>6. PICK p \in Nat : p = attempt * WaitTime
    BY <1>p, <1>t
  <2>7. /\ P(attempt + 1) = P(attempt) + 2 * p /\ P(attempt + 1) <= P(MaxAttempts)
    BY <2>4, <2>6, <1>p, <1>m, <1>t, <1>x
  <2>8. d \in Nat /\ d <= p
    BY <2>2, <2>6
  <2> QED
    BY <2>2, <2>3, <2>5, <2>7, <2>8, <1>i, <1>s, <1>c, <1>t
<1>5. CASE StartRepair
  <2>1. Called' = Called /\ elapsed' = elapsed
    BY <1>5 DEF Called, StartRepair
  <2>2. Before = 0 /\ Before' = P(MaxAttempts) /\ Now = P(attempt) /\ Now' = P(1)
    BY <1>5, <1>b DEF StartRepair
  <2> QED
    BY <2>1, <2>2, <1>i, <1>s, <1>z, <1>c, <1>t
<1>6. (UnknownDocType \/ DecodeOk \/ RepairFails) =>
          UNCHANGED <<calls, elapsed, phase>> /\ pc' = "done" /\ pc # "done"
  BY DEF UnknownDocType, DecodeOk, RepairFails, Fail
<1> QED
  BY <1>1, <1>2, <1>3, <1>4, <1>5, <1>6 DEF Next

-----------------------------------------------------------------------------
(***************************************************************************)
(* The steps of PrepareWithOptions                                         *)
(***************************************************************************)

LEMMA UploadRead ==
  ASSUME UploadInv
  PROVE  upload.sniffed \in {"pdf", "image", "other"} /\ upload.preferVision \in BOOLEAN
<1>1. upload \in Upload
  BY PreprocessAssumption DEF UploadInv, UploadTypeOK
<1> QED
  BY <1>1 DEF Upload

\* What they leave of Extract: its start, or the refusal.
LEMMA PrepareService ==
  ASSUME UploadInv, Prepare
  PROVE  /\ TypeOK' /\ ServiceInOrder' /\ CallsCounted' /\ TimeSpent' /\ PreparedFirst'
         /\ StatusTellsCause' /\ BusyIsReported'
<1>t. /\ TypeOK /\ ServiceInOrder /\ CallsCounted /\ TimeSpent /\ PreparedFirst
      /\ StatusTellsCause /\ BusyIsReported /\ RenderInOrder
      /\ rendered \in Seq({"pages", "nothing"}) /\ elapsed \in Nat
  BY DEF UploadInv, UploadTypeOK, TypeOK
<1>a. /\ AttemptTime \in Nat /\ WaitTime \in Nat /\ MaxAttempts \in Nat \ {0}
      /\ RenderTime \in Nat
  BY TimeAssumption, PreprocessAssumption
<1>p. step \notin {"ready", "failed"}
  BY DEF Prepare, Refused, Validated, ImageReady, ImageFails, Rendered, NothingRendered,
     PageReady, PageFails, TextRead, WeakText, NoText
<1>s. /\ pc = "start" /\ attempt = 0 /\ phase = "first" /\ calls = 0
      /\ reply = "none" /\ last = {} /\ status = 0
  BY <1>p, <1>t DEF PreparedFirst, ServiceInOrder
<1>z. Pauses(0) = 0
  BY DEF Pauses
<1>e. 2 * elapsed <= 2 * (Len(rendered) * RenderTime)
  <2>1. /\ PausesBefore = 0 /\ PausesNow = 0
        /\ 2 * (calls * AttemptTime) = 0 /\ 0 * WaitTime = 0
    BY <1>s, <1>z, <1>a DEF PausesBefore, PausesNow
  <2>2. Len(rendered) * RenderTime \in Nat
    BY <1>t, <1>a
  <2> QED
    BY <2>1, <2>2, <1>t DEF TimeSpent
<1>1. CASE Reject /\ UNCHANGED prepared
  <2>1. TimeSpent'
    <3>1. /\ PausesBefore' = 0 /\ PausesNow' = Pauses(MaxAttempts)
          /\ 2 * (calls' * AttemptTime) = 0 /\ 0 * WaitTime = 0
          /\ elapsed' = elapsed /\ rendered' = rendered
      BY <1>1, <1>s, <1>a DEF PausesBefore, PausesNow, Reject, prepared
    <3>2. PICK p \in Nat : p = Pauses(MaxAttempts) * WaitTime
      <4>1. Pauses(MaxAttempts) * WaitTime \in Int
        BY <1>a, PauseAdds
      <4> QED
        BY <4>1, <1>a, PausesGrow
    <3>3. Len(rendered) * RenderTime \in Nat
      BY <1>t, <1>a
    <3> QED
      BY <3>1, <3>2, <3>3, <1>e, <1>t DEF TimeSpent
  <2> QED
    BY <2>1, <1>1, <1>t, <1>s, <1>a DEF Reject, TypeOK, ServiceInOrder, CallsCounted, Sent,
       PreparedFirst, StatusTellsCause, BusyIsReported
<1>2. CASE UNCHANGED <<vars, rendered>> /\ step' # "failed"
  <2>1. TypeOK' /\ ServiceInOrder' /\ CallsCounted' /\ StatusTellsCause' /\ BusyIsReported'
    BY <1>2, <1>t DEF vars, TypeOK, ServiceInOrder, CallsCounted, Sent, StatusTellsCause,
       BusyIsReported
  <2>2. TimeSpent'
    BY <1>2, <1>t DEF vars, TimeSpent, PausesBefore, PausesNow
  <2>3. PreparedFirst'
    BY <1>2, <1>s DEF vars, PreparedFirst
  <2> QED
    BY <2>1, <2>2, <2>3
<1>3. CASE /\ step = "render" /\ RenderTakes /\ step' # "failed"
           /\ \E x \in {"pages", "nothing"} : rendered' = Append(rendered, x)
           /\ UNCHANGED <<pc, phase, attempt, reply, err, status, calls, last>>
  <2>1. PICK d \in 0..RenderTime : elapsed' = elapsed + d
    BY <1>3 DEF RenderTakes
  <2>2. /\ Len(rendered) \in {0, 1} /\ Len(rendered') = Len(rendered) + 1
    <3>1. Len(rendered) \in Nat /\ Len(rendered) <= 1
      BY <1>3, <1>t DEF RenderInOrder
    <3>2. PICK x \in {"pages", "nothing"} : rendered' = Append(rendered, x)
      BY <1>3
    <3>3. Len(rendered') = Len(rendered) + 1
      BY <3>2, <1>t, AppendProperties
    <3>4. \A k \in Nat : k <= 1 => k \in {0, 1}
      OBVIOUS
    <3> QED
      BY <3>1, <3>3, <3>4
  <2>3. TimeSpent'
    <3>1. /\ PausesBefore' = 0 /\ PausesNow' = 0
          /\ 2 * (calls' * AttemptTime) = 0 /\ 0 * WaitTime = 0
      BY <1>3, <1>s, <1>z, <1>a DEF PausesBefore, PausesNow
    <3>2. CASE Len(rendered) = 0
      BY <3>1, <3>2, <2>1, <2>2, <1>e, <1>t, <1>a DEF TimeSpent
    <3>3. CASE Len(rendered) = 1
      BY <3>1, <3>3, <2>1, <2>2, <1>e, <1>t, <1>a DEF TimeSpent
    <3> QED
      BY <3>2, <3>3, <2>2
  <2> QED
    BY <2>1, <2>3, <1>3, <1>t, <1>s, <1>a DEF TypeOK, ServiceInOrder, CallsCounted, Sent,
       PreparedFirst, StatusTellsCause, BusyIsReported
<1>4. Refused \/ ImageFails \/ PageFails \/ NoText => Reject /\ UNCHANGED prepared
  BY DEF Refused, ImageFails, PageFails, NoText
<1>5. ASSUME \/ Validated \/ WeakText
             \/ \E p \in Pictures : ImageReady(p) \/ PageReady(p)
             \/ \E t \in TextFromPDF : TextRead(t)
      PROVE  UNCHANGED <<vars, rendered>> /\ step' # "failed"
  <2>1. CASE Validated
    <3>1. upload.sniffed \in {"pdf", "image"}
      BY <2>1, UploadRead DEF Validated, ValidUpload
    <3> QED
      BY <2>1, <3>1 DEF Validated, prepared
  <2>2. CASE WeakText
    BY <2>2 DEF WeakText, Ready
  <2>3. CASE \E p \in Pictures : ImageReady(p) \/ PageReady(p)
    BY <2>3 DEF ImageReady, PageReady, Ready
  <2>4. CASE \E t \in TextFromPDF : TextRead(t)
    BY <2>4 DEF TextRead, Ready
  <2> QED
    BY <1>5, <2>1, <2>2, <2>3, <2>4
<1> QED
  BY <1>1, <1>2, <1>3, <1>4, <1>5 DEF Prepare, Rendered, NothingRendered

\* What they make of the document.
LEMMA PrepareDocument ==
  ASSUME UploadInv, Prepare
  PROVE  /\ UploadTypeOK' /\ RenderInOrder' /\ ImagesInOrder'
         /\ PreparedWithinLimits' /\ VisionBeforeWeakText'
<1>t. /\ UploadTypeOK /\ RenderInOrder /\ ImagesInOrder
      /\ PreparedWithinLimits /\ VisionBeforeWeakText
  BY DEF UploadInv
<1>v. TypeOK'
  BY PrepareService
<1>u. upload.sniffed \in {"pdf", "image", "other"} /\ upload.preferVision \in BOOLEAN
  BY UploadRead
<1>q. /\ rendered \in Seq({"pages", "nothing"}) /\ images \in Seq(Nat \X Nat)
      /\ Len(rendered) \in Nat /\ Len(images) \in Nat /\ pages \in Nat
      /\ text \in Text \cup {Unread}
  BY <1>t DEF UploadTypeOK, MaxVisionPages
<1>1. CASE Reject /\ UNCHANGED prepared
  BY <1>1, <1>v, <1>t DEF Reject, prepared, UploadTypeOK, RenderInOrder, ImagesInOrder,
     PreparedWithinLimits, VisionBeforeWeakText
<1>2. CASE Validated
  <2>1. /\ step' \in {"compact", "render", "text"} /\ UNCHANGED prepared /\ step = "validate"
        /\ step' = "text" => ~upload.preferVision
    BY <1>2, <1>u DEF Validated, ValidUpload
  <2>2. rendered = <<>> /\ images = <<>> /\ pages = 0
    BY <2>1, <1>t DEF RenderInOrder, ImagesInOrder
  <2> QED
    BY <2>1, <2>2, <1>v, <1>t DEF prepared, UploadTypeOK, RenderInOrder, ImagesInOrder,
       PreparedWithinLimits, VisionBeforeWeakText
<1>3. ASSUME NEW p \in Pictures, ImageReady(p)
      PROVE  /\ UploadTypeOK' /\ RenderInOrder' /\ ImagesInOrder'
             /\ PreparedWithinLimits' /\ VisionBeforeWeakText'
  <2>1. PICK c \in Compacted(p) : images' = <<c>>
    BY <1>3 DEF ImageReady
  <2>2. c \in Nat \X Nat /\ c[1] \in 1..MaxImageEdge /\ c[2] \in 1..MaxImageEdge
    BY <1>3, CompactedFits, PreprocessAssumption DEF ImageReady
  <2>3. images' \in Seq(Nat \X Nat) /\ Len(images') = 1 /\ images'[1] = c
    BY <2>1, <2>2
  <2>4. /\ step = "compact" /\ step' = "ready" /\ mode' = "vision"
        /\ UNCHANGED <<upload, text, pages, rendered>> /\ pages = 0 /\ rendered = <<>>
    BY <1>3, <1>t DEF ImageReady, Ready, ImagesInOrder, RenderInOrder
  <2>5. \A i \in 1..Len(images') :
          images'[i][1] \in 1..MaxImageEdge /\ images'[i][2] \in 1..MaxImageEdge
    BY <2>2, <2>3
  <2>6. UploadTypeOK'
    BY <2>3, <2>4, <1>v, <1>t DEF UploadTypeOK, MaxVisionPages
  <2> QED
    BY <2>3, <2>4, <2>5, <2>6, <1>t DEF RenderInOrder, ImagesInOrder, PreparedWithinLimits,
       VisionBeforeWeakText, MaxVisionPages
<1>4. CASE Rendered
  <2>1. /\ step = "render" /\ step' = "pages" /\ pages' \in 1..MaxVisionPages
        /\ rendered' = Append(rendered, "pages") /\ UNCHANGED <<upload, text, images, mode>>
    BY <1>4 DEF Rendered
  <2>2. /\ rendered' \in Seq({"pages", "nothing"}) /\ Len(rendered') = Len(rendered) + 1
    BY <2>1, <1>q, AppendProperties
  <2>3. Len(rendered) <= 1 /\ images = <<>>
    BY <2>1, <1>t DEF RenderInOrder, ImagesInOrder
  <2>4. pages' >= 1 /\ pages' <= MaxVisionPages /\ pages' \in 0..MaxVisionPages
    BY <2>1 DEF MaxVisionPages
  <2>5. UploadTypeOK'
    <3>1. images' = <<>>
      BY <2>1, <2>3
    <3>2. Len(images') = 0
      BY <3>1
    <3>3. \A n \in 0..2 : 0 + n <= 2
      OBVIOUS
    <3>4. Len(images') + pages' <= MaxVisionPages
      BY <3>2, <3>3, <2>4 DEF MaxVisionPages
    <3> QED
      BY <3>4, <2>1, <2>2, <2>4, <1>v, <1>t DEF UploadTypeOK
  <2>6. RenderInOrder'
    BY <2>1, <2>2, <2>3, <1>q DEF RenderInOrder
  <2> QED
    BY <2>1, <2>3, <2>4, <2>5, <2>6 DEF ImagesInOrder, PreparedWithinLimits,
       VisionBeforeWeakText
<1>5. CASE NothingRendered
  <2>1. /\ step = "render" /\ rendered' = Append(rendered, "nothing")
        /\ step' = IF upload.preferVision /\ rendered = <<>> THEN "text" ELSE "weak"
        /\ UNCHANGED <<upload, text, pages, images, mode>>
    BY <1>5 DEF NothingRendered
  <2>2. /\ rendered' \in Seq({"pages", "nothing"}) /\ Len(rendered') = Len(rendered) + 1
        /\ rendered'[Len(rendered')] = "nothing" /\ rendered' # <<>>
    <3>1. "nothing" \in {"pages", "nothing"}
      OBVIOUS
    <3>2. /\ Append(rendered, "nothing") # <<>>
          /\ Append(rendered, "nothing") \in Seq({"pages", "nothing"})
          /\ Len(Append(rendered, "nothing")) = Len(rendered) + 1
          /\ Append(rendered, "nothing")[Len(rendered) + 1] = "nothing"
      BY <3>1, <1>q, AppendProperties
    <3> QED
      BY <3>2, <2>1
  <2>3. Len(rendered) <= 1 /\ images = <<>> /\ pages = 0
    BY <2>1, <1>t DEF RenderInOrder, ImagesInOrder
  <2>4. UploadTypeOK'
    BY <2>1, <2>2, <1>v, <1>t DEF UploadTypeOK
  <2>5. RenderInOrder'
    <3>1. CASE upload.preferVision /\ rendered = <<>>
      <4>1. Len(rendered') = 1 /\ step' = "text" /\ upload'.preferVision
        BY <3>1, <2>1, <2>2
      <4> QED
        BY <4>1, <2>2 DEF RenderInOrder
    <3>2. CASE ~(upload.preferVision /\ rendered = <<>>)
      <4>1. step' = "weak"
        BY <3>2, <2>1
      <4> QED
        BY <4>1, <2>2, <2>3, <1>q DEF RenderInOrder
    <3> QED
      BY <3>1, <3>2
  <2> QED
    BY <2>1, <2>3, <2>4, <2>5 DEF ImagesInOrder, PreparedWithinLimits, VisionBeforeWeakText
<1>6. ASSUME NEW p \in Pictures, PageReady(p)
      PROVE  /\ UploadTypeOK' /\ RenderInOrder' /\ ImagesInOrder'
             /\ PreparedWithinLimits' /\ VisionBeforeWeakText'
  <2>1. PICK c \in Compacted(p) : images' = Append(images, c)
    BY <1>6 DEF PageReady
  <2>2. c \in Nat \X Nat /\ c[1] \in 1..MaxImageEdge /\ c[2] \in 1..MaxImageEdge
    BY <1>6, CompactedFits, PreprocessAssumption DEF PageReady
  <2>3. /\ images' \in Seq(Nat \X Nat) /\ Len(images') = Len(images) + 1
        /\ images'[Len(images) + 1] = c
        /\ \A i \in 1..Len(images) : images'[i] = images[i]
    BY <2>1, <2>2, <1>q, AppendProperties
  <2>4. /\ step = "pages" /\ pages' = pages - 1
        /\ \/ pages = 1 /\ step' = "ready" /\ mode' = "vision"
           \/ pages # 1 /\ UNCHANGED <<step, mode>>
        /\ UNCHANGED <<upload, text, rendered>>
    BY <1>6 DEF PageReady, Ready
  <2>5. pages \in {1, 2} /\ Len(images) + pages <= 2
    BY <2>4, <1>t, <1>q DEF ImagesInOrder, UploadTypeOK, MaxVisionPages
  <2>6. ASSUME NEW i \in 1..Len(images')
        PROVE  images'[i][1] \in 1..MaxImageEdge /\ images'[i][2] \in 1..MaxImageEdge
    <3>1. i \in 1..Len(images) \/ i = Len(images) + 1
      BY <2>3, <1>q
    <3> QED
      BY <3>1, <2>2, <2>3, <1>t DEF ImagesInOrder
  <2>7. UploadTypeOK'
    <3>1. pages' \in 0..MaxVisionPages /\ Len(images') + pages' <= MaxVisionPages
      BY <2>3, <2>4, <2>5, <1>q DEF MaxVisionPages
    <3> QED
      BY <3>1, <2>3, <2>4, <1>v, <1>t DEF UploadTypeOK
  <2>8. pages # 1 => pages' >= 1
    BY <2>4, <2>5
  <2>9. Len(images') \in 1..MaxVisionPages
    <3>1. \A n \in Nat, k \in {1, 2} : n + k <= 2 => n + 1 \in 1..2
      OBVIOUS
    <3> QED
      BY <3>1, <2>3, <2>5, <1>q DEF MaxVisionPages
  <2>10. RenderInOrder' /\ VisionBeforeWeakText'
    BY <2>4, <1>t DEF RenderInOrder, VisionBeforeWeakText
  <2> QED
    BY <2>4, <2>6, <2>7, <2>8, <2>9, <2>10 DEF ImagesInOrder, PreparedWithinLimits
<1>7. ASSUME NEW t \in TextFromPDF, TextRead(t)
      PROVE  /\ UploadTypeOK' /\ RenderInOrder' /\ ImagesInOrder'
             /\ PreparedWithinLimits' /\ VisionBeforeWeakText'
  <2>1. /\ step = "text" /\ UNCHANGED <<upload, pages, images, rendered>>
        /\ images = <<>> /\ pages = 0
        /\ Len(rendered) = IF upload.preferVision THEN 1 ELSE 0
        /\ rendered # <<>> => rendered[1] = "nothing"
    BY <1>7, <1>t DEF TextRead, RenderInOrder, ImagesInOrder
  <2>2. t \in Text \cup {Unread}
    BY PreprocessAssumption DEF TextFromPDF
  <2>3. CASE UsablePDFText(t)
    <3>1. t \in Text
      BY <2>2, <2>3 DEF UsablePDFText
    <3>2. text' = Truncated(t) /\ step' = "ready" /\ mode' = "text"
      BY <2>3, <1>7 DEF TextRead, Ready
    <3>3. text' \in Text /\ text'.len \in 1..MaxPDFTextChars /\ UsablePDFText(text')
      BY <3>1, <3>2, <2>3, TruncatedFits
    <3>4. UploadTypeOK'
      BY <3>2, <3>3, <2>1, <1>v, <1>t DEF UploadTypeOK
    <3>5. VisionBeforeWeakText'
      <4>1. upload.preferVision => rendered # <<>> /\ rendered[Len(rendered)] = "nothing"
        BY <2>1
      <4>2. UsablePDFText(text)'
        BY <3>3 DEF UsablePDFText
      <4> QED
        BY <4>1, <4>2, <3>2, <2>1 DEF VisionBeforeWeakText
    <3> QED
      BY <3>2, <3>3, <3>4, <3>5, <2>1, <1>t DEF RenderInOrder, ImagesInOrder, PreparedWithinLimits
  <2>4. CASE ~UsablePDFText(t)
    <3>1. text' = t /\ step' = "render" /\ UNCHANGED mode
      BY <2>4, <1>7 DEF TextRead
    <3>2. UploadTypeOK'
      BY <3>1, <2>1, <2>2, <1>v, <1>t DEF UploadTypeOK
    <3> QED
      BY <3>1, <3>2, <2>1, <1>t DEF RenderInOrder, ImagesInOrder, PreparedWithinLimits,
         VisionBeforeWeakText
  <2> QED
    BY <2>3, <2>4
<1>8. CASE WeakText
  <2>1. /\ step = "weak" /\ text # Unread /\ text' = Truncated(text)
        /\ step' = "ready" /\ mode' = "text" /\ UNCHANGED <<upload, pages, images, rendered>>
    BY <1>8 DEF WeakText, Ready
  <2>2. text' \in Text /\ text'.len \in 1..MaxPDFTextChars
    BY <2>1, <1>q, TruncatedFits
  <2>3. UploadTypeOK'
    BY <2>1, <2>2, <1>v, <1>t DEF UploadTypeOK
  <2>4. images = <<>> /\ rendered # <<>> /\ rendered[Len(rendered)] = "nothing"
    BY <2>1, <1>t DEF ImagesInOrder, RenderInOrder
  <2> QED
    BY <2>1, <2>2, <2>3, <2>4, <1>t DEF RenderInOrder, ImagesInOrder, PreparedWithinLimits,
       VisionBeforeWeakText
<1>9. Refused \/ ImageFails \/ PageFails \/ NoText => Reject /\ UNCHANGED prepared
  BY DEF Refused, ImageFails, PageFails, NoText
<1> QED
  BY <1>1, <1>2, <1>3, <1>4, <1>5, <1>6, <1>7, <1>8, <1>9 DEF Prepare

-----------------------------------------------------------------------------
(***************************************************************************)
(* The theorems                                                            *)
(***************************************************************************)

LEMMA UploadInvNext == UploadInv /\ [UploadNext]_uvars => UploadInv'
<1> SUFFICES ASSUME UploadInv, [UploadNext]_uvars PROVE UploadInv'
  OBVIOUS
<1>1. CASE Prepare
  BY <1>1, PrepareService, PrepareDocument DEF UploadInv
<1>2. CASE step = "ready" /\ Next /\ UNCHANGED <<step, prepared>>
  <2>1. /\ TypeOK' /\ ServiceInOrder' /\ CallsCounted' /\ StatusTellsCause' /\ BusyIsReported'
    BY <1>2, ServiceTyped
  <2>2. TimeSpent'
    BY <1>2, ServiceTime DEF prepared
  <2>3. UploadTypeOK' /\ PreparedFirst' /\ RenderInOrder' /\ ImagesInOrder'
    BY <2>1, <1>2 DEF prepared, UploadInv, UploadTypeOK, PreparedFirst, RenderInOrder, ImagesInOrder
  <2>4. PreparedWithinLimits' /\ VisionBeforeWeakText'
    BY <1>2 DEF prepared, UploadInv, PreparedWithinLimits, VisionBeforeWeakText, UsablePDFText
  <2> QED
    BY <2>1, <2>2, <2>3, <2>4 DEF UploadInv
<1>3. CASE UNCHANGED uvars
  BY <1>3 DEF uvars, vars, prepared, UploadInv, UploadTypeOK, TypeOK, ServiceInOrder, CallsCounted,
     Sent, TimeSpent, PausesBefore, PausesNow, PreparedFirst, RenderInOrder, ImagesInOrder,
     StatusTellsCause, BusyIsReported, PreparedWithinLimits, VisionBeforeWeakText, UsablePDFText
<1> QED
  BY <1>1, <1>2, <1>3 DEF UploadNext

LEMMA UploadInvAlways == UploadSpec => []UploadInv
  BY UploadInitInv, UploadInvNext, PTL DEF UploadSpec

\* The variables of the preparation and of the chats keep their types.
THEOREM UploadTyped == UploadSpec => []UploadTypeOK
<1>1. UploadInv => UploadTypeOK
  BY DEF UploadInv
<1> QED
  BY <1>1, UploadInvAlways, PTL

\* PrepareWithOptions gives the model a text within the budget or one or two
\* images within the edge limit, for pictures and texts of every size.
THEOREM PreparedFits == UploadSpec => []PreparedWithinLimits
<1>1. UploadInv => PreparedWithinLimits
  BY DEF UploadInv
<1> QED
  BY <1>1, UploadInvAlways, PTL

\* preparePDF takes a weak text layer only when the rendering gave nothing.
THEOREM VisionFirst == UploadSpec => []VisionBeforeWeakText
<1>1. UploadInv => VisionBeforeWeakText
  BY DEF UploadInv
<1> QED
  BY <1>1, UploadInvAlways, PTL

\* Extract sends no more than two chats of MaxAttempts HTTP requests.
THEOREM ProviderCallsBounded == UploadSpec => []CallsBounded
<1>1. UploadInv => CallsBounded
  <2> SUFFICES ASSUME UploadInv PROVE CallsBounded
    OBVIOUS
  <2>1. /\ calls \in Nat /\ MaxAttempts \in Nat /\ attempt \in Nat /\ attempt <= MaxAttempts
        /\ CallsCounted
    BY TimeAssumption DEF UploadInv, UploadTypeOK, TypeOK
  <2> QED
    BY <2>1 DEF CallsCounted, Sent, CallsBounded
<1> QED
  BY <1>1, UploadInvAlways, PTL

\* The renderings, the HTTP requests and the pauses of one upload end within
\* the sum of their timeouts.
THEOREM HandlerTimeBounded == UploadSpec => []UploadTimeBounded
<1>1. UploadInv => UploadTimeBounded
  <2> SUFFICES ASSUME UploadInv PROVE UploadTimeBounded
    OBVIOUS
  <2>a. /\ AttemptTime \in Nat /\ WaitTime \in Nat /\ MaxAttempts \in Nat
        /\ RenderTime \in Nat
    BY TimeAssumption, PreprocessAssumption
  <2>1. /\ calls \in Nat /\ elapsed \in Nat /\ attempt \in Nat /\ attempt <= MaxAttempts
        /\ Len(rendered) \in Nat /\ Len(rendered) <= 2 /\ CallsCounted /\ TimeSpent
    BY TimeAssumption DEF UploadInv, UploadTypeOK, TypeOK, RenderInOrder
  <2>2. calls * AttemptTime <= (2 * MaxAttempts) * AttemptTime
    <3>1. calls <= 2 * MaxAttempts
      BY <2>1, <2>a DEF CallsCounted, Sent
    <3> QED
      BY <3>1, <2>1, <2>a, MulMono
  <2>3. Len(rendered) * RenderTime <= 2 * RenderTime
    BY <2>1, <2>a, MulMono
  <2>4. PICK p \in Nat : p = Pauses(MaxAttempts) * WaitTime
    <3>1. Pauses(MaxAttempts) * WaitTime \in Int
      BY <2>a, PauseAdds
    <3> QED
      BY <3>1, <2>a, PausesGrow
  <2>5. PausesBefore * WaitTime \in Nat /\ PausesBefore * WaitTime <= p
    BY <2>4, <2>a DEF PausesBefore
  <2>6. PausesNow * WaitTime \in Nat /\ PausesNow * WaitTime <= p
    <3>0. \A k \in Nat : Pauses(k) * WaitTime \in Int
      BY <2>a, PauseAdds
    <3>1. Pauses(attempt) * WaitTime \in Int
      BY <3>0, <2>1
    <3>2. 0 <= Pauses(attempt) * WaitTime /\ Pauses(attempt) * WaitTime <= p
      BY <2>1, <2>4, <2>a, PausesGrow
    <3> QED
      BY <3>1, <3>2, <2>4 DEF PausesNow
  <2>7. PICK a \in Nat : a = (2 * MaxAttempts) * AttemptTime
    BY <2>a
  <2>8. elapsed <= 2 * RenderTime + a + p
    <3>0. \A k, l \in Nat : k * l \in Nat
      OBVIOUS
    <3>1. PICK c \in Nat : c = calls * AttemptTime
      BY <3>0, <2>1, <2>a
    <3>2. PICK r \in Nat : r = Len(rendered) * RenderTime
      BY <3>0, <2>1, <2>a
    <3>3. PICK b \in Nat : b = PausesBefore * WaitTime
      BY <2>5
    <3>4. PICK n \in Nat : n = PausesNow * WaitTime
      BY <2>6
    <3>5. 2 * elapsed <= 2 * r + 2 * c + b + n
      BY <2>1, <3>1, <3>2, <3>3, <3>4 DEF TimeSpent
    <3>6. c <= a /\ r <= 2 * RenderTime /\ b <= p /\ n <= p
      BY <2>2, <2>3, <2>5, <2>6, <2>7, <3>1, <3>2, <3>3, <3>4
    <3> QED
      BY <3>5, <3>6, <2>1, <2>a
  <2>9. p = MaxAttempts * (MaxAttempts - 1) * WaitTime
    BY <2>4 DEF Pauses
  <2> QED
    BY <2>7, <2>8, <2>9 DEF UploadTimeBounded
<1> QED
  BY <1>1, UploadInvAlways, PTL

\* mapExtractError's 200, 422 and 502 tell what happened.
THEOREM CauseTold == UploadSpec => []StatusTellsCause
<1>1. UploadInv => StatusTellsCause
  BY DEF UploadInv
<1> QED
  BY <1>1, UploadInvAlways, PTL

\* A provider that rate limits the last attempt of a chat is reported as 429.
THEOREM BusyTold == UploadSpec => []BusyIsReported
<1>1. UploadInv => BusyIsReported
  BY DEF UploadInv
<1> QED
  BY <1>1, UploadInvAlways, PTL

=============================================================================
