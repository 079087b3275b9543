---------------------------- MODULE ExtractService ----------------------------
(***************************************************************************)
(* One call of extract.Service.Extract over groq.Client: the first chat,   *)
(* its retries, the repair chat for a reply that does not decode, and the  *)
(* HTTP status mapExtractError gives to the error.                         *)
(*                                                                         *)
(* An error is the set of what errors.Is, errors.As and strings.Contains   *)
(* can find in it: "unknown", "llm", "invalid" for the package's errors,   *)
(* "http429" and "http413" for the status in the text of an HTTPError,     *)
(* "rate" and "large" for the provider's words in a message.               *)
(***************************************************************************)
EXTENDS Naturals

CONSTANTS
    AttemptTime,  \* groq.Client's HTTP timeout, in ticks
    WaitTime,     \* the unit of the pause between attempts
    MaxAttempts   \* 3 in Chat

ASSUME TimeAssumption ==
    /\ AttemptTime \in Nat \ {0} /\ WaitTime \in Nat
    /\ MaxAttempts \in Nat \ {0}

VARIABLES
    pc,       \* "start", "chat", "wait", "decode" or "done"
    phase,    \* "first" or "repair" chat
    attempt,  \* attempts of this chat, the current one included
    reply,    \* content the model returned: "json", "garbage" or "none"
    err,      \* what the error returned so far contains
    status,   \* HTTP status, 0 before the end
    calls,    \* history: HTTP requests sent to the provider
    elapsed,  \* history: ticks spent
    last      \* history: how the last HTTP request ended

vars == <<pc, phase, attempt, reply, err, status, calls, elapsed, last>>

ErrorParts == {"unknown", "llm", "invalid", "http429", "http413", "rate", "large"}

\* What the error of one HTTP request may contain: at most one status, and any
\* of the provider's words (in the body of that or of another status, or in
\* the error of a 2xx body); none of it if no usable answer came back.
ProviderWords == {"http429", "http413", "rate", "large"}
Failures == {f \in SUBSET ProviderWords :
                ~({"http429", "http413"} \subseteq f)}

\* What decodeInto makes of the content of a reply, once the fences, the
\* reasoning and the text around the braces are cut off: a result or an error.
Replies == {"json", "garbage"}

TypeOK ==
    /\ pc \in {"start", "chat", "wait", "decode", "done"}
    /\ phase \in {"first", "repair"}
    /\ attempt \in 0..MaxAttempts
    /\ reply \in {"none"} \cup Replies
    /\ err \subseteq ErrorParts
    /\ status \in {0, 200, 400, 413, 422, 429, 500, 502}
    /\ calls \in Nat /\ elapsed \in Nat
    /\ last \in Failures \cup {{"content"}}

-----------------------------------------------------------------------------
\* mapExtractError: the provider's words come before the error's class.
ClassFirst(e) ==
    CASE "unknown" \in e -> 400
      [] "invalid" \in e -> 422
      [] {"http429", "rate"} \cap e # {} -> 429
      [] {"http413", "large"} \cap e # {} -> 413
      [] OTHER -> IF "llm" \in e THEN 502 ELSE 500
MapExtractError(e) ==
    IF {"http429", "rate"} \cap e # {} THEN 429
    ELSE IF {"http413", "large"} \cap e # {} THEN 413
    ELSE IF "unknown" \in e THEN 400
    ELSE IF "invalid" \in e THEN 422
    ELSE IF "llm" \in e THEN 502
    ELSE 500

\* Only a 429 is retried, and not after the last attempt.
RetryPastLast(f) == "http429" \in f
Retries(f) == "http429" \in f /\ attempt < MaxAttempts

\* Extract's error for a failed chat.
ChatError(f) == f \cup {IF phase = "first" THEN "llm" ELSE "invalid"}

Init ==
    /\ pc = "start" /\ phase = "first" /\ attempt = 0
    /\ reply = "none" /\ err = {} /\ status = 0
    /\ calls = 0 /\ elapsed = 0 /\ last = {}

Fail(e) ==
    /\ err' = e /\ status' = MapExtractError(e) /\ pc' = "done"

\* The registry does not have the document type.  The error quotes what the
\* client named, which may hold any of the words mapExtractError looks for.
UnknownDocType ==
    /\ pc = "start"
    /\ \E words \in SUBSET ProviderWords : Fail({"unknown"} \cup words)
    /\ UNCHANGED <<phase, attempt, reply, calls, elapsed, last>>

StartChat ==
    /\ pc = "start"
    /\ pc' = "chat" /\ attempt' = 1
    /\ UNCHANGED <<phase, reply, err, status, calls, elapsed, last>>

Spend == /\ calls' = calls + 1
         /\ \E d \in 0..AttemptTime : elapsed' = elapsed + d

\* chatOnce returns content.
ChatContent(c) ==
    /\ pc = "chat"
    /\ Spend /\ last' = {"content"}
    /\ reply' = c /\ pc' = "decode"
    /\ UNCHANGED <<phase, attempt, err, status>>

\* chatOnce fails with f, the cancelled request context included.
ChatFails(f) ==
    /\ pc = "chat"
    /\ Spend /\ last' = f
    /\ IF Retries(f)
       THEN pc' = "wait" /\ UNCHANGED <<err, status>>
       ELSE Fail(ChatError(f))
    /\ UNCHANGED <<phase, attempt, reply>>

\* The pause before the next attempt is attempt * WaitTime.
WaitOver ==
    /\ pc = "wait"
    /\ elapsed' = elapsed + attempt * WaitTime
    /\ attempt' = attempt + 1 /\ pc' = "chat"
    /\ UNCHANGED <<phase, reply, err, status, calls, last>>

\* The client goes away during the pause: wait returns the context's error.
WaitCancelled ==
    /\ pc = "wait"
    /\ \E d \in 0..attempt * WaitTime : elapsed' = elapsed + d
    /\ Fail(ChatError({}))
    /\ UNCHANGED <<phase, attempt, reply, calls, last>>

\* decodeInto reads the reply: the result is normalized and returned.
DecodeOk ==
    /\ pc = "decode" /\ reply = "json"
    /\ pc' = "done" /\ status' = 200
    /\ UNCHANGED <<phase, attempt, reply, err, calls, elapsed, last>>

\* The first reply that does not decode is sent back to be repaired ...
AcceptGarbage ==
    /\ pc = "decode" /\ reply = "garbage" /\ phase = "first"
    /\ pc' = "done" /\ status' = 200
    /\ UNCHANGED <<phase, attempt, reply, err, calls, elapsed, last>>
RepairAgain ==
    /\ pc = "decode" /\ reply = "garbage"
    /\ pc' = "chat" /\ phase' = "repair" /\ attempt' = 1 /\ reply' = "none"
    /\ UNCHANGED <<err, status, calls, elapsed, last>>
StartRepair ==
    /\ pc = "decode" /\ reply = "garbage" /\ phase = "first"
    /\ pc' = "chat" /\ phase' = "repair" /\ attempt' = 1 /\ reply' = "none"
    /\ UNCHANGED <<err, status, calls, elapsed, last>>

\* ... a second one is an error.
RepairErrorDropped ==
    /\ pc = "decode" /\ reply = "garbage" /\ phase = "repair"
    /\ UNCHANGED vars
RepairFails ==
    /\ pc = "decode" /\ reply = "garbage" /\ phase = "repair"
    /\ Fail({"invalid"})
    /\ UNCHANGED <<phase, attempt, reply, calls, elapsed, last>>

Next ==
    \/ UnknownDocType \/ StartChat
    \/ \E c \in Replies : ChatContent(c)
    \/ \E f \in Failures : ChatFails(f)
    \/ WaitOver \/ WaitCancelled
    \/ DecodeOk \/ StartRepair \/ RepairFails

Spec == Init /\ [][Next]_vars

\* Every HTTP request and every pause ends: both have a timeout.
FairSpec == Spec /\ WF_vars(Next)

-----------------------------------------------------------------------------
(***************************************************************************)
(* Properties                                                              *)
(***************************************************************************)

\* One upload costs at most two chats of MaxAttempts HTTP requests.
CallsBounded == calls <= 2 * MaxAttempts

\* 200 is answered only for a reply that decoded, 422 only after one that did
\* not, 502 only when no reply came back at all.
StatusTellsCause ==
    /\ status = 200 => reply = "json" /\ last = {"content"}
    /\ status = 422 => phase = "repair"
    /\ status = 502 => phase = "first" /\ reply = "none"

\* A provider that was rate limiting to the end is reported as 429 ("extraction
\* provider busy; try again in a minute"), so that the client tries again, in
\* the repair chat as well.  This is mapExtractError's promise in server.go; the
\* README (198, 200) has 502 for every failed Groq request and 429 only for the
\* service's own limiter.
BusyIsReported ==
    pc = "done" /\ "http429" \in last /\ attempt = MaxAttempts => status = 429

\* Extract returns.
ExtractReturns == <>(pc = "done")

=============================================================================
