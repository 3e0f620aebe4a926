---------------------------- MODULE ParseClient -----------------------------
(***************************************************************************)
(* The standalone client (clients/runpod-ocr-client, one file): it waits   *)
(* for a worker, parses the pages of a document a few at a time, each with *)
(* one request or, for TeleOCR, with a layout request and one per block,   *)
(* and writes one Markdown file, or exits with a code.                     *)
(*                                                                         *)
(* An answer is abstracted to what the client does with it.  Time matters  *)
(* only while the client waits for a worker; afterwards a request is       *)
(* answered or times out, and a backoff ends, in a step of its own.  The   *)
(* timeout of httpx bounds each operation of a request; it is taken to     *)
(* bound the request.                                                      *)
(***************************************************************************)
EXTENDS Naturals, FiniteSets

CONSTANTS
  Pages,             \* bound: the pages are 1..Pages
  Blocks,            \* bound: the most blocks a layout lists
  Concurrency,       \* --concurrency
  BlockConcurrency,  \* TELEOCR_BLOCK_CONCURRENCY
  Retries,           \* retries of _post
  WaitS, PollS,      \* wait_s and poll_s of wait_for_worker
  HealthTimeout,     \* its request timeout
  None               \* "absent"

ASSUME ConstantsAssumption ==
  /\ Pages \in Nat \ {0} /\ Blocks \in Nat /\ Retries \in Nat
  /\ Concurrency \in Nat \ {0} /\ BlockConcurrency \in Nat \ {0}
  /\ WaitS \in Nat /\ PollS \in Nat /\ HealthTimeout \in Nat
  /\ None \notin Nat

Page  == 1..Pages
Call  == 0..Blocks     \* 0: the page, or its layout

VARIABLES
  pc,       \* "health", "nap", "pages", "write", "done"
  exit,     \* the exit code; 1: an exception that main does not catch
  now,      \* the clock of the wait
  timer,    \* when the poll times out, or the nap ends
  healthy,  \* /health has answered 200
  kind,     \* kind of the model: "chat", "paddle" or "teleocr"
  page,     \* "queued", "first", "blocks", "text" or "note"
  call,     \* of each page, of each call: "idle", "queued", "sent", "sleep", "ok" or why it failed
  attempt   \* ... and its attempt

vars == <<pc, exit, now, timer, healthy, kind, page, call, attempt>>

Init ==
  /\ pc = "health" /\ exit = None
  /\ now = 0 /\ timer = HealthTimeout /\ healthy = FALSE
  /\ kind \in {"chat", "paddle", "teleocr"}
  /\ page = [p \in Page |-> "queued"]
  /\ call = [p \in Page |-> [c \in Call |-> "idle"]]
  /\ attempt = [p \in Page |-> [c \in Call |-> 0]]

-----------------------------------------------------------------------------
(* wait_for_worker.                                                        *)
Exits(code) == pc' = "done" /\ exit' = code

(* The deadline has passed. *)
Late == now >= WaitS

Health ==
  /\ pc = "health"
  /\ \/ (* 200 *)
        pc' = "pages" /\ healthy' = TRUE /\ UNCHANGED <<exit, timer>>
     \/ (* 204, 502, 503, or no answer in time *)
        /\ IF Late THEN Exits(3) /\ UNCHANGED timer
                   ELSE pc' = "nap" /\ timer' = now + PollS /\ UNCHANGED exit
        /\ UNCHANGED healthy
     \/ (* another status: EndpointNotReady; no connection: HTTPError *)
        /\ Exits(3) \/ Exits(4)
        /\ UNCHANGED <<timer, healthy>>
  /\ UNCHANGED <<now, kind, page, call, attempt>>

Nap ==
  /\ pc = "nap" /\ now = timer
  /\ pc' = "health" /\ timer' = now + HealthTimeout
  /\ UNCHANGED <<exit, now, healthy, kind, page, call, attempt>>

Tick ==
  /\ pc \in {"health", "nap"} /\ now < timer
  /\ now' = now + 1
  /\ UNCHANGED <<pc, exit, timer, healthy, kind, page, call, attempt>>

-----------------------------------------------------------------------------
(* _post.                                                                  *)
Answers == {"ok", "unclear",                 \* 200; one whose text is only kept with a note
            "not_json", "wrong_shape",       \* 200, and no JSON, or not the JSON that is read
            "gateway", "timeout",            \* RETRY_STATUSES; httpx.TimeoutException
            "refused", "no_connection",      \* another error status; another httpx error
            "no_content"}                    \* a success other than 200

Retried == {"gateway", "timeout", "no_content"}

(* What becomes of a call whose attempt n got this answer.  After the last *)
(* attempt raise_for_status and the timeout raise, but a success that is   *)
(* not 200 leaves the loop by its end, after one more sleep.               *)
Verdict(answer, n) ==
  IF answer \notin Retried THEN answer
  ELSE IF n < Retries THEN "sleep"
  ELSE IF answer = "no_content" THEN "unreachable" ELSE answer

(* The exit code of main for the exception that a failed call raises:      *)
(* httpx.HTTPError, ValueError, anything else.                             *)
CodeOf(failure) ==
  IF failure \in {"gateway", "timeout", "refused", "no_connection"} THEN 4
  ELSE IF failure = "not_json" THEN 2 ELSE 1

Failures == (Answers \ {"ok", "unclear", "no_content"}) \cup {"unreachable"}

Answer(p, c) ==
  /\ pc = "pages" /\ call[p][c] = "sent"
  /\ \E answer \in Answers :
       LET v == Verdict(answer, attempt[p][c]) IN
       /\ call' = [call EXCEPT ![p][c] = v]
          (* The first exception leaves gather and main; the rest is cancelled. *)
       /\ IF v \in Failures THEN Exits(CodeOf(v)) ELSE UNCHANGED <<pc, exit>>
  /\ UNCHANGED <<now, timer, healthy, kind, page, attempt>>

(* The backoff ends. *)
Resend(p, c) ==
  /\ pc = "pages" /\ call[p][c] = "sleep"
  /\ call' = [call EXCEPT ![p][c] = "sent"]
  /\ attempt' = [attempt EXCEPT ![p][c] = @ + 1]
  /\ UNCHANGED <<pc, exit, now, timer, healthy, kind, page>>

-----------------------------------------------------------------------------
(* page_markdown and parse_document.                                       *)
Busy(p)   == page[p] \in {"first", "blocks"}
Parsed(p) == page[p] \in {"text", "note"}

(* A page in its turn, as the semaphore lets it. *)
BeginPage(p) ==
  /\ pc = "pages" /\ page[p] = "queued"
  /\ \A q \in 1..(p - 1) : page[q] # "queued"
  /\ Cardinality({q \in Page : Busy(q)}) < Concurrency
  /\ page' = [page EXCEPT ![p] = "first"]
  /\ call' = [call EXCEPT ![p][0] = "sent"]
  /\ UNCHANGED <<pc, exit, now, timer, healthy, kind, attempt>>

(* The only answer of a page, or a layout that lists no block. *)
EndSingle(p) ==
  /\ pc = "pages" /\ page[p] = "first"
  /\ \/ call[p][0] = "ok" /\ kind # "teleocr" /\ page' = [page EXCEPT ![p] = "text"]
     \/ call[p][0] = "unclear" /\ page' = [page EXCEPT ![p] = "note"]
  /\ UNCHANGED <<pc, exit, now, timer, healthy, kind, call, attempt>>

(* The layout lists blocks: some to send, and pictures, which are not. *)
BeginBlocks(p) ==
  /\ pc = "pages" /\ page[p] = "first" /\ kind = "teleocr" /\ call[p][0] = "ok"
  /\ page' = [page EXCEPT ![p] = "blocks"]
  /\ \E n \in 0..Blocks :
       call' = [call EXCEPT ![p] = [c \in Call |-> IF c \in 1..n THEN "queued" ELSE @[c]]]
  /\ UNCHANGED <<pc, exit, now, timer, healthy, kind, attempt>>

(* Mutant of BlocksSent: the semaphore is not released. *)
BlocksBegun(p) == {c \in 1..Blocks : call[p][c] \notin {"idle", "queued"}}

BlocksSent(p) == {c \in 1..Blocks : call[p][c] \in {"sent", "sleep"}}

BeginBlock(p, c) ==
  /\ pc = "pages" /\ page[p] = "blocks" /\ call[p][c] = "queued"
  /\ \A d \in 1..(c - 1) : call[p][d] # "queued"
  /\ Cardinality(BlocksSent(p)) < BlockConcurrency
  /\ call' = [call EXCEPT ![p][c] = "sent"]
  /\ UNCHANGED <<pc, exit, now, timer, healthy, kind, page, attempt>>

(* Mutant of BlocksAnswered: those that wait for their turn are forgotten. *)
NoneSent(p) == BlocksSent(p) = {}

(* An unclear block answer is plain text like any other. *)
BlocksAnswered(p) == \A c \in 1..Blocks : call[p][c] \in {"idle", "ok", "unclear"}

EndBlocks(p) ==
  /\ pc = "pages" /\ page[p] = "blocks"
  /\ BlocksAnswered(p)
  /\ page' = [page EXCEPT ![p] = "text"]
  /\ UNCHANGED <<pc, exit, now, timer, healthy, kind, call, attempt>>

EndPages ==
  /\ pc = "pages" /\ \A p \in Page : Parsed(p)
  /\ pc' = "write"
  /\ UNCHANGED <<exit, now, timer, healthy, kind, page, call, attempt>>

(* The output is written outside the try. *)
Write ==
  /\ pc = "write"
  /\ Exits(0) \/ Exits(1)
  /\ UNCHANGED <<now, timer, healthy, kind, page, call, attempt>>

Next ==
  \/ Health \/ Nap \/ Tick \/ EndPages \/ Write
  \/ \E p \in Page :
       \/ BeginPage(p) \/ EndSingle(p) \/ BeginBlocks(p) \/ EndBlocks(p)
       \/ \E c \in Call : Answer(p, c) \/ Resend(p, c) \/ BeginBlock(p, c)

(* Every request ends, by its timeout at the latest, and so does every     *)
(* sleep.                                                                  *)
Spec == Init /\ [][Next]_vars /\ WF_vars(Next)

-----------------------------------------------------------------------------
(* An endpoint that never becomes ready is waited for as long as --wait-s  *)
(* says, and for no more than one nap and one request longer.              *)
WaitIsBounded == now <= WaitS + PollS + HealthTimeout

(* What an exit code says.  0: the output has every page, and each of them *)
(* is made of an answer to every request it needed.  3: the client never   *)
(* went on to parse, and waited no longer than it was told to.  4 from a   *)
(* parse: some request was refused, or every one of its attempts met a     *)
(* busy gateway or no answer in time.                                      *)
ExitTells ==
  /\ exit = 0 =>
       \A p \in Page :
         /\ Parsed(p)
         /\ \A c \in Call : call[p][c] \in {"idle", "ok", "unclear"}
         /\ call[p][0] = "ok" \/ page[p] = "note"
  /\ exit = 3 => ~healthy
  /\ WaitIsBounded
  /\ exit = 4 /\ healthy =>
       \E p \in Page, c \in Call :
         \/ call[p][c] \in {"refused", "no_connection"}
         \/ call[p][c] \in {"gateway", "timeout"} /\ attempt[p][c] = Retries

(* The client ends, whatever the endpoint answers.                         *)
ParseEnds == <>(pc = "done")

(* runpod_parse_document.py:768, `raise AssertionError("unreachable")`: no *)
(* call leaves its retry loop by the end.                                  *)
NeverUnreachable == \A p \in Page, c \in Call : call[p][c] # "unreachable"

=============================================================================
