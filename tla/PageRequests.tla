---------------------------- MODULE PageRequests ----------------------------
(***************************************************************************)
(* The requests of one model's pages (PlannedModel in                      *)
(* ocr_bench/models/base.py, VllmClient.chat and PipelineClient.layout).   *)
(* A page is one request, or, with a two-stage plan, a layout request and  *)
(* then one request per block that the layout lists, a few at a time.  A   *)
(* request that fails is sent once more; an answer that means "no worker   *)
(* is up yet" does not count as long as the client is young.               *)
(*                                                                         *)
(* Around them is an endpoint that may scale to zero between pages and     *)
(* boots again on the next request.  While no worker is up its gateway     *)
(* answers with a cold-start signature or holds the request.               *)
(*                                                                         *)
(* Time is discrete and counted from the creation of the client; an answer *)
(* may come at any time within the request timeout, and a timer is late    *)
(* for nothing.  The timeout of PipelineClient bounds each operation on    *)
(* the connection; it is taken to bound the request, as if an answer came  *)
(* in one piece.  A behaviour has one page, which begins at any time,      *)
(* with the endpoint up or at zero: pages share nothing else.  Parsing     *)
(* the answers is left out.                                                *)
(***************************************************************************)
EXTENDS Naturals, FiniteSets

CONSTANTS
  MaxBlocks,          \* bound: blocks a layout lists
  BlockConcurrency,   \* block requests of a page at a time
  WaitReady,          \* wait_ready_s
  Backoff,            \* COLD_START_BACKOFF_S
  Timeout,            \* timeout_s
  ColdStart,          \* bound: the time a worker needs to boot
  LastPage,           \* bound: no page begins after this time
  Horizon,            \* bound: the clock
  None                \* "absent"

(* The requests of a page: 0 is the only one, or the layout; the blocks    *)
(* follow in the order in which the layout lists them.                     *)
Blocks == 1..MaxBlocks
Calls  == 0..MaxBlocks

Call == [state : {"idle", "queued", "sent", "backoff", "ok", "error"},
         begun : Nat,           \* when the call began
         timer : Nat,           \* when the attempt times out, or the backoff ends
         failures : 0..1,       \* failed attempts that counted
         cold : BOOLEAN]        \* nothing but cold starts came back

ASSUME ConstantsAssumption ==
  /\ MaxBlocks \in Nat /\ BlockConcurrency \in Nat \ {0}
  /\ WaitReady \in Nat /\ Backoff \in Nat \ {0} /\ Timeout \in Nat \ {0}
  /\ ColdStart \in Nat /\ LastPage \in Nat /\ Horizon \in Nat
  /\ None \notin Nat

VARIABLES
  now,     \* time since the client was created
  plan,    \* kind of the plan: "single", "pipeline" or "two_stage"
  pc,      \* "idle", "layout", "blocks"
  call,    \* the calls of the page
  row,     \* the row of the page: "ok" or "error"
  up,      \* a worker is up
  boot     \* when one began to boot, or None

vars == <<now, plan, pc, call, row, up, boot>>

Idle == [state |-> "idle", begun |-> 0, timer |-> 0, failures |-> 0, cold |-> TRUE]

Init ==
  /\ now = 0
  /\ plan = "single" /\ pc = "idle" /\ row = None
  /\ call = [c \in Calls |-> Idle]
  /\ up = TRUE       \* the health check of the run has seen a worker
  /\ boot = None

-----------------------------------------------------------------------------
Ended(c)  == call[c].state \in {"ok", "error"}
Open(c)   == call[c].state \in {"queued", "sent", "backoff"}
InFlight  == {c \in Blocks : call[c].state \in {"sent", "backoff"}}

(* A request makes an endpoint at zero boot a worker. *)
Knock == boot' = IF up \/ boot # None THEN boot ELSE now

(* The call begins with its first attempt. *)
Begun == [Idle EXCEPT !.state = "sent", !.begun = now, !.timer = now + Timeout]

Retry(c, failures, cold) ==
  [call[c] EXCEPT !.timer = now + Timeout, !.failures = failures, !.cold = @ /\ cold]

GiveUp(c, cold) ==
  [Idle EXCEPT !.state = "error", !.begun = call[c].begun, !.cold = call[c].cold /\ cold]

(* A failed attempt that counts: the second ends the call, and so does one *)
(* that is not worth a retry.  Otherwise it is sent again at once.         *)
Failed(c, final, cold) ==
  IF final \/ call[c].failures = 1
    THEN GiveUp(c, cold)
    ELSE Retry(c, call[c].failures + 1, cold)

(* The request is too big to send, or its image cannot be cropped. *)
Refused == [Idle EXCEPT !.state = "error", !.begun = now, !.cold = FALSE]

(* The page begins, possibly long after the client was created: all other  *)
(* models of the run may have had their turn in between.                   *)
BeginPage ==
  /\ pc = "idle"
  /\ row = None
  /\ now <= LastPage
  /\ plan' \in {"single", "pipeline", "two_stage"}
  /\ pc' = "layout"
  /\ \E first \in {Begun, Refused} :
       /\ call' = [[c \in Calls |-> Idle] EXCEPT ![0] = first]
       /\ IF first = Begun THEN Knock ELSE UNCHANGED boot
  /\ UNCHANGED <<now, row, up>>

(* asyncio.Semaphore lets the blocks pass in their order. *)
Acquire(c) ==
  /\ call[c].state = "queued"
  /\ \A d \in Blocks : call[d].state = "queued" => c <= d
  /\ Cardinality(InFlight) < BlockConcurrency
  /\ \E first \in {Begun, Refused} :
       /\ call' = [call EXCEPT ![c] = first]
       /\ IF first = Begun THEN Knock ELSE UNCHANGED boot
  /\ UNCHANGED <<now, plan, pc, row, up>>

Answered(c) ==
  /\ call[c].state = "sent"
  /\ up
  /\ call' = [call EXCEPT ![c] = [Idle EXCEPT !.state = "ok"]]
  /\ UNCHANGED <<now, plan, pc, row, up, boot>>

(* Mutant of InWindow: the window is counted from the start of the call. *)
InWindowOfCall(c) == now < call[c].begun + WaitReady

(* Mutant of InWindow: a cold start is an error like any other. *)
InWindowNever(c) == FALSE

(* The client is young enough to wait for a worker. *)
InWindow(c) == now < WaitReady

(* The gateway has no worker.  As a 502 or 503 this is retried once beyond *)
(* the window, as a 4xx with the no-workers body it is not.                *)
ColdAnswer(c, status) ==
  /\ call[c].state = "sent"
  /\ ~up
  /\ call' = [call EXCEPT ![c] =
       IF InWindow(c)
         THEN [@ EXCEPT !.state = "backoff", !.timer = now + Backoff]
         ELSE Failed(c, status = "4xx", TRUE)]
  /\ Knock
  /\ UNCHANGED <<now, plan, pc, row, up>>

(* A worker that is up answers with an error.  A 502 or 503 (busy) looks   *)
(* like a cold start and is waited out in the window; a 4xx is final, and  *)
(* a malformed answer for the pipeline only.                               *)
ErrorKinds == {"busy", "5xx", "4xx", "malformed"}

ErrorAnswer(c, kind) ==
  /\ call[c].state = "sent"
  /\ up
  /\ call' = [call EXCEPT ![c] =
       IF kind = "busy" /\ InWindow(c)
         THEN [@ EXCEPT !.state = "backoff", !.timer = now + Backoff, !.cold = FALSE]
         ELSE Failed(c, kind = "4xx" \/ (kind = "malformed" /\ plan = "pipeline"), FALSE)]
  /\ UNCHANGED <<now, plan, pc, row, up, boot>>

(* No answer in time, also while the gateway holds the request, or the     *)
(* connection breaks before.                                               *)
NoAnswer(c) ==
  /\ call[c].state = "sent"
  /\ call' = [call EXCEPT ![c] = Failed(c, FALSE, FALSE)]
  /\ Knock
  /\ UNCHANGED <<now, plan, pc, row, up>>

(* The backoff is over: send again. *)
Wake(c) ==
  /\ call[c].state = "backoff"
  /\ now = call[c].timer
  /\ call' = [call EXCEPT ![c].state = "sent", ![c].timer = now + Timeout]
  /\ Knock
  /\ UNCHANGED <<now, plan, pc, row, up>>

(* The layout is there: its blocks are cropped and wait for the semaphore. *)
(* A block that cannot be cropped is never sent.                           *)
BeginBlocks ==
  /\ pc = "layout"
  /\ plan = "two_stage"
  /\ call[0].state = "ok"
  /\ \E targets \in 0..MaxBlocks : \E uncropped \in SUBSET (1..targets) :
       call' = [c \in Calls |->
         CASE c \in uncropped -> Refused
           [] c \in (1..targets) \ uncropped -> [Idle EXCEPT !.state = "queued"]
           [] OTHER -> call[c]]
  /\ pc' = "blocks"
  /\ UNCHANGED <<now, plan, row, up, boot>>

(* Mutant of AllEnded: the page ends with its first failed block. *)
AnyFailed == (\A c \in Blocks : ~Open(c)) \/ \E c \in Blocks : call[c].state = "error"

(* Mutant of AllEnded: a failed block is waited for. *)
NoneFailed == \A c \in Blocks : call[c].state \in {"idle", "ok"}

(* gather waits for every block. *)
AllEnded == \A c \in Blocks : ~Open(c)

(* The row of the page: an error if any of its requests failed. *)
EndPage ==
  /\ \/ pc = "layout" /\ call[0].state = "error"
     \/ pc = "layout" /\ call[0].state = "ok" /\ plan # "two_stage"
     \/ pc = "blocks" /\ AllEnded
  /\ row' = IF \E c \in Calls : call[c].state = "error" THEN "error" ELSE "ok"
  /\ pc' = "idle"
  /\ UNCHANGED <<now, plan, call, up, boot>>

-----------------------------------------------------------------------------
(* The endpoint, and time                                                  *)

(* A worker is up within ColdStart of the request that made it boot. *)
WorkerUp ==
  /\ boot # None
  /\ up' = TRUE
  /\ boot' = None
  /\ UNCHANGED <<now, plan, pc, call, row>>

(* Before the page the endpoint may scale to zero; its idle timeout is     *)
(* longer than any backoff.  A worker that dies under a page is left out.  *)
ScaleToZero ==
  /\ up
  /\ pc = "idle" /\ row = None
  /\ up' = FALSE
  /\ UNCHANGED <<now, plan, pc, call, row, boot>>

(* Nothing is due now. *)
Quiet ==
  /\ \A c \in Calls :
       /\ call[c].state \in {"sent", "backoff"} => now < call[c].timer
       /\ call[c].state = "queued" => Cardinality(InFlight) >= BlockConcurrency
  /\ pc = "layout" => ~Ended(0)
  /\ pc = "blocks" => ~AllEnded
  /\ boot # None => now < boot + ColdStart

Tick ==
  /\ Quiet
  /\ pc = "idle" => now <= LastPage /\ row = None
  /\ now < Horizon
  /\ now' = now + 1
  /\ UNCHANGED <<plan, pc, call, row, up, boot>>

Step ==
  \/ \E c \in Calls :
       \/ Answered(c) \/ NoAnswer(c) \/ Wake(c)
       \/ \E status \in {"4xx", "5xx"} : ColdAnswer(c, status)
       \/ \E kind \in ErrorKinds : ErrorAnswer(c, kind)
  \/ \E c \in Blocks : Acquire(c)
  \/ BeginBlocks \/ EndPage \/ WorkerUp \/ Tick

Next == BeginPage \/ ScaleToZero \/ Step

(* The event loop runs, timers fire and time goes on. *)
Spec == Init /\ [][Next]_vars /\ WF_vars(Step)

-----------------------------------------------------------------------------
(* Properties                                                              *)

(* Every variable has its type. *)
TypeOK ==
  /\ now \in Nat
  /\ plan \in {"single", "pipeline", "two_stage"}
  /\ pc \in {"idle", "layout", "blocks"}
  /\ call \in [Calls -> Call]
  /\ row \in {"ok", "error", None}
  /\ up \in BOOLEAN
  /\ boot \in Nat \cup {None}

Later(s, t) == IF s < t THEN t ELSE s

(* However cold starts, timeouts and errors alternate, a call is over in   *)
(* time: what is left of the window, a backoff, and two attempts.          *)
CallsEndInTime ==
  \A c \in Calls : call[c].state \in {"sent", "backoff"} =>
    now <= Later(call[c].begun, WaitReady) + Backoff + 2 * Timeout

(* A cold start that fits into the window costs no call its answer: where  *)
(* nothing but cold-start signatures came back, the worker that this call  *)
(* made boot could not be up within the window.                            *)
ColdStartFitsWindow ==
  \A c \in Calls : call[c].state = "error" /\ call[c].cold =>
    call[c].begun + ColdStart >= WaitReady

(* The row of a page speaks of all its requests: none is still open, and   *)
(* it is good exactly when the layout and every block it lists came back.  *)
RowIsComplete ==
  row # None =>
    /\ \A c \in Calls : ~Open(c)
    /\ row = "ok" <=> call[0].state = "ok" /\ \A c \in Blocks : call[c].state \in {"idle", "ok"}

(* Every page ends with a row, whatever the endpoint does. *)
PageEnds == pc # "idle" ~> row # None

=============================================================================
