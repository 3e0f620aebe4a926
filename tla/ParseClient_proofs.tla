------------------------- MODULE ParseClient_proofs -------------------------
(***************************************************************************)
(* Proofs about ParseClient, for any number of pages and blocks, any       *)
(* bounds on what is asked at once, and any times and number of retries.   *)
(***************************************************************************)
EXTENDS ParseClient, TLAPS

CallState == Answers \cup {"idle", "queued", "sent", "sleep", "unreachable"}

Types ==
  /\ pc \in {"health", "nap", "pages", "write", "done"}
  /\ exit \in 0..4 \cup {None}
  /\ now \in Nat /\ timer \in Nat
  /\ healthy \in BOOLEAN
  /\ kind \in {"chat", "paddle", "teleocr"}
  /\ page \in [Page -> {"queued", "first", "blocks", "text", "note"}]
  /\ call \in [Page -> [Call -> CallState]]
  /\ attempt \in [Page -> [Call -> Nat]]

(* The client naps only before the deadline, and asks again after it.      *)
ClockFits ==
  /\ pc \in {"health", "nap"} => now <= timer
  /\ pc = "nap" => timer <= WaitS + PollS
  /\ pc = "health" => timer <= WaitS + PollS + HealthTimeout
  /\ WaitIsBounded

(* Only the end has a code; until a worker is found healthy nothing is     *)
(* parsed, and 3 is the code of not having found one.                      *)
CodeFits ==
  /\ pc # "done" => exit = None
  /\ pc \in {"health", "nap"} => ~healthy
  /\ exit = 3 => ~healthy

(* Where a page stands is what its calls have answered.                    *)
PageAt(p) ==
  /\ page[p] = "queued" => \A c \in Call : call[p][c] = "idle"
  /\ page[p] \in {"first", "note"} => \A c \in Call \ {0} : call[p][c] = "idle"
  /\ page[p] \in {"blocks", "text"} => call[p][0] = "ok"
  /\ page[p] = "text" => \A c \in Call \ {0} : call[p][c] \in {"idle", "ok", "unclear"}
  /\ page[p] = "note" => call[p][0] = "unclear"

PageFits == \A p \in Page : PageAt(p)

(* A call sleeps only while it has attempts left, and gives up on a busy   *)
(* gateway or a timeout only when it has none.                             *)
AttemptAt(p, c) ==
  /\ attempt[p][c] <= Retries
  /\ call[p][c] = "sleep" => attempt[p][c] < Retries
  /\ call[p][c] \in {"gateway", "timeout"} => attempt[p][c] = Retries

AttemptFits == \A p \in Page, c \in Call : AttemptAt(p, c)

(* The output is written, and the code is 0, when every page is parsed; 4  *)
(* from a parse has a call to show.                                        *)
EndHasCause ==
  /\ pc = "write" \/ exit = 0 => \A p \in Page : Parsed(p)
  /\ exit = 4 /\ healthy =>
       \E p \in Page, c \in Call :
         call[p][c] \in {"refused", "no_connection", "gateway", "timeout"}

(* The inductive invariant. *)
IInv == Types /\ ClockFits /\ CodeFits /\ PageFits /\ AttemptFits /\ EndHasCause

LEMMA InitIInv == Init => IInv
<1>1. SUFFICES ASSUME Init PROVE IInv
  OBVIOUS
<1>2. Types
  BY <1>1, ConstantsAssumption DEF Init, Types, CallState
<1>3. ClockFits
  BY <1>1, ConstantsAssumption DEF Init, ClockFits, WaitIsBounded
<1>4. CodeFits
  BY <1>1, ConstantsAssumption DEF Init, CodeFits
<1>5. PageFits
  BY <1>1, ConstantsAssumption DEF Init, PageFits, PageAt, Call
<1>6. AttemptFits
  BY <1>1, ConstantsAssumption DEF Init, AttemptFits, AttemptAt
<1>7. EndHasCause
  BY <1>1, ConstantsAssumption DEF Init, EndHasCause
<1>8. QED  BY <1>2, <1>3, <1>4, <1>5, <1>6, <1>7 DEF IInv

(* One call changes, the others stay. *)
CallSet(p, c, v) ==
  /\ call' \in [Page -> [Call -> CallState]] /\ call'[p][c] = v
  /\ \A q \in Page, d \in Call : q # p \/ d # c => call'[q][d] = call[q][d]

LEMMA CallIsSet ==
  ASSUME Types, NEW p \in Page, NEW c \in Call, NEW v \in CallState,
         call' = [call EXCEPT ![p][c] = v]
  PROVE  CallSet(p, c, v)
<1>1. call' = [call EXCEPT ![p] = [call[p] EXCEPT ![c] = v]]
  BY DEF Types
<1>2. [call[p] EXCEPT ![c] = v] \in [Call -> CallState]
  BY DEF Types
<1>3. call' \in [Page -> [Call -> CallState]]
  BY <1>1, <1>2 DEF Types
<1>4. call'[p] = [call[p] EXCEPT ![c] = v] /\ \A q \in Page \ {p} : call'[q] = call[q]
  BY <1>1 DEF Types
<1>5. call'[p][c] = v /\ \A d \in Call \ {c} : call'[p][d] = call[p][d]
  BY <1>4 DEF Types
<1>6. QED  BY <1>3, <1>4, <1>5 DEF CallSet

(* What an answer does to the call, and to the client. *)
AnswerOf(p, c, v) ==
  /\ pc = "pages" /\ call[p][c] = "sent"
  /\ v \in CallState \ {"idle", "queued", "sent"}
  /\ CallSet(p, c, v)
  /\ v = "sleep" => attempt[p][c] < Retries
  /\ v \in {"gateway", "timeout"} => ~(attempt[p][c] < Retries)
  /\ \/ /\ pc' = "done" /\ exit' \in {1, 2, 4}
        /\ exit' = 4 => v \in {"gateway", "timeout", "refused", "no_connection"}
     \/ pc' = pc /\ exit' = exit
  /\ UNCHANGED <<now, timer, healthy, kind, page, attempt>>

LEMMA AnswerIs ==
  ASSUME Types, NEW p \in Page, NEW c \in Call, Answer(p, c)
  PROVE  \E v \in CallState : AnswerOf(p, c, v)
<1>1. PICK answer \in Answers :
        LET v == Verdict(answer, attempt[p][c]) IN
        /\ call' = [call EXCEPT ![p][c] = v]
        /\ IF v \in Failures THEN Exits(CodeOf(v)) ELSE UNCHANGED <<pc, exit>>
  BY DEF Answer
<1> DEFINE v == Verdict(answer, attempt[p][c])
<1>2. v \in CallState \ {"idle", "queued", "sent"}
  BY DEF Verdict, CallState, Answers, Retried
<1>3. /\ v = "sleep" => attempt[p][c] < Retries
      /\ v \in {"gateway", "timeout"} => ~(attempt[p][c] < Retries)
  BY DEF Verdict, Answers, Retried
<1>4. \/ pc' = "done" /\ exit' = CodeOf(v)
      \/ pc' = pc /\ exit' = exit
  BY <1>1 DEF Exits
<1>5. /\ CodeOf(v) \in {1, 2, 4}
      /\ CodeOf(v) = 4 => v \in {"gateway", "timeout", "refused", "no_connection"}
  BY DEF CodeOf
<1>6. call' = [call EXCEPT ![p][c] = v]
  BY <1>1
<1> HIDE DEF v
<1>7. ASSUME NEW w \in CallState, w = v PROVE CallSet(p, c, w)
  BY <1>6, <1>7, CallIsSet
<1>8. pc = "pages" /\ call[p][c] = "sent" /\ UNCHANGED <<now, timer, healthy, kind, page, attempt>>
  BY DEF Answer
<1>9. ASSUME NEW w \in CallState, w = v PROVE AnswerOf(p, c, w)
  BY <1>2, <1>3, <1>4, <1>5, <1>7, <1>8, <1>9 DEF AnswerOf
<1>10. QED  BY <1>2, <1>9

(* Which call of a page is under way, if one is. *)
LEMMA BusyCall ==
  ASSUME Types, PageFits, NEW p \in Page, NEW c \in Call, call[p][c] \in {"sent", "sleep"}
  PROVE  \/ page[p] = "first" /\ c = 0
         \/ page[p] = "blocks" /\ c # 0 /\ call[p][0] = "ok"
<1>1. PageAt(p)
  BY DEF PageFits
<1>2. page[p] \in {"queued", "first", "blocks", "text", "note"}
  BY DEF Types
<1>3. page[p] # "queued"
  BY <1>1 DEF PageAt
<1>4. CASE c = 0
  BY <1>1, <1>2, <1>3, <1>4 DEF PageAt
<1>5. CASE c # 0
  <2>1. c \in Call \ {0}
    BY <1>5
  <2>2. page[p] \notin {"first", "note"}
    BY <1>1, <2>1 DEF PageAt
  <2>3. page[p] # "text"
    BY <1>1, <2>1 DEF PageAt
  <2>4. QED  BY <1>1, <1>2, <1>3, <1>5, <2>2, <2>3 DEF PageAt
<1>6. QED  BY <1>4, <1>5

(* Every step keeps the types. *)
LEMMA TypesStep == Types /\ [Next]_vars => Types'
<1>1. SUFFICES ASSUME Types, [Next]_vars PROVE Types'
  OBVIOUS
<1> USE ConstantsAssumption DEF Types
<1>2. CASE Health
  <2>1. pc' \in {"pages", "nap", "done"} /\ exit' \in {exit, 3, 4}
    BY <1>2 DEF Health, Exits
  <2>2. (timer' = timer \/ timer' = now + PollS) /\ (healthy' = healthy \/ healthy' = TRUE)
    BY <1>2 DEF Health, Exits
  <2>3. healthy' \in BOOLEAN
    BY <1>1, <2>2, Zenon
  <2>4. timer' \in Nat
    <3>1. now \in Nat /\ timer \in Nat /\ PollS \in Nat
      BY <1>1
    <3>2. QED  BY <2>2, <3>1
  <2>5. QED  BY <1>1, <1>2, <2>1, <2>3, <2>4 DEF Health
<1>3. CASE Nap
  BY <1>1, <1>3 DEF Nap
<1>4. CASE Tick
  BY <1>1, <1>4 DEF Tick
<1>5. CASE EndPages
  BY <1>1, <1>5 DEF EndPages
<1>6. CASE Write
  BY <1>1, <1>6 DEF Write, Exits
<1>7. ASSUME NEW p \in Page, BeginPage(p) PROVE Types'
  <2>1. 0 \in Call
    BY ConstantsAssumption DEF Call
  <2>2. CallSet(p, 0, "sent")
    BY <1>1, <1>7, <2>1, CallIsSet DEF BeginPage, CallState
  <2>3. QED  BY <1>1, <1>7, <2>1, <2>2 DEF BeginPage, CallSet
<1>8. ASSUME NEW p \in Page, EndSingle(p) PROVE Types'
  BY <1>1, <1>8 DEF EndSingle
<1>9. ASSUME NEW p \in Page, BeginBlocks(p) PROVE Types'
  <2>1. PICK n \in 0..Blocks :
          call' = [call EXCEPT ![p] = [c \in Call |-> IF c \in 1..n THEN "queued" ELSE call[p][c]]]
    BY <1>1, <1>9 DEF BeginBlocks
  <2>2. call' \in [Page -> [Call -> CallState]]
    BY <1>1, <2>1 DEF CallState
  <2>3. page' \in [Page -> {"queued", "first", "blocks", "text", "note"}]
    BY <1>1, <1>9 DEF BeginBlocks
  <2>4. QED  BY <1>1, <1>9, <2>2, <2>3 DEF BeginBlocks
<1>10. ASSUME NEW p \in Page, EndBlocks(p) PROVE Types'
  BY <1>1, <1>10 DEF EndBlocks
<1>11. ASSUME NEW p \in Page, NEW c \in Call, Answer(p, c) PROVE Types'
  <2>1. PICK v \in CallState : AnswerOf(p, c, v)
    BY <1>1, <1>11, AnswerIs
  <2>2. QED  BY <1>1, <2>1 DEF AnswerOf, CallSet
<1>12. ASSUME NEW p \in Page, NEW c \in Call, Resend(p, c) PROVE Types'
  <2>1. CallSet(p, c, "sent")
    BY <1>1, <1>12, CallIsSet DEF Resend, CallState
  <2>2. attempt' = [attempt EXCEPT ![p] = [attempt[p] EXCEPT ![c] = attempt[p][c] + 1]]
    BY <1>1, <1>12 DEF Types, Resend
  <2>3. QED  BY <1>1, <1>12, <2>1, <2>2 DEF Resend, CallSet
<1>13. ASSUME NEW p \in Page, NEW c \in Call, BeginBlock(p, c) PROVE Types'
  <2>1. CallSet(p, c, "sent")
    BY <1>1, <1>13, CallIsSet DEF BeginBlock, CallState
  <2>2. QED  BY <1>1, <1>13, <2>1 DEF BeginBlock, CallSet
<1>14. CASE UNCHANGED vars
  BY <1>1, <1>14 DEF vars
<1>15. QED  BY <1>1, <1>2, <1>3, <1>4, <1>5, <1>6, <1>7, <1>8, <1>9, <1>10,
     <1>11, <1>12, <1>13, <1>14 DEF Next

(* A nap begins before the deadline, and one request follows it. *)
LEMMA ClockStep == Types /\ ClockFits /\ [Next]_vars => ClockFits'
<1>1. SUFFICES ASSUME Types, ClockFits, [Next]_vars PROVE ClockFits'
  OBVIOUS
<1> USE ConstantsAssumption DEF Types, ClockFits, WaitIsBounded
<1>2. CASE Health
  <2>1. CASE pc' = "nap"
    <3>1. timer' = now + PollS /\ now < WaitS /\ now' = now
      BY <1>1, <1>2, <2>1 DEF Health, Exits, Late
    <3>2. QED  BY <1>1, <2>1, <3>1
  <2>2. CASE pc' # "nap"
    BY <1>1, <1>2, <2>2 DEF Health, Exits
  <2>3. QED  BY <2>1, <2>2
<1>3. CASE Nap
  BY <1>1, <1>3 DEF Nap
<1>4. CASE Tick
  BY <1>1, <1>4 DEF Tick
<1>5. CASE EndPages
  BY <1>1, <1>5 DEF EndPages
<1>6. CASE Write
  BY <1>1, <1>6 DEF Write, Exits
<1>7. ASSUME NEW p \in Page, BeginPage(p) PROVE ClockFits'
  <2>1. 0 \in Call
    BY ConstantsAssumption DEF Call
  <2>2. CallSet(p, 0, "sent")
    BY <1>1, <1>7, <2>1, CallIsSet DEF BeginPage, CallState
  <2>3. QED  BY <1>1, <1>7, <2>1, <2>2 DEF BeginPage, CallSet
<1>8. ASSUME NEW p \in Page, EndSingle(p) PROVE ClockFits'
  BY <1>1, <1>8 DEF EndSingle
<1>9. ASSUME NEW p \in Page, BeginBlocks(p) PROVE ClockFits'
  BY <1>1, <1>9 DEF BeginBlocks
<1>10. ASSUME NEW p \in Page, EndBlocks(p) PROVE ClockFits'
  BY <1>1, <1>10 DEF EndBlocks
<1>11. ASSUME NEW p \in Page, NEW c \in Call, Answer(p, c) PROVE ClockFits'
  <2>1. PICK v \in CallState : AnswerOf(p, c, v)
    BY <1>1, <1>11, AnswerIs
  <2>2. QED  BY <1>1, <2>1 DEF AnswerOf, CallSet
<1>12. ASSUME NEW p \in Page, NEW c \in Call, Resend(p, c) PROVE ClockFits'
  <2>1. CallSet(p, c, "sent")
    BY <1>1, <1>12, CallIsSet DEF Resend, CallState
  <2>2. attempt' = [attempt EXCEPT ![p] = [attempt[p] EXCEPT ![c] = attempt[p][c] + 1]]
    BY <1>1, <1>12 DEF Types, Resend
  <2>3. QED  BY <1>1, <1>12, <2>1, <2>2 DEF Resend, CallSet
<1>13. ASSUME NEW p \in Page, NEW c \in Call, BeginBlock(p, c) PROVE ClockFits'
  <2>1. CallSet(p, c, "sent")
    BY <1>1, <1>13, CallIsSet DEF BeginBlock, CallState
  <2>2. QED  BY <1>1, <1>13, <2>1 DEF BeginBlock, CallSet
<1>14. CASE UNCHANGED vars
  BY <1>1, <1>14 DEF vars
<1>15. QED  BY <1>1, <1>2, <1>3, <1>4, <1>5, <1>6, <1>7, <1>8, <1>9, <1>10,
     <1>11, <1>12, <1>13, <1>14 DEF Next

(* Nothing is parsed before a worker is healthy. *)
LEMMA CodeStep == Types /\ CodeFits /\ [Next]_vars => CodeFits'
<1>1. SUFFICES ASSUME Types, CodeFits, [Next]_vars PROVE CodeFits'
  OBVIOUS
<1> USE ConstantsAssumption DEF Types, CodeFits
<1>2. CASE Health
  BY <1>1, <1>2 DEF Health, Exits, Late
<1>3. CASE Nap
  BY <1>1, <1>3 DEF Nap
<1>4. CASE Tick
  BY <1>1, <1>4 DEF Tick
<1>5. CASE EndPages
  BY <1>1, <1>5 DEF EndPages
<1>6. CASE Write
  BY <1>1, <1>6 DEF Write, Exits
<1>7. ASSUME NEW p \in Page, BeginPage(p) PROVE CodeFits'
  <2>1. 0 \in Call
    BY ConstantsAssumption DEF Call
  <2>2. CallSet(p, 0, "sent")
    BY <1>1, <1>7, <2>1, CallIsSet DEF BeginPage, CallState
  <2>3. QED  BY <1>1, <1>7, <2>1, <2>2 DEF BeginPage, CallSet
<1>8. ASSUME NEW p \in Page, EndSingle(p) PROVE CodeFits'
  BY <1>1, <1>8 DEF EndSingle
<1>9. ASSUME NEW p \in Page, BeginBlocks(p) PROVE CodeFits'
  BY <1>1, <1>9 DEF BeginBlocks
<1>10. ASSUME NEW p \in Page, EndBlocks(p) PROVE CodeFits'
  BY <1>1, <1>10 DEF EndBlocks
<1>11. ASSUME NEW p \in Page, NEW c \in Call, Answer(p, c) PROVE CodeFits'
  <2>1. PICK v \in CallState : AnswerOf(p, c, v)
    BY <1>1, <1>11, AnswerIs
  <2>2. QED  BY <1>1, <2>1 DEF AnswerOf, CallSet
<1>12. ASSUME NEW p \in Page, NEW c \in Call, Resend(p, c) PROVE CodeFits'
  <2>1. CallSet(p, c, "sent")
    BY <1>1, <1>12, CallIsSet DEF Resend, CallState
  <2>2. attempt' = [attempt EXCEPT ![p] = [attempt[p] EXCEPT ![c] = attempt[p][c] + 1]]
    BY <1>1, <1>12 DEF Types, Resend
  <2>3. QED  BY <1>1, <1>12, <2>1, <2>2 DEF Resend, CallSet
<1>13. ASSUME NEW p \in Page, NEW c \in Call, BeginBlock(p, c) PROVE CodeFits'
  <2>1. CallSet(p, c, "sent")
    BY <1>1, <1>13, CallIsSet DEF BeginBlock, CallState
  <2>2. QED  BY <1>1, <1>13, <2>1 DEF BeginBlock, CallSet
<1>14. CASE UNCHANGED vars
  BY <1>1, <1>14 DEF vars
<1>15. QED  BY <1>1, <1>2, <1>3, <1>4, <1>5, <1>6, <1>7, <1>8, <1>9, <1>10,
     <1>11, <1>12, <1>13, <1>14 DEF Next

(* A page moves on with the answers to its calls. *)
LEMMA PageStep == Types /\ PageFits /\ [Next]_vars => PageFits'
<1>1. SUFFICES ASSUME Types, PageFits, [Next]_vars PROVE PageFits'
  OBVIOUS
<1> USE ConstantsAssumption DEF Types, PageFits, PageAt
<1>2. CASE Health
  BY <1>1, <1>2 DEF Health, Exits, Late
<1>3. CASE Nap
  BY <1>1, <1>3 DEF Nap
<1>4. CASE Tick
  BY <1>1, <1>4 DEF Tick
<1>5. CASE EndPages
  BY <1>1, <1>5 DEF EndPages
<1>6. CASE Write
  BY <1>1, <1>6 DEF Write, Exits
<1>7. ASSUME NEW p \in Page, BeginPage(p) PROVE PageFits'
  <2>1. 0 \in Call
    BY ConstantsAssumption DEF Call
  <2>2. CallSet(p, 0, "sent") /\ page[p] = "queued" /\ page' = [page EXCEPT ![p] = "first"]
    BY <1>1, <1>7, <2>1, CallIsSet DEF BeginPage, CallState
  <2>3. ASSUME NEW q \in Page PROVE PageAt(q)'
    <3>1. CASE q # p
      BY <1>1, <2>2, <3>1 DEF CallSet
    <3>2. CASE q = p
      BY <1>1, <2>2, <3>2 DEF CallSet
    <3>3. QED  BY <3>1, <3>2
  <2>4. QED  BY <2>3
<1>8. ASSUME NEW p \in Page, EndSingle(p) PROVE PageFits'
  BY <1>1, <1>8 DEF EndSingle
<1>9. ASSUME NEW p \in Page, BeginBlocks(p) PROVE PageFits'
  <2>1. PICK n \in 0..Blocks :
          call' = [call EXCEPT ![p] = [c \in Call |-> IF c \in 1..n THEN "queued" ELSE call[p][c]]]
    BY <1>1, <1>9 DEF BeginBlocks
  <2>2. page[p] = "first" /\ call[p][0] = "ok" /\ page' = [page EXCEPT ![p] = "blocks"]
    BY <1>9 DEF BeginBlocks
  <2>3. 0 \in Call /\ 0 \notin 1..n
    BY ConstantsAssumption DEF Call
  <2>4. page'[p] = "blocks" /\ call'[p][0] = "ok"
    BY <1>1, <2>1, <2>2, <2>3
  <2>5. \A q \in Page \ {p} : page'[q] = page[q] /\ call'[q] = call[q]
    BY <1>1, <2>1, <2>2
  <2>6. ASSUME NEW q \in Page PROVE PageAt(q)'
    BY <1>1, <2>4, <2>5
  <2>7. QED  BY <2>6
<1>10. ASSUME NEW p \in Page, EndBlocks(p) PROVE PageFits'
  BY <1>1, <1>10 DEF EndBlocks, BlocksAnswered, Call
<1>11. ASSUME NEW p \in Page, NEW c \in Call, Answer(p, c) PROVE PageFits'
  <2>1. PICK v \in CallState : AnswerOf(p, c, v)
    BY <1>1, <1>11, AnswerIs
  <2>2. ASSUME NEW q \in Page PROVE PageAt(q)'
    <3>1. CASE q # p
      BY <1>1, <2>1, <3>1 DEF AnswerOf, CallSet
    <3>2. CASE q = p
      <4>1. \/ page[p] = "first" /\ c = 0
            \/ page[p] = "blocks" /\ c # 0 /\ call[p][0] = "ok"
        BY <1>1, <1>11, BusyCall DEF Answer
      <4>2. page'[p] = page[p] /\ \A d \in Call \ {c} : call'[p][d] = call[p][d]
        BY <2>1 DEF AnswerOf, CallSet
      <4>3. PageAt(p)
        BY <1>1
      <4>4. 0 \in Call
        BY ConstantsAssumption DEF Call
      <4>5. QED  BY <3>2, <4>1, <4>2, <4>3, <4>4
    <3>3. QED  BY <3>1, <3>2
  <2>3. QED  BY <2>2
<1>12. ASSUME NEW p \in Page, NEW c \in Call, Resend(p, c) PROVE PageFits'
  <2>1. CallSet(p, c, "sent") /\ page' = page
    BY <1>1, <1>12, CallIsSet DEF Resend, CallState
  <2>2. \/ page[p] = "first" /\ c = 0
        \/ page[p] = "blocks" /\ c # 0 /\ call[p][0] = "ok"
    BY <1>1, <1>12, BusyCall DEF Resend
  <2>3. ASSUME NEW q \in Page PROVE PageAt(q)'
    <3>1. CASE q # p
      BY <1>1, <2>1, <3>1 DEF CallSet
    <3>2. CASE q = p
      <4>1. page'[p] = page[p] /\ \A d \in Call \ {c} : call'[p][d] = call[p][d]
        BY <2>1 DEF CallSet
      <4>2. PageAt(p)
        BY <1>1
      <4>3. 0 \in Call
        BY ConstantsAssumption DEF Call
      <4>4. QED  BY <2>2, <3>2, <4>1, <4>2, <4>3
    <3>3. QED  BY <3>1, <3>2
  <2>4. QED  BY <2>3
<1>13. ASSUME NEW p \in Page, NEW c \in Call, BeginBlock(p, c) PROVE PageFits'
  <2>1. CallSet(p, c, "sent")
    BY <1>1, <1>13, CallIsSet DEF BeginBlock, CallState
  <2>2. QED  BY <1>1, <1>13, <2>1 DEF BeginBlock, CallSet
<1>14. CASE UNCHANGED vars
  BY <1>1, <1>14 DEF vars
<1>15. QED  BY <1>1, <1>2, <1>3, <1>4, <1>5, <1>6, <1>7, <1>8, <1>9, <1>10,
     <1>11, <1>12, <1>13, <1>14 DEF Next

(* An attempt more is made only of those that are left. *)
LEMMA AttemptStep == Types /\ PageFits /\ AttemptFits /\ [Next]_vars => AttemptFits'
<1>1. SUFFICES ASSUME Types, PageFits, AttemptFits, [Next]_vars PROVE AttemptFits'
  OBVIOUS
<1> USE ConstantsAssumption DEF Types, PageFits, PageAt, AttemptFits, AttemptAt
<1>2. CASE Health
  BY <1>1, <1>2 DEF Health, Exits, Late
<1>3. CASE Nap
  BY <1>1, <1>3 DEF Nap
<1>4. CASE Tick
  BY <1>1, <1>4 DEF Tick
<1>5. CASE EndPages
  BY <1>1, <1>5 DEF EndPages
<1>6. CASE Write
  BY <1>1, <1>6 DEF Write, Exits
<1>7. ASSUME NEW p \in Page, BeginPage(p) PROVE AttemptFits'
  <2>1. 0 \in Call
    BY ConstantsAssumption DEF Call
  <2>2. CallSet(p, 0, "sent")
    BY <1>1, <1>7, <2>1, CallIsSet DEF BeginPage, CallState
  <2>3. QED  BY <1>1, <1>7, <2>1, <2>2 DEF BeginPage, CallSet
<1>8. ASSUME NEW p \in Page, EndSingle(p) PROVE AttemptFits'
  BY <1>1, <1>8 DEF EndSingle
<1>9. ASSUME NEW p \in Page, BeginBlocks(p) PROVE AttemptFits'
  BY <1>1, <1>9 DEF BeginBlocks
<1>10. ASSUME NEW p \in Page, EndBlocks(p) PROVE AttemptFits'
  BY <1>1, <1>10 DEF EndBlocks
<1>11. ASSUME NEW p \in Page, NEW c \in Call, Answer(p, c) PROVE AttemptFits'
  <2>1. PICK v \in CallState : AnswerOf(p, c, v)
    BY <1>1, <1>11, AnswerIs
  <2>2. ASSUME NEW q \in Page, NEW d \in Call PROVE AttemptAt(q, d)'
    <3>1. CASE q = p /\ d = c
      <4>1. call'[q][d] = v /\ attempt'[q][d] = attempt[q][d] /\ attempt[q][d] \in Nat
        BY <1>1, <2>1, <3>1 DEF AnswerOf, CallSet
      <4>2. AttemptAt(q, d)
        BY <1>1
      <4>3. /\ v = "sleep" => attempt[q][d] < Retries
            /\ v \in {"gateway", "timeout"} => ~(attempt[q][d] < Retries)
        BY <2>1, <3>1 DEF AnswerOf
      <4>4. QED  BY <4>1, <4>2, <4>3
    <3>2. CASE q # p \/ d # c
      BY <1>1, <2>1, <3>2 DEF AnswerOf, CallSet
    <3>3. QED  BY <3>1, <3>2
  <2>3. QED  BY <2>2
<1>12. ASSUME NEW p \in Page, NEW c \in Call, Resend(p, c) PROVE AttemptFits'
  <2>1. CallSet(p, c, "sent")
    BY <1>1, <1>12, CallIsSet DEF Resend, CallState
  <2>2. attempt' = [attempt EXCEPT ![p] = [attempt[p] EXCEPT ![c] = attempt[p][c] + 1]]
    BY <1>1, <1>12 DEF Types, Resend
  <2>3. attempt'[p][c] = attempt[p][c] + 1 /\ attempt[p][c] < Retries
    BY <1>1, <1>12, <2>2 DEF Resend
  <2>4. ASSUME NEW q \in Page, NEW d \in Call, q # p \/ d # c
        PROVE  attempt'[q][d] = attempt[q][d] /\ call'[q][d] = call[q][d]
    BY <1>1, <2>1, <2>2, <2>4 DEF CallSet
  <2>5. ASSUME NEW q \in Page, NEW d \in Call PROVE AttemptAt(q, d)'
    BY <1>1, <2>1, <2>3, <2>4 DEF CallSet
  <2>6. QED  BY <2>5
<1>13. ASSUME NEW p \in Page, NEW c \in Call, BeginBlock(p, c) PROVE AttemptFits'
  <2>1. CallSet(p, c, "sent")
    BY <1>1, <1>13, CallIsSet DEF BeginBlock, CallState
  <2>2. QED  BY <1>1, <1>13, <2>1 DEF BeginBlock, CallSet
<1>14. CASE UNCHANGED vars
  BY <1>1, <1>14 DEF vars
<1>15. QED  BY <1>1, <1>2, <1>3, <1>4, <1>5, <1>6, <1>7, <1>8, <1>9, <1>10,
     <1>11, <1>12, <1>13, <1>14 DEF Next

(* What ends the client stays to be seen. *)
LEMMA CauseStep == Types /\ CodeFits /\ EndHasCause /\ [Next]_vars => EndHasCause'
<1>1. SUFFICES ASSUME Types, CodeFits, EndHasCause, [Next]_vars PROVE EndHasCause'
  OBVIOUS
<1> USE ConstantsAssumption DEF Types, CodeFits, EndHasCause, Parsed
<1>2. CASE Health
  BY <1>1, <1>2 DEF Health, Exits, Late
<1>3. CASE Nap
  BY <1>1, <1>3 DEF Nap
<1>4. CASE Tick
  BY <1>1, <1>4 DEF Tick
<1>5. CASE EndPages
  BY <1>1, <1>5 DEF EndPages
<1>6. CASE Write
  BY <1>1, <1>6 DEF Write, Exits
<1>7. ASSUME NEW p \in Page, BeginPage(p) PROVE EndHasCause'
  <2>1. 0 \in Call
    BY ConstantsAssumption DEF Call
  <2>2. CallSet(p, 0, "sent")
    BY <1>1, <1>7, <2>1, CallIsSet DEF BeginPage, CallState
  <2>3. QED  BY <1>1, <1>7, <2>1, <2>2 DEF BeginPage, CallSet
<1>8. ASSUME NEW p \in Page, EndSingle(p) PROVE EndHasCause'
  BY <1>1, <1>8 DEF EndSingle
<1>9. ASSUME NEW p \in Page, BeginBlocks(p) PROVE EndHasCause'
  BY <1>1, <1>9 DEF BeginBlocks
<1>10. ASSUME NEW p \in Page, EndBlocks(p) PROVE EndHasCause'
  BY <1>1, <1>10 DEF EndBlocks
<1>11. ASSUME NEW p \in Page, NEW c \in Call, Answer(p, c) PROVE EndHasCause'
  <2>1. PICK v \in CallState : AnswerOf(p, c, v)
    BY <1>1, <1>11, AnswerIs
  <2>2. QED  BY <1>1, <2>1 DEF AnswerOf, CallSet
<1>12. ASSUME NEW p \in Page, NEW c \in Call, Resend(p, c) PROVE EndHasCause'
  <2>1. CallSet(p, c, "sent")
    BY <1>1, <1>12, CallIsSet DEF Resend, CallState
  <2>2. attempt' = [attempt EXCEPT ![p] = [attempt[p] EXCEPT ![c] = attempt[p][c] + 1]]
    BY <1>1, <1>12 DEF Types, Resend
  <2>3. QED  BY <1>1, <1>12, <2>1, <2>2 DEF Resend, CallSet
<1>13. ASSUME NEW p \in Page, NEW c \in Call, BeginBlock(p, c) PROVE EndHasCause'
  <2>1. CallSet(p, c, "sent")
    BY <1>1, <1>13, CallIsSet DEF BeginBlock, CallState
  <2>2. QED  BY <1>1, <1>13, <2>1 DEF BeginBlock, CallSet
<1>14. CASE UNCHANGED vars
  BY <1>1, <1>14 DEF vars
<1>15. QED  BY <1>1, <1>2, <1>3, <1>4, <1>5, <1>6, <1>7, <1>8, <1>9, <1>10,
     <1>11, <1>12, <1>13, <1>14 DEF Next

LEMMA Invariance == Spec => []IInv
<1>1. IInv /\ [Next]_vars => IInv'
  BY TypesStep, ClockStep, CodeStep, PageStep, AttemptStep, CauseStep DEF IInv
<1>2. QED  BY <1>1, InitIInv, PTL DEF Spec

-----------------------------------------------------------------------------
(* Every variable keeps its type. *)
THEOREM TypeCorrect == Spec => []Types
<1>1. IInv => Types
  BY DEF IInv
<1>2. QED  BY <1>1, Invariance, PTL

(* An exit code says what happened: 0, every page is made of an answer to  *)
(* each request it needed; 3, no worker was found within the time it was   *)
(* given; 4 from a parse, a request failed, after all its attempts if the  *)
(* gateway was busy or the answer late.                                    *)
THEOREM ExitTellsHolds == Spec => []ExitTells
<1>1. ASSUME IInv PROVE ExitTells
  <2>1. ASSUME exit = 0, NEW p \in Page
        PROVE  /\ Parsed(p)
               /\ \A c \in Call : call[p][c] \in {"idle", "ok", "unclear"}
               /\ call[p][0] = "ok" \/ page[p] = "note"
    <3>1. page[p] \in {"text", "note"}
      BY <1>1, <2>1 DEF IInv, EndHasCause, Parsed
    <3>2. call[p][0] \in {"ok", "unclear"} /\ (page[p] = "text" => call[p][0] = "ok")
      BY <1>1, <3>1 DEF IInv, PageFits, PageAt
    <3>3. \A c \in Call \ {0} : call[p][c] \in {"idle", "ok", "unclear"}
      BY <1>1, <3>1 DEF IInv, PageFits, PageAt
    <3>4. QED  BY <3>1, <3>2, <3>3 DEF Parsed
  <2>2. ASSUME exit = 4, healthy
        PROVE  \E p \in Page, c \in Call :
                 \/ call[p][c] \in {"refused", "no_connection"}
                 \/ call[p][c] \in {"gateway", "timeout"} /\ attempt[p][c] = Retries
    BY <1>1, <2>2 DEF IInv, EndHasCause, AttemptFits, AttemptAt
  <2>3. (exit = 3 => ~healthy) /\ WaitIsBounded
    BY <1>1 DEF IInv, CodeFits, ClockFits
  <2>4. QED  BY <2>1, <2>2, <2>3 DEF ExitTells
<1>2. QED  BY <1>1, Invariance, PTL
=============================================================================
