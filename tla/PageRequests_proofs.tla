------------------------ MODULE PageRequests_proofs ------------------------
(***************************************************************************)
(* Proofs about PageRequests, for any number of blocks, any concurrency    *)
(* and any length of the window, the backoff, the timeout and the boot.    *)
(***************************************************************************)
EXTENDS PageRequests, TLAPS

Pending(c) == call[c].state \in {"sent", "backoff"}

(* What is left of the window, and a backoff.                              *)
Waited(c) == Later(call[c].begun, WaitReady) + Backoff

(* The timer of an attempt, first or second, and that of a backoff, which  *)
(* begins in the window; time stops at either.                             *)
TimedAt(c) ==
  /\ Pending(c) => call[c].begun <= now /\ now <= call[c].timer
  /\ call[c].state = "sent" =>
       call[c].timer <= Waited(c) + (IF call[c].failures = 0 THEN Timeout ELSE 2 * Timeout)
  /\ call[c].state = "backoff" => call[c].timer <= WaitReady + Backoff

Timed == \A c \in Calls : TimedAt(c)

(* A worker that boots is up in time.                                      *)
BootIsTimed == boot # None => boot <= now /\ now <= boot + ColdStart

(* While no worker is up, one has been booting since before any call that  *)
(* is under way began; a call with no answer but cold starts began late.   *)
ColdAt(c) ==
  /\ ~up /\ Pending(c) => boot # None /\ boot <= call[c].begun
  /\ call[c].state = "error" /\ call[c].cold => call[c].begun + ColdStart >= WaitReady

Cold == \A c \in Calls : ColdAt(c)

(* Where the page stands is what its calls are at.                         *)
StageFits ==
  /\ pc = "idle" => \A c \in Calls : ~Open(c)
  /\ pc = "layout" => \A c \in Blocks : call[c].state = "idle"
  /\ pc = "blocks" => call[0].state = "ok"
  /\ row # None => pc = "idle"

(* The inductive invariant. *)
IInv == TypeOK /\ Timed /\ BootIsTimed /\ Cold /\ StageFits /\ RowIsComplete

LEMMA IdleIsCall == Idle \in Call
  BY DEF Idle, Call

LEMMA InitIInv == Init => IInv
<1>1. SUFFICES ASSUME Init PROVE IInv
  OBVIOUS
<1>2. TypeOK
  BY <1>1, IdleIsCall DEF Init, TypeOK
<1>3. \A c \in Calls : call[c].state = "idle"
  BY <1>1 DEF Init, Idle
<1>4. Timed
  BY <1>3 DEF Timed, TimedAt, Pending
<1>5. BootIsTimed
  BY <1>1 DEF Init, BootIsTimed
<1>6. Cold
  BY <1>3 DEF Cold, ColdAt, Pending
<1>7. StageFits /\ RowIsComplete
  BY <1>1, <1>3 DEF Init, StageFits, RowIsComplete, Open
<1>8. QED  BY <1>2, <1>4, <1>5, <1>6, <1>7 DEF IInv

-----------------------------------------------------------------------------
(* What a step does to one call: the record it leaves there, the others    *)
(* being as they were.                                                     *)
CallSet(c, k) ==
  /\ call' \in [Calls -> Call] /\ call'[c] = k
  /\ \A d \in Calls \ {c} : call'[d] = call[d]

LEMMA CallIsSet ==
  ASSUME TypeOK, NEW c \in Calls, NEW k \in Call, call' = [call EXCEPT ![c] = k]
  PROVE  CallSet(c, k)
BY DEF TypeOK, CallSet

Knocked == \/ boot' = boot /\ (up \/ boot # None)
           \/ ~up /\ boot = None /\ boot' = now

LEMMA KnockIs == Knock => Knocked
BY DEF Knock, Knocked

(* The ways in which a call begins, ...                                    *)
Starts(k) ==
  \/ /\ k.state = "sent" /\ k.begun = now /\ k.timer = now + Timeout /\ k.failures = 0
     /\ Knocked
  \/ k.state = "error" /\ ~k.cold /\ boot' = boot

(* ... is retried, ...                                                     *)
Again(c, k) ==
  /\ k.begun = call[c].begun /\ k.state = "sent" /\ k.timer = now + Timeout
  /\ \/ call[c].state = "sent" /\ call[c].failures = 0 /\ k.failures = 1
     \/ call[c].state = "backoff" /\ now = call[c].timer /\ k.failures = call[c].failures

(* ... waits out a cold start, ...                                       *)
BacksOff(c, k) ==
  /\ call[c].state = "sent" /\ now < WaitReady
  /\ k.begun = call[c].begun /\ k.state = "backoff" /\ k.timer = now + Backoff

(* ... and ends.                                                           *)
Ends(c, k) ==
  \/ k.state = "ok"
  \/ /\ call[c].state = "sent" /\ k.state = "error" /\ k.begun = call[c].begun
     /\ k.cold => ~up /\ ~(now < WaitReady)

Move(c, k) ==
  /\ CallSet(c, k) /\ now' = now /\ up' = up
  /\ \/ Starts(k)
     \/ Again(c, k) /\ (Knocked \/ boot' = boot)
     \/ BacksOff(c, k) /\ (Knocked \/ boot' = boot)
     \/ Ends(c, k) /\ (Knocked \/ boot' = boot)

(* The first attempt, and a request that is not sent.                      *)
LEMMA FirstIs ==
  ASSUME TypeOK, NEW first \in {Begun, Refused}, IF first = Begun THEN Knock ELSE UNCHANGED boot
  PROVE  \E k \in Call : k = first /\ Starts(k)
<1>1. now \in Nat /\ now + Timeout \in Nat
  BY ConstantsAssumption DEF TypeOK
<1>2. PICK idle \in Call : idle = Idle /\ idle.failures = 0
  BY IdleIsCall DEF Idle
<1>3. PICK t \in Nat, u \in Nat : t = now /\ u = now + Timeout
  BY <1>1
<1>4. /\ Begun = [idle EXCEPT !.state = "sent", !.begun = t, !.timer = u] /\ Begun \in Call
      /\ Refused = [idle EXCEPT !.state = "error", !.begun = t, !.cold = FALSE] /\ Refused \in Call
  BY <1>2, <1>3 DEF Begun, Refused, Call
<1>5. ASSUME NEW k \in Call, k = Begun, Knock PROVE Starts(k)
  <2>1. k.state = "sent" /\ k.begun = t /\ k.timer = u /\ k.failures = 0
    BY <1>2, <1>4, <1>5 DEF Call
  <2>2. QED  BY <1>3, <1>5, <2>1, KnockIs DEF Starts
<1>6. ASSUME NEW k \in Call, k = Refused, boot' = boot PROVE Starts(k)
  <2>1. k.state = "error" /\ ~k.cold
    BY <1>4, <1>6 DEF Call
  <2>2. QED  BY <1>6, <2>1 DEF Starts
<1>7. CASE first = Begun
  BY <1>4, <1>5, <1>7
<1>8. CASE first # Begun
  <2>1. first = Refused /\ boot' = boot
    BY <1>8
  <2>2. QED  BY <1>4, <1>6, <2>1
<1>9. QED  BY <1>7, <1>8

(* A failed attempt is followed by another one, or by none.                *)
LEMMA FailedIs ==
  ASSUME TypeOK, NEW c \in Calls, call[c].state = "sent", NEW final \in BOOLEAN,
         NEW cold \in BOOLEAN, cold => ~up /\ ~(now < WaitReady)
  PROVE  \E k \in Call : k = Failed(c, final, cold) /\ (Again(c, k) \/ Ends(c, k))
<1>1. now + Timeout \in Nat /\ call[c] \in Call
  BY ConstantsAssumption DEF TypeOK
<1>2. PICK old \in Call : old = call[c]
  BY <1>1
<1>3. PICK both \in BOOLEAN : both = (old.cold /\ cold)
  OBVIOUS
<1>4. CASE final \/ call[c].failures = 1
  <2>1. PICK idle \in Call : idle = Idle
    BY IdleIsCall
  <2>2. old.begun \in Nat
    BY DEF Call
  <2>3. GiveUp(c, cold) = [idle EXCEPT !.state = "error", !.begun = old.begun, !.cold = both]
    BY <1>2, <1>3, <2>1 DEF GiveUp
  <2>4. GiveUp(c, cold) \in Call
    BY <2>2, <2>3 DEF Call
  <2>5. PICK k \in Call : k = GiveUp(c, cold)
    BY <2>4
  <2>6. k.state = "error" /\ k.begun = old.begun /\ k.cold = both
    BY <2>2, <2>3, <2>5 DEF Call
  <2>7. k.cold => cold
    BY <1>3, <2>6
  <2>8. Ends(c, k)
    BY <1>2, <2>6, <2>7 DEF Ends
  <2>9. QED  BY <1>4, <2>5, <2>8 DEF Failed
<1>5. CASE ~(final \/ call[c].failures = 1)
  <2>1. old.failures = 0
    BY <1>2, <1>5 DEF Call
  <2>2. PICK u \in Nat : u = now + Timeout
    BY <1>1
  <2>3. Retry(c, call[c].failures + 1, cold) =
          [old EXCEPT !.timer = u, !.failures = 1, !.cold = both]
    BY <1>2, <1>3, <2>1, <2>2 DEF Retry
  <2>4. PICK k \in Call : k = [old EXCEPT !.timer = u, !.failures = 1, !.cold = both]
    <3>1. 1 \in 0..1
      OBVIOUS
    <3>2. [old EXCEPT !.timer = u, !.failures = 1, !.cold = both] \in Call
      BY <3>1 DEF Call
    <3>3. QED  BY <3>2
  <2>5. k = Retry(c, call[c].failures + 1, cold)
    BY <2>3, <2>4
  <2>6. k.state = old.state /\ k.begun = old.begun /\ k.timer = u /\ k.failures = 1
    BY <2>4 DEF Call
  <2>7. Again(c, k)
    BY <1>2, <2>1, <2>2, <2>6 DEF Again
  <2>8. QED  BY <1>5, <2>5, <2>7 DEF Failed
<1>6. QED  BY <1>4, <1>5

LEMMA AcquireMoves ==
  ASSUME TypeOK, NEW c \in Blocks, Acquire(c)
  PROVE  c \in Calls /\ \E k \in Call : Move(c, k)
<1>1. PICK first \in {Begun, Refused} :
        /\ call' = [call EXCEPT ![c] = first]
        /\ IF first = Begun THEN Knock ELSE UNCHANGED boot
  BY DEF Acquire
<1>2. PICK k \in Call : k = first /\ Starts(k)
  BY <1>1, FirstIs
<1>3. c \in Calls
  BY DEF Blocks, Calls
<1>4. CallSet(c, k) /\ now' = now /\ up' = up
  BY <1>1, <1>2, <1>3, CallIsSet DEF Acquire
<1>5. QED  BY <1>2, <1>3, <1>4 DEF Move

LEMMA AnsweredMoves ==
  ASSUME TypeOK, NEW c \in Calls, Answered(c)
  PROVE  \E k \in Call : Move(c, k)
<1>1. PICK idle \in Call : idle = Idle
  BY IdleIsCall
<1>2. PICK k \in Call : k = [idle EXCEPT !.state = "ok"]
  BY DEF Call
<1>3. k.state = "ok"
  BY <1>2 DEF Call
<1>4. CallSet(c, k) /\ now' = now /\ up' = up /\ boot' = boot
  BY <1>1, <1>2, CallIsSet DEF Answered
<1>5. QED  BY <1>3, <1>4 DEF Move, Ends

LEMMA NoAnswerMoves ==
  ASSUME TypeOK, NEW c \in Calls, NoAnswer(c)
  PROVE  \E k \in Call : Move(c, k)
<1>1. call[c].state = "sent" /\ Knocked /\ now' = now /\ up' = up
  BY KnockIs DEF NoAnswer
<1>2. PICK k \in Call : k = Failed(c, FALSE, FALSE) /\ (Again(c, k) \/ Ends(c, k))
  BY <1>1, FailedIs
<1>3. CallSet(c, k)
  BY <1>2, CallIsSet DEF NoAnswer
<1>4. QED  BY <1>1, <1>2, <1>3 DEF Move

LEMMA ErrorMoves ==
  ASSUME TypeOK, NEW c \in Calls, NEW kind \in ErrorKinds, ErrorAnswer(c, kind)
  PROVE  \E k \in Call : Move(c, k)
<1>1. call[c].state = "sent" /\ boot' = boot /\ now' = now /\ up' = up
  BY DEF ErrorAnswer
<1>2. CASE kind = "busy" /\ InWindow(c)
  <2>1. PICK old \in Call, t \in Nat : old = call[c] /\ t = now + Backoff
    BY ConstantsAssumption DEF TypeOK
  <2>2. PICK k \in Call : k = [old EXCEPT !.state = "backoff", !.timer = t, !.cold = FALSE]
    BY DEF Call
  <2>3. k.state = "backoff" /\ k.timer = now + Backoff /\ k.begun = call[c].begun
    BY <2>1, <2>2 DEF Call
  <2>4. CallSet(c, k)
    <3>1. call' = [call EXCEPT ![c] = k]
      BY <1>2, <2>1, <2>2 DEF ErrorAnswer
    <3>2. QED  BY <3>1, CallIsSet
  <2>5. BacksOff(c, k)
    BY <1>1, <1>2, <2>3 DEF BacksOff, InWindow
  <2>6. QED  BY <1>1, <2>4, <2>5 DEF Move
<1>3. CASE ~(kind = "busy" /\ InWindow(c))
  <2>1. PICK final \in BOOLEAN :
          final = (kind = "4xx" \/ (kind = "malformed" /\ plan = "pipeline"))
    OBVIOUS
  <2>2. PICK k \in Call : k = Failed(c, final, FALSE) /\ (Again(c, k) \/ Ends(c, k))
    BY <1>1, FailedIs
  <2>3. CallSet(c, k)
    BY <1>3, <2>1, <2>2, CallIsSet DEF ErrorAnswer
  <2>4. QED  BY <1>1, <2>2, <2>3 DEF Move
<1>4. QED  BY <1>2, <1>3

LEMMA ColdMoves ==
  ASSUME TypeOK, NEW c \in Calls, NEW status \in {"4xx", "5xx"}, ColdAnswer(c, status)
  PROVE  \E k \in Call : Move(c, k)
<1>1. call[c].state = "sent" /\ ~up /\ Knocked /\ now' = now /\ up' = up
  BY KnockIs DEF ColdAnswer
<1>2. CASE InWindow(c)
  <2>1. PICK old \in Call, t \in Nat : old = call[c] /\ t = now + Backoff
    BY ConstantsAssumption DEF TypeOK
  <2>2. PICK k \in Call : k = [old EXCEPT !.state = "backoff", !.timer = t]
    BY DEF Call
  <2>3. k.state = "backoff" /\ k.timer = now + Backoff /\ k.begun = call[c].begun
    BY <2>1, <2>2 DEF Call
  <2>4. CallSet(c, k)
    <3>1. call' = [call EXCEPT ![c] = k]
      BY <1>2, <2>1, <2>2 DEF ColdAnswer
    <3>2. QED  BY <3>1, CallIsSet
  <2>5. BacksOff(c, k)
    BY <1>1, <1>2, <2>3 DEF BacksOff, InWindow
  <2>6. QED  BY <1>1, <2>4, <2>5 DEF Move
<1>3. CASE ~InWindow(c)
  <2>1. PICK final \in BOOLEAN : final = (status = "4xx")
    OBVIOUS
  <2>2. PICK k \in Call : k = Failed(c, final, TRUE) /\ (Again(c, k) \/ Ends(c, k))
    BY <1>1, <1>3, FailedIs DEF InWindow
  <2>3. CallSet(c, k)
    BY <1>3, <2>1, <2>2, CallIsSet DEF ColdAnswer
  <2>4. QED  BY <1>1, <2>2, <2>3 DEF Move
<1>4. QED  BY <1>2, <1>3

LEMMA WakeMoves ==
  ASSUME TypeOK, NEW c \in Calls, Wake(c)
  PROVE  \E k \in Call : Move(c, k)
<1>1. call[c].state = "backoff" /\ now = call[c].timer /\ Knocked /\ now' = now /\ up' = up
  BY KnockIs DEF Wake
<1>2. PICK old \in Call, t \in Nat : old = call[c] /\ t = now + Timeout
  BY ConstantsAssumption DEF TypeOK
<1>3. PICK k \in Call : k = [old EXCEPT !.state = "sent", !.timer = t]
  BY DEF Call
<1>4. /\ k.state = "sent" /\ k.timer = now + Timeout
      /\ k.begun = call[c].begun /\ k.failures = call[c].failures
  BY <1>2, <1>3 DEF Call
<1>5. call' = [call EXCEPT ![c] = k]
  BY <1>2, <1>3 DEF TypeOK, Wake
<1>6. CallSet(c, k)
  BY <1>5, CallIsSet
<1>7. Again(c, k)
  BY <1>1, <1>4 DEF Again
<1>8. QED  BY <1>1, <1>6, <1>7 DEF Move

(* The first call of a page.                                               *)
LEMMA BeginPageIs ==
  ASSUME TypeOK, BeginPage
  PROVE  /\ call' \in [Calls -> Call]
         /\ \E k \in Call : call'[0] = k /\ Starts(k)
         /\ \A d \in Calls \ {0} : call'[d].state = "idle"
         /\ pc = "idle" /\ now' = now /\ up' = up
<1>1. PICK first \in {Begun, Refused} :
        /\ call' = [[c \in Calls |-> Idle] EXCEPT ![0] = first]
        /\ IF first = Begun THEN Knock ELSE UNCHANGED boot
  BY DEF BeginPage
<1>2. PICK k \in Call : k = first /\ Starts(k)
  BY <1>1, FirstIs
<1>3. 0 \in Calls
  BY ConstantsAssumption DEF Calls
<1>4. call' \in [Calls -> Call] /\ call'[0] = k /\ \A d \in Calls \ {0} : call'[d] = Idle
  BY <1>1, <1>2, <1>3, IdleIsCall
<1>5. QED  BY <1>2, <1>4 DEF Idle, BeginPage

-----------------------------------------------------------------------------
(* A move keeps the time of its call, and of the others.                  *)
LEMMA MoveIsTimed ==
  ASSUME TypeOK, Timed, NEW c \in Calls, NEW k \in Call, Move(c, k)
  PROVE  Timed'
<1>1. TimedAt(c) /\ call[c] \in Call /\ now \in Nat
  BY DEF Timed, TypeOK
<1>2. TimedAt(c)'
  <2>1. call'[c] = k /\ now' = now
    BY DEF Move, CallSet
  <2>2. CASE Starts(k)
    BY <1>1, <2>1, <2>2, ConstantsAssumption DEF Starts, TimedAt, Pending,
         Waited, Later, Call
  <2>3. CASE Again(c, k)
    BY <1>1, <2>1, <2>3, ConstantsAssumption DEF Again, TimedAt, Pending,
         Waited, Later, Call
  <2>4. CASE BacksOff(c, k)
    BY <1>1, <2>1, <2>4, ConstantsAssumption DEF BacksOff, TimedAt, Pending,
         Waited, Later, Call
  <2>5. CASE Ends(c, k)
    BY <1>1, <2>1, <2>5 DEF Ends, TimedAt, Pending
  <2>6. QED  BY <2>2, <2>3, <2>4, <2>5 DEF Move
<1>3. ASSUME NEW d \in Calls \ {c} PROVE TimedAt(d)'
  <2>1. TimedAt(d) /\ call'[d] = call[d] /\ now' = now
    BY DEF Timed, Move, CallSet
  <2>2. QED  BY <2>1 DEF TimedAt, Pending, Waited
<1>4. QED  BY <1>2, <1>3 DEF Timed

(* A move keeps what is known of cold starts.                              *)
LEMMA MoveIsCold ==
  ASSUME TypeOK, BootIsTimed, Cold, NEW c \in Calls, NEW k \in Call, Move(c, k)
  PROVE  Cold'
<1>1. ColdAt(c) /\ call[c] \in Call /\ now \in Nat /\ boot \in Nat \cup {None}
  BY DEF Cold, TypeOK
<1>2. call'[c] = k /\ now' = now /\ up' = up /\ (boot # None => boot' = boot)
  BY DEF Move, CallSet, Starts, Knocked
<1>3. ColdAt(c)'
  <2>1. CASE Starts(k)
    BY <1>1, <1>2, <2>1, ConstantsAssumption DEF Starts, Knocked, ColdAt,
         Pending, BootIsTimed
  <2>2. CASE Again(c, k)
    BY <1>1, <1>2, <2>2, ConstantsAssumption DEF Again, ColdAt, Pending
  <2>3. CASE BacksOff(c, k)
    BY <1>1, <1>2, <2>3, ConstantsAssumption DEF BacksOff, ColdAt, Pending
  <2>4. CASE Ends(c, k)
    <3>1. k.state = "error" /\ k.cold => k.begun + ColdStart >= WaitReady
      <4>1. SUFFICES ASSUME k.state = "error", k.cold
                     PROVE  k.begun + ColdStart >= WaitReady
        OBVIOUS
      <4>2. call[c].state = "sent" /\ k.begun = call[c].begun /\ ~up /\ ~(now < WaitReady)
        BY <2>4, <4>1 DEF Ends
      <4>3. boot # None /\ boot <= call[c].begun /\ now <= boot + ColdStart
        BY <1>1, <4>2 DEF ColdAt, Pending, BootIsTimed
      <4>4. call[c].begun \in Nat /\ boot \in Nat
        BY <1>1, <4>3 DEF Call
      <4>5. QED  BY <1>1, <4>2, <4>3, <4>4, ConstantsAssumption
    <3>2. k.state \in {"ok", "error"}
      BY <2>4 DEF Ends
    <3>3. QED  BY <1>2, <3>1, <3>2 DEF ColdAt, Pending
  <2>5. QED  BY <2>1, <2>2, <2>3, <2>4 DEF Move
<1>4. ASSUME NEW d \in Calls \ {c} PROVE ColdAt(d)'
  <2>1. ColdAt(d) /\ call'[d] = call[d]
    BY DEF Cold, Move, CallSet
  <2>2. QED  BY <1>2, <2>1 DEF ColdAt, Pending
<1>5. QED  BY <1>3, <1>4 DEF Cold

(* Every step keeps the types. *)
LEMMA TypesStep == TypeOK /\ [Next]_vars => TypeOK'
<1>1. SUFFICES ASSUME TypeOK, [Next]_vars PROVE TypeOK'
  OBVIOUS
<1> USE ConstantsAssumption DEF TypeOK, Call, Blocks, Calls
<1>2. CASE BeginPage
  <2>1. call' \in [Calls -> Call] /\ now' = now /\ up' = up /\ (Knocked \/ boot' = boot)
    BY <1>1, <1>2, BeginPageIs DEF Starts
  <2>2. boot' \in Nat \cup {None}
    BY <1>1, <2>1 DEF Knocked
  <2>3. QED  BY <1>1, <1>2, <2>1, <2>2 DEF BeginPage
<1>3. CASE ScaleToZero
  BY <1>1, <1>3 DEF ScaleToZero
<1>4. ASSUME NEW c \in Calls, Answered(c) PROVE TypeOK'
  <2>1. PICK k \in Call : Move(c, k)
    BY <1>1, <1>4, AnsweredMoves
  <2>2. call' \in [Calls -> Call] /\ now' = now /\ up' = up /\ (Knocked \/ boot' = boot)
    BY <2>1 DEF Move, CallSet, Starts
  <2>3. boot' \in Nat \cup {None}
    BY <1>1, <2>2 DEF Knocked
  <2>4. QED  BY <1>1, <1>4, <2>2, <2>3 DEF Answered
<1>5. ASSUME NEW c \in Calls, NoAnswer(c) PROVE TypeOK'
  <2>1. PICK k \in Call : Move(c, k)
    BY <1>1, <1>5, NoAnswerMoves
  <2>2. call' \in [Calls -> Call] /\ now' = now /\ up' = up /\ (Knocked \/ boot' = boot)
    BY <2>1 DEF Move, CallSet, Starts
  <2>3. boot' \in Nat \cup {None}
    BY <1>1, <2>2 DEF Knocked
  <2>4. QED  BY <1>1, <1>5, <2>2, <2>3 DEF NoAnswer
<1>6. ASSUME NEW c \in Calls, Wake(c) PROVE TypeOK'
  <2>1. PICK k \in Call : Move(c, k)
    BY <1>1, <1>6, WakeMoves
  <2>2. call' \in [Calls -> Call] /\ now' = now /\ up' = up /\ (Knocked \/ boot' = boot)
    BY <2>1 DEF Move, CallSet, Starts
  <2>3. boot' \in Nat \cup {None}
    BY <1>1, <2>2 DEF Knocked
  <2>4. QED  BY <1>1, <1>6, <2>2, <2>3 DEF Wake
<1>7. ASSUME NEW c \in Calls, NEW status \in {"4xx", "5xx"}, ColdAnswer(c, status) PROVE TypeOK'
  <2>1. PICK k \in Call : Move(c, k)
    BY <1>1, <1>7, ColdMoves
  <2>2. call' \in [Calls -> Call] /\ now' = now /\ up' = up /\ (Knocked \/ boot' = boot)
    BY <2>1 DEF Move, CallSet, Starts
  <2>3. boot' \in Nat \cup {None}
    BY <1>1, <2>2 DEF Knocked
  <2>4. QED  BY <1>1, <1>7, <2>2, <2>3 DEF ColdAnswer
<1>8. ASSUME NEW c \in Calls, NEW kind \in ErrorKinds, ErrorAnswer(c, kind) PROVE TypeOK'
  <2>1. PICK k \in Call : Move(c, k)
    BY <1>1, <1>8, ErrorMoves
  <2>2. call' \in [Calls -> Call] /\ now' = now /\ up' = up /\ (Knocked \/ boot' = boot)
    BY <2>1 DEF Move, CallSet, Starts
  <2>3. boot' \in Nat \cup {None}
    BY <1>1, <2>2 DEF Knocked
  <2>4. QED  BY <1>1, <1>8, <2>2, <2>3 DEF ErrorAnswer
<1>9. ASSUME NEW c \in Blocks, Acquire(c) PROVE TypeOK'
  <2>1. PICK k \in Call : Move(c, k)
    BY <1>1, <1>9, AcquireMoves
  <2>2. call' \in [Calls -> Call] /\ now' = now /\ up' = up /\ (Knocked \/ boot' = boot)
    BY <2>1 DEF Move, CallSet, Starts
  <2>3. boot' \in Nat \cup {None}
    BY <1>1, <2>2 DEF Knocked
  <2>4. QED  BY <1>1, <1>9, <2>2, <2>3 DEF Acquire
<1>10. CASE BeginBlocks
  <2>0. PICK targets \in 0..MaxBlocks : \E uncropped \in SUBSET (1..targets) :
          call' = [c \in Calls |->
            CASE c \in uncropped -> Refused
              [] c \in (1..targets) \ uncropped -> [Idle EXCEPT !.state = "queued"]
              [] OTHER -> call[c]]
    BY <1>10 DEF BeginBlocks
  <2>1. PICK uncropped \in SUBSET (1..targets) :
          call' = [c \in Calls |->
            CASE c \in uncropped -> Refused
              [] c \in (1..targets) \ uncropped -> [Idle EXCEPT !.state = "queued"]
              [] OTHER -> call[c]]
    BY <2>0
  <2>2. Refused \in Call /\ [Idle EXCEPT !.state = "queued"] \in Call
    <3>1. PICK idle \in Call, t \in Nat : idle = Idle /\ t = now
      BY <1>1, IdleIsCall
    <3>2. /\ [idle EXCEPT !.state = "error", !.begun = t, !.cold = FALSE] \in Call
          /\ [idle EXCEPT !.state = "queued"] \in Call
      BY DEF Call
    <3>3. QED  BY <3>1, <3>2 DEF Refused
  <2>3. ASSUME NEW c \in Calls PROVE call'[c] \in Call
    BY <1>1, <2>1, <2>2, <2>3
  <2>4. call' \in [Calls -> Call]
    BY <2>1, <2>3
  <2>5. QED  BY <1>1, <1>10, <2>4 DEF BeginBlocks
<1>11. CASE EndPage
  BY <1>1, <1>11 DEF EndPage, AllEnded, Ended
<1>12. CASE WorkerUp
  BY <1>1, <1>12 DEF WorkerUp
<1>13. CASE Tick
  BY <1>1, <1>13 DEF Tick, Quiet
<1>14. CASE UNCHANGED vars
  BY <1>1, <1>14 DEF vars
<1>15. QED  BY <1>1, <1>2, <1>3, <1>4, <1>5, <1>6, <1>7, <1>8, <1>9, <1>10,
     <1>11, <1>12, <1>13, <1>14 DEF Next, Step

(* A timer is set for an attempt, of which there are two, or in the window. *)
LEMMA TimedStep == TypeOK /\ Timed /\ [Next]_vars => Timed'
<1>1. SUFFICES ASSUME TypeOK, Timed, [Next]_vars PROVE Timed'
  OBVIOUS
<1> USE ConstantsAssumption DEF TypeOK, Timed, TimedAt, Pending, Waited, Later,
     Blocks, Calls
<1>2. CASE BeginPage
  <2>1. /\ \E k \in Call : call'[0] = k /\ Starts(k)
        /\ \A d \in Calls \ {0} : call'[d].state = "idle"
        /\ now' = now
    BY <1>1, <1>2, BeginPageIs
  <2>2. ASSUME NEW d \in Calls PROVE TimedAt(d)'
    BY <1>1, <2>1, <2>2 DEF Starts
  <2>3. QED  BY <2>2
<1>3. CASE ScaleToZero
  BY <1>1, <1>3 DEF ScaleToZero
<1>4. ASSUME NEW c \in Calls, Answered(c) PROVE Timed'
  <2>1. PICK k \in Call : Move(c, k)
    BY <1>1, <1>4, AnsweredMoves
  <2>2. QED  BY <1>1, <2>1, MoveIsTimed
<1>5. ASSUME NEW c \in Calls, NoAnswer(c) PROVE Timed'
  <2>1. PICK k \in Call : Move(c, k)
    BY <1>1, <1>5, NoAnswerMoves
  <2>2. QED  BY <1>1, <2>1, MoveIsTimed
<1>6. ASSUME NEW c \in Calls, Wake(c) PROVE Timed'
  <2>1. PICK k \in Call : Move(c, k)
    BY <1>1, <1>6, WakeMoves
  <2>2. QED  BY <1>1, <2>1, MoveIsTimed
<1>7. ASSUME NEW c \in Calls, NEW status \in {"4xx", "5xx"}, ColdAnswer(c, status) PROVE Timed'
  <2>1. PICK k \in Call : Move(c, k)
    BY <1>1, <1>7, ColdMoves
  <2>2. QED  BY <1>1, <2>1, MoveIsTimed
<1>8. ASSUME NEW c \in Calls, NEW kind \in ErrorKinds, ErrorAnswer(c, kind) PROVE Timed'
  <2>1. PICK k \in Call : Move(c, k)
    BY <1>1, <1>8, ErrorMoves
  <2>2. QED  BY <1>1, <2>1, MoveIsTimed
<1>9. ASSUME NEW c \in Blocks, Acquire(c) PROVE Timed'
  <2>1. PICK k \in Call : Move(c, k)
    BY <1>1, <1>9, AcquireMoves
  <2>2. QED  BY <1>1, <2>1, MoveIsTimed, AcquireMoves, <1>9
<1>10. CASE BeginBlocks
  BY <1>1, <1>10 DEF BeginBlocks, Refused, Idle
<1>11. CASE EndPage
  BY <1>1, <1>11 DEF EndPage, AllEnded, Ended
<1>12. CASE WorkerUp
  BY <1>1, <1>12 DEF WorkerUp
<1>13. CASE Tick
  <2>1. now' = now + 1 /\ call' = call
    BY <1>13 DEF Tick
  <2>2. ASSUME NEW c \in Calls PROVE TimedAt(c)'
    <3>1. Pending(c) => now < call[c].timer
      BY <1>13 DEF Tick, Quiet
    <3>2. TimedAt(c) /\ call[c] \in Call
      BY <1>1
    <3>3. QED  BY <1>1, <2>1, <3>1, <3>2 DEF Call
  <2>3. QED  BY <2>2
<1>14. CASE UNCHANGED vars
  BY <1>1, <1>14 DEF vars
<1>15. QED  BY <1>1, <1>2, <1>3, <1>4, <1>5, <1>6, <1>7, <1>8, <1>9, <1>10,
     <1>11, <1>12, <1>13, <1>14 DEF Next, Step

(* Time stops for a boot. *)
LEMMA BootStep == TypeOK /\ BootIsTimed /\ [Next]_vars => BootIsTimed'
<1>1. SUFFICES ASSUME TypeOK, BootIsTimed, [Next]_vars PROVE BootIsTimed'
  OBVIOUS
<1> USE ConstantsAssumption DEF TypeOK, BootIsTimed
<1>2. CASE BeginPage
  BY <1>1, <1>2 DEF BeginPage, Begun, Refused, Idle, Knock
<1>3. CASE ScaleToZero
  BY <1>1, <1>3 DEF ScaleToZero
<1>4. ASSUME NEW c \in Calls, Answered(c) PROVE BootIsTimed'
  BY <1>1, <1>4 DEF Answered, Idle
<1>5. ASSUME NEW c \in Calls, NoAnswer(c) PROVE BootIsTimed'
  BY <1>1, <1>5 DEF NoAnswer, Knock, Failed, GiveUp, Retry, Idle
<1>6. ASSUME NEW c \in Calls, Wake(c) PROVE BootIsTimed'
  BY <1>1, <1>6 DEF Wake, Knock
<1>7. ASSUME NEW c \in Calls, NEW status \in {"4xx", "5xx"}, ColdAnswer(c, status) PROVE BootIsTimed'
  BY <1>1, <1>7 DEF ColdAnswer, InWindow, Knock, Failed, GiveUp, Retry, Idle
<1>8. ASSUME NEW c \in Calls, NEW kind \in ErrorKinds, ErrorAnswer(c, kind) PROVE BootIsTimed'
  BY <1>1, <1>8 DEF ErrorAnswer, InWindow, Failed, GiveUp, Retry, Idle
<1>9. ASSUME NEW c \in Blocks, Acquire(c) PROVE BootIsTimed'
  BY <1>1, <1>9 DEF Acquire, Begun, Refused, Idle, Knock
<1>10. CASE BeginBlocks
  BY <1>1, <1>10 DEF BeginBlocks, Refused, Idle
<1>11. CASE EndPage
  BY <1>1, <1>11 DEF EndPage, AllEnded, Ended
<1>12. CASE WorkerUp
  BY <1>1, <1>12 DEF WorkerUp
<1>13. CASE Tick
  BY <1>1, <1>13 DEF Tick, Quiet
<1>14. CASE UNCHANGED vars
  BY <1>1, <1>14 DEF vars
<1>15. QED  BY <1>1, <1>2, <1>3, <1>4, <1>5, <1>6, <1>7, <1>8, <1>9, <1>10,
     <1>11, <1>12, <1>13, <1>14 DEF Next, Step

(* A call that ends with a cold start has outlasted the window. *)
LEMMA ColdStep == TypeOK /\ Timed /\ BootIsTimed /\ Cold /\ StageFits /\ [Next]_vars => Cold'
<1>1. SUFFICES ASSUME TypeOK, Timed, BootIsTimed, Cold, StageFits, [Next]_vars PROVE Cold'
  OBVIOUS
<1> USE ConstantsAssumption DEF TypeOK, BootIsTimed, Cold, ColdAt, Pending,
     StageFits, Open, Blocks, Calls
<1>2. CASE BeginPage
  <2>1. /\ \E k \in Call : call'[0] = k /\ Starts(k)
        /\ \A d \in Calls \ {0} : call'[d].state = "idle"
        /\ now' = now /\ up' = up
    BY <1>1, <1>2, BeginPageIs
  <2>2. ASSUME NEW d \in Calls PROVE ColdAt(d)'
    BY <1>1, <2>1, <2>2 DEF Starts, Knocked
  <2>3. QED  BY <2>2
<1>3. CASE ScaleToZero
  BY <1>1, <1>3 DEF ScaleToZero
<1>4. ASSUME NEW c \in Calls, Answered(c) PROVE Cold'
  <2>1. PICK k \in Call : Move(c, k)
    BY <1>1, <1>4, AnsweredMoves
  <2>2. QED  BY <1>1, <2>1, MoveIsCold
<1>5. ASSUME NEW c \in Calls, NoAnswer(c) PROVE Cold'
  <2>1. PICK k \in Call : Move(c, k)
    BY <1>1, <1>5, NoAnswerMoves
  <2>2. QED  BY <1>1, <2>1, MoveIsCold
<1>6. ASSUME NEW c \in Calls, Wake(c) PROVE Cold'
  <2>1. PICK k \in Call : Move(c, k)
    BY <1>1, <1>6, WakeMoves
  <2>2. QED  BY <1>1, <2>1, MoveIsCold
<1>7. ASSUME NEW c \in Calls, NEW status \in {"4xx", "5xx"}, ColdAnswer(c, status) PROVE Cold'
  <2>1. PICK k \in Call : Move(c, k)
    BY <1>1, <1>7, ColdMoves
  <2>2. QED  BY <1>1, <2>1, MoveIsCold
<1>8. ASSUME NEW c \in Calls, NEW kind \in ErrorKinds, ErrorAnswer(c, kind) PROVE Cold'
  <2>1. PICK k \in Call : Move(c, k)
    BY <1>1, <1>8, ErrorMoves
  <2>2. QED  BY <1>1, <2>1, MoveIsCold
<1>9. ASSUME NEW c \in Blocks, Acquire(c) PROVE Cold'
  <2>1. PICK k \in Call : Move(c, k)
    BY <1>1, <1>9, AcquireMoves
  <2>2. QED  BY <1>1, <2>1, MoveIsCold, AcquireMoves, <1>9
<1>10. CASE BeginBlocks
  BY <1>1, <1>10 DEF BeginBlocks, Refused, Idle
<1>11. CASE EndPage
  BY <1>1, <1>11 DEF EndPage, AllEnded, Ended
<1>12. CASE WorkerUp
  BY <1>1, <1>12 DEF WorkerUp
<1>13. CASE Tick
  BY <1>1, <1>13 DEF Tick, Quiet
<1>14. CASE UNCHANGED vars
  BY <1>1, <1>14 DEF vars
<1>15. QED  BY <1>1, <1>2, <1>3, <1>4, <1>5, <1>6, <1>7, <1>8, <1>9, <1>10,
     <1>11, <1>12, <1>13, <1>14 DEF Next, Step

(* A page moves on with the answers to its calls. *)
LEMMA StageStep == TypeOK /\ StageFits /\ [Next]_vars => StageFits'
<1>1. SUFFICES ASSUME TypeOK, StageFits, [Next]_vars PROVE StageFits'
  OBVIOUS
<1> USE ConstantsAssumption DEF TypeOK, StageFits, Open, Blocks, Calls
<1>2. CASE BeginPage
  BY <1>1, <1>2 DEF BeginPage, Begun, Refused, Idle, Knock
<1>3. CASE ScaleToZero
  BY <1>1, <1>3 DEF ScaleToZero
<1>4. ASSUME NEW c \in Calls, Answered(c) PROVE StageFits'
  BY <1>1, <1>4 DEF Answered, Idle
<1>5. ASSUME NEW c \in Calls, NoAnswer(c) PROVE StageFits'
  BY <1>1, <1>5 DEF NoAnswer, Knock, Failed, GiveUp, Retry, Idle
<1>6. ASSUME NEW c \in Calls, Wake(c) PROVE StageFits'
  BY <1>1, <1>6 DEF Wake, Knock
<1>7. ASSUME NEW c \in Calls, NEW status \in {"4xx", "5xx"}, ColdAnswer(c, status) PROVE StageFits'
  BY <1>1, <1>7 DEF ColdAnswer, InWindow, Knock, Failed, GiveUp, Retry, Idle
<1>8. ASSUME NEW c \in Calls, NEW kind \in ErrorKinds, ErrorAnswer(c, kind) PROVE StageFits'
  BY <1>1, <1>8 DEF ErrorAnswer, InWindow, Failed, GiveUp, Retry, Idle
<1>9. ASSUME NEW c \in Blocks, Acquire(c) PROVE StageFits'
  BY <1>1, <1>9 DEF Acquire, Begun, Refused, Idle, Knock
<1>10. CASE BeginBlocks
  BY <1>1, <1>10 DEF BeginBlocks, Refused, Idle
<1>11. CASE EndPage
  BY <1>1, <1>11 DEF EndPage, AllEnded, Ended
<1>12. CASE WorkerUp
  BY <1>1, <1>12 DEF WorkerUp
<1>13. CASE Tick
  BY <1>1, <1>13 DEF Tick, Quiet
<1>14. CASE UNCHANGED vars
  BY <1>1, <1>14 DEF vars
<1>15. QED  BY <1>1, <1>2, <1>3, <1>4, <1>5, <1>6, <1>7, <1>8, <1>9, <1>10,
     <1>11, <1>12, <1>13, <1>14 DEF Next, Step

(* The row is written once, over calls that have ended. *)
LEMMA RowStep == TypeOK /\ StageFits /\ RowIsComplete /\ [Next]_vars => RowIsComplete'
<1>1. SUFFICES ASSUME TypeOK, StageFits, RowIsComplete, [Next]_vars PROVE RowIsComplete'
  OBVIOUS
<1> USE ConstantsAssumption DEF TypeOK, StageFits, RowIsComplete, Open, Blocks,
     Calls
<1>2. CASE BeginPage
  BY <1>1, <1>2 DEF BeginPage, Begun, Refused, Idle, Knock
<1>3. CASE ScaleToZero
  BY <1>1, <1>3 DEF ScaleToZero
<1>4. ASSUME NEW c \in Calls, Answered(c) PROVE RowIsComplete'
  BY <1>1, <1>4 DEF Answered, Idle
<1>5. ASSUME NEW c \in Calls, NoAnswer(c) PROVE RowIsComplete'
  BY <1>1, <1>5 DEF NoAnswer, Knock, Failed, GiveUp, Retry, Idle
<1>6. ASSUME NEW c \in Calls, Wake(c) PROVE RowIsComplete'
  BY <1>1, <1>6 DEF Wake, Knock
<1>7. ASSUME NEW c \in Calls, NEW status \in {"4xx", "5xx"}, ColdAnswer(c, status) PROVE RowIsComplete'
  BY <1>1, <1>7 DEF ColdAnswer, InWindow, Knock, Failed, GiveUp, Retry, Idle
<1>8. ASSUME NEW c \in Calls, NEW kind \in ErrorKinds, ErrorAnswer(c, kind) PROVE RowIsComplete'
  BY <1>1, <1>8 DEF ErrorAnswer, InWindow, Failed, GiveUp, Retry, Idle
<1>9. ASSUME NEW c \in Blocks, Acquire(c) PROVE RowIsComplete'
  BY <1>1, <1>9 DEF Acquire, Begun, Refused, Idle, Knock
<1>10. CASE BeginBlocks
  BY <1>1, <1>10 DEF BeginBlocks, Refused, Idle
<1>11. CASE EndPage
  <2>1. row' = IF \E c \in Calls : call[c].state = "error" THEN "error" ELSE "ok"
    BY <1>11 DEF EndPage
  <2>2. call' = call /\ \A c \in Calls : ~Open(c)
    BY <1>1, <1>11 DEF EndPage, AllEnded, Ended
  <2>3. \A c \in Calls : call[c].state \in {"idle", "ok", "error"}
    <3>1. \A c \in Calls : call[c].state \in {"idle", "queued", "sent", "backoff", "ok", "error"}
      BY <1>1 DEF Call
    <3>2. QED  BY <2>2, <3>1 DEF Open
  <2>4. call[0].state \in {"ok", "error"} /\ 0 \in Calls /\ Calls = Blocks \cup {0}
    BY <1>1, <1>11 DEF EndPage, Ended
  <2>5. row' = "ok" <=> call[0].state = "ok" /\ \A c \in Blocks : call[c].state \in {"idle", "ok"}
    BY <2>1, <2>3, <2>4
  <2>6. QED  BY <2>2, <2>5
<1>12. CASE WorkerUp
  BY <1>1, <1>12 DEF WorkerUp
<1>13. CASE Tick
  BY <1>1, <1>13 DEF Tick, Quiet
<1>14. CASE UNCHANGED vars
  BY <1>1, <1>14 DEF vars
<1>15. QED  BY <1>1, <1>2, <1>3, <1>4, <1>5, <1>6, <1>7, <1>8, <1>9, <1>10,
     <1>11, <1>12, <1>13, <1>14 DEF Next, Step

LEMMA Invariance == Spec => []IInv
<1>1. IInv /\ [Next]_vars => IInv'
  BY TypesStep, TimedStep, BootStep, ColdStep, StageStep, RowStep DEF IInv
<1>2. QED  BY <1>1, InitIInv, PTL DEF Spec

-----------------------------------------------------------------------------
(* Every variable keeps its type. *)
THEOREM TypeCorrect == Spec => []TypeOK
<1>1. IInv => TypeOK
  BY DEF IInv
<1>2. QED  BY <1>1, Invariance, PTL

(* However cold starts, timeouts and errors alternate, a call is over      *)
(* after the rest of the window, a backoff and two attempts.               *)
THEOREM CallsEndInTimeHolds == Spec => []CallsEndInTime
<1>1. ASSUME IInv, NEW c \in Calls, Pending(c)
      PROVE  now <= Later(call[c].begun, WaitReady) + Backoff + 2 * Timeout
  <2>1. TimedAt(c) /\ call[c] \in Call /\ now \in Nat
    BY <1>1 DEF IInv, Timed, TypeOK
  <2>2. QED
    BY <1>1, <2>1, ConstantsAssumption DEF TimedAt, Pending, Waited, Later, Call
<1>2. IInv => CallsEndInTime
  BY <1>1 DEF CallsEndInTime, Pending
<1>3. QED  BY <1>2, Invariance, PTL

(* A cold start that fits into the window costs no call its answer.        *)
THEOREM ColdStartFitsWindowHolds == Spec => []ColdStartFitsWindow
<1>1. IInv => ColdStartFitsWindow
  BY DEF IInv, Cold, ColdAt, ColdStartFitsWindow
<1>2. QED  BY <1>1, Invariance, PTL

(* The row of a page speaks of all its requests, and is good exactly when  *)
(* all of them came back.                                                  *)
THEOREM RowIsCompleteHolds == Spec => []RowIsComplete
<1>1. IInv => RowIsComplete
  BY DEF IInv
<1>2. QED  BY <1>1, Invariance, PTL
=============================================================================
