------------------------ MODULE PaddleWorker_proofs ------------------------
(***************************************************************************)
(* Proofs about PaddleWorker, for any number of pipelines, grace period    *)
(* and ages at which a pipeline writes and reads the shared file.          *)
(***************************************************************************)
EXTENDS PaddleWorker, TLAPS

Ended == {"exited", "killed"}

Types ==
  /\ now \in Nat /\ i \in Procs
  /\ pc \in {"start", "loop", "poll", "terminate", "wait", "done"}
  /\ stopping \in BOOLEAN /\ final \in BOOLEAN
  /\ ret \in Int \cup {None}
  /\ deadline \in Nat \cup {None}
  /\ proc \in [Procs -> {"none", "alive"} \cup Ended]
  /\ termAt \in [Procs -> Nat \cup {None}]
  /\ born \in [Procs -> Nat \cup {None}]
  /\ phase \in [Procs -> {"boot", "opened", "written", "serving"}]
  /\ dst \in {"absent", "torn", "whole"} /\ readTorn \in BOOLEAN
  /\ probe \in [Upstreams -> {"idle", "asked", "yes", "no"}]
  /\ neverUp \in SUBSET Upstreams

(* Whom the supervisor has dealt with: it has started those before i, and  *)
(* waited for those before i; nothing is left when it is done.             *)
Swept ==
  /\ pc = "start" => \A p \in Procs : p >= i => proc[p] = "none"
  /\ pc = "wait" => \A p \in Procs : p < i => proc[p] # "alive"
  /\ pc = "done" => \A p \in Procs : proc[p] # "alive"

(* The exit code is 0 only on a signal. *)
ZeroIsAsked == ret = 0 => stopping

(* A child that does not run is in its first phase; only a pipeline is     *)
(* about the shared file.                                                  *)
PhaseFits ==
  \A p \in Procs :
    /\ proc[p] # "alive" => phase[p] = "boot"
    /\ phase[p] \in {"opened", "written"} => p \in Pipelines

(* What serves, or has answered the check, has served since it began. *)
NeverUpIsDown == \A u \in Upstreams : Serving(u) \/ probe[u] = "yes" => u \notin neverUp

(* All children are born at once, and a pipeline that has not finished its *)
(* write is no older than WriteBy.                                         *)
WritersAreYoung ==
  /\ pc = "start" => now = 0
  /\ \A p \in Procs : proc[p] = "alive" => born[p] = 0
  /\ \A p \in Pipelines :
       proc[p] = "alive" /\ phase[p] \in {"boot", "opened"} => now <= WriteBy

(* A torn file has a culprit: a pipeline that is writing it, or one that   *)
(* ended; so has a torn read, and the reader itself has ended.             *)
TornHasCulprit ==
  /\ \A p \in Pipelines : phase[p] \in {"written", "serving"} => dst # "absent"
  /\ dst = "torn" => \E p \in Pipelines : proc[p] \in Ended \/ phase[p] = "opened"
  /\ readTorn => \E p, q \in Pipelines : p # q /\ proc[p] \in Ended /\ proc[q] \in Ended

SomeAlive == \E p \in Procs : proc[p] = "alive"

(* SIGTERM is sent to all at one moment, the deadline is Grace after it,   *)
(* and time stops at the deadline.  (A second _stop finds nobody.)         *)
StopIsTimed ==
  /\ pc = "loop" => i = 1
  /\ pc \in {"start", "loop", "poll"} => \A p \in Procs : termAt[p] = None
  /\ pc = "terminate" /\ SomeAlive =>
       /\ \A p \in Procs : termAt[p] \in {None, now}
       /\ \A p \in Procs : p < i /\ proc[p] = "alive" => termAt[p] = now
  /\ pc = "wait" => deadline # None
  /\ pc = "wait" /\ SomeAlive =>
       /\ \A p \in Procs : termAt[p] \in {None, deadline - Grace}
       /\ \A p \in Procs : proc[p] = "alive" => termAt[p] = deadline - Grace
  /\ \A p \in Procs : termAt[p] # None => now <= termAt[p] + Grace

(* The inductive invariant. *)
IInv ==
  /\ Types /\ Swept /\ ZeroIsAsked /\ PhaseFits /\ NeverUpIsDown /\ HealthIsTrue
  /\ WritersAreYoung /\ TornHasCulprit /\ StopIsTimed

LEMMA InitIInv == Init => IInv
<1>1. SUFFICES ASSUME Init PROVE IInv
  OBVIOUS
<1>2. Types
  <2>1. 1 \in Procs
    BY ConstantsAssumption DEF Procs
  <2>2. proc \in [Procs -> {"none", "alive"} \cup Ended]
    BY <1>1 DEF Init
  <2>3. termAt \in [Procs -> Nat \cup {None}] /\ born \in [Procs -> Nat \cup {None}]
    BY <1>1 DEF Init
  <2>4. phase \in [Procs -> {"boot", "opened", "written", "serving"}]
    BY <1>1 DEF Init
  <2>5. probe \in [Upstreams -> {"idle", "asked", "yes", "no"}]
    BY <1>1 DEF Init, Idle
  <2>6. QED  BY <1>1, <2>1, <2>2, <2>3, <2>4, <2>5 DEF Init, Types
<1>3. Swept /\ ZeroIsAsked /\ PhaseFits
  BY <1>1, ConstantsAssumption DEF Init, Swept, ZeroIsAsked, PhaseFits
<1>4. NeverUpIsDown /\ HealthIsTrue
  BY <1>1 DEF Init, NeverUpIsDown, HealthIsTrue
<1>5. WritersAreYoung
  BY <1>1, ConstantsAssumption DEF Init, WritersAreYoung, Procs, Pipelines
<1>6. TornHasCulprit
  BY <1>1, ConstantsAssumption DEF Init, TornHasCulprit, Procs, Pipelines
<1>7. StopIsTimed
  BY <1>1 DEF Init, StopIsTimed
<1>8. QED  BY <1>2, <1>3, <1>4, <1>5, <1>6, <1>7 DEF IInv

(* What the end of a child changes, function by function. *)
EndOf(p, how) ==
  /\ proc' \in [Procs -> {"none", "alive"} \cup Ended]
  /\ phase' \in [Procs -> {"boot", "opened", "written", "serving"}]
  /\ probe' \in [Upstreams -> {"idle", "asked", "yes", "no"}] /\ neverUp' \in SUBSET Upstreams
  /\ proc'[p] = how /\ phase'[p] = "boot"
  /\ \A q \in Procs \ {p} : proc'[q] = proc[q] /\ phase'[q] = phase[q]
  /\ \/ probe' = Idle /\ health' = None /\ neverUp' = {}
     \/ probe' = probe /\ health' = health /\ neverUp' = neverUp

LEMMA EndsIs ==
  ASSUME Types, NEW p \in Procs, NEW how \in Ended, Ends(p, how)
  PROVE  EndOf(p, how)
<1>1. proc' \in [Procs -> {"none", "alive"} \cup Ended]
  BY DEF Types, Ends
<1>2. phase' \in [Procs -> {"boot", "opened", "written", "serving"}]
  BY DEF Types, Ends
<1>3. proc'[p] = how /\ phase'[p] = "boot"
  BY DEF Types, Ends
<1>4. \A q \in Procs \ {p} : proc'[q] = proc[q] /\ phase'[q] = phase[q]
  BY DEF Types, Ends
<1>5. \/ probe' = Idle /\ health' = None /\ neverUp' = {}
      \/ probe' = probe /\ health' = health /\ neverUp' = neverUp
  BY DEF Ends, front
<1>6. probe' \in [Upstreams -> {"idle", "asked", "yes", "no"}] /\ neverUp' \in SUBSET Upstreams
  BY <1>5 DEF Types, Idle
<1>7. QED  BY <1>1, <1>2, <1>3, <1>4, <1>5, <1>6 DEF EndOf

(* Waiting moves the supervisor on, and ends no child but the one at i. *)
WaitOf ==
  /\ pc = "wait" /\ pc' \in {"wait", "terminate", "done"} /\ i' \in Procs
  /\ pc' = "wait" => i' = i + 1
  /\ pc' # "wait" => i = Front /\ i' = 1
  /\ final' \in BOOLEAN
  /\ now' = now /\ stopping' = stopping /\ ret' = ret /\ deadline' = deadline
  /\ termAt' = termAt /\ born' = born /\ dst' = dst /\ readTorn' = readTorn
  /\ \/ /\ proc[i] # "alive" /\ proc' = proc /\ phase' = phase
        /\ probe' = probe /\ health' = health /\ neverUp' = neverUp
     \/ \E p \in Procs : p = i /\ proc[p] = "alive" /\ now >= deadline /\ EndOf(p, "killed")

LEMMA WaitIs == Types /\ Wait => WaitOf
<1>1. SUFFICES ASSUME Types, Wait PROVE WaitOf
  OBVIOUS
<1>2. /\ pc = "wait"
      /\ now' = now /\ stopping' = stopping /\ ret' = ret /\ deadline' = deadline
      /\ termAt' = termAt /\ born' = born /\ dst' = dst /\ readTorn' = readTorn
  BY <1>1 DEF Wait, config
<1>3. \/ /\ proc[i] # "alive" /\ proc' = proc /\ phase' = phase
         /\ probe' = probe /\ health' = health /\ neverUp' = neverUp
      \/ \E p \in Procs : p = i /\ proc[p] = "alive" /\ now >= deadline /\ EndOf(p, "killed")
  <2>1. CASE proc[i] # "alive"
    BY <1>1, <2>1 DEF Wait, front
  <2>2. CASE proc[i] = "alive"
    <3>1. PICK p \in Procs : p = i
      BY <1>1 DEF Types
    <3>2. Ends(p, "killed") /\ now >= deadline
      BY <1>1, <2>2, <3>1 DEF Wait, Deadline
    <3>3. EndOf(p, "killed")
      BY <1>1, <3>2, EndsIs DEF Ended
    <3>4. QED  BY <2>2, <3>1, <3>2, <3>3
  <2>3. QED  BY <2>1, <2>2
<1>4. /\ pc' \in {"wait", "terminate", "done"} /\ i' \in Procs /\ final' \in BOOLEAN
      /\ pc' = "wait" => i' = i + 1
      /\ pc' # "wait" => i = Front /\ i' = 1
  <2>1. CASE i < Front
    BY <1>1, <2>1, ConstantsAssumption DEF Types, Wait, Waited, Procs, Front
  <2>2. CASE ~(i < Front)
    <3>1. i = Front /\ 1 \in Procs
      BY <1>1, <2>2, ConstantsAssumption DEF Types, Procs, Front
    <3>2. i' = 1 /\ final' = TRUE /\ pc' \in {"terminate", "done"}
      BY <1>1, <2>2 DEF Wait, Waited
    <3>3. QED  BY <3>1, <3>2
  <2>3. QED  BY <2>1, <2>2
<1>5. QED  BY <1>2, <1>3, <1>4 DEF WaitOf

(* Every step keeps the types. *)
LEMMA TypesStep == Types /\ [Next]_vars => Types'
<1>1. SUFFICES ASSUME Types, [Next]_vars PROVE Types'
  OBVIOUS
<1> USE ConstantsAssumption DEF Types, Procs, Upstreams, Pipelines, Front, Vllm,
     Idle, Ended, super, config, front
<1>2. CASE Start
  <2>1. proc' \in [Procs -> {"none", "alive"} \cup Ended] /\ born' \in [Procs -> Nat \cup {None}]
    BY <1>1, <1>2 DEF Start
  <2>2. 1 \in Procs /\ (i # Front => i + 1 \in Procs)
    BY <1>1
  <2>3. i' \in Procs /\ pc' \in {"start", "loop", "terminate"} /\ final' \in BOOLEAN
    BY <1>1, <1>2, <2>2 DEF Start, StartFails
  <2>4. QED  BY <1>1, <1>2, <2>1, <2>3 DEF Start
<1>3. CASE Loop
  BY <1>1, <1>3 DEF Loop
<1>4. CASE Poll
  BY <1>1, <1>4 DEF Poll, ExitCode
<1>5. CASE Terminate
  BY <1>1, <1>5 DEF Terminate
<1>6. CASE Wait
  <2>1. WaitOf
    BY <1>1, <1>6, WaitIs
  <2>2. CASE proc' = proc
    BY <1>1, <2>1, <2>2 DEF WaitOf, EndOf
  <2>3. ASSUME NEW p \in Procs, p = i, proc[p] = "alive", now >= deadline, EndOf(p, "killed")
        PROVE  Types'
    BY <1>1, <2>1, <2>3 DEF WaitOf, EndOf
  <2>4. QED  BY <2>1, <2>2, <2>3 DEF WaitOf
<1>7. CASE Signal
  BY <1>1, <1>7 DEF Signal
<1>8. CASE Tick
  BY <1>1, <1>8 DEF Tick, Prompt, Waiting, Deadline
<1>9. CASE AskHealth
  BY <1>1, <1>9 DEF AskHealth, Serving
<1>10. CASE AnswerHealth
  BY <1>1, <1>10 DEF AnswerHealth, AllOk
<1>11. ASSUME NEW p \in Procs, Exit(p) PROVE Types'
  BY <1>1, <1>11 DEF Exit, Ends
<1>12. ASSUME NEW p \in Procs, Ready(p) PROVE Types'
  BY <1>1, <1>12 DEF Ready, Serves
<1>13. ASSUME NEW p \in Procs, OpenConfig(p) PROVE Types'
  BY <1>1, <1>13 DEF OpenConfig
<1>14. ASSUME NEW p \in Procs, WriteConfig(p) PROVE Types'
  BY <1>1, <1>14 DEF WriteConfig
<1>15. ASSUME NEW p \in Procs, ReadConfig(p) PROVE Types'
  BY <1>1, <1>15 DEF ReadConfig, Serves, Ends
<1>16. ASSUME NEW u \in Upstreams, Probe(u) PROVE Types'
  BY <1>1, <1>16 DEF Probe, Serving
<1>17. CASE UNCHANGED vars
  BY <1>1, <1>17 DEF vars
<1>18. QED  BY <1>1, <1>2, <1>3, <1>4, <1>5, <1>6, <1>7, <1>8, <1>9, <1>10,
     <1>11, <1>12, <1>13, <1>14, <1>15, <1>16, <1>17 DEF Next, Supervisor

(* The supervisor misses no child. *)
LEMMA SweptStep == Types /\ Swept /\ [Next]_vars => Swept'
<1>1. SUFFICES ASSUME Types, Swept, [Next]_vars PROVE Swept'
  OBVIOUS
<1> USE ConstantsAssumption DEF Types, Swept, Procs, Front, Ended, super,
     config, front
<1>2. CASE Start
  <2>1. CASE StartFails
    BY <1>1, <1>2, <2>1 DEF Start, StartFails
  <2>2. CASE ~StartFails
    <3>1. proc' = [proc EXCEPT ![i] = "alive"] /\ born' = [born EXCEPT ![i] = now]
      BY <1>2, <2>2 DEF Start
    <3>2. \/ i = Front /\ pc' = "loop" /\ i' = 1
          \/ i # Front /\ pc' = pc /\ i' = i + 1
      BY <1>2, <2>2 DEF Start
    <3>3. QED  BY <1>1, <1>2, <3>1, <3>2 DEF Start
  <2>3. QED  BY <2>1, <2>2
<1>3. CASE Loop
  BY <1>1, <1>3 DEF Loop
<1>4. CASE Poll
  BY <1>1, <1>4 DEF Poll, ExitCode
<1>5. CASE Terminate
  BY <1>1, <1>5 DEF Terminate
<1>6. CASE Wait
  <2>1. WaitOf
    BY <1>1, <1>6, WaitIs
  <2>2. \A p \in Procs : proc[p] # "alive" => proc'[p] # "alive"
    BY <2>1 DEF WaitOf, EndOf
  <2>3. proc'[i] # "alive"
    BY <2>1 DEF WaitOf, EndOf
  <2>4. \A p \in Procs : p <= i => proc'[p] # "alive"
    BY <1>1, <2>1, <2>2, <2>3 DEF WaitOf
  <2>5. QED  BY <1>1, <2>1, <2>4 DEF WaitOf
<1>7. CASE Signal
  BY <1>1, <1>7 DEF Signal
<1>8. CASE Tick
  BY <1>1, <1>8 DEF Tick, Prompt, Waiting, Deadline
<1>9. CASE AskHealth
  BY <1>1, <1>9 DEF AskHealth, Serving
<1>10. CASE AnswerHealth
  BY <1>1, <1>10 DEF AnswerHealth, AllOk
<1>11. ASSUME NEW p \in Procs, Exit(p) PROVE Swept'
  BY <1>1, <1>11 DEF Exit, Ends
<1>12. ASSUME NEW p \in Procs, Ready(p) PROVE Swept'
  BY <1>1, <1>12 DEF Ready, Serves
<1>13. ASSUME NEW p \in Procs, OpenConfig(p) PROVE Swept'
  BY <1>1, <1>13 DEF OpenConfig
<1>14. ASSUME NEW p \in Procs, WriteConfig(p) PROVE Swept'
  BY <1>1, <1>14 DEF WriteConfig
<1>15. ASSUME NEW p \in Procs, ReadConfig(p) PROVE Swept'
  BY <1>1, <1>15 DEF ReadConfig, Serves, Ends
<1>16. ASSUME NEW u \in Upstreams, Probe(u) PROVE Swept'
  BY <1>1, <1>16 DEF Probe, Serving
<1>17. CASE UNCHANGED vars
  BY <1>1, <1>17 DEF vars
<1>18. QED  BY <1>1, <1>2, <1>3, <1>4, <1>5, <1>6, <1>7, <1>8, <1>9, <1>10,
     <1>11, <1>12, <1>13, <1>14, <1>15, <1>16, <1>17 DEF Next, Supervisor

(* Only a signal makes the exit code 0. *)
LEMMA ZeroStep == Types /\ ZeroIsAsked /\ [Next]_vars => ZeroIsAsked'
<1>1. SUFFICES ASSUME Types, ZeroIsAsked, [Next]_vars PROVE ZeroIsAsked'
  OBVIOUS
<1> USE ConstantsAssumption DEF Types, ZeroIsAsked, super, config, front
<1>2. CASE Start
  BY <1>1, <1>2 DEF Start, StartFails
<1>3. CASE Loop
  BY <1>1, <1>3 DEF Loop
<1>4. CASE Poll
  BY <1>1, <1>4 DEF Poll, ExitCode
<1>5. CASE Terminate
  BY <1>1, <1>5 DEF Terminate
<1>6. CASE Wait
  BY <1>1, <1>6 DEF Wait, Waited, Ends, Deadline
<1>7. CASE Signal
  BY <1>1, <1>7 DEF Signal
<1>8. CASE Tick
  BY <1>1, <1>8 DEF Tick, Prompt, Waiting, Deadline
<1>9. CASE AskHealth
  BY <1>1, <1>9 DEF AskHealth, Serving
<1>10. CASE AnswerHealth
  BY <1>1, <1>10 DEF AnswerHealth, AllOk
<1>11. ASSUME NEW p \in Procs, Exit(p) PROVE ZeroIsAsked'
  BY <1>1, <1>11 DEF Exit, Ends
<1>12. ASSUME NEW p \in Procs, Ready(p) PROVE ZeroIsAsked'
  BY <1>1, <1>12 DEF Ready, Serves
<1>13. ASSUME NEW p \in Procs, OpenConfig(p) PROVE ZeroIsAsked'
  BY <1>1, <1>13 DEF OpenConfig
<1>14. ASSUME NEW p \in Procs, WriteConfig(p) PROVE ZeroIsAsked'
  BY <1>1, <1>14 DEF WriteConfig
<1>15. ASSUME NEW p \in Procs, ReadConfig(p) PROVE ZeroIsAsked'
  BY <1>1, <1>15 DEF ReadConfig, Serves, Ends
<1>16. ASSUME NEW u \in Upstreams, Probe(u) PROVE ZeroIsAsked'
  BY <1>1, <1>16 DEF Probe, Serving
<1>17. CASE UNCHANGED vars
  BY <1>1, <1>17 DEF vars
<1>18. QED  BY <1>1, <1>2, <1>3, <1>4, <1>5, <1>6, <1>7, <1>8, <1>9, <1>10,
     <1>11, <1>12, <1>13, <1>14, <1>15, <1>16, <1>17 DEF Next, Supervisor

(* A child that ends is back in its first phase. *)
LEMMA FreshStep == Types /\ Swept /\ PhaseFits /\ [Next]_vars => PhaseFits'
<1>1. SUFFICES ASSUME Types, Swept, PhaseFits, [Next]_vars PROVE PhaseFits'
  OBVIOUS
<1> USE ConstantsAssumption DEF Types, Swept, PhaseFits, Procs, Pipelines,
     Front, Vllm, Ended, super, config, front
<1>2. CASE Start
  BY <1>1, <1>2 DEF Start, StartFails
<1>3. CASE Loop
  BY <1>1, <1>3 DEF Loop
<1>4. CASE Poll
  BY <1>1, <1>4 DEF Poll, ExitCode
<1>5. CASE Terminate
  BY <1>1, <1>5 DEF Terminate
<1>6. CASE Wait
  <2>1. WaitOf
    BY <1>1, <1>6, WaitIs
  <2>2. CASE proc' = proc
    BY <1>1, <2>1, <2>2 DEF WaitOf, EndOf
  <2>3. ASSUME NEW p \in Procs, p = i, proc[p] = "alive", now >= deadline, EndOf(p, "killed")
        PROVE  PhaseFits'
    BY <1>1, <2>1, <2>3 DEF WaitOf, EndOf
  <2>4. QED  BY <2>1, <2>2, <2>3 DEF WaitOf
<1>7. CASE Signal
  BY <1>1, <1>7 DEF Signal
<1>8. CASE Tick
  BY <1>1, <1>8 DEF Tick, Prompt, Waiting, Deadline
<1>9. CASE AskHealth
  BY <1>1, <1>9 DEF AskHealth, Serving
<1>10. CASE AnswerHealth
  BY <1>1, <1>10 DEF AnswerHealth, AllOk
<1>11. ASSUME NEW p \in Procs, Exit(p) PROVE PhaseFits'
  BY <1>1, <1>11 DEF Exit, Ends
<1>12. ASSUME NEW p \in Procs, Ready(p) PROVE PhaseFits'
  BY <1>1, <1>12 DEF Ready, Serves
<1>13. ASSUME NEW p \in Procs, OpenConfig(p) PROVE PhaseFits'
  BY <1>1, <1>13 DEF OpenConfig
<1>14. ASSUME NEW p \in Procs, WriteConfig(p) PROVE PhaseFits'
  BY <1>1, <1>14 DEF WriteConfig
<1>15. ASSUME NEW p \in Procs, ReadConfig(p) PROVE PhaseFits'
  <2>1. CASE dst = "whole"
    <3>1. Serves(p) /\ UNCHANGED <<now, super, proc, born, config, probe, health>>
      BY <1>15, <2>1 DEF ReadConfig, config
    <3>2. QED  BY <1>1, <1>15, <2>1, <3>1 DEF ReadConfig, Serves
  <2>2. CASE dst # "whole"
    <3>1. EndOf(p, "exited") /\ readTorn' = TRUE /\ UNCHANGED <<now, super, born, dst>>
      BY <1>1, <1>15, <2>2, EndsIs DEF ReadConfig
    <3>2. QED  BY <1>1, <1>15, <2>2, <3>1 DEF ReadConfig, EndOf
  <2>3. QED  BY <2>1, <2>2
<1>16. ASSUME NEW u \in Upstreams, Probe(u) PROVE PhaseFits'
  BY <1>1, <1>16 DEF Probe, Serving
<1>17. CASE UNCHANGED vars
  BY <1>1, <1>17 DEF vars
<1>18. QED  BY <1>1, <1>2, <1>3, <1>4, <1>5, <1>6, <1>7, <1>8, <1>9, <1>10,
     <1>11, <1>12, <1>13, <1>14, <1>15, <1>16, <1>17 DEF Next, Supervisor

(* Who begins to serve during a check is taken off neverUp. *)
LEMMA NeverUpStep == Types /\ Swept /\ PhaseFits /\ NeverUpIsDown /\ [Next]_vars => NeverUpIsDown'
<1>1. SUFFICES ASSUME Types, Swept, PhaseFits, NeverUpIsDown, [Next]_vars PROVE NeverUpIsDown'
  OBVIOUS
<1> USE ConstantsAssumption DEF Types, Swept, PhaseFits, NeverUpIsDown, Serving,
     Idle, Procs, Pipelines, Upstreams, Front, Vllm, Ended, super, config, front
<1>2. CASE Start
  BY <1>1, <1>2 DEF Start, StartFails
<1>3. CASE Loop
  BY <1>1, <1>3 DEF Loop
<1>4. CASE Poll
  BY <1>1, <1>4 DEF Poll, ExitCode
<1>5. CASE Terminate
  BY <1>1, <1>5 DEF Terminate
<1>6. CASE Wait
  <2>1. WaitOf
    BY <1>1, <1>6, WaitIs
  <2>2. CASE proc' = proc
    BY <1>1, <2>1, <2>2 DEF WaitOf, EndOf
  <2>3. ASSUME NEW p \in Procs, p = i, proc[p] = "alive", now >= deadline, EndOf(p, "killed")
        PROVE  NeverUpIsDown'
    BY <1>1, <2>1, <2>3 DEF WaitOf, EndOf
  <2>4. QED  BY <2>1, <2>2, <2>3 DEF WaitOf
<1>7. CASE Signal
  BY <1>1, <1>7 DEF Signal
<1>8. CASE Tick
  BY <1>1, <1>8 DEF Tick, Prompt, Waiting, Deadline
<1>9. CASE AskHealth
  BY <1>1, <1>9 DEF AskHealth, Serving
<1>10. CASE AnswerHealth
  BY <1>1, <1>10 DEF AnswerHealth, AllOk
<1>11. ASSUME NEW p \in Procs, Exit(p) PROVE NeverUpIsDown'
  <2>1. EndOf(p, "exited")
    BY <1>1, <1>11, EndsIs DEF Exit
  <2>2. QED  BY <1>1, <1>11, <2>1 DEF Exit, EndOf
<1>12. ASSUME NEW p \in Procs, Ready(p) PROVE NeverUpIsDown'
  BY <1>1, <1>12 DEF Ready, Serves
<1>13. ASSUME NEW p \in Procs, OpenConfig(p) PROVE NeverUpIsDown'
  BY <1>1, <1>13 DEF OpenConfig
<1>14. ASSUME NEW p \in Procs, WriteConfig(p) PROVE NeverUpIsDown'
  BY <1>1, <1>14 DEF WriteConfig
<1>15. ASSUME NEW p \in Procs, ReadConfig(p) PROVE NeverUpIsDown'
  <2>1. CASE dst = "whole"
    <3>1. Serves(p) /\ UNCHANGED <<now, super, proc, born, config, probe, health>>
      BY <1>15, <2>1 DEF ReadConfig, config
    <3>2. QED  BY <1>1, <1>15, <2>1, <3>1 DEF ReadConfig, Serves
  <2>2. CASE dst # "whole"
    <3>1. EndOf(p, "exited") /\ readTorn' = TRUE /\ UNCHANGED <<now, super, born, dst>>
      BY <1>1, <1>15, <2>2, EndsIs DEF ReadConfig
    <3>2. QED  BY <1>1, <1>15, <2>2, <3>1 DEF ReadConfig, EndOf
  <2>3. QED  BY <2>1, <2>2
<1>16. ASSUME NEW u \in Upstreams, Probe(u) PROVE NeverUpIsDown'
  BY <1>1, <1>16 DEF Probe, Serving
<1>17. CASE UNCHANGED vars
  BY <1>1, <1>17 DEF vars
<1>18. QED  BY <1>1, <1>2, <1>3, <1>4, <1>5, <1>6, <1>7, <1>8, <1>9, <1>10,
     <1>11, <1>12, <1>13, <1>14, <1>15, <1>16, <1>17 DEF Next, Supervisor

(* A check that ends with 200 has heard every upstream. *)
LEMMA HealthStep == Types /\ NeverUpIsDown /\ HealthIsTrue /\ [Next]_vars => HealthIsTrue'
<1>1. SUFFICES ASSUME Types, NeverUpIsDown, HealthIsTrue, [Next]_vars PROVE HealthIsTrue'
  OBVIOUS
<1> USE ConstantsAssumption DEF Types, NeverUpIsDown, HealthIsTrue, Idle, Procs,
     Pipelines, Upstreams, Front, Vllm, Ended, super, config, front
<1>2. CASE Start
  BY <1>1, <1>2 DEF Start, StartFails
<1>3. CASE Loop
  BY <1>1, <1>3 DEF Loop
<1>4. CASE Poll
  BY <1>1, <1>4 DEF Poll, ExitCode
<1>5. CASE Terminate
  BY <1>1, <1>5 DEF Terminate
<1>6. CASE Wait
  BY <1>1, <1>6 DEF Wait, Waited, Ends, Deadline
<1>7. CASE Signal
  BY <1>1, <1>7 DEF Signal
<1>8. CASE Tick
  BY <1>1, <1>8 DEF Tick, Prompt, Waiting, Deadline
<1>9. CASE AskHealth
  BY <1>1, <1>9 DEF AskHealth, Serving
<1>10. CASE AnswerHealth
  BY <1>1, <1>10 DEF AnswerHealth, AllOk
<1>11. ASSUME NEW p \in Procs, Exit(p) PROVE HealthIsTrue'
  BY <1>1, <1>11 DEF Exit, Ends
<1>12. ASSUME NEW p \in Procs, Ready(p) PROVE HealthIsTrue'
  BY <1>1, <1>12 DEF Ready, Serves
<1>13. ASSUME NEW p \in Procs, OpenConfig(p) PROVE HealthIsTrue'
  BY <1>1, <1>13 DEF OpenConfig
<1>14. ASSUME NEW p \in Procs, WriteConfig(p) PROVE HealthIsTrue'
  BY <1>1, <1>14 DEF WriteConfig
<1>15. ASSUME NEW p \in Procs, ReadConfig(p) PROVE HealthIsTrue'
  <2>1. CASE dst = "whole"
    <3>1. Serves(p) /\ UNCHANGED <<now, super, proc, born, config, probe, health>>
      BY <1>15, <2>1 DEF ReadConfig, config
    <3>2. QED  BY <1>1, <1>15, <2>1, <3>1 DEF ReadConfig, Serves
  <2>2. CASE dst # "whole"
    <3>1. EndOf(p, "exited") /\ readTorn' = TRUE /\ UNCHANGED <<now, super, born, dst>>
      BY <1>1, <1>15, <2>2, EndsIs DEF ReadConfig
    <3>2. QED  BY <1>1, <1>15, <2>2, <3>1 DEF ReadConfig, EndOf
  <2>3. QED  BY <2>1, <2>2
<1>16. ASSUME NEW u \in Upstreams, Probe(u) PROVE HealthIsTrue'
  BY <1>1, <1>16 DEF Probe, Serving
<1>17. CASE UNCHANGED vars
  BY <1>1, <1>17 DEF vars
<1>18. QED  BY <1>1, <1>2, <1>3, <1>4, <1>5, <1>6, <1>7, <1>8, <1>9, <1>10,
     <1>11, <1>12, <1>13, <1>14, <1>15, <1>16, <1>17 DEF Next, Supervisor

(* No time passes before all are started, nor while a write is due. *)
LEMMA YoungStep == Types /\ Swept /\ PhaseFits /\ WritersAreYoung /\ [Next]_vars => WritersAreYoung'
<1>1. SUFFICES ASSUME Types, Swept, PhaseFits, WritersAreYoung, [Next]_vars PROVE WritersAreYoung'
  OBVIOUS
<1> USE ConstantsAssumption DEF Types, Swept, PhaseFits, WritersAreYoung, Procs,
     Pipelines, Front, Vllm, Ended, super, config, front
<1>2. CASE Start
  BY <1>1, <1>2 DEF Start, StartFails
<1>3. CASE Loop
  BY <1>1, <1>3 DEF Loop
<1>4. CASE Poll
  BY <1>1, <1>4 DEF Poll, ExitCode
<1>5. CASE Terminate
  BY <1>1, <1>5 DEF Terminate
<1>6. CASE Wait
  BY <1>1, <1>6 DEF Wait, Waited, Ends, Deadline
<1>7. CASE Signal
  BY <1>1, <1>7 DEF Signal
<1>8. CASE Tick
  BY <1>1, <1>8 DEF Tick, Prompt, Waiting, Deadline
<1>9. CASE AskHealth
  BY <1>1, <1>9 DEF AskHealth, Serving
<1>10. CASE AnswerHealth
  BY <1>1, <1>10 DEF AnswerHealth, AllOk
<1>11. ASSUME NEW p \in Procs, Exit(p) PROVE WritersAreYoung'
  BY <1>1, <1>11 DEF Exit, Ends
<1>12. ASSUME NEW p \in Procs, Ready(p) PROVE WritersAreYoung'
  BY <1>1, <1>12 DEF Ready, Serves
<1>13. ASSUME NEW p \in Procs, OpenConfig(p) PROVE WritersAreYoung'
  BY <1>1, <1>13 DEF OpenConfig
<1>14. ASSUME NEW p \in Procs, WriteConfig(p) PROVE WritersAreYoung'
  BY <1>1, <1>14 DEF WriteConfig
<1>15. ASSUME NEW p \in Procs, ReadConfig(p) PROVE WritersAreYoung'
  BY <1>1, <1>15 DEF ReadConfig, Serves, Ends
<1>16. ASSUME NEW u \in Upstreams, Probe(u) PROVE WritersAreYoung'
  BY <1>1, <1>16 DEF Probe, Serving
<1>17. CASE UNCHANGED vars
  BY <1>1, <1>17 DEF vars
<1>18. QED  BY <1>1, <1>2, <1>3, <1>4, <1>5, <1>6, <1>7, <1>8, <1>9, <1>10,
     <1>11, <1>12, <1>13, <1>14, <1>15, <1>16, <1>17 DEF Next, Supervisor

(* Only an end between the truncation and the write leaves a torn file. *)
LEMMA TornStep == Types /\ Swept /\ PhaseFits /\ WritersAreYoung /\ TornHasCulprit /\ [Next]_vars => TornHasCulprit'
<1>1. SUFFICES ASSUME Types, Swept, PhaseFits, WritersAreYoung, TornHasCulprit, [Next]_vars PROVE TornHasCulprit'
  OBVIOUS
<1> USE ConstantsAssumption DEF Types, Swept, PhaseFits, WritersAreYoung,
     TornHasCulprit, Procs, Pipelines, Front, Vllm, Ended, super, config, front
<1>2. CASE Start
  <2>1. CASE StartFails
    BY <1>1, <1>2, <2>1 DEF Start, StartFails
  <2>2. CASE ~StartFails
    <3>1. proc' = [proc EXCEPT ![i] = "alive"] /\ born' = [born EXCEPT ![i] = now]
      BY <1>2, <2>2 DEF Start
    <3>2. \/ i = Front /\ pc' = "loop" /\ i' = 1
          \/ i # Front /\ pc' = pc /\ i' = i + 1
      BY <1>2, <2>2 DEF Start
    <3>3. QED  BY <1>1, <1>2, <3>1, <3>2 DEF Start
  <2>3. QED  BY <2>1, <2>2
<1>3. CASE Loop
  BY <1>1, <1>3 DEF Loop
<1>4. CASE Poll
  BY <1>1, <1>4 DEF Poll, ExitCode
<1>5. CASE Terminate
  BY <1>1, <1>5 DEF Terminate
<1>6. CASE Wait
  <2>1. WaitOf
    BY <1>1, <1>6, WaitIs
  <2>2. CASE proc' = proc
    BY <1>1, <2>1, <2>2 DEF WaitOf, EndOf
  <2>3. ASSUME NEW p \in Procs, p = i, EndOf(p, "killed")
        PROVE  TornHasCulprit'
    <3>1. dst' = dst /\ readTorn' = readTorn
      BY <2>1 DEF WaitOf
    <3>2. \A q \in Procs : phase'[q] \in {phase[q], "boot"}
      BY <1>1, <2>3 DEF EndOf
    <3>3. \A q \in Procs : proc[q] \in Ended \/ phase[q] = "opened" => 
                            proc'[q] \in Ended \/ phase'[q] = "opened"
      BY <1>1, <2>3 DEF EndOf
    <3>4. \A q \in Procs : proc[q] \in Ended => proc'[q] \in Ended
      BY <1>1, <2>3 DEF EndOf
    <3>5. QED  BY <1>1, <3>1, <3>2, <3>3, <3>4
  <2>4. QED  BY <2>1, <2>2, <2>3 DEF WaitOf
<1>7. CASE Signal
  BY <1>1, <1>7 DEF Signal
<1>8. CASE Tick
  BY <1>1, <1>8 DEF Tick, Prompt, Waiting, Deadline
<1>9. CASE AskHealth
  BY <1>1, <1>9 DEF AskHealth, Serving
<1>10. CASE AnswerHealth
  BY <1>1, <1>10 DEF AnswerHealth, AllOk
<1>11. ASSUME NEW p \in Procs, Exit(p) PROVE TornHasCulprit'
  BY <1>1, <1>11 DEF Exit, Ends
<1>12. ASSUME NEW p \in Procs, Ready(p) PROVE TornHasCulprit'
  BY <1>1, <1>12 DEF Ready, Serves
<1>13. ASSUME NEW p \in Procs, OpenConfig(p) PROVE TornHasCulprit'
  BY <1>1, <1>13 DEF OpenConfig
<1>14. ASSUME NEW p \in Procs, WriteConfig(p) PROVE TornHasCulprit'
  BY <1>1, <1>14 DEF WriteConfig
<1>15. ASSUME NEW p \in Procs, ReadConfig(p) PROVE TornHasCulprit'
  <2>1. CASE dst = "whole"
    <3>1. Serves(p) /\ UNCHANGED <<now, super, proc, born, config, probe, health>>
      BY <1>15, <2>1 DEF ReadConfig, config
    <3>2. QED  BY <1>1, <1>15, <2>1, <3>1 DEF ReadConfig, Serves
  <2>2. CASE dst # "whole"
    <3>1. EndOf(p, "exited") /\ readTorn' = TRUE /\ dst' = dst
      BY <1>1, <1>15, <2>2, EndsIs DEF ReadConfig
    <3>2. proc[p] = "alive" /\ phase[p] = "written" /\ now > WriteBy
      BY <1>1, <1>15 DEF ReadConfig
    <3>3. p \in Pipelines
      BY <1>1, <3>2
    <3>4. dst = "torn"
      BY <1>1, <2>2, <3>2, <3>3
    <3>5. PICK q \in Pipelines : proc[q] \in Ended
      BY <1>1, <3>2, <3>4
    <3>6. q # p /\ proc'[q] \in Ended /\ proc'[p] \in Ended
      BY <3>1, <3>2, <3>5 DEF EndOf
    <3>7. \A r \in Procs : phase'[r] \in {phase[r], "boot"}
      BY <1>1, <3>1 DEF EndOf
    <3>8. QED  BY <1>1, <3>1, <3>3, <3>4, <3>5, <3>6, <3>7
  <2>3. QED  BY <2>1, <2>2
<1>16. ASSUME NEW u \in Upstreams, Probe(u) PROVE TornHasCulprit'
  BY <1>1, <1>16 DEF Probe, Serving
<1>17. CASE UNCHANGED vars
  BY <1>1, <1>17 DEF vars
<1>18. QED  BY <1>1, <1>2, <1>3, <1>4, <1>5, <1>6, <1>7, <1>8, <1>9, <1>10,
     <1>11, <1>12, <1>13, <1>14, <1>15, <1>16, <1>17 DEF Next, Supervisor

(* The sweep of _stop sends every SIGTERM at one moment. *)
LEMMA TimedStep == Types /\ Swept /\ StopIsTimed /\ [Next]_vars => StopIsTimed'
<1>1. SUFFICES ASSUME Types, Swept, StopIsTimed, [Next]_vars PROVE StopIsTimed'
  OBVIOUS
<1> USE ConstantsAssumption DEF Types, Swept, StopIsTimed, SomeAlive, Procs,
     Front, Ended, super, config, front
<1>2. CASE Start
  BY <1>1, <1>2 DEF Start, StartFails
<1>3. CASE Loop
  BY <1>1, <1>3 DEF Loop
<1>4. CASE Poll
  BY <1>1, <1>4 DEF Poll, ExitCode
<1>5. CASE Terminate
  BY <1>1, <1>5 DEF Terminate
<1>6. CASE Wait
  <2>1. WaitOf
    BY <1>1, <1>6, WaitIs
  <2>2. CASE proc' = proc
    BY <1>1, <2>1, <2>2 DEF WaitOf, EndOf
  <2>3. ASSUME NEW p \in Procs, p = i, proc[p] = "alive", now >= deadline, EndOf(p, "killed")
        PROVE  StopIsTimed'
    BY <1>1, <2>1, <2>3 DEF WaitOf, EndOf
  <2>4. QED  BY <2>1, <2>2, <2>3 DEF WaitOf
<1>7. CASE Signal
  BY <1>1, <1>7 DEF Signal
<1>8. CASE Tick
  BY <1>1, <1>8 DEF Tick, Prompt, Waiting, Deadline
<1>9. CASE AskHealth
  BY <1>1, <1>9 DEF AskHealth, Serving
<1>10. CASE AnswerHealth
  BY <1>1, <1>10 DEF AnswerHealth, AllOk
<1>11. ASSUME NEW p \in Procs, Exit(p) PROVE StopIsTimed'
  BY <1>1, <1>11 DEF Exit, Ends
<1>12. ASSUME NEW p \in Procs, Ready(p) PROVE StopIsTimed'
  BY <1>1, <1>12 DEF Ready, Serves
<1>13. ASSUME NEW p \in Procs, OpenConfig(p) PROVE StopIsTimed'
  BY <1>1, <1>13 DEF OpenConfig
<1>14. ASSUME NEW p \in Procs, WriteConfig(p) PROVE StopIsTimed'
  BY <1>1, <1>14 DEF WriteConfig
<1>15. ASSUME NEW p \in Procs, ReadConfig(p) PROVE StopIsTimed'
  <2>1. CASE dst = "whole"
    <3>1. Serves(p) /\ UNCHANGED <<now, super, proc, born, config, probe, health>>
      BY <1>15, <2>1 DEF ReadConfig, config
    <3>2. QED  BY <1>1, <1>15, <2>1, <3>1 DEF ReadConfig, Serves
  <2>2. CASE dst # "whole"
    <3>1. EndOf(p, "exited") /\ readTorn' = TRUE /\ UNCHANGED <<now, super, born, dst>>
      BY <1>1, <1>15, <2>2, EndsIs DEF ReadConfig
    <3>2. QED  BY <1>1, <1>15, <2>2, <3>1 DEF ReadConfig, EndOf
  <2>3. QED  BY <2>1, <2>2
<1>16. ASSUME NEW u \in Upstreams, Probe(u) PROVE StopIsTimed'
  BY <1>1, <1>16 DEF Probe, Serving
<1>17. CASE UNCHANGED vars
  BY <1>1, <1>17 DEF vars
<1>18. QED  BY <1>1, <1>2, <1>3, <1>4, <1>5, <1>6, <1>7, <1>8, <1>9, <1>10,
     <1>11, <1>12, <1>13, <1>14, <1>15, <1>16, <1>17 DEF Next, Supervisor


LEMMA Invariance == Spec => []IInv
<1>1. IInv /\ [Next]_vars => IInv'
  BY TypesStep, SweptStep, ZeroStep, FreshStep, NeverUpStep, HealthStep,
       YoungStep, TornStep,
     TimedStep DEF IInv
<1>2. QED  BY <1>1, InitIInv, PTL DEF Spec

-----------------------------------------------------------------------------
(* Every variable keeps its type. *)
THEOREM TypeCorrect == Spec => []Types
<1>1. IInv => Types
  BY DEF IInv
<1>2. QED  BY <1>1, Invariance, PTL

(* Whatever ends the supervisor, it leaves no child behind, and it exits   *)
(* with 0 only after a signal.                                             *)
THEOREM EndIsCleanHolds == Spec => []EndIsClean
<1>1. IInv => EndIsClean
  BY DEF IInv, Swept, ZeroIsAsked, EndIsClean
<1>2. QED  BY <1>1, Invariance, PTL

(* A health check that answers 200 has seen every upstream serve.          *)
THEOREM HealthIsTrueHolds == Spec => []HealthIsTrue
<1>1. IInv => HealthIsTrue
  BY DEF IInv
<1>2. QED  BY <1>1, Invariance, PTL

(* A pipeline that finds the shared file torn is not the first to end.     *)
THEOREM NoTornConfigHolds == Spec => []NoTornConfig
<1>1. IInv => NoTornConfig
  BY ConstantsAssumption
     DEF IInv, TornHasCulprit, NoTornConfig, Ended
<1>2. QED  BY <1>1, Invariance, PTL

(* What StopKeepsGrace asks of a step. *)
GraceStep ==
  /\ \A p \in Procs : proc[p] = "alive" /\ proc'[p] = "killed" =>
       termAt[p] # None /\ now - termAt[p] >= Grace
  /\ \A p \in Procs : termAt[p] # None /\ pc # "done" => now' - termAt[p] <= Grace

(* Time passes only before the deadline, which is Grace after SIGTERM. *)
LEMMA GraceOfTick == IInv /\ Tick => GraceStep
<1>1. SUFFICES ASSUME IInv, Tick PROVE GraceStep
  OBVIOUS
<1>2. now' = now + 1 /\ proc' = proc /\ pc \in {"loop", "poll", "wait"}
  BY <1>1 DEF IInv, Types, Tick, Prompt
<1>3. ASSUME NEW p \in Procs, termAt[p] # None PROVE now' - termAt[p] <= Grace
  <2>1. pc = "wait"
    BY <1>1, <1>2, <1>3 DEF IInv, StopIsTimed
  <2>2. SomeAlive /\ now < deadline /\ deadline \in Nat
    BY <1>1, <2>1 DEF IInv, Types, StopIsTimed, SomeAlive, Tick, Prompt,
         Waiting, Deadline
  <2>3. termAt[p] = deadline - Grace
    BY <1>1, <1>3, <2>1, <2>2 DEF IInv, StopIsTimed
  <2>4. QED  BY <1>1, <1>2, <2>2, <2>3, ConstantsAssumption DEF IInv, Types
<1>4. QED  BY <1>2, <1>3 DEF GraceStep

(* SIGKILL comes at the deadline. *)
LEMMA GraceOfWait == IInv /\ Wait => GraceStep
<1>1. SUFFICES ASSUME IInv, Wait PROVE GraceStep
  OBVIOUS
<1>2. WaitOf
  BY <1>1, WaitIs DEF IInv
<1>3. ASSUME NEW p \in Procs, proc[p] = "alive", proc'[p] = "killed"
      PROVE  termAt[p] # None /\ now - termAt[p] >= Grace
  <2>1. p = i /\ now >= deadline /\ pc = "wait"
    BY <1>2, <1>3 DEF WaitOf, EndOf
  <2>2. termAt[p] = deadline - Grace /\ deadline \in Nat
    BY <1>1, <1>3, <2>1 DEF IInv, Types, StopIsTimed, SomeAlive
  <2>3. QED  BY <1>1, <2>1, <2>2, ConstantsAssumption DEF IInv, Types
<1>4. ASSUME NEW p \in Procs, termAt[p] # None PROVE now' - termAt[p] <= Grace
  <2>1. now' = now /\ now <= termAt[p] + Grace
    BY <1>1, <1>2, <1>4 DEF IInv, StopIsTimed, WaitOf
  <2>2. QED  BY <1>1, <1>4, <2>1, ConstantsAssumption DEF IInv, Types
<1>5. QED  BY <1>3, <1>4 DEF GraceStep

(* The other steps take no time and kill nobody. *)
LEMMA GraceOfOthers ==
  ASSUME IInv, now' = now, \A p \in Procs : proc'[p] = "killed" => proc[p] # "alive"
  PROVE  GraceStep
<1>1. ASSUME NEW p \in Procs, termAt[p] # None PROVE now' - termAt[p] <= Grace
  BY <1>1, ConstantsAssumption DEF IInv, Types, StopIsTimed
<1>2. QED  BY <1>1 DEF GraceStep

(* Each child has the whole grace period, and all together only one.       *)
THEOREM StopAlwaysKeepsGrace == Spec => StopKeepsGrace
<1>1. IInv /\ [Next]_vars => [GraceStep]_vars
  <2>0. SUFFICES ASSUME IInv, [Next]_vars PROVE [GraceStep]_vars
    OBVIOUS
  <2> DEFINE Quiet == now' = now /\ \A p \in Procs : proc'[p] = "killed" => proc[p] # "alive"
  <2>1. CASE Start
    <3>1. Quiet
      BY <2>0, <2>1 DEF IInv, Types, Ended, Start
    <3>2. QED  BY <2>0, <3>1, GraceOfOthers
  <2>2. CASE Loop \/ Poll \/ Terminate \/ Signal \/ AskHealth \/ AnswerHealth
    <3>1. Quiet
      BY <2>0, <2>2 DEF Loop, Poll, Terminate, Signal, AskHealth, AnswerHealth
    <3>2. QED  BY <2>0, <3>1, GraceOfOthers
  <2>3. CASE Wait
    BY <2>0, <2>3, GraceOfWait
  <2>4. CASE Tick
    BY <2>0, <2>4, GraceOfTick
  <2>5. ASSUME NEW p \in Procs, Exit(p) PROVE GraceStep
    <3>1. EndOf(p, "exited") /\ now' = now
      BY <2>0, <2>5, EndsIs DEF IInv, Exit, Ended
    <3>2. Quiet
      BY <2>0, <3>1 DEF EndOf
    <3>3. QED  BY <2>0, <3>2, GraceOfOthers
  <2>6. ASSUME NEW p \in Procs, Ready(p) \/ OpenConfig(p) \/ WriteConfig(p) PROVE GraceStep
    <3>1. Quiet
      BY <2>0, <2>6 DEF Ready, OpenConfig, WriteConfig
    <3>2. QED  BY <2>0, <3>1, GraceOfOthers
  <2>7. ASSUME NEW p \in Procs, ReadConfig(p) PROVE GraceStep
    <3>1. now' = now /\ (proc' = proc \/ EndOf(p, "exited"))
      BY <2>0, <2>7, EndsIs DEF IInv, ReadConfig, Ended
    <3>2. Quiet
      BY <2>0, <3>1 DEF EndOf
    <3>3. QED  BY <2>0, <3>2, GraceOfOthers
  <2>8. ASSUME NEW u \in Upstreams, Probe(u) PROVE GraceStep
    <3>1. Quiet
      BY <2>0, <2>8 DEF Probe
    <3>2. QED  BY <2>0, <3>1, GraceOfOthers
  <2>9. QED
    BY <2>0, <2>1, <2>2, <2>3, <2>4, <2>5, <2>6, <2>7, <2>8 DEF Next, Supervisor
<1>2. QED  BY <1>1, Invariance, PTL DEF Spec, StopKeepsGrace, GraceStep
=============================================================================
