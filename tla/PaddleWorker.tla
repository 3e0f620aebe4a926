---------------------------- MODULE PaddleWorker ----------------------------
(***************************************************************************)
(* The PaddleOCR-VL worker: one container with vLLM, some PaddleX          *)
(* pipelines and the front, all children of runpod/paddle_supervisor.py.   *)
(*                                                                         *)
(* The supervisor starts the children back to back, polls them one after   *)
(* the other, and stops all of them when one exits or a signal comes.      *)
(* Every pipeline rewrites the same configuration file and reads it back   *)
(* seconds later (.devcontainer/paddle-pipeline-entrypoint.py).  The front *)
(* (runpod/paddle_front.py) answers health checks by asking vLLM and every *)
(* pipeline.                                                               *)
(*                                                                         *)
(* A child may exit at any time, with or without an error, obey SIGTERM or *)
(* ignore it; SIGKILL always ends it.  Time is discrete; the supervisor's  *)
(* own steps take none.  The front's proxying is left out: it keeps nothing  *)
(* but whose turn it is.                                                   *)
(***************************************************************************)
EXTENDS Integers

CONSTANTS
  N,           \* PADDLE_PIPELINES
  Grace,       \* _STOP_GRACE_S
  WriteBy,     \* a pipeline has written the file by this age ("in its first second")
  ReadFrom,    \* and reads it no earlier than at this age ("seconds of imports later")
  Horizon,     \* bound: the clock, while nothing is being stopped
  None         \* "absent"

ASSUME ConstantsAssumption ==
  /\ N \in Nat \ {0}      \* build_commands exits otherwise
  /\ Grace \in Nat /\ WriteBy \in Nat /\ ReadFrom \in Nat /\ WriteBy < ReadFrom
  /\ Horizon \in Nat /\ None \notin Int

(* The commands, in the order of build_commands.                           *)
Vllm      == 1
Pipelines == 2..(N + 1)
Front     == N + 2
Procs     == 1..(N + 2)
Upstreams == {Vllm} \cup Pipelines

VARIABLES
  now,       \* the clock
  pc,        \* supervisor: "start", "loop", "poll", "terminate", "wait", "done"
  i,         \* ... and the child it is at
  stopping,  \* a signal has come
  ret,       \* exit code of the supervisor
  final,     \* _stop was called by the finally clause
  deadline,  \* end of the grace period
  proc,      \* "none", "alive", "exited" or "killed"
  termAt,    \* when a child was sent SIGTERM
  born,      \* when a child was started
  phase,     \* a pipeline: "boot", "opened", "written"; any child: "serving"
  dst,       \* the pipelines' file: "absent", "torn", "whole"
  readTorn,  \* a pipeline has read a file that was not whole
  probe,     \* the health check: of each upstream "idle", "asked", "yes", "no"
  health,    \* its answer: 200 or 204
  neverUp    \* upstreams that did not serve at any time since it began

super  == <<pc, i, stopping, ret, final, deadline, termAt>>
config == <<dst, readTorn>>
front  == <<probe, health, neverUp>>
vars   == <<now, super, proc, born, phase, config, front>>

Idle == [u \in Upstreams |-> "idle"]

Serving(p) == proc[p] = "alive" /\ phase[p] = "serving"

Init ==
  /\ now = 0 /\ pc = "start" /\ i = 1 /\ stopping = FALSE /\ ret = None
  /\ final = FALSE /\ deadline = None
  /\ proc = [p \in Procs |-> "none"]
  /\ termAt = [p \in Procs |-> None]
  /\ born = [p \in Procs |-> None]
  /\ phase = [p \in Procs |-> "boot"]
  /\ dst = "absent" /\ readTorn = FALSE
  /\ probe = Idle /\ health = None /\ neverUp = {}

-----------------------------------------------------------------------------
(* The end of a child, and of what it was about.                           *)
Ends(p, how) ==
  /\ proc' = [proc EXCEPT ![p] = how]
  /\ phase' = [phase EXCEPT ![p] = "boot"]
  /\ IF p = Front THEN probe' = Idle /\ health' = None /\ neverUp' = {}
                  ELSE UNCHANGED front

(* The supervisor.                                                         *)

(* Mutant of StartFails: without the finally clause. *)
StartFailsForGood == pc' = "done" /\ UNCHANGED <<i, final>>

(* Popen raises: only the finally clause stops what runs. *)
StartFails == pc' = "terminate" /\ i' = 1 /\ final' = TRUE

Start ==
  /\ pc = "start"
  /\ \/ /\ proc' = [proc EXCEPT ![i] = "alive"]
        /\ born' = [born EXCEPT ![i] = now]
        /\ IF i = Front THEN pc' = "loop" /\ i' = 1 ELSE pc' = pc /\ i' = i + 1
        /\ UNCHANGED <<ret, final>>
     \/ /\ StartFails
        /\ ret' = 1        \* the exception leaves main
        /\ UNCHANGED <<proc, born>>
  /\ UNCHANGED <<now, stopping, deadline, termAt, phase, config, front>>

(* Mutant of Loop: the signal does not end it. *)
LoopForever ==
  /\ pc = "loop" /\ pc' = "poll"
  /\ UNCHANGED <<now, i, stopping, ret, final, deadline, termAt, proc, born, phase, config, front>>

(* `while not stopping` *)
Loop ==
  /\ pc = "loop"
  /\ IF stopping THEN pc' = "terminate" /\ ret' = 0 ELSE pc' = "poll" /\ UNCHANGED ret
  /\ UNCHANGED <<now, i, stopping, final, deadline, termAt, proc, born, phase, config, front>>

(* Mutant of ExitCode: the child's own code. *)
OwnCode(code) == code

(* `code or 1` *)
ExitCode(code) == IF code = 0 THEN 1 ELSE code

Poll ==
  /\ pc = "poll"
  /\ IF proc[i] # "alive"
       THEN /\ pc' = "terminate" /\ i' = 1
            /\ \E code \in {0, 3} : ret' = ExitCode(code)    \* however it exited
       ELSE /\ IF i = Front THEN pc' = "loop" /\ i' = 1 ELSE pc' = pc /\ i' = i + 1
            /\ UNCHANGED ret
  /\ UNCHANGED <<now, stopping, final, deadline, termAt, proc, born, phase, config, front>>

(* First every child still there is sent SIGTERM, ... *)
Terminate ==
  /\ pc = "terminate"
  /\ termAt' = IF proc[i] = "alive" THEN [termAt EXCEPT ![i] = now] ELSE termAt
  /\ IF i = Front THEN pc' = "wait" /\ i' = 1 /\ deadline' = now + Grace
                  ELSE pc' = pc /\ i' = i + 1 /\ UNCHANGED deadline
  /\ UNCHANGED <<now, stopping, ret, final, proc, born, phase, config, front>>

(* Mutant of Deadline: a grace period for each child in turn. *)
DeadlineEach == deadline + (i - 1) * Grace

(* The grace period is one for all. *)
Deadline == deadline

(* On to the next child; _stop is called twice, by the finally clause too. *)
Waited ==
  IF i < Front THEN i' = i + 1 /\ UNCHANGED <<pc, final>>
  ELSE /\ i' = 1
       /\ final' = TRUE
       /\ pc' = IF final THEN "done" ELSE "terminate"

(* ... then each is waited for, and killed when the grace period is over. *)
Wait ==
  /\ pc = "wait"
  /\ Waited
  /\ \/ proc[i] # "alive" /\ UNCHANGED <<proc, phase, front>>
     \/ /\ proc[i] = "alive" /\ now >= Deadline
        /\ Ends(i, "killed")
  /\ UNCHANGED <<now, stopping, ret, deadline, termAt, born, config>>

(* SIGTERM or SIGINT: the handler sets a flag and nothing else. *)
Signal ==
  /\ pc # "done" /\ ~stopping
  /\ stopping' = TRUE
  /\ UNCHANGED <<now, pc, i, ret, final, deadline, termAt, proc, born, phase, config, front>>

-----------------------------------------------------------------------------
(* The children.                                                           *)
Exit(p) ==
  /\ proc[p] = "alive"
  /\ Ends(p, "exited")
  /\ UNCHANGED <<now, super, born, config>>

(* vLLM and the front begin to serve; a pipeline does after its read. *)
Serves(p) ==
  /\ phase' = [phase EXCEPT ![p] = "serving"]
  /\ neverUp' = neverUp \ {p}

Ready(p) ==
  /\ proc[p] = "alive" /\ p \notin Pipelines /\ phase[p] = "boot"
  /\ Serves(p)
  /\ UNCHANGED <<now, super, proc, born, config, probe, health>>

(* open(DST, "w") truncates the file the others have written, ... *)
OpenConfig(p) ==
  /\ proc[p] = "alive" /\ p \in Pipelines /\ phase[p] = "boot"
  /\ phase' = [phase EXCEPT ![p] = "opened"]
  /\ dst' = "torn"
  /\ UNCHANGED <<now, super, proc, born, readTorn, front>>

(* ... safe_dump writes the same content again, ... *)
WriteConfig(p) ==
  /\ proc[p] = "alive" /\ phase[p] = "opened"
  /\ phase' = [phase EXCEPT ![p] = "written"]
  /\ dst' = "whole"
  /\ UNCHANGED <<now, super, proc, born, readTorn, front>>

(* ... and paddlex, execed in the same process, reads it after its imports. *)
ReadConfig(p) ==
  /\ proc[p] = "alive" /\ phase[p] = "written"
  /\ now >= born[p] + ReadFrom
  /\ IF dst = "whole"
       THEN Serves(p) /\ UNCHANGED <<proc, probe, health, readTorn>>
       ELSE Ends(p, "exited") /\ readTorn' = TRUE
  /\ UNCHANGED <<now, super, born, dst>>

-----------------------------------------------------------------------------
(* The front.                                                              *)

(* GET /ping or /health: gather asks every upstream at once. *)
AskHealth ==
  /\ Serving(Front)
  /\ probe = Idle
  /\ probe' = [u \in Upstreams |-> "asked"]
  /\ neverUp' = {u \in Upstreams : ~Serving(u)}
  /\ health' = None
  /\ UNCHANGED <<now, super, proc, born, phase, config>>

(* An upstream that serves answers 200, or too late (_HEALTH_TIMEOUT). *)
Probe(u) ==
  /\ Serving(Front)
  /\ probe[u] = "asked"
  /\ \E a \in {"yes", "no"} : (a = "yes" => Serving(u)) /\ probe' = [probe EXCEPT ![u] = a]
  /\ UNCHANGED <<now, super, proc, born, phase, config, health, neverUp>>

(* Mutant of AllOk: one pipeline is enough. *)
SomeOk == probe[Vllm] = "yes" /\ \E u \in Pipelines : probe[u] = "yes"

AllOk == \A u \in Upstreams : probe[u] = "yes"

AnswerHealth ==
  /\ Serving(Front)
  /\ \A u \in Upstreams : probe[u] \in {"yes", "no"}
  /\ health' = IF AllOk THEN 200 ELSE 204
  /\ probe' = Idle
  /\ UNCHANGED <<now, super, proc, born, phase, config, neverUp>>

-----------------------------------------------------------------------------
(* p.wait has a timeout: time passes while the child lives on. *)
Waiting == pc = "wait" /\ proc[i] = "alive" /\ now < Deadline

(* Mutant of Prompt: a pause between two starts. *)
PromptStop == pc = "terminate" \/ (pc = "wait" /\ ~Waiting)

(* What takes no time: the starts are back to back, and so are the steps   *)
(* of _stop that do not wait.                                              *)
Prompt == pc \in {"start", "terminate"} \/ (pc = "wait" /\ ~Waiting)

Tick ==
  /\ pc # "done" /\ ~Prompt
  /\ now < Horizon \/ pc = "wait"
  /\ \A p \in Pipelines :
       proc[p] = "alive" /\ phase[p] \in {"boot", "opened"} => now < born[p] + WriteBy
  /\ now' = now + 1
  /\ UNCHANGED <<super, proc, born, phase, config, front>>

Supervisor == Start \/ Loop \/ Poll \/ Terminate \/ Wait

Next ==
  \/ Supervisor \/ Signal \/ Tick
  \/ \E p \in Procs : Exit(p) \/ Ready(p) \/ OpenConfig(p) \/ WriteConfig(p) \/ ReadConfig(p)
  \/ AskHealth \/ AnswerHealth \/ \E u \in Upstreams : Probe(u)

(* The supervisor keeps taking steps, time passes, and a pipeline gets on  *)
(* with its file.  No child ever has to exit, or to serve.                 *)
Spec ==
  /\ Init /\ [][Next]_vars
  /\ WF_vars(Supervisor) /\ WF_vars(Tick)
  /\ \A p \in Pipelines : WF_vars(OpenConfig(p)) /\ WF_vars(WriteConfig(p))

-----------------------------------------------------------------------------
(* The end of the supervisor leaves no child behind, on whichever path it  *)
(* ends (a child that exits, a signal, a start that raises), and its exit  *)
(* code is 0 only when it was asked to stop, so that Runpod replaces a     *)
(* worker that broke.                                                      *)
EndIsClean ==
  pc = "done" =>
    /\ \A p \in Procs : proc[p] # "alive"
    /\ ret = 0 => stopping

(* A child is killed only after the whole grace period since its own       *)
(* SIGTERM, whatever the others have used up of it, and all of them        *)
(* together take no more than one grace period to stop.                    *)
StopKeepsGrace ==
  [][/\ \A p \in Procs : proc[p] = "alive" /\ proc'[p] = "killed" =>
          termAt[p] # None /\ now - termAt[p] >= Grace
     /\ \A p \in Procs : termAt[p] # None /\ pc # "done" => now' - termAt[p] <= Grace]_vars

(* The front says 200 only if each upstream has served at some moment of   *)
(* the check: one that was dead, or still loading, all along shows.        *)
HealthIsTrue == health = 200 => neverUp = {}

(* No pipeline reads the shared file while another one rewrites it: if one *)
(* finds it torn, it is because another died between its truncation and    *)
(* its write, which ends the worker anyway.                                *)
NoTornConfig ==
  readTorn => \E p, q \in Pipelines : p # q /\ proc[p] # "alive" /\ proc[q] # "alive"

(* A child that dies, or a signal, ends the worker: it does not live on    *)
(* with half of its children behind the load balancer.                     *)
BrokenWorkerEnds ==
  (stopping \/ \E p \in Procs : proc[p] \in {"exited", "killed"}) ~> (pc = "done")

=============================================================================
