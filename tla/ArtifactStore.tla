--------------------------- MODULE ArtifactStore ---------------------------
(***************************************************************************)
(* The artifact store of one document of docparse (docparse/artifacts.py). *)
(* Every stage of the parse keeps its result in a file, together with the  *)
(* hash of the config and the hashes of the input files it was made from.  *)
(* run_stage skips a stage when both still match.                          *)
(*                                                                         *)
(* The caller runs all stages in order (a pass), or one stage alone.  The  *)
(* config may change between two calls, a file may be deleted or become    *)
(* unreadable (an older schema), and a call may fail or be killed at any   *)
(* time.  A file is written beside its place and moved there, so a call    *)
(* that dies leaves either the old file or the new one.                    *)
(*                                                                         *)
(* Abstractions.  A hash is what was hashed: no two contents collide.  The *)
(* text of an artifact is the reply of its models, which may differ from   *)
(* call to call.  Configs of different stages are never compared, so they  *)
(* may begin alike.  One caller at a time works on a document.             *)
(***************************************************************************)
EXTENDS Naturals, Sequences

CONSTANTS
  Configs,     \* configs of a stage
  Replies,     \* what the models of a stage may answer
  Usual,       \* what they mostly answer
  None,        \* "absent"
  MaxUpsets    \* bound: config changes, calls that fail, files spoiled, unusual replies

(* The upstream artifacts each stage reads. *)
STAGE_INPUTS ==
  [classify |-> {}, layout |-> {}, segments |-> {"layout"}, readings |-> {"segments"},
   reconcile |-> {"layout", "segments", "readings"}, verify |-> {"classify", "reconcile"}]

Stages == {"classify", "layout", "segments", "readings", "reconcile", "verify"}
Order  == <<"classify", "layout", "segments", "readings", "reconcile", "verify">>

ASSUME ConstantsAssumption ==
  /\ MaxUpsets \in Nat
  /\ Usual \in Replies
  /\ None \notin Stages /\ None \notin [Stages -> Configs]

VARIABLES
  file,      \* the artifact files there are, by stage
  config,    \* the config of each stage
  pos,       \* position of the pass in Order, 0 outside of a pass
  call,      \* the stage whose compute() is under way
  inputs,    \* the input hashes taken before it
  built,     \* the config of the last pass that was completed
  touched,   \* stages written or spoiled since, outside of a completed pass
  computed,  \* stages computed in this pass
  upsets     \* counter for the bound

vars == <<file, config, pos, call, inputs, built, touched, computed, upsets>>

Init ==
  /\ file = [s \in {} |-> None]
  /\ \E c \in Configs : config = [s \in Stages |-> c]
  /\ pos = 0
  /\ call = None /\ inputs = None
  /\ built = None
  /\ touched = {} /\ computed = {}
  /\ upsets = 0

-----------------------------------------------------------------------------
(* input_hashes: an input that is missing raises. *)
InputsExist(s) == STAGE_INPUTS[s] \subseteq DOMAIN file

InputHashes(s) == [i \in STAGE_INPUTS[s] |-> file[i]]

(* Mutant of IsFresh: inputs are not compared. *)
IsFreshConfig(s) ==
  /\ s \in DOMAIN file
  /\ file[s].readable
  /\ file[s].config = config[s]

(* Mutant of IsFresh: the config is compared with its hash. *)
IsFreshNever(s) ==
  /\ s \in DOMAIN file
  /\ file[s].config = <<config[s]>>

(* is_fresh: the artifact can be read and was made from this config and    *)
(* these inputs.                                                           *)
IsFresh(s) ==
  /\ s \in DOMAIN file
  /\ file[s].readable
  /\ file[s].config = config[s]
  /\ file[s].inputs = InputHashes(s)

(* A pass begins with the first stage. *)
BeginPass ==
  /\ pos = 0 /\ call = None
  /\ pos' = 1
  /\ UNCHANGED <<file, config, call, inputs, built, touched, computed, upsets>>

(* The stage that is called: the next one of the pass, or any one alone. *)
Callable(s) == call = None /\ (pos # 0 => Order[pos] = s)

(* The call returned: the pass goes on, or is complete. *)
Advance(newly) ==
  IF pos = Len(Order)
    THEN pos' = 0 /\ built' = config /\ touched' = {} /\ computed' = {}
    ELSE /\ pos' = IF pos = 0 THEN 0 ELSE pos + 1
         /\ computed' = IF pos = 0 THEN computed ELSE computed \cup newly
         /\ touched' = IF pos = 0 THEN touched \cup newly ELSE touched
         /\ UNCHANGED built

(* run_stage finds the artifact fresh and returns it. *)
Skip(s) ==
  /\ Callable(s)
  /\ InputsExist(s)
  /\ IsFresh(s)
  /\ Advance({})
  /\ UNCHANGED <<file, config, call, inputs, upsets>>

(* It does not, and computes the stage.  The meta it hands to compute()    *)
(* holds the input hashes it took first.                                   *)
Compute(s) ==
  /\ Callable(s)
  /\ InputsExist(s)
  /\ ~IsFresh(s)
  /\ call' = s
  /\ inputs' = InputHashes(s)
  /\ UNCHANGED <<file, config, pos, built, touched, computed, upsets>>

(* compute() returned an artifact with that meta: move it into place. *)
Write(reply) ==
  /\ call # None
  /\ reply # Usual => upsets < MaxUpsets
  /\ upsets' = IF reply = Usual THEN upsets ELSE upsets + 1
  /\ file' = [s \in DOMAIN file \cup {call} |->
       IF s = call
         THEN [config |-> config[call], inputs |-> inputs, reply |-> reply, readable |-> TRUE]
         ELSE file[s]]
  /\ Advance({call})
  /\ call' = None /\ inputs' = None
  /\ UNCHANGED config

(* The call raises or is killed, and the pass with it. *)
Fail ==
  /\ pos # 0 \/ call # None
  /\ upsets < MaxUpsets
  /\ upsets' = upsets + 1
  /\ pos' = 0 /\ call' = None /\ inputs' = None
  /\ touched' = touched \cup computed
  /\ computed' = {}
  /\ UNCHANGED <<file, config, built>>

(* Between two calls the config of a stage changes. *)
ChangeConfig ==
  /\ pos = 0 /\ call = None
  /\ upsets < MaxUpsets
  /\ upsets' = upsets + 1
  /\ \E s \in Stages, c \in Configs : config' = [config EXCEPT ![s] = c]
  /\ UNCHANGED <<file, pos, call, inputs, built, touched, computed>>

(* Between two calls a file is deleted, or can no longer be parsed. *)
Spoil ==
  /\ pos = 0 /\ call = None
  /\ upsets < MaxUpsets
  /\ upsets' = upsets + 1
  /\ \E s \in DOMAIN file :
       /\ \/ file' = [t \in DOMAIN file \ {s} |-> file[t]]
          \/ file' = [file EXCEPT ![s] = [@ EXCEPT !.readable = FALSE]]
       /\ touched' = touched \cup {s}
  /\ UNCHANGED <<config, pos, call, inputs, built, computed>>

Next ==
  \/ BeginPass
  \/ \E s \in Stages : Skip(s) \/ Compute(s)
  \/ \E reply \in Replies : Write(reply)
  \/ Fail \/ ChangeConfig \/ Spoil

Spec == Init /\ [][Next]_vars

-----------------------------------------------------------------------------
(* Properties                                                              *)

(* Every variable has its type. *)
TypeOK ==
  /\ DOMAIN file \subseteq Stages
  /\ \A s \in DOMAIN file :
       /\ DOMAIN file[s] = {"config", "inputs", "reply", "readable"}
       /\ file[s].config \in Configs
       /\ DOMAIN file[s].inputs = STAGE_INPUTS[s]
       /\ file[s].reply \in Replies
       /\ file[s].readable \in BOOLEAN
  /\ config \in [Stages -> Configs]
  /\ pos \in 0..Len(Order)
  /\ call \in Stages \cup {None}
  /\ built \in [Stages -> Configs] \cup {None}
  /\ touched \subseteq Stages /\ computed \subseteq Stages
  /\ upsets \in Nat

(* The artifact of a stage is what a build from scratch with this config   *)
(* would make of the artifacts before it.                                  *)
UpToDate(s) ==
  /\ s \in DOMAIN file
  /\ file[s].readable
  /\ file[s].config = config[s]
  /\ \A i \in STAGE_INPUTS[s] : file[s].inputs[i] = file[i]

(* Skipping never shows: what a pass has been over, and everything once it *)
(* is complete, is what a pass over an empty directory would have made,    *)
(* whatever failed, was changed or was spoiled before.                     *)
PassBuildsEverything ==
  /\ \A k \in 1..(pos - 1) : UpToDate(Order[k])
  /\ pos = 0 /\ built = config /\ touched = {} => \A s \in Stages : UpToDate(s)

(* The stages at or after one of these. *)
Downstream(from) ==
  {s \in Stages : \A closed \in SUBSET Stages :
     /\ from \subseteq closed
     /\ \A t \in Stages : STAGE_INPUTS[t] \cap closed # {} => t \in closed
     => s \in closed}

(* "a config change re-runs only that stage and the stages downstream of   *)
(* it" (add-docparse-system, tasks.md): a pass computes nothing that is    *)
(* not at or after a stage whose config changed since the last pass, or    *)
(* whose file was written or spoiled since.                                *)
RerunsOnlyDownstream ==
  pos # 0 /\ built # None =>
    computed \cup ({call} \ {None}) \subseteq
      Downstream({s \in Stages : config[s] # built[s]} \cup touched)
=============================================================================
