--------------------------- MODULE RunpodRelease ---------------------------
(***************************************************************************)
(* Release management of the Runpod endpoints: `ocrbench runpod deploy`,   *)
(* `deploy --promote` and `rollback` (ocr_bench/runpod), the parity        *)
(* verdict, and the gate of `ocrbench infer` that lets bank statement      *)
(* pages out (ocr_bench/cli.py).                                           *)
(*                                                                         *)
(* A command works on three things that no transaction covers: the         *)
(* templates and endpoints behind the REST API, the local state file       *)
(* (.runpod/state.yaml) and the committed release log                      *)
(* (configs/runpod/releases.yaml).  Each API write and each file write is  *)
(* a step, and a command may die after any step: an exception, a kill, or  *)
(* an API call that timed out after it took effect.                        *)
(*                                                                         *)
(* Abstractions.  A template id is the template's content: templates are   *)
(* never changed or deleted.  The log is kept per model, for it is only    *)
(* ever read filtered by model.  `deploy --digest D --promote` is a deploy *)
(* followed by a promotion, which loads everything again.  Refusals that   *)
(* depend on the config alone (data centres, logging flags, the pinned     *)
(* digest, the registry credential, secrets in a record) and the read-only *)
(* commands (status, render, --dry-run) change nothing and are left out.   *)
(***************************************************************************)
EXTENDS Naturals, Sequences

CONSTANTS
  Models,        \* model names; endpoint and templates are named after them
  QueueModels,   \* the models whose endpoint is queue based, the others load balance
  Images,        \* image digests
  Disks,         \* container disk sizes
  Wirings,       \* registry credential, ports and env of a container
  Volumes,       \* whether a config may name a network volume
  EndpointIds,   \* ids the API may give an endpoint
  Procs,         \* command invocations that may overlap
  None,          \* "absent"
  MaxReleases,   \* bound: releases logged per model
  MaxFails       \* bound: commands that die half way

Container == [image : Images, disk : Disks, wiring : Wirings]
Template  == [model : Models, container : Container]
Endpoint  == [model : Models, container : Container, volume : BOOLEAN, warm : BOOLEAN]
Entry     == [id : EndpointIds, template : Container, client_data : BOOLEAN]
StateFile == [Models -> Entry \cup {None}]
Record    == [image : Images, parity : {"pending", "pass", "fail"}, promoted : BOOLEAN]

(* The locals of a command: the state file as loaded, the endpoint as      *)
(* listed, what it is about to apply, and whether it made a release.       *)
Local == [model : Models, copy : StateFile, container : Container,
          volume : BOOLEAN, warm : BOOLEAN,
          id : EndpointIds \cup {None}, seen : Endpoint \cup {None}, release : BOOLEAN]

ASSUME ConstantsAssumption ==
  /\ QueueModels \subseteq Models
  /\ Volumes \subseteq BOOLEAN
  /\ MaxReleases \in Nat /\ MaxFails \in Nat
  /\ None \notin EndpointIds /\ None \notin Entry /\ None \notin Endpoint /\ None \notin Local

VARIABLES
  templates,   \* templates on Runpod
  endpoints,   \* endpoints on Runpod, by id
  gated,       \* ids whose running container has passed the parity gate
  state,       \* .runpod/state.yaml
  log,         \* configs/runpod/releases.yaml, oldest record first, by model
  pc,          \* next step of each command
  local,       \* its locals
  fails,       \* commands that died half way so far
  torn         \* models whose last release is not completely on file

remote == <<templates, endpoints, gated>>
files  == <<state, log>>
vars   == <<templates, endpoints, gated, state, log, pc, local, fails, torn>>

Init ==
  /\ templates = {}
  /\ endpoints = [i \in EndpointIds |-> None]
  /\ gated = {}
  /\ state = [m \in Models |-> None]
  /\ log = [m \in Models |-> <<>>]
  /\ pc = [p \in Procs |-> "idle"]
  /\ local = [p \in Procs |-> None]
  /\ fails = 0
  /\ torn = {}

-----------------------------------------------------------------------------
Live(m) == {i \in EndpointIds : endpoints[i] # None /\ endpoints[i].model = m}

Latest(m) == log[m][Len(log[m])]

(* The state file says that the endpoint is promoted. *)
Promoted(entry) == entry # None /\ entry.client_data

(* _promotable: a queue endpoint counts only once it already is promoted.  *)
Promotable(m, entry) == m \notin QueueModels \/ Promoted(entry)

(* _refuse_unpromoted_client_data: statement pages go to endpoint i iff    *)
(* some entry of the state file has that id and is promoted.               *)
ClientDataAllowed(i) == \E m \in Models : Promoted(state[m]) /\ state[m].id = i

Goto(p, label) == pc' = [pc EXCEPT ![p] = label]

(* The command ends: its locals are gone. *)
Return(p) ==
  /\ Goto(p, "idle")
  /\ local' = [local EXCEPT ![p] = None]

-----------------------------------------------------------------------------
(* deploy                                                                  *)

(* Load the state file and refuse what it rules out: a network volume on a *)
(* promotable endpoint, warm workers (--profile office) before promotion.  *)
StartDeploy(p) ==
  /\ pc[p] = "idle"
  /\ \E m \in Models, c \in Container, volume \in Volumes, warm \in BOOLEAN :
       /\ Len(log[m]) < MaxReleases
       /\ volume => ~Promotable(m, state[m])
       /\ warm => Promoted(state[m])
       /\ local' = [local EXCEPT ![p] =
            [model |-> m, copy |-> state, container |-> c, volume |-> volume,
             warm |-> warm, id |-> None, seen |-> None, release |-> FALSE]]
  /\ Goto(p, "d_list")
  /\ UNCHANGED <<remote, files, fails, torn>>

(* _check_existing: a volume the config does not name bars promotion. *)
CheckExisting(l, i) ==
  endpoints[i].volume /\ ~l.volume => ~Promotable(l.model, l.copy[l.model])

(* Mutant of Matches: the endpoint is looked up by the id on file. *)
MatchesById(l) ==
  {i \in EndpointIds : /\ endpoints[i] # None
                       /\ l.copy[l.model] # None
                       /\ i = l.copy[l.model].id}

(* The endpoints that carry the model's endpoint name. *)
Matches(l) == Live(l.model)

(* List the endpoints by name.  More than one, an unwanted volume or a GPU *)
(* selection the catalogue cannot meet ends the command before any write.  *)
ListEndpoints(p) ==
  LET l == local[p] IN
  /\ pc[p] = "d_list"
  /\ \/ /\ Matches(l) = {}
        /\ Goto(p, "d_template")
        /\ UNCHANGED local
     \/ \E i \in EndpointIds :
          /\ Matches(l) = {i}
          /\ CheckExisting(l, i)
          /\ local' = [local EXCEPT ![p] = [l EXCEPT !.id = i, !.seen = endpoints[i]]]
          /\ Goto(p, "d_template")
     \/ Return(p)
  /\ UNCHANGED <<remote, files, fails, torn>>

(* _find_or_create_template: reuse the model's template with the same      *)
(* settings, else create it.                                               *)
FindOrCreateTemplate(p) ==
  LET l == local[p] IN
  /\ pc[p] = "d_template"
  /\ templates' = templates \cup {[model |-> l.model, container |-> l.container]}
  /\ Goto(p, "d_endpoint")
  /\ UNCHANGED <<endpoints, gated, files, local, fails, torn>>

(* Without an endpoint of that name, create one: a release. *)
CreateEndpoint(p) ==
  LET l == local[p] IN
  /\ pc[p] = "d_endpoint"
  /\ l.id = None
  /\ \E i \in EndpointIds :
       /\ endpoints[i] = None
       /\ endpoints' = [endpoints EXCEPT ![i] =
            [model |-> l.model, container |-> l.container, volume |-> l.volume, warm |-> l.warm]]
       /\ gated' = gated \ {i}
       /\ local' = [local EXCEPT ![p] = [l EXCEPT !.id = i, !.release = TRUE]]
  /\ Goto(p, "d_save")
  /\ UNCHANGED <<templates, files, fails, torn>>

(* _diff: the template is applied again only when the image or the wiring  *)
(* of the endpoint, as listed, differs from the template's; the disk is    *)
(* not compared.                                                           *)
DiffTemplate(seen, container) ==
  seen.image # container.image \/ seen.wiring # container.wiring

(* The settings of an endpoint after the PATCH: those that differed from   *)
(* the listing are sent, and a volume is added but never removed.          *)
Patch(e, l) ==
  [e EXCEPT !.container = IF DiffTemplate(l.seen.container, l.container) THEN l.container ELSE @,
            !.volume    = @ \/ l.volume,
            !.warm      = IF l.seen.warm # l.warm THEN l.warm ELSE @]

(* With an endpoint of that name, patch what differs.  Applying a template *)
(* makes it a release; a scaling change, or none, does not.                *)
PatchEndpoint(p) ==
  LET l == local[p]
      release == DiffTemplate(l.seen.container, l.container)
  IN
  /\ pc[p] = "d_endpoint"
  /\ l.id # None
  /\ endpoints' = [endpoints EXCEPT ![l.id] = Patch(@, l)]
  /\ gated' = IF release THEN gated \ {l.id} ELSE gated
  /\ local' = [local EXCEPT ![p] = [l EXCEPT !.release = release]]
  /\ Goto(p, "d_save")
  /\ UNCHANGED <<templates, files, fails, torn>>

(* Mutant of DeployEntry: a release keeps the promotion. *)
DeployEntryKept(l) ==
  [id |-> l.id, template |-> l.container, client_data |-> Promoted(l.copy[l.model])]

(* The entry a deploy saves: a release waits for parity before client data. *)
DeployEntry(l) ==
  [id |-> l.id, template |-> l.container,
   client_data |-> ~l.release /\ Promoted(l.copy[l.model])]

(* save_state writes the whole file from the copy loaded at the start. *)
DeploySave(p) ==
  LET l == local[p] IN
  /\ pc[p] = "d_save"
  /\ state' = [l.copy EXCEPT ![l.model] = DeployEntry(l)]
  /\ IF l.release THEN Goto(p, "append") /\ UNCHANGED local ELSE Return(p)
  /\ UNCHANGED <<remote, log, fails, torn>>

(* Mutant of NewRecord: the record is copied from the current release. *)
NewRecordOfCurrent(l) ==
  [image |-> IF log[l.model] = <<>> THEN l.container.image ELSE Latest(l.model).image,
   parity |-> "pending", promoted |-> FALSE]

(* The record of a release: its parity is open. *)
NewRecord(l) == [image |-> l.container.image, parity |-> "pending", promoted |-> FALSE]

(* releases.append, the last write of a deploy that made a release and of  *)
(* a rollback.                                                             *)
AppendRelease(p) ==
  LET l == local[p] IN
  /\ pc[p] = "append"
  /\ log' = [log EXCEPT ![l.model] = Append(@, NewRecord(l))]
  /\ torn' = torn \ {l.model}
  /\ Return(p)
  /\ UNCHANGED <<remote, state, fails>>

-----------------------------------------------------------------------------
(* rollback                                                                *)

(* Mutant of Earlier: a release of the same digest counts. *)
EarlierAny(m) == 1..(Len(log[m]) - 1)

(* Positions in the model's history whose digest is not the current one.   *)
Earlier(m) == {i \in 1..(Len(log[m]) - 1) : log[m][i].image # Latest(m).image}

(* Load the state file and the history, and find a template that carries   *)
(* the image of the last release with another digest.  Any such template   *)
(* may come first in the listing.                                          *)
StartRollback(p) ==
  /\ pc[p] = "idle"
  /\ \E m \in Models, t \in templates :
       /\ Len(log[m]) < MaxReleases
       /\ state[m] # None
       /\ log[m] # <<>>
       /\ t.model = m
       /\ \E i \in Earlier(m) :
            /\ \A j \in Earlier(m) : j <= i
            /\ t.container.image = log[m][i].image
       /\ local' = [local EXCEPT ![p] =
            [model |-> m, copy |-> state, container |-> t.container, volume |-> FALSE,
             warm |-> FALSE, id |-> None, seen |-> None, release |-> FALSE]]
  /\ Goto(p, "r_patch")
  /\ UNCHANGED <<remote, files, fails, torn>>

(* The endpoint of that name, which must be the only one, takes over the   *)
(* template's container; its scaling and its volume stay.                  *)
RollbackPatch(p) ==
  LET l == local[p] IN
  /\ pc[p] = "r_patch"
  /\ \/ \E i \in EndpointIds :
          /\ Live(l.model) = {i}
          /\ endpoints' = [endpoints EXCEPT ![i] = [@ EXCEPT !.container = l.container]]
          /\ gated' = gated \ {i}
          /\ local' = [local EXCEPT ![p] = [l EXCEPT !.id = i, !.release = TRUE]]
          /\ Goto(p, "r_save")
     \/ /\ \A i \in EndpointIds : Live(l.model) # {i}
        /\ Return(p)
        /\ UNCHANGED <<endpoints, gated>>
  /\ UNCHANGED <<templates, files, fails, torn>>

(* Mutant of RollbackEntry: the promotion survives the rollback. *)
RollbackEntryKept(l) ==
  [id |-> l.id, template |-> l.container, client_data |-> Promoted(l.copy[l.model])]

(* The entry a rollback saves. *)
RollbackEntry(l) == [id |-> l.id, template |-> l.container, client_data |-> FALSE]

(* save_state, as in a deploy. *)
RollbackSave(p) ==
  LET l == local[p] IN
  /\ pc[p] = "r_save"
  /\ state' = [l.copy EXCEPT ![l.model] = RollbackEntry(l)]
  /\ Goto(p, "append")
  /\ UNCHANGED <<remote, log, local, fails, torn>>

-----------------------------------------------------------------------------
(* deploy --promote                                                        *)

(* Mutant of MayPromote: a verdict that is still open does not bar it. *)
MayPromoteUnlessFailed(m) ==
  /\ state[m] # None
  /\ log[m] # <<>>
  /\ \E i \in EndpointIds : Live(m) = {i}
  /\ Latest(m).parity # "fail"

(* Every check of promote: an entry, one remote endpoint, and a passing    *)
(* parity verdict on the latest release.  The review document and the      *)
(* stated retention of a queue endpoint are granted; without them the      *)
(* command does nothing.                                                   *)
MayPromote(m) ==
  /\ state[m] # None
  /\ log[m] # <<>>
  /\ \E i \in EndpointIds : Live(m) = {i}
  /\ Latest(m).parity = "pass"

StartPromote(p) ==
  /\ pc[p] = "idle"
  /\ \E m \in Models :
       /\ MayPromote(m)
       /\ local' = [local EXCEPT ![p] =
            [model |-> m, copy |-> state, container |-> state[m].template, volume |-> FALSE,
             warm |-> FALSE, id |-> state[m].id, seen |-> None, release |-> FALSE]]
  /\ Goto(p, "p_log")
  /\ UNCHANGED <<remote, files, fails, torn>>

(* releases.update_latest loads the log again and marks its last record. *)
PromoteLog(p) ==
  LET m == local[p].model IN
  /\ pc[p] = "p_log"
  /\ log' = [log EXCEPT ![m] = [@ EXCEPT ![Len(log[m])] = [Latest(m) EXCEPT !.promoted = TRUE]]]
  /\ Goto(p, "p_save")
  /\ UNCHANGED <<remote, state, local, fails, torn>>

PromoteSave(p) ==
  LET l == local[p] IN
  /\ pc[p] = "p_save"
  /\ state' = [l.copy EXCEPT ![l.model] = [@ EXCEPT !.client_data = TRUE]]
  /\ Return(p)
  /\ UNCHANGED <<remote, log, fails, torn>>

-----------------------------------------------------------------------------
(* The world around the commands                                           *)

(* The remote side is ahead of the files: a release was applied and its    *)
(* record is not yet in the log.                                           *)
InFlight(p) == pc[p] \in {"d_save", "r_save", "append"} /\ local[p].release

(* The command dies.  If a release was in flight, the files never learn of *)
(* it, until a later release of that model is logged.                      *)
Fail(p) ==
  /\ pc[p] # "idle"
  /\ fails < MaxFails
  /\ fails' = fails + 1
  /\ torn' = IF InFlight(p) THEN torn \cup {local[p].model} ELSE torn
  /\ Return(p)
  /\ UNCHANGED <<remote, files>>

(* The parity gate compares what the endpoint answers with the reference   *)
(* and writes its verdict into the model's latest record.  Once a release. *)
ParityGate ==
  /\ \E m \in Models, verdict \in {"pass", "fail"} : \E i \in Live(m) :
       /\ log[m] # <<>>
       /\ Latest(m).parity = "pending"
       /\ log' = [log EXCEPT ![m] = [@ EXCEPT ![Len(log[m])] = [Latest(m) EXCEPT !.parity = verdict]]]
       /\ gated' = IF verdict = "pass" THEN gated \cup {i} ELSE gated
  /\ UNCHANGED <<templates, endpoints, state, pc, local, fails, torn>>

Step(p) ==
  \/ StartDeploy(p) \/ ListEndpoints(p) \/ FindOrCreateTemplate(p)
  \/ CreateEndpoint(p) \/ PatchEndpoint(p) \/ DeploySave(p) \/ AppendRelease(p)
  \/ StartRollback(p) \/ RollbackPatch(p) \/ RollbackSave(p)
  \/ StartPromote(p) \/ PromoteLog(p) \/ PromoteSave(p)
  \/ Fail(p)

Next == ParityGate \/ \E p \in Procs : Step(p)

Spec == Init /\ [][Next]_vars

-----------------------------------------------------------------------------
(* Properties                                                              *)

(* Every variable has its type. *)
TypeOK ==
  /\ templates \in SUBSET Template
  /\ endpoints \in [EndpointIds -> Endpoint \cup {None}]
  /\ gated \in SUBSET EndpointIds
  /\ state \in StateFile
  /\ log \in [Models -> Seq(Record)]
  /\ pc \in [Procs -> {"idle", "d_list", "d_template", "d_endpoint", "d_save",
                       "r_patch", "r_save", "append", "p_log", "p_save"}]
  /\ local \in [Procs -> Local \cup {None}]
  /\ fails \in Nat
  /\ torn \in SUBSET Models

(* A release of model m is applied on Runpod and not yet fully on file. *)
Releasing(m) == \E p \in Procs : InFlight(p) /\ local[p].model = m

(* The files and the remote side of model m are meant to agree. *)
Settled(m) == m \notin torn /\ ~Releasing(m)

(* Client data is let out to an endpoint only while the container it runs  *)
(* has passed the parity gate: every path that replaces the container      *)
(* (create, patch, rollback) shuts the gate of infer again.                *)
ClientDataOnlyToVerified ==
  \A i \in EndpointIds :
    /\ ClientDataAllowed(i)
    /\ endpoints[i] # None
    /\ Settled(endpoints[i].model)
    => i \in gated

(* Whenever the state file lets client data out, also after a command died *)
(* half way, the committed log says so: its latest record of that model is *)
(* promoted and passed parity.                                             *)
PromotionIsLogged ==
  \A m \in Models :
    Promoted(state[m]) =>
      /\ log[m] # <<>>
      /\ Latest(m).promoted
      /\ Latest(m).parity = "pass"

(* The latest release in the log is what the endpoint runs, and a model    *)
(* has an endpoint exactly when it has a release.                          *)
LogMatchesEndpoint ==
  \A m \in Models : Settled(m) =>
    /\ Live(m) = {} <=> log[m] = <<>>
    /\ \A i \in Live(m) : endpoints[i].container.image = Latest(m).image

(* The entry of a model names its endpoint: client data sent to the id in  *)
(* the state file reaches that model and no other, and commands that die   *)
(* after creating an endpoint never lead to a second one.                  *)
OneEndpointPerModel ==
  /\ \A m \in Models : \A i, j \in Live(m) : i = j
  /\ \A m \in Models : state[m] # None => state[m].id \in Live(m)

(* What is left of all this when commands overlap, and overwrite each      *)
(* other's state file: a stale copy may bring a promotion back, but only   *)
(* one of a model that has passed the parity gate before, and was logged   *)
(* as promoted; and client data goes to an endpoint of that model.         *)
ClientDataHasPassed ==
  \A m \in Models :
    Promoted(state[m]) =>
      /\ endpoints[state[m].id] # None /\ endpoints[state[m].id].model = m
      /\ \E k \in DOMAIN log[m] : log[m][k].parity = "pass"
      /\ \E k \in DOMAIN log[m] : log[m][k].promoted

(* A rollback of a model that is not torn always changes the image, and    *)
(* only to one that an earlier release of that model ran.                  *)
RollbackReturnsToEarlier ==
  [][\A p \in Procs, i \in EndpointIds :
       /\ pc[p] = "r_patch"
       /\ endpoints'[i] # endpoints[i]
       /\ local[p].model \notin torn
       => /\ endpoints'[i].container.image # endpoints[i].container.image
          /\ \E k \in DOMAIN log[local[p].model] :
               log[local[p].model][k].image = endpoints'[i].container.image]_vars

(* The promise of ClientDataPromise, for the endpoints whose model is      *)
(* settled: from the PATCH that applies a release to the state file that   *)
(* records it no command but this one runs, and a torn model stays shut.   *)
Promise == INSTANCE ClientDataPromise WITH
  verified <- gated,
  open <- {i \in EndpointIds : /\ ClientDataAllowed(i)
                               /\ endpoints[i] # None
                               /\ Settled(endpoints[i].model)}

(* Release management implements the promise. *)
KeepsPromise == Promise!Spec

-----------------------------------------------------------------------------
(* What the documents say and the code does not keep                       *)

(* "A new template or a new endpoint is a release: it is appended to the   *)
(* committed release log and suspends any client-data promotion until the  *)
(* parity gate passes again" (ocr_bench/runpod/deploy.py).                 *)
ReleaseSuspendsPromotion ==
  \A i \in EndpointIds :
    /\ ClientDataAllowed(i)
    /\ endpoints[i] # None
    /\ \A p \in Procs : pc[p] = "idle"
    => i \in gated

(* "a new config hash or digest creates a new template; the endpoint is    *)
(* PATCHed to it" (openspec/changes/add-runpod-serving/design.md): with no *)
(* command running, the endpoint runs the template the state file names.   *)
EndpointRunsTemplate ==
  \A m \in Models :
    /\ state[m] # None
    /\ \A p \in Procs : pc[p] = "idle"
    => \A i \in Live(m) : endpoints[i].container = state[m].template

(* "Models not promoted to client traffic SHALL scale to zero"             *)
(* (add-runpod-serving, specs/runpod-serving/spec.md).                     *)
UnpromotedScalesToZero ==
  \A m \in Models : \A i \in Live(m) :
    /\ endpoints[i].warm
    /\ \A p \in Procs : pc[p] = "idle"
    => Promoted(state[m])

(* "client-data endpoints have no network volume"                          *)
(* (docs/runpod-data-processing-review.md).                                *)
NoVolumeOnClientDataEndpoint ==
  \A i \in EndpointIds :
    ClientDataAllowed(i) /\ endpoints[i] # None => ~endpoints[i].volume
=============================================================================
