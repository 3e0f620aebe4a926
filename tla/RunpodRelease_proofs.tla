------------------------ MODULE RunpodRelease_proofs ------------------------
(***************************************************************************)
(* Proofs about RunpodRelease, for any number of models, images, endpoint  *)
(* ids and releases, and any number of commands that die half way.         *)
(*                                                                         *)
(* Type correctness holds however many commands overlap, and so does what  *)
(* the last section says of the promotions a stale copy can bring back.    *)
(* Two commands that overlap overwrite each other's state file, so         *)
(* everything else assumes one command at a time.                          *)
(***************************************************************************)
EXTENDS RunpodRelease, SequenceTheorems, TLAPS

-----------------------------------------------------------------------------
(* Type correctness, for overlapping commands                              *)

(* What types need of a running command: its locals, and the values its    *)
(* next step reads.                                                        *)
LocalsTyped ==
  \A p \in Procs :
    /\ pc[p] # "idle" => local[p] \in Local
    /\ pc[p] = "d_list" => local[p].id = None
    /\ pc[p] \in {"d_template", "d_endpoint"} /\ local[p].id # None =>
         /\ endpoints[local[p].id] # None
         /\ local[p].seen # None
    /\ pc[p] \in {"d_save", "r_save", "append"} => local[p].id # None
    /\ pc[p] = "p_log" => log[local[p].model] # <<>>
    /\ pc[p] \in {"p_log", "p_save"} => local[p].copy[local[p].model] # None

TypeInv == TypeOK /\ LocalsTyped

(* The last record of a nonempty log can be replaced. *)
LEMMA ReplaceLast ==
  ASSUME NEW s \in Seq(Record), s # <<>>, NEW r \in Record
  PROVE  LET t == [s EXCEPT ![Len(s)] = r] IN
         t \in Seq(Record) /\ t # <<>> /\ Len(t) = Len(s) /\ t[Len(t)] = r
  <1>1. Len(s) \in 1..Len(s)
    BY EmptySeq
  <1>. QED
    BY <1>1, ExceptSeq, EmptySeq

(* The last record of a nonempty log is a record. *)
LEMMA LatestIsRecord ==
  ASSUME TypeOK, NEW m \in Models, log[m] # <<>>
  PROVE  Latest(m) \in Record
  <1>1. log[m] \in Seq(Record)
    BY DEF TypeOK
  <1>2. Len(log[m]) \in 1..Len(log[m])
    BY <1>1, EmptySeq
  <1>. QED
    BY <1>1, <1>2, ElementOfSeq DEF Latest

(* Locals as a command names its endpoint and marks a release. *)
LEMMA Applied ==
  ASSUME NEW l \in Local, NEW i \in EndpointIds
  PROVE  LET k == [l EXCEPT !.id = i, !.release = TRUE] IN
         /\ k \in Local
         /\ k.model = l.model
         /\ k.copy = l.copy
         /\ k.container = l.container
         /\ k.volume = l.volume
         /\ k.warm = l.warm
         /\ k.id = i
         /\ k.seen = l.seen
         /\ k.release = TRUE
  BY DEF Local

(* Locals as a command learns whether its run is a release. *)
LEMMA Marked ==
  ASSUME NEW l \in Local, NEW r \in BOOLEAN
  PROVE  LET k == [l EXCEPT !.release = r] IN
         /\ k \in Local
         /\ k.model = l.model
         /\ k.copy = l.copy
         /\ k.container = l.container
         /\ k.volume = l.volume
         /\ k.warm = l.warm
         /\ k.id = l.id
         /\ k.seen = l.seen
         /\ k.release = r
  BY DEF Local

(* A promoted entry is an entry. *)
LEMMA EntryPromoted ==
  ASSUME NEW f \in StateFile, NEW m \in Models, f[m] # None
  PROVE  /\ f[m] \in Entry
         /\ [f[m] EXCEPT !.client_data = TRUE] \in Entry
         /\ [f[m] EXCEPT !.client_data = TRUE].id = f[m].id
         /\ [f[m] EXCEPT !.client_data = TRUE].client_data = TRUE
  <1>1. f[m] \in Entry
    BY DEF StateFile
  <1>. QED
    BY <1>1 DEF Entry

(* The types of the locals. *)
LEMMA LocalTypes ==
  ASSUME NEW l \in Local
  PROVE  /\ l.model \in Models
         /\ l.copy \in StateFile
         /\ l.container \in Container
         /\ l.volume \in BOOLEAN
         /\ l.warm \in BOOLEAN
         /\ l.id \in EndpointIds \cup {None}
         /\ l.seen \in Endpoint \cup {None}
         /\ l.release \in BOOLEAN
  BY DEF Local

(* A patched endpoint is an endpoint of the same model. *)
LEMMA PatchTyped ==
  ASSUME NEW l \in Local, NEW e \in Endpoint
  PROVE  /\ Patch(e, l) \in Endpoint
         /\ Patch(e, l).model = e.model
         /\ Patch(e, l).container =
              IF DiffTemplate(l.seen.container, l.container) THEN l.container ELSE e.container
  BY LocalTypes DEF Patch, Endpoint

(* A state file with one entry replaced is a state file. *)
LEMMA EntryReplaced ==
  ASSUME NEW f \in StateFile, NEW m \in Models, NEW e \in Entry
  PROVE  [f EXCEPT ![m] = e] \in StateFile
  BY DEF StateFile

-----------------------------------------------------------------------------
(* What each action does, point by point                                   *)

(* Command p is at a label and the locals of the others are as they were.  *)
At(p, label) ==
  /\ pc' = [pc EXCEPT ![p] = label]
  /\ local' \in [Procs -> Local \cup {None}]
  /\ \A q \in Procs \ {p} : local'[q] = local[q]

(* Command p is about to take a step from a label. *)
From(p, label) == pc[p] = label /\ local[p] \in Local

(* Model m has a new latest record, and no other model has. *)
Relogged(m, r) ==
  /\ log' \in [Models -> Seq(Record)]
  /\ log'[m] # <<>>
  /\ log'[m][Len(log'[m])] = r
  /\ \A n \in Models \ {m} : log'[n] = log[n]

(* Model m has a new entry, and the others are those of the copy f. *)
Resaved(f, m, e) ==
  /\ e \in Entry
  /\ state' \in StateFile
  /\ state'[m] = e
  /\ \A n \in Models \ {m} : state'[n] = f[n]

(* Endpoint i is e now, and the others are as they were. *)
Reendpointed(i, e) ==
  /\ e \in Endpoint
  /\ endpoints' \in [EndpointIds -> Endpoint \cup {None}]
  /\ endpoints'[i] = e
  /\ \A j \in EndpointIds \ {i} : endpoints'[j] = endpoints[j]

(* What starting a deploy changes: only the command, which now holds its copy. *)
LEMMA StartDeployEffect ==
  ASSUME TypeInv, NEW p \in Procs, StartDeploy(p)
  PROVE  /\ pc[p] = "idle"
         /\ At(p, "d_list")
         /\ local'[p] \in Local
         /\ local'[p].copy = state
         /\ local'[p].id = None
         /\ ~local'[p].release
         /\ UNCHANGED <<remote, files, fails, torn>>
  <1>1. PICK m \in Models, c \in Container, volume \in Volumes, warm \in BOOLEAN :
          local' = [local EXCEPT ![p] =
            [model |-> m, copy |-> state, container |-> c, volume |-> volume,
             warm |-> warm, id |-> None, seen |-> None, release |-> FALSE]]
    BY DEF StartDeploy
  <1>2. [model |-> m, copy |-> state, container |-> c, volume |-> volume,
         warm |-> warm, id |-> None, seen |-> None, release |-> FALSE] \in Local
    BY ConstantsAssumption DEF Local, TypeInv, TypeOK
  <1>. QED
    BY <1>1, <1>2 DEF StartDeploy, At, Goto, TypeInv, TypeOK

(* What listing the endpoints changes: only the command. *)
LEMMA ListEffect ==
  ASSUME TypeInv, NEW p \in Procs, ListEndpoints(p)
  PROVE  /\ From(p, "d_list")
         /\ UNCHANGED <<remote, files, fails, torn>>
         /\ \/ /\ At(p, "d_template")
               /\ Live(local[p].model) = {}
               /\ local'[p] = local[p]
            \/ /\ At(p, "d_template")
               /\ local'[p] \in Local
               /\ local'[p].id \in EndpointIds
               /\ Live(local[p].model) = {local'[p].id}
               /\ endpoints[local'[p].id] \in Endpoint
               /\ endpoints[local'[p].id].model = local[p].model
               /\ local'[p].seen = endpoints[local'[p].id]
               /\ local'[p].model = local[p].model
               /\ local'[p].copy = local[p].copy
               /\ local'[p].release = local[p].release
            \/ At(p, "idle") /\ local'[p] = None
  <1>. DEFINE l == local[p]
  <1>1. From(p, "d_list")
    BY DEF ListEndpoints, From, TypeInv, LocalsTyped
  <1>2. /\ local \in [Procs -> Local \cup {None}]
        /\ endpoints \in [EndpointIds -> Endpoint \cup {None}]
    BY DEF TypeInv, TypeOK
  <1>3. CASE Live(l.model) = {} /\ Goto(p, "d_template") /\ UNCHANGED local
    BY <1>1, <1>2, <1>3 DEF ListEndpoints, At, Goto
  <1>4. ASSUME NEW i \in EndpointIds, Live(l.model) = {i}, Goto(p, "d_template"),
               local' = [local EXCEPT ![p] = [l EXCEPT !.id = i, !.seen = endpoints[i]]]
        PROVE  /\ At(p, "d_template")
               /\ local'[p] \in Local
               /\ local'[p].id = i
               /\ endpoints[i] \in Endpoint
               /\ endpoints[i].model = l.model
               /\ local'[p].seen = endpoints[i]
               /\ local'[p].model = l.model
               /\ local'[p].copy = l.copy
               /\ local'[p].release = l.release
    <2>1. endpoints[i] \in Endpoint /\ endpoints[i].model = l.model
      BY <1>2, <1>4 DEF Live
    <2>. DEFINE e == endpoints[i]
                k == [l EXCEPT !.id = i, !.seen = e]
    <2>2. local' = [local EXCEPT ![p] = k]
      BY <1>4
    <2>3. l \in Local /\ e \in Endpoint
      BY <1>1, <2>1 DEF From
    <2>. HIDE DEF e, l
    <2>4. /\ k \in Local
          /\ k.id = i
          /\ k.seen = e
          /\ k.model = l.model
          /\ k.copy = l.copy
          /\ k.release = l.release
      BY <2>3 DEF Local
    <2>. HIDE DEF k
    <2>. QED
      BY <1>2, <1>4, <2>1, <2>2, <2>4 DEF At, Goto, e
  <1>5. CASE Return(p)
    BY <1>1, <1>2, <1>5 DEF ListEndpoints, At, Goto, Return
  <1>. QED
    BY <1>1, <1>3, <1>4, <1>5 DEF ListEndpoints, Matches

(* What the template step changes: the templates, and where the command stands. *)
LEMMA TemplateEffect ==
  ASSUME TypeInv, NEW p \in Procs, FindOrCreateTemplate(p)
  PROVE  /\ From(p, "d_template")
         /\ At(p, "d_endpoint")
         /\ local'[p] = local[p]
         /\ templates' \in SUBSET Template
         /\ UNCHANGED <<endpoints, gated, files, fails, torn>>
  <1>1. From(p, "d_template")
    BY DEF FindOrCreateTemplate, From, TypeInv, LocalsTyped
  <1>2. [model |-> local[p].model, container |-> local[p].container] \in Template
    BY <1>1, LocalTypes DEF From, Template
  <1>. QED
    BY <1>1, <1>2 DEF FindOrCreateTemplate, At, Goto, TypeInv, TypeOK

(* What creating an endpoint changes: one id gains an endpoint of the model. *)
LEMMA CreateEffect ==
  ASSUME TypeInv, NEW p \in Procs, CreateEndpoint(p)
  PROVE  /\ From(p, "d_endpoint")
         /\ local[p].id = None
         /\ At(p, "d_save")
         /\ UNCHANGED <<templates, files, fails, torn>>
         /\ \E i \in EndpointIds, e \in Endpoint :
              /\ endpoints[i] = None
              /\ Reendpointed(i, e)
              /\ e.model = local[p].model
              /\ e.container = local[p].container
              /\ gated' = gated \ {i}
              /\ local'[p] \in Local
              /\ local'[p].id = i
              /\ local'[p].release
              /\ local'[p].model = local[p].model
              /\ local'[p].copy = local[p].copy
              /\ local'[p].container = local[p].container
  <1>. DEFINE l == local[p]
  <1>1. From(p, "d_endpoint")
    BY DEF CreateEndpoint, From, TypeInv, LocalsTyped
  <1>2. /\ local \in [Procs -> Local \cup {None}]
        /\ endpoints \in [EndpointIds -> Endpoint \cup {None}]
    BY DEF TypeInv, TypeOK
  <1>. DEFINE e == [model |-> l.model, container |-> l.container,
                    volume |-> l.volume, warm |-> l.warm]
              k(i) == [l EXCEPT !.id = i, !.release = TRUE]
  <1>3. PICK i \in EndpointIds :
          /\ endpoints[i] = None
          /\ endpoints' = [endpoints EXCEPT ![i] = e]
          /\ gated' = gated \ {i}
          /\ local' = [local EXCEPT ![p] = k(i)]
    BY DEF CreateEndpoint
  <1>4. e \in Endpoint /\ e.model = l.model /\ e.container = l.container
    BY <1>1, LocalTypes DEF From, Endpoint
  <1>5. /\ k(i) \in Local
        /\ k(i).id = i
        /\ k(i).release
        /\ k(i).model = l.model
        /\ k(i).copy = l.copy
        /\ k(i).container = l.container
    BY <1>1, Applied DEF From
  <1>. HIDE DEF e, k
  <1>6. Reendpointed(i, e)
    BY <1>2, <1>3, <1>4 DEF Reendpointed
  <1>7. At(p, "d_save") /\ local'[p] = k(i)
    BY <1>2, <1>3, <1>5 DEF CreateEndpoint, At, Goto
  <1>8. l.id = None /\ UNCHANGED <<templates, files, fails, torn>>
    BY DEF CreateEndpoint
  <1>. QED
    BY <1>1, <1>3, <1>4, <1>5, <1>6, <1>7, <1>8

(* What patching an endpoint changes: one endpoint, which stays with its model. *)
LEMMA PatchEffect ==
  ASSUME TypeInv, NEW p \in Procs, PatchEndpoint(p)
  PROVE  LET l == local[p]
             e == Patch(endpoints[l.id], l)
         IN
         /\ From(p, "d_endpoint")
         /\ l.id \in EndpointIds
         /\ endpoints[l.id] \in Endpoint
         /\ At(p, "d_save")
         /\ UNCHANGED <<templates, files, fails, torn>>
         /\ Reendpointed(l.id, e)
         /\ e.model = endpoints[l.id].model
         /\ local'[p] \in Local
         /\ local'[p].release <=> DiffTemplate(l.seen.container, l.container)
         /\ local'[p].release => e.container = l.container
         /\ ~local'[p].release => e.container = endpoints[l.id].container
         /\ gated' = IF local'[p].release THEN gated \ {l.id} ELSE gated
         /\ local'[p].id = l.id
         /\ local'[p].model = l.model
         /\ local'[p].copy = l.copy
         /\ local'[p].container = l.container
  <1>. DEFINE l == local[p]
              e == Patch(endpoints[l.id], l)
              r == DiffTemplate(l.seen.container, l.container)
              k == [l EXCEPT !.release = r]
  <1>1. From(p, "d_endpoint")
    BY DEF PatchEndpoint, From, TypeInv, LocalsTyped
  <1>2. /\ local \in [Procs -> Local \cup {None}]
        /\ endpoints \in [EndpointIds -> Endpoint \cup {None}]
    BY DEF TypeInv, TypeOK
  <1>3. l.id \in EndpointIds /\ endpoints[l.id] # None
    BY <1>1, LocalTypes DEF PatchEndpoint, From, TypeInv, LocalsTyped
  <1>4. endpoints[l.id] \in Endpoint
    BY <1>2, <1>3
  <1>5. /\ e \in Endpoint
        /\ e.model = endpoints[l.id].model
        /\ e.container = IF r THEN l.container ELSE endpoints[l.id].container
    BY <1>1, <1>4, PatchTyped DEF From
  <1>6. /\ k \in Local
        /\ k.release = r
        /\ k.id = l.id
        /\ k.model = l.model
        /\ k.copy = l.copy
        /\ k.container = l.container
    <2>1. r \in BOOLEAN
      BY DEF DiffTemplate
    <2>. QED
      BY <1>1, <2>1, Marked DEF From
  <1>7. /\ endpoints' = [endpoints EXCEPT ![l.id] = e]
        /\ local' = [local EXCEPT ![p] = k]
        /\ gated' = IF r THEN gated \ {l.id} ELSE gated
        /\ pc' = [pc EXCEPT ![p] = "d_save"]
        /\ UNCHANGED <<templates, files, fails, torn>>
    BY DEF PatchEndpoint, Goto
  <1>. HIDE DEF e, k, r
  <1>8. Reendpointed(l.id, e)
    BY <1>2, <1>3, <1>5, <1>7 DEF Reendpointed
  <1>9. At(p, "d_save") /\ local'[p] = k
    BY <1>2, <1>6, <1>7 DEF At
  <1>10. k.release <=> DiffTemplate(l.seen.container, l.container)
    BY <1>6 DEF r
  <1>. QED
    BY <1>1, <1>3, <1>4, <1>5, <1>6, <1>7, <1>8, <1>9, <1>10 DEF e

(* What the deploy's save changes: the file becomes its copy with one new entry. *)
LEMMA DeploySaveEffect ==
  ASSUME TypeInv, NEW p \in Procs, DeploySave(p)
  PROVE  /\ From(p, "d_save")
         /\ Resaved(local[p].copy, local[p].model, DeployEntry(local[p]))
         /\ IF local[p].release
            THEN At(p, "append") /\ local'[p] = local[p]
            ELSE At(p, "idle") /\ local'[p] = None
         /\ UNCHANGED <<remote, log, fails, torn>>
  <1>. DEFINE l == local[p]
  <1>1. From(p, "d_save") /\ l.id # None
    BY DEF DeploySave, From, TypeInv, LocalsTyped
  <1>2. DeployEntry(l) \in Entry
    BY <1>1, LocalTypes DEF From, DeployEntry, Entry, Promoted
  <1>3. state' = [l.copy EXCEPT ![l.model] = DeployEntry(l)]
    BY DEF DeploySave
  <1>4. Resaved(l.copy, l.model, DeployEntry(l))
    BY <1>1, <1>2, <1>3, LocalTypes DEF From, Resaved, StateFile
  <1>5. /\ local \in [Procs -> Local \cup {None}]
        /\ UNCHANGED <<remote, log, fails, torn>>
    BY DEF TypeInv, TypeOK, DeploySave
  <1>6. CASE l.release
    BY <1>1, <1>4, <1>5, <1>6 DEF DeploySave, At, Goto
  <1>7. CASE ~l.release
    BY <1>1, <1>4, <1>5, <1>7 DEF DeploySave, At, Goto, Return
  <1>. QED
    BY <1>6, <1>7

(* What appending a record changes: one log, by one record at its end. *)
LEMMA AppendEffect ==
  ASSUME TypeInv, NEW p \in Procs, AppendRelease(p)
  PROVE  /\ From(p, "append")
         /\ Relogged(local[p].model, NewRecord(local[p]))
         /\ torn' = torn \ {local[p].model}
         /\ At(p, "idle") /\ local'[p] = None
         /\ UNCHANGED <<remote, state, fails>>
  <1>. DEFINE l == local[p]
              r == NewRecord(l)
  <1>1. From(p, "append")
    BY DEF AppendRelease, From, TypeInv, LocalsTyped
  <1>2. r \in Record
    BY <1>1, LocalTypes DEF From, NewRecord, Record, Container
  <1>3. log' = [log EXCEPT ![l.model] = Append(@, r)]
    BY DEF AppendRelease
  <1>4. log \in [Models -> Seq(Record)] /\ l.model \in Models
    BY <1>1, LocalTypes DEF From, TypeInv, TypeOK
  <1>. HIDE DEF r
  <1>5. Relogged(l.model, r)
    <2>. DEFINE s == log[l.model]
                t == Append(s, r)
    <2>1. s \in Seq(Record)
      BY <1>4
    <2>. HIDE DEF s
    <2>2. /\ t \in Seq(Record)
          /\ t # <<>>
          /\ t[Len(t)] = r
      BY <1>2, <2>1, AppendProperties
    <2>3. log' = [log EXCEPT ![l.model] = t]
      BY <1>3 DEF s
    <2>. HIDE DEF t
    <2>. QED
      BY <1>4, <2>2, <2>3 DEF Relogged
  <1>. QED
    BY <1>1, <1>5 DEF AppendRelease, At, Goto, Return, TypeInv, TypeOK, r

(* What starting a rollback changes: only the command. *)
LEMMA StartRollbackEffect ==
  ASSUME TypeInv, NEW p \in Procs, StartRollback(p)
  PROVE  /\ pc[p] = "idle"
         /\ At(p, "r_patch")
         /\ local'[p] \in Local
         /\ local'[p].copy = state
         /\ ~local'[p].release
         /\ UNCHANGED <<remote, files, fails, torn>>
  <1>. DEFINE k(m, t) ==
        [model |-> m, copy |-> state, container |-> t.container, volume |-> FALSE,
         warm |-> FALSE, id |-> None, seen |-> None, release |-> FALSE]
  <1>1. PICK m \in Models, t \in templates : local' = [local EXCEPT ![p] = k(m, t)]
    BY DEF StartRollback
  <1>2. k(m, t) \in Local /\ k(m, t).copy = state /\ ~k(m, t).release
    BY <1>1 DEF Local, Template, TypeInv, TypeOK
  <1>. HIDE DEF k
  <1>. QED
    BY <1>1, <1>2 DEF StartRollback, At, Goto, TypeInv, TypeOK

(* What the rollback's patch changes: the one live endpoint of its model, or nothing. *)
LEMMA RollbackPatchEffect ==
  ASSUME TypeInv, NEW p \in Procs, RollbackPatch(p)
  PROVE  /\ From(p, "r_patch")
         /\ UNCHANGED <<templates, files, fails, torn>>
         /\ \/ At(p, "idle") /\ local'[p] = None /\ UNCHANGED <<endpoints, gated>>
            \/ \E i \in EndpointIds, e \in Endpoint :
                 /\ Live(local[p].model) = {i}
                 /\ endpoints[i] \in Endpoint
                 /\ endpoints[i].model = local[p].model
                 /\ Reendpointed(i, e)
                 /\ e.model = local[p].model
                 /\ e.container = local[p].container
                 /\ gated' = gated \ {i}
                 /\ At(p, "r_save")
                 /\ local'[p] \in Local
                 /\ local'[p].id = i
                 /\ local'[p].release
                 /\ local'[p].model = local[p].model
                 /\ local'[p].copy = local[p].copy
                 /\ local'[p].container = local[p].container
  <1>. DEFINE l == local[p]
  <1>1. From(p, "r_patch")
    BY DEF RollbackPatch, From, TypeInv, LocalsTyped
  <1>2. /\ local \in [Procs -> Local \cup {None}]
        /\ endpoints \in [EndpointIds -> Endpoint \cup {None}]
    BY DEF TypeInv, TypeOK
  <1>3. UNCHANGED <<templates, files, fails, torn>>
    BY DEF RollbackPatch
  <1>4. CASE \A i \in EndpointIds : Live(l.model) # {i}
    BY <1>1, <1>2, <1>3, <1>4 DEF RollbackPatch, At, Goto, Return
  <1>5. CASE ~ \A i \in EndpointIds : Live(l.model) # {i}
    <2>. DEFINE e(i) == [endpoints[i] EXCEPT !.container = l.container]
                k(i) == [l EXCEPT !.id = i, !.release = TRUE]
    <2>1. PICK i \in EndpointIds :
            /\ Live(l.model) = {i}
            /\ endpoints' = [endpoints EXCEPT ![i] = e(i)]
            /\ gated' = gated \ {i}
            /\ local' = [local EXCEPT ![p] = k(i)]
            /\ Goto(p, "r_save")
      BY <1>5 DEF RollbackPatch
    <2>2. endpoints[i] \in Endpoint /\ endpoints[i].model = l.model
      BY <1>2, <2>1 DEF Live
    <2>3. /\ e(i) \in Endpoint
          /\ e(i).model = l.model
          /\ e(i).container = l.container
      BY <1>1, <2>2, LocalTypes DEF From, Endpoint
    <2>4. /\ k(i) \in Local
          /\ k(i).id = i
          /\ k(i).release
          /\ k(i).model = l.model
          /\ k(i).copy = l.copy
          /\ k(i).container = l.container
      BY <1>1, Applied DEF From
    <2>. HIDE DEF e, k
    <2>5. Reendpointed(i, e(i))
      BY <1>2, <2>1, <2>3 DEF Reendpointed
    <2>6. At(p, "r_save") /\ local'[p] = k(i)
      BY <1>2, <2>1, <2>4 DEF At, Goto
    <2>. QED
      BY <1>1, <1>3, <2>1, <2>2, <2>3, <2>4, <2>5, <2>6
  <1>. QED
    BY <1>4, <1>5

(* What the rollback's save changes: the file becomes its copy with one new entry. *)
LEMMA RollbackSaveEffect ==
  ASSUME TypeInv, NEW p \in Procs, RollbackSave(p)
  PROVE  /\ From(p, "r_save")
         /\ Resaved(local[p].copy, local[p].model, RollbackEntry(local[p]))
         /\ At(p, "append") /\ local'[p] = local[p]
         /\ UNCHANGED <<remote, log, fails, torn>>
  <1>. DEFINE l == local[p]
  <1>1. From(p, "r_save") /\ l.id # None
    BY DEF RollbackSave, From, TypeInv, LocalsTyped
  <1>2. RollbackEntry(l) \in Entry
    BY <1>1, LocalTypes DEF From, RollbackEntry, Entry
  <1>3. state' = [l.copy EXCEPT ![l.model] = RollbackEntry(l)]
    BY DEF RollbackSave
  <1>4. Resaved(l.copy, l.model, RollbackEntry(l))
    BY <1>1, <1>2, <1>3, LocalTypes DEF From, Resaved, StateFile
  <1>. QED
    BY <1>1, <1>4 DEF RollbackSave, At, Goto, TypeInv, TypeOK

(* What starting a promotion changes: only the command, for a model that may be promoted. *)
LEMMA StartPromoteEffect ==
  ASSUME TypeInv, NEW p \in Procs, StartPromote(p)
  PROVE  /\ pc[p] = "idle"
         /\ At(p, "p_log")
         /\ local'[p] \in Local
         /\ MayPromote(local'[p].model)
         /\ local'[p].copy = state
         /\ ~local'[p].release
         /\ UNCHANGED <<remote, files, fails, torn>>
  <1>. DEFINE k(m) ==
        [model |-> m, copy |-> state, container |-> state[m].template, volume |-> FALSE,
         warm |-> FALSE, id |-> state[m].id, seen |-> None, release |-> FALSE]
  <1>1. PICK m \in Models : MayPromote(m) /\ local' = [local EXCEPT ![p] = k(m)]
    BY DEF StartPromote
  <1>2. state \in StateFile /\ state[m] \in Entry
    BY <1>1 DEF MayPromote, TypeInv, TypeOK, StateFile
  <1>3. k(m) \in Local
    BY <1>2 DEF Local, Entry
  <1>4. k(m).model = m /\ k(m).copy = state /\ ~k(m).release
    OBVIOUS
  <1>. HIDE DEF k
  <1>5. local'[p] = k(m) /\ At(p, "p_log")
    BY <1>1, <1>3 DEF StartPromote, At, Goto, TypeInv, TypeOK
  <1>. QED
    BY <1>1, <1>3, <1>4, <1>5 DEF StartPromote

(* What the promotion writes to the log: the latest record is marked. *)
LEMMA PromoteLogEffect ==
  ASSUME TypeInv, NEW p \in Procs, PromoteLog(p)
  PROVE  LET m == local[p].model IN
         /\ From(p, "p_log")
         /\ log[m] # <<>>
         /\ \E r \in Record :
              /\ Relogged(m, r)
              /\ r.image = Latest(m).image
              /\ r.parity = Latest(m).parity
              /\ r.promoted
         /\ At(p, "p_save") /\ local'[p] = local[p]
         /\ UNCHANGED <<remote, state, fails, torn>>
  <1>. DEFINE m == local[p].model
              r == [Latest(m) EXCEPT !.promoted = TRUE]
  <1>1. From(p, "p_log") /\ log[m] # <<>>
    BY DEF PromoteLog, From, TypeInv, LocalsTyped
  <1>2. log \in [Models -> Seq(Record)] /\ m \in Models
    BY <1>1, LocalTypes DEF From, TypeInv, TypeOK
  <1>3. Latest(m) \in Record
    BY <1>1, <1>2, LatestIsRecord DEF TypeInv
  <1>4. /\ r \in Record
        /\ r.image = Latest(m).image
        /\ r.parity = Latest(m).parity
        /\ r.promoted
    BY <1>3 DEF Record
  <1>5. log' = [log EXCEPT ![m] = [log[m] EXCEPT ![Len(log[m])] = r]]
    BY DEF PromoteLog
  <1>. HIDE DEF r
  <1>6. Relogged(m, r)
    <2>. DEFINE t == [log[m] EXCEPT ![Len(log[m])] = r]
    <2>1. t \in Seq(Record) /\ t # <<>> /\ t[Len(t)] = r
      BY <1>1, <1>2, <1>4, ReplaceLast
    <2>2. log' = [log EXCEPT ![m] = t]
      BY <1>5
    <2>. HIDE DEF t
    <2>. QED
      BY <1>2, <2>1, <2>2 DEF Relogged
  <1>. QED
    BY <1>1, <1>4, <1>6 DEF PromoteLog, At, Goto, TypeInv, TypeOK

(* What the promotion saves: the entry of its copy is marked. *)
LEMMA PromoteSaveEffect ==
  ASSUME TypeInv, NEW p \in Procs, PromoteSave(p)
  PROVE  LET l == local[p] IN
         /\ From(p, "p_save")
         /\ l.copy[l.model] \in Entry
         /\ \E e \in Entry :
              /\ Resaved(l.copy, l.model, e)
              /\ e.id = l.copy[l.model].id
              /\ e.client_data
         /\ At(p, "idle") /\ local'[p] = None
         /\ UNCHANGED <<remote, log, fails, torn>>
  <1>. DEFINE l == local[p]
              e == [l.copy[l.model] EXCEPT !.client_data = TRUE]
  <1>1. From(p, "p_save") /\ l.copy[l.model] # None
    BY DEF PromoteSave, From, TypeInv, LocalsTyped
  <1>2. l.copy \in StateFile /\ l.model \in Models
    BY <1>1, LocalTypes DEF From
  <1>3. /\ l.copy[l.model] \in Entry
        /\ e \in Entry
        /\ e.id = l.copy[l.model].id
        /\ e.client_data
    BY <1>1, <1>2, EntryPromoted
  <1>4. state' = [l.copy EXCEPT ![l.model] = e]
    BY DEF PromoteSave
  <1>. HIDE DEF e
  <1>5. Resaved(l.copy, l.model, e)
    BY <1>2, <1>3, <1>4 DEF Resaved, StateFile
  <1>. QED
    BY <1>1, <1>3, <1>5 DEF PromoteSave, At, Goto, Return, TypeInv, TypeOK

(* What a command that dies changes: it stops, and leaves the rest as it was. *)
LEMMA FailEffect ==
  ASSUME TypeInv, NEW p \in Procs, Fail(p)
  PROVE  /\ pc[p] # "idle"
         /\ local[p] \in Local
         /\ fails' \in Nat
         /\ torn' = IF InFlight(p) THEN torn \cup {local[p].model} ELSE torn
         /\ At(p, "idle") /\ local'[p] = None
         /\ UNCHANGED <<remote, files>>
  BY DEF Fail, At, Goto, Return, TypeInv, TypeOK, LocalsTyped

(* What an acceptance gate changes: the verdict on the latest record of one log. *)
LEMMA GateEffect ==
  ASSUME TypeInv, ParityGate
  PROVE  /\ UNCHANGED <<templates, endpoints, state, pc, local, fails, torn>>
         /\ \E m \in Models, r \in Record : \E i \in Live(m) :
              /\ log[m] # <<>>
              /\ Latest(m).parity = "pending"
              /\ Relogged(m, r)
              /\ r.image = Latest(m).image
              /\ r.promoted = Latest(m).promoted
              /\ gated' = IF r.parity = "pass" THEN gated \cup {i} ELSE gated
  <1>. DEFINE r(m, v) == [Latest(m) EXCEPT !.parity = v]
  <1>1. PICK m \in Models, v \in {"pass", "fail"} : \E i \in Live(m) :
          /\ log[m] # <<>>
          /\ Latest(m).parity = "pending"
          /\ log' = [log EXCEPT ![m] = [log[m] EXCEPT ![Len(log[m])] = r(m, v)]]
          /\ gated' = IF v = "pass" THEN gated \cup {i} ELSE gated
    BY DEF ParityGate
  <1>2. log \in [Models -> Seq(Record)]
    BY DEF TypeInv, TypeOK
  <1>3. Latest(m) \in Record
    BY <1>1, LatestIsRecord DEF TypeInv
  <1>4. /\ r(m, v) \in Record
        /\ r(m, v).image = Latest(m).image
        /\ r(m, v).promoted = Latest(m).promoted
        /\ r(m, v).parity = v
    BY <1>3 DEF Record
  <1>. HIDE DEF r
  <1>5. Relogged(m, r(m, v))
    <2>. DEFINE t == [log[m] EXCEPT ![Len(log[m])] = r(m, v)]
    <2>1. t \in Seq(Record) /\ t # <<>> /\ t[Len(t)] = r(m, v)
      BY <1>1, <1>2, <1>4, ReplaceLast
    <2>2. log' = [log EXCEPT ![m] = t]
      BY <1>1
    <2>. HIDE DEF t
    <2>. QED
      BY <1>2, <2>1, <2>2 DEF Relogged
  <1>6. UNCHANGED <<templates, endpoints, state, pc, local, fails, torn>>
    BY DEF ParityGate
  <1>. QED
    BY <1>1, <1>4, <1>5, <1>6

-----------------------------------------------------------------------------
(* Type correctness                                                        *)

Labels == {"idle", "d_list", "d_template", "d_endpoint", "d_save",
           "r_patch", "r_save", "append", "p_log", "p_save"}

(* What a running command needs to be typed at a label. *)
TypedAt(p, label) ==
  /\ label # "idle" => local[p] \in Local
  /\ label = "d_list" => local[p].id = None
  /\ label \in {"d_template", "d_endpoint"} /\ local[p].id # None =>
       /\ endpoints[local[p].id] # None
       /\ local[p].seen # None
  /\ label \in {"d_save", "r_save", "append"} => local[p].id # None
  /\ label = "p_log" => log[local[p].model] # <<>>
  /\ label \in {"p_log", "p_save"} => local[p].copy[local[p].model] # None

(* Endpoints and releases are never taken back. *)
Grows ==
  /\ \A i \in EndpointIds : endpoints[i] # None => endpoints'[i] # None
  /\ \A m \in Models : log[m] # <<>> => log'[m] # <<>>

(* A step of command p leaves every command typed. *)
LEMMA StaysTyped ==
  ASSUME TypeInv, NEW p \in Procs, NEW label \in Labels,
         At(p, label), Grows, TypedAt(p, label)'
  PROVE  LocalsTyped' /\ pc' \in [Procs -> Labels] /\ local' \in [Procs -> Local \cup {None}]
  <1>1. pc \in [Procs -> Labels] /\ pc' \in [Procs -> Labels]
    BY DEF TypeInv, TypeOK, At, Labels
  <1>2. \A q \in Procs : TypedAt(q, pc[q])
    BY DEF TypeInv, LocalsTyped, TypedAt
  <1>3. pc'[p] = label /\ \A q \in Procs \ {p} : pc'[q] = pc[q] /\ local'[q] = local[q]
    BY <1>1 DEF At
  <1>4. ASSUME NEW q \in Procs, q # p
        PROVE  TypedAt(q, pc[q])'
    <2>1. pc'[q] = pc[q] /\ local'[q] = local[q] /\ TypedAt(q, pc[q])
      BY <1>2, <1>3, <1>4
    <2>2. pc[q] # "idle" =>
            local[q].model \in Models /\ local[q].id \in EndpointIds \cup {None}
      BY <2>1, LocalTypes DEF TypedAt
    <2>. QED
      BY <2>1, <2>2 DEF TypedAt, Grows
  <1>5. \A q \in Procs : TypedAt(q, pc[q])'
    BY <1>3, <1>4 DEF TypedAt
  <1>. QED
    BY <1>1, <1>5 DEF LocalsTyped, TypedAt, At

(* The initial state is typed. *)
LEMMA InitTyped == Init => TypeInv
  BY ConstantsAssumption DEF Init, TypeInv, TypeOK, LocalsTyped, StateFile

(* Every step keeps the types, one case for each action. *)
LEMMA StepTyped == TypeInv /\ [Next]_vars => TypeInv'
  <1>. SUFFICES ASSUME TypeInv, [Next]_vars
                PROVE  TypeInv'
    OBVIOUS
  <1>t. TypeOK
    BY DEF TypeInv
  <1>1. CASE UNCHANGED vars
    BY <1>1 DEF vars, TypeInv, TypeOK, LocalsTyped
  <1>2. CASE ParityGate
    <2>1. /\ UNCHANGED <<templates, endpoints, state, pc, local, fails, torn>>
          /\ log' \in [Models -> Seq(Record)]
          /\ \A m \in Models : log[m] # <<>> => log'[m] # <<>>
          /\ gated' \in SUBSET EndpointIds
      BY <1>2, <1>t, GateEffect DEF Relogged, Live, TypeOK
    <2>2. TypeOK'
      BY <1>t, <2>1 DEF TypeOK
    <2>3. LocalsTyped'
      BY <2>1, LocalTypes DEF TypeInv, LocalsTyped
    <2>. QED
      BY <2>2, <2>3 DEF TypeInv
  <1>3. ASSUME NEW p \in Procs, Step(p)
        PROVE  TypeInv'
    <2>s. ASSUME NEW label \in Labels, At(p, label), Grows, TypedAt(p, label)',
                 templates' \in SUBSET Template,
                 endpoints' \in [EndpointIds -> Endpoint \cup {None}],
                 gated' \in SUBSET EndpointIds, state' \in StateFile,
                 log' \in [Models -> Seq(Record)], fails' \in Nat, torn' \in SUBSET Models
          PROVE  TypeInv'
      BY <2>s, StaysTyped DEF TypeInv, TypeOK, Labels
    <2>. USE DEF Labels, remote, files
    <2>1. CASE StartDeploy(p)
      BY <1>t, <2>1, <2>s, StartDeployEffect DEF TypeOK, Grows, TypedAt
    <2>2. CASE ListEndpoints(p)
      <3>1. Grows
        BY <2>2, ListEffect DEF Grows
      <3>2. CASE At(p, "d_template")
        <4>1. TypedAt(p, "d_template")'
          <5>1. pc'[p] = "d_template"
            BY <1>t, <3>2 DEF At, TypeOK
          <5>2. \/ local'[p] = local[p]
                \/ /\ local'[p] \in Local
                   /\ endpoints[local'[p].id] \in Endpoint
                   /\ local'[p].seen = endpoints[local'[p].id]
            BY <1>t, <2>2, <5>1, ListEffect DEF At, TypeOK
          <5>3. UNCHANGED endpoints /\ From(p, "d_list") /\ local[p].id = None
            BY <2>2, ListEffect DEF From, TypeInv, LocalsTyped
          <5>4. None \notin Endpoint
            BY ConstantsAssumption
          <5>. QED
            BY <5>2, <5>3, <5>4 DEF TypedAt, From
        <4>. QED
          BY <1>t, <2>2, <2>s, <3>1, <3>2, <4>1, ListEffect DEF TypeOK
      <3>3. CASE At(p, "idle")
        <4>1. TypedAt(p, "idle")'
          BY DEF TypedAt
        <4>. QED
          BY <1>t, <2>2, <2>s, <3>1, <3>3, <4>1, ListEffect DEF TypeOK
      <3>. QED
        BY <2>2, <3>2, <3>3, ListEffect
    <2>3. CASE FindOrCreateTemplate(p)
      <3>1. TypedAt(p, "d_endpoint")'
        BY <2>3, TemplateEffect DEF TypedAt, From, TypeInv, LocalsTyped
      <3>. QED
        BY <1>t, <2>3, <2>s, <3>1, TemplateEffect DEF TypeOK, Grows
    <2>4. CASE CreateEndpoint(p)
      <3>1. /\ endpoints' \in [EndpointIds -> Endpoint \cup {None}]
            /\ gated' \in SUBSET EndpointIds
            /\ Grows
            /\ TypedAt(p, "d_save")'
        BY <1>t, <2>4, CreateEffect, ConstantsAssumption DEF Reendpointed,
             Grows, TypedAt, TypeOK
      <3>. QED
        BY <1>t, <2>4, <2>s, <3>1, CreateEffect DEF TypeOK
    <2>5. CASE PatchEndpoint(p)
      <3>1. /\ endpoints' \in [EndpointIds -> Endpoint \cup {None}]
            /\ gated' \in SUBSET EndpointIds
            /\ Grows
            /\ TypedAt(p, "d_save")'
        BY <1>t, <2>5, PatchEffect, ConstantsAssumption DEF Reendpointed, Grows,
             TypedAt, TypeOK
      <3>. QED
        BY <1>t, <2>5, <2>s, <3>1, PatchEffect DEF TypeOK
    <2>6. CASE DeploySave(p)
      <3>1. state' \in StateFile /\ Grows /\ From(p, "d_save") /\ local[p].id # None
        BY <2>6, DeploySaveEffect DEF Resaved, Grows, From, TypeInv, LocalsTyped
      <3>2. CASE local[p].release
        BY <1>t, <2>6, <2>s, <3>1, <3>2, DeploySaveEffect DEF TypeOK, TypedAt,
             From
      <3>3. CASE ~local[p].release
        BY <1>t, <2>6, <2>s, <3>1, <3>3, DeploySaveEffect DEF TypeOK, TypedAt
      <3>. QED
        BY <3>2, <3>3
    <2>7. CASE AppendRelease(p)
      BY <1>t, <2>7, <2>s, AppendEffect DEF TypeOK, Relogged, Grows, TypedAt
    <2>8. CASE StartRollback(p)
      BY <1>t, <2>8, <2>s, StartRollbackEffect DEF TypeOK, Grows, TypedAt
    <2>9. CASE RollbackPatch(p)
      <3>1. CASE At(p, "idle") /\ UNCHANGED <<endpoints, gated>>
        BY <1>t, <2>9, <2>s, <3>1, RollbackPatchEffect DEF TypeOK, Grows,
             TypedAt
      <3>2. CASE ~(At(p, "idle") /\ UNCHANGED <<endpoints, gated>>)
        <4>1. /\ endpoints' \in [EndpointIds -> Endpoint \cup {None}]
              /\ gated' \in SUBSET EndpointIds
              /\ Grows
              /\ TypedAt(p, "r_save")'
              /\ At(p, "r_save")
          BY <1>t, <2>9, <3>2, RollbackPatchEffect, ConstantsAssumption
             DEF Reendpointed, Grows, TypedAt, TypeOK
        <4>. QED
          BY <1>t, <2>9, <2>s, <4>1, RollbackPatchEffect DEF TypeOK
      <3>. QED
        BY <3>1, <3>2
    <2>10. CASE RollbackSave(p)
      <3>1. state' \in StateFile /\ Grows /\ From(p, "r_save") /\ local[p].id # None
        BY <2>10, RollbackSaveEffect DEF Resaved, Grows, From, TypeInv,
             LocalsTyped
      <3>. QED
        BY <1>t, <2>10, <2>s, <3>1, RollbackSaveEffect DEF TypeOK, TypedAt, From
    <2>11. CASE StartPromote(p)
      BY <1>t, <2>11, <2>s, StartPromoteEffect DEF TypeOK, Grows, TypedAt,
           MayPromote
    <2>12. CASE PromoteLog(p)
      <3>1. /\ log' \in [Models -> Seq(Record)]
            /\ Grows
            /\ local[p].copy[local[p].model] # None
        BY <2>12, PromoteLogEffect DEF Relogged, Grows, From, TypeInv,
             LocalsTyped
      <3>. QED
        BY <1>t, <2>12, <2>s, <3>1, PromoteLogEffect DEF TypeOK, TypedAt, From
    <2>13. CASE PromoteSave(p)
      BY <1>t, <2>13, <2>s, PromoteSaveEffect DEF TypeOK, Resaved, Grows,
           TypedAt
    <2>14. CASE Fail(p)
      <3>1. torn' \in SUBSET Models
        BY <1>t, <2>14, FailEffect, LocalTypes DEF TypeOK
      <3>. QED
        BY <1>t, <2>14, <2>s, <3>1, FailEffect DEF TypeOK, Grows, TypedAt
    <2>. QED
      BY <1>3, <2>1, <2>2, <2>3, <2>4, <2>5, <2>6, <2>7, <2>8, <2>9, <2>10,
         <2>11, <2>12, <2>13, <2>14 DEF Step
  <1>. QED
    BY <1>1, <1>2, <1>3 DEF Next

(* Every variable keeps its type, however many commands overlap and die.   *)
THEOREM TypeCorrect == Spec => []TypeOK
  <1>1. Init => TypeInv
    BY InitTyped
  <1>2. TypeInv /\ [Next]_vars => TypeInv'
    BY StepTyped
  <1>3. TypeInv => TypeOK
    BY DEF TypeInv
  <1>. QED
    BY <1>1, <1>2, <1>3, PTL DEF Spec

-----------------------------------------------------------------------------
(* The invariant of one command at a time                                  *)

OneOperator == \A p, q \in Procs : p = q

(* Until its last write, a command's copy of the state file is current.    *)
CopyIsCurrent ==
  \A p \in Procs : pc[p] \notin {"idle", "append"} => local[p].copy = state

(* What command p knows of its model at a label: the endpoint it listed,   *)
(* the container it applied, that the promotion it is about to append over *)
(* is gone, or that the latest release has passed parity.                  *)
Knows(p, label) ==
  LET l == local[p] IN
  /\ label \in {"d_template", "d_endpoint"} =>
       IF l.id = None THEN Live(l.model) = {}
       ELSE l.id \in Live(l.model) /\ l.seen = endpoints[l.id]
  /\ label \in {"d_save", "r_save", "append"} =>
       /\ l.id \in Live(l.model)
       /\ l.release => endpoints[l.id].container = l.container
  /\ label \in {"r_save", "append"} => l.release
  /\ label = "append" => ~Promoted(state[l.model])
  /\ label \in {"p_log", "p_save"} =>
       /\ state[l.model] # None
       /\ log[l.model] # <<>>
       /\ Latest(l.model).parity = "pass"
  /\ label = "p_save" => Latest(l.model).promoted

CommandKnows == \A p \in Procs : Knows(p, pc[p])

(* A settled model whose latest release passed parity runs a container     *)
(* that passed it.                                                         *)
PassIsGated ==
  \A m \in Models :
    /\ Settled(m)
    /\ log[m] # <<>>
    /\ Latest(m).parity = "pass"
    => Live(m) \subseteq gated

Safe ==
  /\ CopyIsCurrent
  /\ OneEndpointPerModel
  /\ CommandKnows
  /\ PromotionIsLogged
  /\ PassIsGated
  /\ LogMatchesEndpoint

IInv == TypeInv /\ Safe

(* With one command, only that command can be releasing. *)
LEMMA SettledByOne ==
  ASSUME OneOperator, NEW p \in Procs
  PROVE  \A m : /\ Settled(m) <=> m \notin torn /\ ~(InFlight(p) /\ local[p].model = m)
                /\ Settled(m)' <=> (m \notin torn /\ ~(InFlight(p) /\ local[p].model = m))'
  BY DEF OneOperator, Settled, Releasing

(* The parts of Safe that speak of commands, when p is the only one. *)
LEMMA CommandsByOne ==
  ASSUME OneOperator, TypeInv, NEW p \in Procs, NEW label \in Labels, At(p, label),
         label \notin {"idle", "append"} => local'[p].copy = state',
         Knows(p, label)'
  PROVE  CopyIsCurrent' /\ CommandKnows'
  <1>1. pc'[p] = label
    BY DEF At, TypeInv, TypeOK
  <1>. QED
    BY <1>1 DEF OneOperator, CopyIsCurrent, CommandKnows, Knows

(* A step that changes only what the commands know. *)
LEMMA QuietStep ==
  ASSUME OneOperator, Safe, NEW p \in Procs, ~InFlight(p), ~InFlight(p)',
         UNCHANGED <<endpoints, gated, state, log, torn>>
  PROVE  OneEndpointPerModel' /\ PromotionIsLogged' /\ PassIsGated' /\ LogMatchesEndpoint'
  <1>1. \A m : Settled(m) <=> Settled(m)'
    BY SettledByOne
  <1>2. \A m : Live(m)' = Live(m) /\ Latest(m)' = Latest(m)
    BY DEF Live, Latest
  <1>. QED
    BY <1>1, <1>2 DEF Safe, OneEndpointPerModel, PromotionIsLogged, PassIsGated,
         LogMatchesEndpoint

(* The initial state is safe. *)
LEMMA InitSafe == Init => Safe
  BY ConstantsAssumption
     DEF Init, Safe, CopyIsCurrent, OneEndpointPerModel, CommandKnows, Knows,
         PromotionIsLogged, PassIsGated, LogMatchesEndpoint, Live, Promoted

(* Starting a deploy keeps Safe, with one command at a time. *)
LEMMA StartDeploySafe ==
  ASSUME OneOperator, IInv, NEW p \in Procs, StartDeploy(p)
  PROVE  Safe'
  <1>1. At(p, "d_list") /\ Knows(p, "d_list")' /\ local'[p].copy = state'
    BY StartDeployEffect DEF IInv, Knows, files
  <1>2. ~InFlight(p) /\ ~InFlight(p)'
    BY StartDeployEffect DEF IInv, InFlight
  <1>3. UNCHANGED <<endpoints, gated, state, log, torn>>
    BY StartDeployEffect DEF IInv, remote, files
  <1>. QED
    BY <1>1, <1>2, <1>3, QuietStep, CommandsByOne DEF IInv, Safe, Labels

(* Listing the endpoints keeps Safe, with one command at a time. *)
LEMMA ListSafe ==
  ASSUME OneOperator, IInv, NEW p \in Procs, ListEndpoints(p)
  PROVE  Safe'
  <1>1. /\ From(p, "d_list")
        /\ local[p].id = None
        /\ local[p].copy = state
        /\ UNCHANGED <<endpoints, gated, state, log, torn>>
    BY ListEffect DEF IInv, TypeInv, LocalsTyped, Safe, CopyIsCurrent, remote,
         files, From
  <1>2. \E label \in {"d_template", "idle"} :
          /\ At(p, label)
          /\ Knows(p, label)'
          /\ label # "idle" => local'[p].copy = state'
    <2>1. \A m : Live(m)' = Live(m)
      BY <1>1 DEF Live
    <2>2. CASE At(p, "d_template") /\ Live(local[p].model) = {} /\ local'[p] = local[p]
      BY <1>1, <2>1, <2>2 DEF Knows
    <2>3. CASE /\ At(p, "d_template")
               /\ local'[p].id \in EndpointIds
               /\ Live(local[p].model) = {local'[p].id}
               /\ local'[p].seen = endpoints[local'[p].id]
               /\ local'[p].model = local[p].model
               /\ local'[p].copy = local[p].copy
      BY <1>1, <2>1, <2>3, ConstantsAssumption DEF Knows
    <2>4. CASE At(p, "idle")
      BY <2>4 DEF Knows
    <2>. QED
      BY <2>2, <2>3, <2>4, ListEffect DEF IInv
  <1>3. ~InFlight(p) /\ ~InFlight(p)'
    BY <1>1, <1>2 DEF InFlight, From, At, IInv, TypeInv, TypeOK
  <1>. QED
    BY <1>1, <1>2, <1>3, QuietStep, CommandsByOne DEF IInv, Safe, Labels

(* The template step keeps Safe, with one command at a time. *)
LEMMA TemplateSafe ==
  ASSUME OneOperator, IInv, NEW p \in Procs, FindOrCreateTemplate(p)
  PROVE  Safe'
  <1>1. /\ From(p, "d_template")
        /\ At(p, "d_endpoint")
        /\ local'[p] = local[p]
        /\ UNCHANGED <<endpoints, gated, state, log, torn>>
    BY TemplateEffect DEF IInv, files
  <1>2. local'[p].copy = state' /\ Knows(p, "d_template")
    BY <1>1 DEF IInv, Safe, CopyIsCurrent, CommandKnows, From
  <1>3. Knows(p, "d_endpoint")'
    <2>1. \A m : Live(m)' = Live(m)
      BY <1>1 DEF Live
    <2>. QED
      BY <1>1, <1>2, <2>1 DEF Knows
  <1>4. ~InFlight(p) /\ ~InFlight(p)'
    BY <1>1 DEF InFlight, From, At, IInv, TypeInv, TypeOK
  <1>. QED
    BY <1>1, <1>2, <1>3, <1>4, QuietStep, CommandsByOne DEF IInv, Safe, Labels

(* Starting a rollback keeps Safe, with one command at a time. *)
LEMMA StartRollbackSafe ==
  ASSUME OneOperator, IInv, NEW p \in Procs, StartRollback(p)
  PROVE  Safe'
  <1>1. At(p, "r_patch") /\ Knows(p, "r_patch")' /\ local'[p].copy = state'
    BY StartRollbackEffect DEF IInv, Knows, files
  <1>2. ~InFlight(p) /\ ~InFlight(p)'
    BY StartRollbackEffect DEF IInv, InFlight
  <1>3. UNCHANGED <<endpoints, gated, state, log, torn>>
    BY StartRollbackEffect DEF IInv, remote, files
  <1>. QED
    BY <1>1, <1>2, <1>3, QuietStep, CommandsByOne DEF IInv, Safe, Labels

(* Starting a promotion keeps Safe, with one command at a time. *)
LEMMA StartPromoteSafe ==
  ASSUME OneOperator, IInv, NEW p \in Procs, StartPromote(p)
  PROVE  Safe'
  <1>1. /\ At(p, "p_log")
        /\ MayPromote(local'[p].model)
        /\ local'[p].copy = state'
    BY StartPromoteEffect DEF IInv, files
  <1>2. ~InFlight(p) /\ ~InFlight(p)'
    BY StartPromoteEffect DEF IInv, InFlight
  <1>3. UNCHANGED <<endpoints, gated, state, log, torn>>
    BY StartPromoteEffect DEF IInv, remote, files
  <1>4. Knows(p, "p_log")'
    BY <1>1, <1>3 DEF Knows, MayPromote, Latest
  <1>. QED
    BY <1>1, <1>2, <1>3, <1>4, QuietStep, CommandsByOne DEF IInv, Safe, Labels

(* A step that puts another container on the only endpoint of a model, or  *)
(* creates that endpoint, and is then in flight.                           *)
LEMMA ReleaseApplied ==
  ASSUME OneOperator, IInv, NEW p \in Procs, NEW i \in EndpointIds, NEW e \in Endpoint,
         Reendpointed(i, e),
         e.model = local[p].model,
         Live(local[p].model) \subseteq {i},
         endpoints[i] = None \/ endpoints[i].model = e.model,
         gated' = gated \ {i},
         ~InFlight(p), InFlight(p)', local'[p].model = local[p].model,
         UNCHANGED <<state, log, torn>>
  PROVE  /\ OneEndpointPerModel' /\ PromotionIsLogged' /\ PassIsGated' /\ LogMatchesEndpoint'
         /\ Live(e.model)' = {i}
  <1>1. Live(e.model)' = {i} /\ \A m : m # e.model => Live(m)' = Live(m)
    BY ConstantsAssumption DEF Live, Reendpointed
  <1>2. \A m : Settled(m)' => Settled(m) /\ m # e.model
    BY SettledByOne
  <1>3. \A m : Latest(m)' = Latest(m)
    BY DEF Latest
  <1>4. OneEndpointPerModel'
    BY <1>1 DEF IInv, Safe, OneEndpointPerModel
  <1>5. PromotionIsLogged'
    BY <1>3 DEF IInv, Safe, PromotionIsLogged
  <1>6. PassIsGated'
    <2>1. ASSUME NEW m \in Models, m # e.model
          PROVE  i \notin Live(m)
      BY <2>1 DEF Live
    <2>. QED
      BY <1>1, <1>2, <1>3, <2>1 DEF IInv, Safe, PassIsGated
  <1>7. LogMatchesEndpoint'
    <2>1. ASSUME NEW m \in Models, m # e.model
          PROVE  \A j \in Live(m) : endpoints'[j] = endpoints[j]
      BY <2>1 DEF Live, Reendpointed
    <2>. QED
      BY <1>1, <1>2, <1>3, <2>1 DEF IInv, Safe, LogMatchesEndpoint
  <1>. QED
    BY <1>1, <1>4, <1>5, <1>6, <1>7

(* Creating an endpoint keeps Safe, with one command at a time. *)
LEMMA CreateSafe ==
  ASSUME OneOperator, IInv, NEW p \in Procs, CreateEndpoint(p)
  PROVE  Safe'
  <1>1. /\ From(p, "d_endpoint")
        /\ local[p].id = None
        /\ At(p, "d_save")
        /\ UNCHANGED <<state, log, torn>>
    BY CreateEffect DEF IInv, files
  <1>2. PICK i \in EndpointIds, e \in Endpoint :
          /\ endpoints[i] = None
          /\ Reendpointed(i, e)
          /\ e.model = local[p].model
          /\ e.container = local[p].container
          /\ gated' = gated \ {i}
          /\ local'[p] \in Local
          /\ local'[p].id = i
          /\ local'[p].release
          /\ local'[p].model = local[p].model
          /\ local'[p].copy = local[p].copy
          /\ local'[p].container = local[p].container
    BY CreateEffect DEF IInv
  <1>3. local[p].copy = state /\ Live(local[p].model) = {}
    BY <1>1 DEF IInv, Safe, CopyIsCurrent, CommandKnows, Knows, From
  <1>4. ~InFlight(p) /\ InFlight(p)'
    BY <1>1, <1>2 DEF InFlight, From, At, IInv, TypeInv, TypeOK
  <1>5. /\ OneEndpointPerModel' /\ PromotionIsLogged' /\ PassIsGated' /\ LogMatchesEndpoint'
        /\ Live(e.model)' = {i}
    BY <1>1, <1>2, <1>3, <1>4, ReleaseApplied
  <1>6. Knows(p, "d_save")'
    BY <1>2, <1>5 DEF Knows, Reendpointed
  <1>. QED
    BY <1>1, <1>2, <1>3, <1>5, <1>6, CommandsByOne DEF IInv, Safe, Labels

(* Patching an endpoint keeps Safe, with one command at a time. *)
LEMMA PatchSafe ==
  ASSUME OneOperator, IInv, NEW p \in Procs, PatchEndpoint(p)
  PROVE  Safe'
  <1>0. Reendpointed(local[p].id, Patch(endpoints[local[p].id], local[p]))
    BY PatchEffect DEF IInv
  <1>1. PICK i \in EndpointIds, e \in Endpoint :
          /\ i = local[p].id
          /\ From(p, "d_endpoint")
          /\ endpoints[i] \in Endpoint
          /\ At(p, "d_save")
          /\ UNCHANGED <<state, log, torn>>
          /\ Reendpointed(i, e)
          /\ e.model = endpoints[i].model
          /\ local'[p] \in Local
          /\ local'[p].release => e.container = local[p].container
          /\ ~local'[p].release => e.container = endpoints[i].container
          /\ gated' = IF local'[p].release THEN gated \ {i} ELSE gated
          /\ local'[p].id = i
          /\ local'[p].model = local[p].model
          /\ local'[p].copy = local[p].copy
          /\ local'[p].container = local[p].container
    BY <1>0, PatchEffect DEF IInv, files, Reendpointed
  <1>2. local[p].copy = state /\ i \in Live(local[p].model)
    BY <1>1, ConstantsAssumption DEF IInv, Safe, CopyIsCurrent, CommandKnows,
         Knows, From
  <1>3. /\ e \in Endpoint
        /\ e.model = local[p].model
        /\ endpoints'[i] = e
        /\ local[p].model \in Models
        /\ Live(local[p].model) = {i}
    BY <1>1, <1>2, LocalTypes DEF Reendpointed, Live, From, IInv, Safe,
         OneEndpointPerModel
  <1>4. ~InFlight(p) /\ (InFlight(p)' <=> local'[p].release)
    BY <1>1 DEF InFlight, From, At, IInv, TypeInv, TypeOK
  <1>5. CASE local'[p].release
    <2>1. /\ OneEndpointPerModel' /\ PromotionIsLogged' /\ PassIsGated' /\ LogMatchesEndpoint'
          /\ Live(e.model)' = {i}
      BY <1>1, <1>2, <1>3, <1>4, <1>5, ReleaseApplied
    <2>2. Knows(p, "d_save")'
      BY <1>1, <1>3, <2>1 DEF Knows
    <2>. QED
      BY <1>1, <1>2, <2>1, <2>2, CommandsByOne DEF IInv, Safe, Labels
  <1>6. CASE ~local'[p].release
    <2>1. \A m : Live(m)' = Live(m) /\ Latest(m)' = Latest(m)
      BY <1>1, <1>3, ConstantsAssumption DEF Live, Latest, Reendpointed
    <2>2. \A m : Settled(m)' <=> Settled(m)
      BY <1>1, <1>4, <1>6, SettledByOne
    <2>3. \A j \in EndpointIds : endpoints'[j] # None => endpoints'[j].container = endpoints[j].container
      BY <1>1, <1>3, <1>6 DEF Reendpointed
    <2>4. OneEndpointPerModel' /\ PromotionIsLogged' /\ PassIsGated'
      BY <1>1, <1>6, <2>1, <2>2 DEF IInv, Safe, OneEndpointPerModel,
           PromotionIsLogged, PassIsGated
    <2>5. LogMatchesEndpoint'
      <3>1. \A m, j : j \in Live(m)' => endpoints'[j].container = endpoints[j].container
        BY <2>3 DEF Live
      <3>. QED
        BY <1>1, <2>1, <2>2, <3>1 DEF IInv, Safe, LogMatchesEndpoint
    <2>6. Knows(p, "d_save")'
      BY <1>1, <1>3, <1>6, <2>1 DEF Knows
    <2>. QED
      BY <1>1, <1>2, <2>4, <2>5, <2>6, CommandsByOne DEF IInv, Safe, Labels
  <1>. QED
    BY <1>5, <1>6

(* The rollback's patch keeps Safe, with one command at a time. *)
LEMMA RollbackPatchSafe ==
  ASSUME OneOperator, IInv, NEW p \in Procs, RollbackPatch(p)
  PROVE  Safe'
  <1>1. From(p, "r_patch") /\ UNCHANGED <<state, log, torn>> /\ local[p].copy = state
    BY RollbackPatchEffect DEF IInv, Safe, CopyIsCurrent, From, files
  <1>2. ~InFlight(p)
    BY <1>1 DEF InFlight, From
  <1>3. CASE At(p, "idle") /\ UNCHANGED <<endpoints, gated>>
    <2>1. Knows(p, "idle")' /\ ~InFlight(p)'
      BY <1>3 DEF Knows, InFlight, At, IInv, TypeInv, TypeOK
    <2>. QED
      BY <1>1, <1>2, <1>3, <2>1, QuietStep, CommandsByOne DEF IInv, Safe, Labels
  <1>4. CASE ~(At(p, "idle") /\ UNCHANGED <<endpoints, gated>>)
    <2>1. PICK i \in EndpointIds, e \in Endpoint :
            /\ Live(local[p].model) = {i}
            /\ endpoints[i] \in Endpoint
            /\ endpoints[i].model = local[p].model
            /\ Reendpointed(i, e)
            /\ e.model = local[p].model
            /\ e.container = local[p].container
            /\ gated' = gated \ {i}
            /\ At(p, "r_save")
            /\ local'[p] \in Local
            /\ local'[p].id = i
            /\ local'[p].release
            /\ local'[p].model = local[p].model
            /\ local'[p].copy = local[p].copy
            /\ local'[p].container = local[p].container
      BY <1>4, RollbackPatchEffect DEF IInv
    <2>2. InFlight(p)'
      BY <2>1 DEF InFlight, At, IInv, TypeInv, TypeOK
    <2>3. /\ OneEndpointPerModel' /\ PromotionIsLogged' /\ PassIsGated' /\ LogMatchesEndpoint'
          /\ Live(e.model)' = {i}
      BY <1>1, <1>2, <2>1, <2>2, ReleaseApplied
    <2>4. Knows(p, "r_save")'
      BY <2>1, <2>3 DEF Knows, Reendpointed
    <2>. QED
      BY <1>1, <2>1, <2>3, <2>4, CommandsByOne DEF IInv, Safe, Labels
  <1>. QED
    BY <1>3, <1>4

(* The deploy's save keeps Safe, with one command at a time. *)
LEMMA DeploySaveSafe ==
  ASSUME OneOperator, IInv, NEW p \in Procs, DeploySave(p)
  PROVE  Safe'
  <1>0. PICK l \in Local : l = local[p]
    BY DeploySaveEffect DEF IInv, From
  <1>1. /\ From(p, "d_save")
        /\ Resaved(l.copy, l.model, DeployEntry(l))
        /\ IF l.release
           THEN At(p, "append") /\ local'[p] = l
           ELSE At(p, "idle") /\ local'[p] = None
        /\ UNCHANGED <<endpoints, gated, log, torn>>
    BY <1>0, DeploySaveEffect DEF IInv, remote
  <1>2. /\ l.copy = state
        /\ l.id \in Live(l.model)
        /\ l.release => endpoints[l.id].container = l.container
        /\ l.model \in Models
    BY <1>0, <1>1, LocalTypes DEF IInv, Safe, CopyIsCurrent, CommandKnows,
         Knows, From
  <1>3. /\ state'[l.model].id = l.id
        /\ state'[l.model] # None
        /\ Promoted(state'[l.model]) => ~l.release /\ Promoted(state[l.model])
        /\ \A n \in Models \ {l.model} : state'[n] = state[n]
    <2>1. /\ DeployEntry(l).id = l.id
          /\ DeployEntry(l).client_data => ~l.release /\ Promoted(state[l.model])
      BY <1>2 DEF DeployEntry
    <2>2. state'[l.model] = DeployEntry(l) /\ DeployEntry(l) # None
      BY <1>1, ConstantsAssumption DEF Resaved
    <2>. QED
      BY <1>1, <1>2, <2>1, <2>2 DEF Resaved, Promoted
  <1>4. \A m : Live(m)' = Live(m) /\ Latest(m)' = Latest(m)
    BY <1>0, <1>1 DEF Live, Latest
  <1>5. \A m : Settled(m)' <=> Settled(m)
    <2>1. InFlight(p)' <=> InFlight(p)
      BY <1>0, <1>1 DEF InFlight, From, At, IInv, TypeInv, TypeOK
    <2>2. l.release => local'[p] = l
      BY <1>0, <1>1
    <2>3. InFlight(p) => l.release
      BY <1>0 DEF InFlight
    <2>. QED
      BY <1>0, <1>1, <2>1, <2>2, <2>3, SettledByOne
  <1>6. OneEndpointPerModel'
    BY <1>0, <1>2, <1>3, <1>4 DEF IInv, Safe, OneEndpointPerModel
  <1>7. PromotionIsLogged'
    BY <1>0, <1>1, <1>3, <1>4 DEF IInv, Safe, PromotionIsLogged, Promoted
  <1>8. PassIsGated' /\ LogMatchesEndpoint'
    BY <1>0, <1>1, <1>4, <1>5 DEF IInv, Safe, PassIsGated, LogMatchesEndpoint
  <1>9. CopyIsCurrent' /\ CommandKnows'
    <2>1. CASE l.release
      <3>1. Knows(p, "append")'
        BY <1>0, <1>1, <1>2, <1>3, <1>4, <2>1 DEF Knows
      <3>. QED
        BY <1>0, <1>1, <2>1, <3>1, CommandsByOne DEF IInv, Labels
    <2>2. CASE ~l.release
      BY <1>0, <1>1, <2>2, CommandsByOne DEF IInv, Labels, Knows
    <2>. QED
      BY <2>1, <2>2
  <1>. QED
    BY <1>0, <1>6, <1>7, <1>8, <1>9 DEF Safe

(* The rollback's save keeps Safe, with one command at a time. *)
LEMMA RollbackSaveSafe ==
  ASSUME OneOperator, IInv, NEW p \in Procs, RollbackSave(p)
  PROVE  Safe'
  <1>0. PICK l \in Local : l = local[p]
    BY RollbackSaveEffect DEF IInv, From
  <1>1. /\ From(p, "r_save")
        /\ Resaved(l.copy, l.model, RollbackEntry(l))
        /\ At(p, "append") /\ local'[p] = l
        /\ UNCHANGED <<endpoints, gated, log, torn>>
    BY <1>0, RollbackSaveEffect DEF IInv, remote
  <1>2. /\ l.copy = state
        /\ l.id \in Live(l.model)
        /\ l.release
        /\ endpoints[l.id].container = l.container
        /\ l.model \in Models
    BY <1>0, <1>1, LocalTypes DEF IInv, Safe, CopyIsCurrent, CommandKnows,
         Knows, From
  <1>3. /\ state'[l.model].id = l.id
        /\ state'[l.model] # None
        /\ ~Promoted(state'[l.model])
        /\ \A n \in Models \ {l.model} : state'[n] = state[n]
    <2>1. RollbackEntry(l).id = l.id /\ ~RollbackEntry(l).client_data
      BY DEF RollbackEntry
    <2>2. state'[l.model] = RollbackEntry(l) /\ RollbackEntry(l) # None
      BY <1>1, ConstantsAssumption DEF Resaved
    <2>. QED
      BY <1>1, <1>2, <2>1, <2>2 DEF Resaved, Promoted
  <1>4. \A m : Live(m)' = Live(m) /\ Latest(m)' = Latest(m)
    BY <1>0, <1>1 DEF Live, Latest
  <1>5. \A m : Settled(m)' <=> Settled(m)
    <2>1. InFlight(p)' <=> InFlight(p)
      BY <1>0, <1>1 DEF InFlight, From, At, IInv, TypeInv, TypeOK
    <2>. QED
      BY <1>0, <1>1, <2>1, SettledByOne
  <1>6. OneEndpointPerModel'
    BY <1>0, <1>2, <1>3, <1>4 DEF IInv, Safe, OneEndpointPerModel
  <1>7. PromotionIsLogged'
    BY <1>0, <1>1, <1>3, <1>4 DEF IInv, Safe, PromotionIsLogged
  <1>8. PassIsGated' /\ LogMatchesEndpoint'
    BY <1>0, <1>1, <1>4, <1>5 DEF IInv, Safe, PassIsGated, LogMatchesEndpoint
  <1>9. Knows(p, "append")'
    BY <1>0, <1>1, <1>2, <1>3, <1>4 DEF Knows
  <1>. QED
    BY <1>0, <1>1, <1>6, <1>7, <1>8, <1>9, CommandsByOne DEF IInv, Safe, Labels

(* Appending a record keeps Safe, with one command at a time. *)
LEMMA AppendSafe ==
  ASSUME OneOperator, IInv, NEW p \in Procs, AppendRelease(p)
  PROVE  Safe'
  <1>0. PICK l \in Local : l = local[p]
    BY AppendEffect DEF IInv, From
  <1>1. /\ From(p, "append")
        /\ Relogged(l.model, NewRecord(l))
        /\ torn' = torn \ {l.model}
        /\ At(p, "idle") /\ local'[p] = None
        /\ UNCHANGED <<endpoints, gated, state>>
    BY <1>0, AppendEffect DEF IInv, remote
  <1>2. /\ l.id \in Live(l.model)
        /\ l.release
        /\ endpoints[l.id].container = l.container
        /\ ~Promoted(state[l.model])
        /\ l.model \in Models
    BY <1>0, <1>1, LocalTypes DEF IInv, Safe, CommandKnows, Knows, From
  <1>3. \A m : Live(m)' = Live(m)
    BY <1>0, <1>1 DEF Live
  <1>4. /\ log'[l.model] # <<>>
        /\ Latest(l.model)' = NewRecord(l)
        /\ \A n \in Models \ {l.model} : log'[n] = log[n] /\ Latest(n)' = Latest(n)
    BY <1>0, <1>1 DEF Relogged, Latest
  <1>5. \A n \in Models \ {l.model} : Settled(n)' => Settled(n)
    <2>1. ~InFlight(p)'
      BY <1>0, <1>1 DEF InFlight, At, IInv, TypeInv, TypeOK
    <2>. QED
      BY <1>0, <1>1, <2>1, SettledByOne
  <1>6. OneEndpointPerModel'
    BY <1>0, <1>1, <1>3 DEF IInv, Safe, OneEndpointPerModel
  <1>7. PromotionIsLogged'
    BY <1>0, <1>1, <1>2, <1>4 DEF IInv, Safe, PromotionIsLogged
  <1>8. PassIsGated'
    BY <1>0, <1>1, <1>3, <1>4, <1>5 DEF IInv, Safe, PassIsGated, NewRecord
  <1>9. LogMatchesEndpoint'
    <2>1. \A i \in Live(l.model) : i = l.id
      BY <1>0, <1>2 DEF IInv, Safe, OneEndpointPerModel
    <2>2. NewRecord(l).image = l.container.image
      BY DEF NewRecord
    <2>. QED
      BY <1>0, <1>1, <1>2, <1>3, <1>4, <1>5, <2>1, <2>2 DEF IInv, Safe,
           LogMatchesEndpoint
  <1>10. Knows(p, "idle")'
    BY DEF Knows
  <1>. QED
    BY <1>0, <1>1, <1>6, <1>7, <1>8, <1>9, <1>10, CommandsByOne DEF IInv, Safe,
         Labels

(* The promotion's mark in the log keeps Safe, with one command at a time. *)
LEMMA PromoteLogSafe ==
  ASSUME OneOperator, IInv, NEW p \in Procs, PromoteLog(p)
  PROVE  Safe'
  <1>. DEFINE m == local[p].model
  <1>1. /\ From(p, "p_log")
        /\ At(p, "p_save") /\ local'[p] = local[p]
        /\ UNCHANGED <<endpoints, gated, state, torn>>
        /\ log[m] # <<>>
    BY PromoteLogEffect DEF IInv, remote
  <1>2. PICK r \in Record :
          /\ Relogged(m, r)
          /\ r.image = Latest(m).image
          /\ r.parity = Latest(m).parity
          /\ r.promoted
    BY PromoteLogEffect DEF IInv
  <1>3. /\ local[p].copy = state
        /\ state[m] # None
        /\ Latest(m).parity = "pass"
        /\ m \in Models
    BY <1>1, LocalTypes DEF IInv, Safe, CopyIsCurrent, CommandKnows, Knows, From
  <1>4. \A n : Live(n)' = Live(n)
    BY <1>1 DEF Live
  <1>5. /\ log'[m] # <<>>
        /\ Latest(m)' = r
        /\ \A n \in Models \ {m} : log'[n] = log[n] /\ Latest(n)' = Latest(n)
    BY <1>1, <1>2 DEF Relogged, Latest
  <1>6. \A n : Settled(n)' <=> Settled(n)
    <2>1. ~InFlight(p) /\ ~InFlight(p)'
      BY <1>1 DEF InFlight, From, At, IInv, TypeInv, TypeOK
    <2>. QED
      BY <1>1, <2>1, SettledByOne
  <1>7. OneEndpointPerModel'
    BY <1>1, <1>4 DEF IInv, Safe, OneEndpointPerModel
  <1>8. PromotionIsLogged'
    BY <1>1, <1>2, <1>3, <1>5 DEF IInv, Safe, PromotionIsLogged
  <1>9. PassIsGated' /\ LogMatchesEndpoint'
    BY <1>1, <1>2, <1>4, <1>5, <1>6 DEF IInv, Safe, PassIsGated,
         LogMatchesEndpoint
  <1>10. Knows(p, "p_save")'
    BY <1>1, <1>2, <1>3, <1>5 DEF Knows
  <1>. QED
    BY <1>1, <1>3, <1>7, <1>8, <1>9, <1>10, CommandsByOne DEF IInv, Safe, Labels

(* The promotion's save keeps Safe, with one command at a time. *)
LEMMA PromoteSaveSafe ==
  ASSUME OneOperator, IInv, NEW p \in Procs, PromoteSave(p)
  PROVE  Safe'
  <1>. DEFINE l == local[p]
  <1>1. /\ From(p, "p_save")
        /\ At(p, "idle") /\ local'[p] = None
        /\ UNCHANGED <<endpoints, gated, log, torn>>
    BY PromoteSaveEffect DEF IInv, remote
  <1>2. PICK e \in Entry : Resaved(l.copy, l.model, e) /\ e.id = l.copy[l.model].id
    BY PromoteSaveEffect DEF IInv
  <1>3. /\ l.copy = state
        /\ state[l.model] # None
        /\ log[l.model] # <<>>
        /\ Latest(l.model).parity = "pass"
        /\ Latest(l.model).promoted
        /\ l.model \in Models
    BY <1>1, LocalTypes DEF IInv, Safe, CopyIsCurrent, CommandKnows, Knows, From
  <1>4. /\ state'[l.model].id = state[l.model].id
        /\ \A n \in Models \ {l.model} : state'[n] = state[n]
    BY <1>2, <1>3 DEF Resaved
  <1>5. \A m : Live(m)' = Live(m) /\ Latest(m)' = Latest(m)
    BY <1>1 DEF Live, Latest
  <1>6. \A m : Settled(m)' <=> Settled(m)
    <2>1. ~InFlight(p) /\ ~InFlight(p)'
      BY <1>1 DEF InFlight, From, At, IInv, TypeInv, TypeOK
    <2>. QED
      BY <1>1, <2>1, SettledByOne
  <1>7. OneEndpointPerModel'
    BY <1>3, <1>4, <1>5 DEF IInv, Safe, OneEndpointPerModel
  <1>8. PromotionIsLogged'
    BY <1>1, <1>3, <1>4, <1>5 DEF IInv, Safe, PromotionIsLogged
  <1>9. PassIsGated' /\ LogMatchesEndpoint'
    BY <1>1, <1>5, <1>6 DEF IInv, Safe, PassIsGated, LogMatchesEndpoint
  <1>10. Knows(p, "idle")'
    BY DEF Knows
  <1>. QED
    BY <1>1, <1>7, <1>8, <1>9, <1>10, CommandsByOne DEF IInv, Safe, Labels

(* A command that dies keeps Safe, with one command at a time. *)
LEMMA FailSafe ==
  ASSUME OneOperator, IInv, NEW p \in Procs, Fail(p)
  PROVE  Safe'
  <1>1. /\ torn' = IF InFlight(p) THEN torn \cup {local[p].model} ELSE torn
        /\ At(p, "idle")
        /\ UNCHANGED <<endpoints, gated, state, log>>
    BY FailEffect DEF IInv, remote, files
  <1>2. \A m : Live(m)' = Live(m) /\ Latest(m)' = Latest(m)
    BY <1>1 DEF Live, Latest
  <1>3. \A m : Settled(m)' => Settled(m)
    <2>1. ~InFlight(p)'
      BY <1>1 DEF InFlight, At, IInv, TypeInv, TypeOK
    <2>. QED
      BY <1>1, <2>1, SettledByOne
  <1>4. OneEndpointPerModel' /\ PromotionIsLogged'
    BY <1>1, <1>2 DEF IInv, Safe, OneEndpointPerModel, PromotionIsLogged
  <1>5. PassIsGated' /\ LogMatchesEndpoint'
    BY <1>1, <1>2, <1>3 DEF IInv, Safe, PassIsGated, LogMatchesEndpoint
  <1>6. Knows(p, "idle")'
    BY DEF Knows
  <1>. QED
    BY <1>1, <1>4, <1>5, <1>6, CommandsByOne DEF IInv, Safe, Labels

(* An acceptance gate keeps Safe, with one command at a time. *)
LEMMA GateSafe ==
  ASSUME OneOperator, IInv, ParityGate
  PROVE  Safe'
  <1>1. UNCHANGED <<endpoints, state, pc, local, torn>>
    BY GateEffect DEF IInv
  <1>2. PICK m \in Models, r \in Record : \E i \in Live(m) :
          /\ log[m] # <<>>
          /\ Latest(m).parity = "pending"
          /\ Relogged(m, r)
          /\ r.image = Latest(m).image
          /\ r.promoted = Latest(m).promoted
          /\ gated' = IF r.parity = "pass" THEN gated \cup {i} ELSE gated
    BY GateEffect DEF IInv
  <1>3. \A n : Live(n)' = Live(n) /\ (Settled(n)' <=> Settled(n))
    BY <1>1 DEF Live, Settled, Releasing, InFlight
  <1>4. /\ log'[m] # <<>>
        /\ Latest(m)' = r
        /\ \A n \in Models \ {m} : log'[n] = log[n] /\ Latest(n)' = Latest(n)
    BY <1>2 DEF Relogged, Latest
  <1>5. OneEndpointPerModel' /\ CopyIsCurrent'
    BY <1>1, <1>3 DEF IInv, Safe, OneEndpointPerModel, CopyIsCurrent
  <1>6. PromotionIsLogged'
    BY <1>1, <1>2, <1>4 DEF IInv, Safe, PromotionIsLogged
  <1>7. PassIsGated'
    <2>1. Live(m) \subseteq gated' \/ r.parity # "pass"
      BY <1>2 DEF IInv, Safe, OneEndpointPerModel
    <2>2. gated \subseteq gated'
      BY <1>2
    <2>. QED
      BY <1>3, <1>4, <2>1, <2>2 DEF IInv, Safe, PassIsGated
  <1>8. LogMatchesEndpoint'
    BY <1>1, <1>2, <1>3, <1>4 DEF IInv, Safe, LogMatchesEndpoint
  <1>9. CommandKnows'
    <2>. SUFFICES ASSUME NEW p \in Procs
                  PROVE  Knows(p, pc[p])'
      BY DEF CommandKnows
    <2>1. Knows(p, pc[p])
      BY DEF IInv, Safe, CommandKnows
    <2>2. CASE pc[p] \in {"p_log", "p_save"}
      <3>1. local[p].model \in Models \ {m}
        BY <1>2, <2>1, <2>2, LocalTypes DEF Knows, IInv, TypeInv, LocalsTyped
      <3>. QED
        BY <1>1, <1>3, <1>4, <2>1, <2>2, <3>1 DEF Knows
    <2>3. CASE pc[p] \notin {"p_log", "p_save"}
      BY <1>1, <1>3, <2>1, <2>3 DEF Knows
    <2>. QED
      BY <2>2, <2>3
  <1>. QED
    BY <1>5, <1>6, <1>7, <1>8, <1>9 DEF Safe

(* With one command at a time, every step keeps the invariant. *)
LEMMA StepSafe == OneOperator /\ IInv /\ [Next]_vars => IInv'
  <1>. SUFFICES ASSUME OneOperator, IInv, [Next]_vars
                PROVE  IInv'
    OBVIOUS
  <1>1. TypeInv'
    BY StepTyped DEF IInv
  <1>2. CASE UNCHANGED vars
    BY <1>1, <1>2
       DEF vars, IInv, Safe, CopyIsCurrent, OneEndpointPerModel, CommandKnows, Knows,
           PromotionIsLogged, PassIsGated, LogMatchesEndpoint, Live, Latest, Promoted,
           Settled, Releasing, InFlight
  <1>3. ASSUME NEW p \in Procs, Step(p)
        PROVE  Safe'
    BY <1>3, StartDeploySafe, ListSafe, TemplateSafe, CreateSafe, PatchSafe,
         DeploySaveSafe,
       AppendSafe, StartRollbackSafe, RollbackPatchSafe, RollbackSaveSafe, StartPromoteSafe,
       PromoteLogSafe, PromoteSaveSafe, FailSafe DEF Step
  <1>. QED
    BY <1>1, <1>2, <1>3, GateSafe DEF Next, IInv

(* With one command at a time, everything IInv says holds in every state.  *)
LEMMA Invariant ==
  ASSUME OneOperator
  PROVE  Spec => []IInv
  <1>1. Init => IInv
    BY InitTyped, InitSafe DEF IInv
  <1>2. IInv /\ [Next]_vars => IInv'
    BY StepSafe
  <1>. QED
    BY <1>1, <1>2, PTL DEF Spec

(* One command at a time: whenever the state file lets client data out,    *)
(* the release log says that the latest release passed parity and was      *)
(* promoted, also after any number of commands died half way.              *)
THEOREM PromotionLogged ==
  ASSUME OneOperator
  PROVE  Spec => []PromotionIsLogged
  <1>1. IInv => PromotionIsLogged
    BY DEF IInv, Safe
  <1>. QED
    BY <1>1, Invariant, PTL

(* One command at a time: a settled endpoint gets client data only while   *)
(* the container it runs has passed the parity gate.                       *)
THEOREM ClientDataVerified ==
  ASSUME OneOperator
  PROVE  Spec => []ClientDataOnlyToVerified
  <1>1. IInv => ClientDataOnlyToVerified
    <2>. SUFFICES ASSUME IInv, NEW i \in EndpointIds, ClientDataAllowed(i),
                         endpoints[i] # None, Settled(endpoints[i].model)
                  PROVE  i \in gated
      BY DEF ClientDataOnlyToVerified
    <2>1. PICK m \in Models : Promoted(state[m]) /\ state[m].id = i
      BY DEF ClientDataAllowed
    <2>2. i \in Live(m)
      BY <2>1 DEF IInv, Safe, OneEndpointPerModel, Promoted
    <2>3. endpoints[i].model = m
      BY <2>2 DEF Live
    <2>. QED
      BY <2>1, <2>2, <2>3 DEF IInv, Safe, PromotionIsLogged, PassIsGated
  <1>. QED
    BY <1>1, Invariant, PTL

(* One command at a time: a model never has two endpoints, and the state   *)
(* file never names an endpoint of another model.                          *)
THEOREM OneEndpoint ==
  ASSUME OneOperator
  PROVE  Spec => []OneEndpointPerModel
  <1>1. IInv => OneEndpointPerModel
    BY DEF IInv, Safe
  <1>. QED
    BY <1>1, Invariant, PTL

(* One command at a time: the endpoint of a settled model runs the image   *)
(* of the latest release in the log.                                       *)
THEOREM LogIsTrue ==
  ASSUME OneOperator
  PROVE  Spec => []LogMatchesEndpoint
  <1>1. IInv => LogMatchesEndpoint
    BY DEF IInv, Safe
  <1>. QED
    BY <1>1, Invariant, PTL

-----------------------------------------------------------------------------
(* Rollbacks                                                               *)

(* What a rollback is about to apply is the image of an earlier release of *)
(* its model, and not that of the latest.                                  *)
RollsBack(l) ==
  /\ log[l.model] # <<>>
  /\ l.container.image # Latest(l.model).image
  /\ \E k \in DOMAIN log[l.model] : log[l.model][k].image = l.container.image

RollbackKnows == \A p \in Procs : pc[p] = "r_patch" => RollsBack(local[p])

(* Starting a rollback finds such an image.                                *)
LEMMA StartRollbackKnows ==
  ASSUME TypeInv, NEW p \in Procs, StartRollback(p)
  PROVE  RollsBack(local[p])'
  <1>1. PICK m \in Models, t \in templates :
          /\ log[m] # <<>>
          /\ \E i \in Earlier(m) : t.container.image = log[m][i].image
          /\ local' = [local EXCEPT ![p] =
               [model |-> m, copy |-> state, container |-> t.container, volume |-> FALSE,
                warm |-> FALSE, id |-> None, seen |-> None, release |-> FALSE]]
    BY DEF StartRollback
  <1>2. local'[p].model = m /\ local'[p].container = t.container /\ log' = log
    BY <1>1 DEF TypeInv, TypeOK, StartRollback, files
  <1>3. PICK i \in Earlier(m) : t.container.image = log[m][i].image
    BY <1>1
  <1>4. i \in DOMAIN log[m] /\ log[m][i].image # Latest(m).image
    <2>1. PICK s \in Seq(Record) : s = log[m]
      BY DEF TypeInv, TypeOK
    <2>2. \A j \in 1..(Len(s) - 1) : j \in DOMAIN s
      BY <2>1
    <2>. QED
      BY <2>1, <2>2 DEF Earlier
  <1>. QED
    BY <1>1, <1>2, <1>3, <1>4 DEF RollsBack, Latest

(* The parity gate keeps the images of the log.                            *)
LEMMA GateKeepsImages ==
  ASSUME TypeInv, ParityGate, NEW m \in Models, log[m] # <<>>
  PROVE  /\ log'[m] # <<>>
         /\ Latest(m)'.image = Latest(m).image
         /\ \A k \in DOMAIN log[m] : k \in DOMAIN log'[m] /\ log'[m][k].image = log[m][k].image
  <1>1. PICK n \in Models, v \in {"pass", "fail"} :
          /\ log[n] # <<>>
          /\ log' = [log EXCEPT ![n] = [log[n] EXCEPT ![Len(log[n])] = [Latest(n) EXCEPT !.parity = v]]]
    BY DEF ParityGate
  <1>2. log \in [Models -> Seq(Record)]
    BY DEF TypeInv, TypeOK
  <1>3. CASE n # m
    BY <1>1, <1>2, <1>3 DEF Latest
  <1>4. CASE n = m
    <2>1. PICK s \in Seq(Record) : s = log[m]
      BY <1>2
    <2>2. PICK last \in Record : last = Latest(m) /\ last = s[Len(s)]
      BY <2>1, LatestIsRecord DEF TypeInv, Latest
    <2>3. PICK r \in Record : r = [last EXCEPT !.parity = v] /\ r.image = last.image
      <3>1. v \in {"pending", "pass", "fail"}
        OBVIOUS
      <3>2. [last EXCEPT !.parity = v] \in Record /\ [last EXCEPT !.parity = v].image = last.image
        BY <3>1 DEF Record
      <3>. QED
        BY <3>2
    <2>4. PICK t \in Seq(Record) : /\ t = [s EXCEPT ![Len(s)] = r]
                                   /\ t # <<>> /\ Len(t) = Len(s) /\ t[Len(t)] = r
      BY <2>1, ReplaceLast
    <2>5. log' = [log EXCEPT ![m] = t]
      BY <1>1, <1>4, <2>1, <2>2, <2>3, <2>4
    <2>6. log'[m] = t
      BY <1>2, <2>5
    <2>7. \A k \in DOMAIN s : k \in DOMAIN t /\ t[k].image = s[k].image
      BY <2>2, <2>3, <2>4
    <2>8. Latest(m)' = r
      BY <2>4, <2>6 DEF Latest
    <2>. QED
      BY <2>1, <2>2, <2>3, <2>4, <2>6, <2>7, <2>8
  <1>. QED
    BY <1>3, <1>4

LEMMA RollbackStep == OneOperator /\ IInv /\ RollbackKnows /\ [Next]_vars => RollbackKnows'
  <1>. SUFFICES ASSUME OneOperator, IInv, RollbackKnows, [Next]_vars,
                       NEW p \in Procs, pc'[p] = "r_patch"
                PROVE  RollsBack(local[p])'
    BY DEF RollbackKnows
  <1>1. CASE StartRollback(p)
    BY <1>1, StartRollbackKnows DEF IInv
  <1>2. ASSUME pc' = pc, local' = local, log' = log
        PROVE  RollsBack(local[p])'
    BY <1>2 DEF RollbackKnows, RollsBack, Latest
  <1>3. CASE ParityGate
    <2>1. RollsBack(local[p]) /\ pc' = pc /\ local' = local /\ pc[p] = "r_patch"
      BY <1>3 DEF ParityGate, RollbackKnows
    <2>2. PICK m \in Models : m = local[p].model
      BY <2>1, LocalTypes DEF IInv, TypeInv, LocalsTyped
    <2>3. /\ log'[m] # <<>>
          /\ Latest(m)'.image = Latest(m).image
          /\ \A k \in DOMAIN log[m] : k \in DOMAIN log'[m] /\ log'[m][k].image = log[m][k].image
      BY <1>3, <2>1, <2>2, GateKeepsImages DEF RollsBack, IInv
    <2>. QED
      BY <2>1, <2>2, <2>3 DEF RollsBack, Latest
  <1>4. ASSUME NEW q \in Procs, Step(q), ~StartRollback(q)
        PROVE  FALSE
    <2>1. q = p /\ DOMAIN pc = Procs
      BY DEF OneOperator, IInv, TypeInv, TypeOK
    <2>. QED
      BY <1>4, <2>1 DEF Step, Goto, Return, StartDeploy, ListEndpoints,
           FindOrCreateTemplate,
         CreateEndpoint, PatchEndpoint, DeploySave, AppendRelease, RollbackPatch, RollbackSave,
         StartPromote, PromoteLog, PromoteSave, Fail
  <1>5. ASSUME NEW q \in Procs, StartRollback(q)
        PROVE  q = p
    BY DEF OneOperator
  <1>. QED
    BY <1>1, <1>2, <1>3, <1>4, <1>5 DEF Next, vars

(* What RollbackReturnsToEarlier asks of a step.                           *)
RollbackStepIsTrue ==
  \A p \in Procs, i \in EndpointIds :
    /\ pc[p] = "r_patch"
    /\ endpoints'[i] # endpoints[i]
    /\ local[p].model \notin torn
    => /\ endpoints'[i].container.image # endpoints[i].container.image
       /\ \E k \in DOMAIN log[local[p].model] :
            log[local[p].model][k].image = endpoints'[i].container.image

(* One command at a time: a rollback of a model that is not torn changes   *)
(* the image, and only to one that an earlier release of the model ran.    *)
THEOREM RollbackIsEarlier ==
  ASSUME OneOperator
  PROVE  Spec => RollbackReturnsToEarlier
  <1>1. Init => RollbackKnows
    BY DEF Init, RollbackKnows
  <1>2. IInv /\ RollbackKnows /\ [Next]_vars => RollbackKnows'
    BY RollbackStep
  <1>3. IInv /\ RollbackKnows /\ [Next]_vars => [RollbackStepIsTrue]_vars
    <2>. SUFFICES ASSUME IInv, RollbackKnows, [Next]_vars, NEW p \in Procs, NEW i \in EndpointIds,
                         pc[p] = "r_patch", endpoints'[i] # endpoints[i],
                         local[p].model \notin torn
                  PROVE  /\ endpoints'[i].container.image # endpoints[i].container.image
                         /\ \E k \in DOMAIN log[local[p].model] :
                              log[local[p].model][k].image = endpoints'[i].container.image
      BY DEF RollbackStepIsTrue
    <2>1. RollbackPatch(p)
      <3>1. \A q \in Procs : q = p
        BY DEF OneOperator
      <3>. QED
        BY <3>1 DEF Next, vars, ParityGate, Step, StartDeploy, ListEndpoints,
             FindOrCreateTemplate,
           CreateEndpoint, PatchEndpoint, DeploySave, AppendRelease, StartRollback, RollbackSave,
           StartPromote, PromoteLog, PromoteSave, Fail, remote
    <2>2. PICK j \in EndpointIds, e \in Endpoint :
            /\ Live(local[p].model) = {j}
            /\ Reendpointed(j, e)
            /\ e.container = local[p].container
      BY <2>1, RollbackPatchEffect DEF IInv, remote
    <2>3. i = j /\ endpoints'[i] = e
      BY <2>2 DEF Reendpointed
    <2>4. RollsBack(local[p])
      BY DEF RollbackKnows
    <2>5. local[p].model \in Models /\ Settled(local[p].model)
      <3>1. local[p] \in Local
        BY DEF IInv, TypeInv, LocalsTyped
      <3>2. ~InFlight(p)
        BY DEF InFlight
      <3>. QED
        BY <3>1, <3>2, LocalTypes, SettledByOne
    <2>6. endpoints[i].container.image = Latest(local[p].model).image
      BY <2>2, <2>3, <2>5 DEF IInv, Safe, LogMatchesEndpoint
    <2>. QED
      BY <2>2, <2>3, <2>4, <2>6 DEF RollsBack
  <1>. QED
    BY <1>1, <1>2, <1>3, Invariant, PTL DEF Spec, RollbackReturnsToEarlier,
         RollbackStepIsTrue

-----------------------------------------------------------------------------
(* The refinement of ClientDataPromise                                     *)

(* The endpoints that client data is let out to, among the settled ones.   *)
Open == {i \in EndpointIds : /\ ClientDataAllowed(i)
                             /\ endpoints[i] # None
                             /\ Settled(endpoints[i].model)}

OpenModel(m) == Promoted(state[m]) /\ Settled(m)

(* They are the endpoints of the settled models that are promoted.         *)
LEMMA OpenIs ==
  ASSUME IInv
  PROVE  \A i : i \in Open <=> \E m \in Models : OpenModel(m) /\ state[m].id = i
  <1>1. \A m \in Models : Promoted(state[m]) =>
          /\ state[m].id \in EndpointIds
          /\ endpoints[state[m].id] # None
          /\ endpoints[state[m].id].model = m
    BY DEF IInv, Safe, OneEndpointPerModel, Live, Promoted
  <1>. QED
    BY <1>1 DEF Open, OpenModel, ClientDataAllowed

LEMMA OpenBecomes ==
  ASSUME IInv'
  PROVE  \A i : i \in Open' <=> \E m \in Models : OpenModel(m)' /\ state'[m].id = i
  <1>1. \A m \in Models : Promoted(state'[m]) =>
          /\ state'[m].id \in EndpointIds
          /\ endpoints'[state'[m].id] # None
          /\ endpoints'[state'[m].id].model = m
    BY DEF IInv, Safe, OneEndpointPerModel, Live, Promoted
  <1>. QED
    BY <1>1 DEF Open, OpenModel, ClientDataAllowed, Promoted

(* A step that changes nothing for the promoted, settled models.           *)
LEMMA OpenSame ==
  ASSUME IInv, IInv',
         \A m \in Models : /\ OpenModel(m)' <=> OpenModel(m)
                           /\ OpenModel(m) => state'[m].id = state[m].id
  PROVE  Open' = Open
  <1>1. \A i : i \in Open' <=> i \in Open
    BY OpenIs, OpenBecomes
  <1>. QED
    BY <1>1

(* A step that leaves the files alone, and is not about a release.         *)
LEMMA OpenQuiet ==
  ASSUME IInv, IInv', state' = state, \A m : Settled(m)' <=> Settled(m)
  PROVE  Open' = Open
  BY OpenSame DEF OpenModel, Promoted

(* A step that begins a release of a model shuts its endpoint.             *)
LEMMA OpenLess ==
  ASSUME IInv, IInv', state' = state, NEW m \in Models, NEW i \in Live(m)', ~Settled(m)',
         \A n : n # m => (Settled(n)' <=> Settled(n))
  PROVE  Open' = Open \ {i}
  <1>1. \A n \in Models : OpenModel(n)' <=> OpenModel(n) /\ n # m
    BY DEF OpenModel, Promoted
  <1>2. \A n \in Models : Promoted(state[n]) => (state[n].id = i <=> n = m)
    <2>1. \A n \in Models : Promoted(state[n]) => state[n].id \in Live(n)'
      BY DEF IInv, Safe, OneEndpointPerModel, Promoted
    <2>2. \A n \in Models : i \in Live(n)' => n = m
      BY DEF Live
    <2>. QED
      BY <2>1, <2>2 DEF IInv, Safe, OneEndpointPerModel
  <1>3. \A j : j \in Open' <=> j \in Open /\ j # i
    BY <1>1, <1>2, OpenIs, OpenBecomes DEF OpenModel
  <1>. QED
    BY <1>3

(* The locals of a command name its model.                                 *)
LEMMA CommandsModel ==
  ASSUME IInv, NEW p \in Procs, pc[p] # "idle"
  PROVE  local[p] \in Local /\ local[p].model \in Models
  BY LocalTypes DEF IInv, TypeInv, LocalsTyped

(* A step of the one command that is not about a release.                  *)
LEMMA QuietByOne ==
  ASSUME OneOperator, IInv, IInv', NEW p \in Procs, state' = state, torn' = torn,
         ~InFlight(p), ~InFlight(p)'
  PROVE  Open' = Open
  <1>1. \A m : Settled(m)' <=> Settled(m)
    BY SettledByOne
  <1>. QED
    BY <1>1, OpenQuiet

(* A step by which the one command puts a container on endpoint i.         *)
LEMMA ReleaseByOne ==
  ASSUME OneOperator, IInv, IInv', NEW p \in Procs, state' = state, torn' = torn,
         ~InFlight(p), InFlight(p)', NEW m \in Models, local'[p].model = m,
         NEW i \in Live(m)'
  PROVE  Open' = Open \ {i}
  <1>1. ~Settled(m)' /\ \A n : n # m => (Settled(n)' <=> Settled(n))
    BY SettledByOne
  <1>. QED
    BY <1>1, OpenLess

(* What the promise allows a step to do.                                   *)
Allowed ==
  \/ gated' = gated /\ Open' = Open
  \/ \E i \in EndpointIds : gated' = gated \ {i} /\ Open' = Open \ {i}
  \/ \E i \in EndpointIds : gated' = gated \cup {i} /\ Open' = Open
  \/ \E i \in EndpointIds : i \in gated /\ gated' = gated /\ Open' = Open \cup {i}

LEMMA CreateAllowed ==
  ASSUME OneOperator, IInv, IInv', NEW p \in Procs, CreateEndpoint(p)
  PROVE  Allowed
  <1>1. PICK i \in EndpointIds, e \in Endpoint :
          /\ Reendpointed(i, e)
          /\ e.model = local[p].model
          /\ gated' = gated \ {i}
          /\ local'[p].release
          /\ local'[p].model = local[p].model
    BY CreateEffect DEF IInv
  <1>2. /\ From(p, "d_endpoint")
        /\ At(p, "d_save")
        /\ state' = state
        /\ torn' = torn
    BY CreateEffect DEF IInv, files
  <1>3. ~InFlight(p) /\ InFlight(p)'
    BY <1>1, <1>2 DEF InFlight, From, At, IInv, TypeInv, TypeOK
  <1>4. PICK m \in Models : m = local[p].model /\ local'[p].model = m
    BY <1>1, <1>2, CommandsModel DEF From
  <1>5. i \in Live(m)'
    BY <1>1, <1>4, ConstantsAssumption DEF Reendpointed, Live
  <1>6. Open' = Open \ {i}
    BY <1>2, <1>3, <1>4, <1>5, ReleaseByOne
  <1>. QED
    BY <1>1, <1>6 DEF Allowed

LEMMA PatchAllowed ==
  ASSUME OneOperator, IInv, IInv', NEW p \in Procs, PatchEndpoint(p)
  PROVE  Allowed
  <1>1. PICK i \in EndpointIds, e \in Endpoint :
          /\ i = local[p].id
          /\ Reendpointed(i, e)
          /\ e.model = endpoints[i].model
          /\ gated' = IF local'[p].release THEN gated \ {i} ELSE gated
    BY PatchEffect DEF IInv, Reendpointed
  <1>2. /\ From(p, "d_endpoint")
        /\ At(p, "d_save")
        /\ state' = state
        /\ torn' = torn
        /\ local'[p].model = local[p].model
        /\ local[p].id \in EndpointIds
    BY PatchEffect DEF IInv, files
  <1>3. ~InFlight(p) /\ (InFlight(p)' <=> local'[p].release)
    BY <1>2 DEF InFlight, From, At, IInv, TypeInv, TypeOK
  <1>4. PICK m \in Models : m = local[p].model /\ local'[p].model = m
    BY <1>2, CommandsModel DEF From
  <1>5. i \in Live(m)'
    <2>1. i \in Live(m)
      BY <1>1, <1>2, <1>4, ConstantsAssumption
         DEF IInv, Safe, CommandKnows, Knows, From
    <2>. QED
      BY <1>1, <2>1, ConstantsAssumption DEF Reendpointed, Live
  <1>6. CASE local'[p].release
    <2>1. Open' = Open \ {i}
      BY <1>2, <1>3, <1>4, <1>5, <1>6, ReleaseByOne
    <2>. QED
      BY <1>1, <1>6, <2>1 DEF Allowed
  <1>7. CASE ~local'[p].release
    BY <1>1, <1>2, <1>3, <1>7, QuietByOne DEF Allowed
  <1>. QED
    BY <1>6, <1>7

LEMMA RollbackPatchAllowed ==
  ASSUME OneOperator, IInv, IInv', NEW p \in Procs, RollbackPatch(p)
  PROVE  Allowed
  <1>1. From(p, "r_patch") /\ state' = state /\ torn' = torn
    BY RollbackPatchEffect DEF IInv, files
  <1>2. ~InFlight(p)
    BY <1>1 DEF InFlight, From
  <1>3. CASE At(p, "idle") /\ UNCHANGED <<endpoints, gated>>
    <2>1. ~InFlight(p)'
      BY <1>3 DEF InFlight, At, IInv, TypeInv, TypeOK
    <2>. QED
      BY <1>1, <1>2, <1>3, <2>1, QuietByOne DEF Allowed
  <1>4. CASE ~(At(p, "idle") /\ UNCHANGED <<endpoints, gated>>)
    <2>1. PICK i \in EndpointIds, e \in Endpoint :
            /\ Reendpointed(i, e)
            /\ e.model = local[p].model
            /\ gated' = gated \ {i}
            /\ At(p, "r_save")
            /\ local'[p].release
            /\ local'[p].model = local[p].model
      BY <1>4, RollbackPatchEffect DEF IInv
    <2>2. InFlight(p)'
      BY <2>1 DEF InFlight, At, IInv, TypeInv, TypeOK
    <2>3. PICK m \in Models : m = local[p].model /\ local'[p].model = m
      BY <1>1, <2>1, CommandsModel DEF From
    <2>4. i \in Live(m)'
      BY <2>1, <2>3, ConstantsAssumption DEF Reendpointed, Live
    <2>5. Open' = Open \ {i}
      BY <1>1, <1>2, <2>2, <2>3, <2>4, ReleaseByOne
    <2>. QED
      BY <2>1, <2>5 DEF Allowed
  <1>. QED
    BY <1>3, <1>4

LEMMA DeploySaveAllowed ==
  ASSUME OneOperator, IInv, IInv', NEW p \in Procs, DeploySave(p)
  PROVE  Allowed
  <1>0. PICK l \in Local : l = local[p]
    BY DeploySaveEffect DEF IInv, From
  <1>1. /\ From(p, "d_save")
        /\ Resaved(l.copy, l.model, DeployEntry(l))
        /\ IF l.release
           THEN At(p, "append") /\ local'[p] = l
           ELSE At(p, "idle") /\ local'[p] = None
        /\ gated' = gated
        /\ torn' = torn
    BY <1>0, DeploySaveEffect DEF IInv, remote
  <1>2. l.copy = state /\ l.id \in Live(l.model) /\ l.model \in Models
    BY <1>0, <1>1, LocalTypes DEF IInv, Safe, CopyIsCurrent, CommandKnows,
         Knows, From
  <1>3. \A m : Settled(m)' <=> Settled(m)
    <2>1. InFlight(p)' <=> InFlight(p)
      BY <1>0, <1>1 DEF InFlight, From, At, IInv, TypeInv, TypeOK
    <2>2. l.release => local'[p] = l
      BY <1>0, <1>1
    <2>3. InFlight(p) => l.release
      BY <1>0 DEF InFlight
    <2>. QED
      BY <1>0, <1>1, <2>1, <2>2, <2>3, SettledByOne
  <1>4. \A n \in Models \ {l.model} : state'[n] = state[n]
    BY <1>1, <1>2 DEF Resaved
  <1>5. CASE l.release
    <2>1. ~Settled(l.model)
      BY <1>0, <1>1, <1>5, SettledByOne DEF InFlight, From
    <2>. QED
      BY <1>1, <1>3, <1>4, <2>1, OpenSame DEF OpenModel, Promoted, Allowed
  <1>6. CASE ~l.release
    <2>1. /\ state'[l.model] # None
          /\ state'[l.model].id = l.id
          /\ state'[l.model].client_data <=> Promoted(state[l.model])
      <3>1. state'[l.model] = DeployEntry(l) /\ DeployEntry(l) # None
        BY <1>1, ConstantsAssumption DEF Resaved
      <3>2. DeployEntry(l).id = l.id
        BY DEF DeployEntry
      <3>3. DeployEntry(l).client_data <=> ~l.release /\ Promoted(state[l.model])
        BY <1>2 DEF DeployEntry
      <3>. QED
        BY <1>6, <3>1, <3>2, <3>3
    <2>2. Promoted(state[l.model]) => state[l.model].id = l.id
      BY <1>2 DEF IInv, Safe, OneEndpointPerModel, Promoted
    <2>3. \A m \in Models : OpenModel(m)' <=> OpenModel(m)
      BY <1>2, <1>3, <1>4, <2>1 DEF OpenModel, Promoted
    <2>4. \A m \in Models : OpenModel(m) => state'[m].id = state[m].id
      BY <1>4, <2>1, <2>2 DEF OpenModel
    <2>. QED
      BY <1>1, <2>3, <2>4, OpenSame DEF Allowed
  <1>. QED
    BY <1>5, <1>6

LEMMA RollbackSaveAllowed ==
  ASSUME OneOperator, IInv, IInv', NEW p \in Procs, RollbackSave(p)
  PROVE  Allowed
  <1>0. PICK l \in Local : l = local[p]
    BY RollbackSaveEffect DEF IInv, From
  <1>1. /\ From(p, "r_save")
        /\ Resaved(l.copy, l.model, RollbackEntry(l))
        /\ At(p, "append") /\ local'[p] = l
        /\ gated' = gated
        /\ torn' = torn
    BY <1>0, RollbackSaveEffect DEF IInv, remote
  <1>2. l.copy = state /\ l.release /\ l.model \in Models
    BY <1>0, <1>1, LocalTypes DEF IInv, Safe, CopyIsCurrent, CommandKnows,
         Knows, From
  <1>3. \A m : Settled(m)' <=> Settled(m)
    <2>1. InFlight(p)' <=> InFlight(p)
      BY <1>0, <1>1 DEF InFlight, From, At, IInv, TypeInv, TypeOK
    <2>. QED
      BY <1>0, <1>1, <2>1, SettledByOne
  <1>4. \A n \in Models \ {l.model} : state'[n] = state[n]
    BY <1>1, <1>2 DEF Resaved
  <1>5. ~Settled(l.model)
    BY <1>0, <1>1, <1>2, SettledByOne DEF InFlight, From
  <1>. QED
    BY <1>1, <1>3, <1>4, <1>5, OpenSame DEF OpenModel, Promoted, Allowed

LEMMA AppendAllowed ==
  ASSUME OneOperator, IInv, IInv', NEW p \in Procs, AppendRelease(p)
  PROVE  Allowed
  <1>1. /\ From(p, "append")
        /\ torn' = torn \ {local[p].model}
        /\ At(p, "idle")
        /\ UNCHANGED <<gated, state>>
    BY AppendEffect DEF IInv, remote
  <1>2. ~Promoted(state[local[p].model])
    BY <1>1 DEF IInv, Safe, CommandKnows, Knows, From
  <1>3. \A n : n # local[p].model => (Settled(n)' <=> Settled(n))
    <2>1. ~InFlight(p)'
      BY <1>1 DEF InFlight, At, IInv, TypeInv, TypeOK
    <2>. QED
      BY <1>1, <2>1, SettledByOne
  <1>. QED
    BY <1>1, <1>2, <1>3, OpenSame DEF OpenModel, Promoted, Allowed

LEMMA PromoteSaveAllowed ==
  ASSUME OneOperator, IInv, IInv', NEW p \in Procs, PromoteSave(p)
  PROVE  Allowed
  <1>. DEFINE l == local[p]
              m == l.model
  <1>1. /\ From(p, "p_save")
        /\ At(p, "idle")
        /\ UNCHANGED <<endpoints, gated, log, torn>>
    BY PromoteSaveEffect DEF IInv, remote
  <1>2. PICK e \in Entry :
          Resaved(l.copy, m, e) /\ e.id = l.copy[m].id /\ e.client_data
    BY PromoteSaveEffect DEF IInv
  <1>3. /\ l.copy = state
        /\ state[m] # None
        /\ log[m] # <<>>
        /\ Latest(m).parity = "pass"
        /\ m \in Models
    BY <1>1, LocalTypes DEF IInv, Safe, CopyIsCurrent, CommandKnows, Knows, From
  <1>4. \A n : Settled(n)' <=> Settled(n)
    <2>1. ~InFlight(p) /\ ~InFlight(p)'
      BY <1>1 DEF InFlight, From, At, IInv, TypeInv, TypeOK
    <2>. QED
      BY <1>1, <2>1, SettledByOne
  <1>5. /\ state'[m].id = state[m].id
        /\ Promoted(state'[m])
        /\ \A n \in Models \ {m} : state'[n] = state[n]
    BY <1>2, <1>3, ConstantsAssumption DEF Resaved, Promoted
  <1>6. PICK i \in EndpointIds : i = state[m].id /\ i \in Live(m)
    BY <1>3 DEF IInv, Safe, OneEndpointPerModel, Live
  <1>. HIDE DEF l, m
  <1>7. CASE Settled(m)
    <2>1. i \in gated
      BY <1>3, <1>6, <1>7 DEF IInv, Safe, PassIsGated
    <2>2. \A n \in Models : OpenModel(n)' <=> OpenModel(n) \/ n = m
      BY <1>4, <1>5, <1>7 DEF OpenModel, Promoted
    <2>3. \A j : j \in Open' <=> j \in Open \/ j = i
      BY <1>3, <1>5, <1>6, <2>2, OpenIs, OpenBecomes
    <2>4. Open' = Open \cup {i}
      BY <2>3
    <2>. QED
      BY <1>1, <2>1, <2>4 DEF Allowed
  <1>8. CASE ~Settled(m)
    <2>1. \A n \in Models : /\ OpenModel(n)' <=> OpenModel(n)
                            /\ OpenModel(n) => state'[n].id = state[n].id
      BY <1>4, <1>5, <1>8 DEF OpenModel, Promoted
    <2>. QED
      BY <1>1, <2>1, OpenSame DEF Allowed
  <1>. QED
    BY <1>7, <1>8

LEMMA FailAllowed ==
  ASSUME OneOperator, IInv, IInv', NEW p \in Procs, Fail(p)
  PROVE  Allowed
  <1>1. /\ torn' = IF InFlight(p) THEN torn \cup {local[p].model} ELSE torn
        /\ At(p, "idle")
        /\ UNCHANGED <<gated, state>>
    BY FailEffect DEF IInv, remote, files
  <1>2. ~InFlight(p)'
    BY <1>1 DEF InFlight, At, IInv, TypeInv, TypeOK
  <1>3. \A m : Settled(m)' <=> Settled(m)
    BY <1>1, <1>2, SettledByOne
  <1>. QED
    BY <1>1, <1>3, OpenQuiet DEF Allowed

LEMMA GateAllowed ==
  ASSUME IInv, IInv', ParityGate
  PROVE  Allowed
  <1>1. state' = state /\ pc' = pc /\ local' = local /\ torn' = torn
    BY GateEffect DEF IInv
  <1>2. Open' = Open
    BY <1>1, OpenQuiet DEF Settled, Releasing, InFlight
  <1>3. gated' = gated \/ \E i \in EndpointIds : gated' = gated \cup {i}
    BY GateEffect DEF IInv, Live
  <1>. QED
    BY <1>2, <1>3 DEF Allowed

(* The steps that prepare a command, and the mark in the log.              *)
LEMMA OthersAllowed ==
  ASSUME OneOperator, IInv, IInv', NEW p \in Procs,
         \/ StartDeploy(p) \/ ListEndpoints(p) \/ FindOrCreateTemplate(p)
         \/ StartRollback(p) \/ StartPromote(p) \/ PromoteLog(p)
  PROVE  Allowed
  <1>1. gated' = gated /\ state' = state /\ torn' = torn
    BY DEF StartDeploy, ListEndpoints, FindOrCreateTemplate, StartRollback,
         StartPromote,
           PromoteLog, remote, files
  <1>2. ~InFlight(p)
    BY DEF StartDeploy, ListEndpoints, FindOrCreateTemplate, StartRollback,
         StartPromote,
           PromoteLog, InFlight
  <1>3. ~InFlight(p)'
    BY DEF StartDeploy, ListEndpoints, FindOrCreateTemplate, StartRollback,
         StartPromote,
           PromoteLog, Goto, Return, InFlight, IInv, TypeInv, TypeOK
  <1>. QED
    BY <1>1, <1>2, <1>3, QuietByOne DEF Allowed

LEMMA EveryStepAllowed == OneOperator /\ IInv /\ [Next]_vars => Allowed
  <1>. SUFFICES ASSUME OneOperator, IInv, [Next]_vars
                PROVE  Allowed
    OBVIOUS
  <1>1. IInv'
    BY StepSafe
  <1>2. CASE UNCHANGED vars
    BY <1>2 DEF vars, Allowed, Open, ClientDataAllowed, Promoted, Settled,
         Releasing, InFlight
  <1>3. ASSUME NEW p \in Procs, Step(p)
        PROVE  Allowed
    BY <1>1, <1>3, CreateAllowed, PatchAllowed, DeploySaveAllowed,
         AppendAllowed,
       RollbackPatchAllowed, RollbackSaveAllowed, PromoteSaveAllowed, FailAllowed,
       OthersAllowed DEF Step
  <1>. QED
    BY <1>1, <1>2, <1>3, GateAllowed DEF Next

LEMMA PromiseStep == OneOperator /\ IInv /\ [Next]_vars => [Promise!Next]_(Promise!vars)
  <1>. SUFFICES ASSUME Allowed
                PROVE  [Promise!Next]_(Promise!vars)
    BY EveryStepAllowed
  <1>1. CASE gated' = gated /\ Open' = Open
    BY <1>1 DEF Promise!vars, Open
  <1>2. ASSUME NEW i \in EndpointIds, gated' = gated \ {i}, Open' = Open \ {i}
        PROVE  Promise!Release(i)
    BY <1>2, Zenon DEF Promise!Release, Open
  <1>3. ASSUME NEW i \in EndpointIds, gated' = gated \cup {i}, Open' = Open
        PROVE  Promise!Verify(i)
    BY <1>3, Zenon DEF Promise!Verify, Open
  <1>4. ASSUME NEW i \in EndpointIds, i \in gated, gated' = gated, Open' = Open \cup {i}
        PROVE  Promise!Promote(i)
    BY <1>4, Zenon DEF Promise!Promote, Open
  <1>. QED
    BY <1>1, <1>2, <1>3, <1>4, Zenon DEF Allowed, Promise!Next

(* One command at a time: release management implements the promise of     *)
(* ClientDataPromise. A new container shuts its endpoint, and an endpoint  *)
(* is opened only once the container it runs has passed the parity gate.   *)
THEOREM PromiseIsKept ==
  ASSUME OneOperator
  PROVE  Spec => KeepsPromise
  <1>1. Init => Promise!Init
    BY DEF Init, Promise!Init, ClientDataAllowed, Promoted
  <1>2. IInv /\ [Next]_vars => [Promise!Next]_(Promise!vars)
    BY PromiseStep
  <1>. QED
    BY <1>1, <1>2, Invariant, PTL DEF Spec, KeepsPromise, Promise!Spec

-----------------------------------------------------------------------------
(* Overlapping commands                                                    *)
(*                                                                         *)
(* Two commands that overlap overwrite each other's state file, and the    *)
(* invariant above is lost with it: a stale copy brings back what another  *)
(* command took out.  What a copy can bring back is bounded all the same,  *)
(* for the log and the endpoints only ever grow: the invariant says of     *)
(* every copy of the file what the property says of the file itself.       *)

PassedOnce(m) == \E k \in DOMAIN log[m] : log[m][k].parity = "pass"

PromotedOnce(m) == \E k \in DOMAIN log[m] : log[m][k].promoted

(* Id i is that of an endpoint of model m.                                 *)
OfModel(i, m) == endpoints[i] # None /\ endpoints[i].model = m

(* The entry of a model names an endpoint of that model, and is promoted   *)
(* only if the model was.                                                  *)
EntryIsKnown(m, e) ==
  e # None =>
    /\ OfModel(e.id, m)
    /\ e.client_data => PassedOnce(m) /\ PromotedOnce(m)

FileIsKnown(f) == \A m \in Models : EntryIsKnown(m, f[m])

(* The labels from which a command still acts on its endpoint.             *)
ActsOn == {"d_template", "d_endpoint", "d_save", "r_save"}

(* What a command at a label carries, however many run beside it.          *)
CarriesAt(p, label) ==
  /\ label # "idle" => FileIsKnown(local[p].copy)
  /\ label \in ActsOn /\ local[p].id # None => OfModel(local[p].id, local[p].model)
  /\ label \in {"p_log", "p_save"} => PassedOnce(local[p].model)
  /\ label = "p_save" => PromotedOnce(local[p].model)

OverlapInv ==
  /\ TypeInv
  /\ FileIsKnown(state)
  /\ \A p \in Procs : CarriesAt(p, pc[p])

(* A log t has every verdict "pass" and every mark of the log s.           *)
Remembers(s, t) ==
  \A k \in DOMAIN s :
    /\ k \in DOMAIN t
    /\ s[k].parity = "pass" => t[k].parity = "pass"
    /\ s[k].promoted => t[k].promoted

LEMMA AppendRemembers ==
  ASSUME NEW s \in Seq(Record), NEW r \in Record
  PROVE  Remembers(s, Append(s, r))
  <1>1. /\ Append(s, r) \in Seq(Record)
        /\ Len(Append(s, r)) = Len(s) + 1
        /\ \A k \in 1..Len(s) : Append(s, r)[k] = s[k]
    BY AppendProperties
  <1>2. /\ DOMAIN s = 1..Len(s)
        /\ DOMAIN Append(s, r) = 1..(Len(s) + 1)
        /\ Len(s) \in Nat
    BY <1>1, LenProperties
  <1>. QED
    BY <1>1, <1>2 DEF Remembers

LEMMA ReplaceRemembers ==
  ASSUME NEW s \in Seq(Record), s # <<>>, NEW r \in Record,
         s[Len(s)].parity = "pass" => r.parity = "pass",
         s[Len(s)].promoted => r.promoted
  PROVE  Remembers(s, [s EXCEPT ![Len(s)] = r])
  BY DEF Remembers

(* The command whose step replaces the latest record of model m.           *)
LEMMA RelogRemembers ==
  ASSUME TypeInv, NEW m \in Models, log[m] # <<>>, NEW r \in Record,
         Latest(m).parity = "pass" => r.parity = "pass",
         Latest(m).promoted => r.promoted,
         log' = [log EXCEPT ![m] = [log[m] EXCEPT ![Len(log[m])] = r]]
  PROVE  \A n \in Models : Remembers(log[n], log'[n])
  <1>1. log \in [Models -> Seq(Record)]
    BY DEF TypeInv, TypeOK
  <1>2. Remembers(log[m], log'[m])
    <2>1. PICK s \in Seq(Record) : s = log[m]
      BY <1>1
    <2>. DEFINE t == [s EXCEPT ![Len(s)] = r]
    <2>2. Remembers(s, t)
      BY <2>1, ReplaceRemembers DEF Latest
    <2>3. log' = [log EXCEPT ![m] = t]
      BY <2>1
    <2>. HIDE DEF t
    <2>. QED
      BY <1>1, <2>1, <2>2, <2>3
  <1>3. \A n \in Models \ {m} : log'[n] = log[n]
    BY <1>1
  <1>. QED
    BY <1>2, <1>3 DEF Remembers

(* No step takes a verdict or a mark out of the log.                       *)
LEMMA LogRemembers ==
  ASSUME TypeInv, [Next]_vars
  PROVE  \A n \in Models : Remembers(log[n], log'[n])
  <1>0. log \in [Models -> Seq(Record)]
    BY DEF TypeInv, TypeOK
  <1>1. CASE log' = log
    BY <1>1 DEF Remembers
  <1>2. ASSUME NEW p \in Procs, AppendRelease(p)
        PROVE  \A n \in Models : Remembers(log[n], log'[n])
    <2>1. PICK m \in Models, r \in Record : log' = [log EXCEPT ![m] = Append(log[m], r)]
      <3>1. local[p] \in Local
        BY <1>2, AppendEffect DEF From
      <3>2. local[p].model \in Models /\ NewRecord(local[p]) \in Record
        BY <3>1, LocalTypes DEF NewRecord, Record, Container
      <3>. QED
        BY <1>2, <3>2 DEF AppendRelease
    <2>2. Remembers(log[m], log'[m])
      BY <1>0, <2>1, AppendRemembers
    <2>3. \A n \in Models \ {m} : log'[n] = log[n]
      BY <1>0, <2>1
    <2>. QED
      BY <2>2, <2>3 DEF Remembers
  <1>3. ASSUME NEW p \in Procs, PromoteLog(p)
        PROVE  \A n \in Models : Remembers(log[n], log'[n])
    <2>1. PICK m \in Models : m = local[p].model /\ log[m] # <<>>
      BY <1>3, PromoteLogEffect, LocalTypes DEF From
    <2>2. Latest(m) \in Record
      BY <2>1, LatestIsRecord DEF TypeInv
    <2>. DEFINE r == [Latest(m) EXCEPT !.promoted = TRUE]
    <2>3. r \in Record /\ r.parity = Latest(m).parity /\ r.promoted
      BY <2>2 DEF Record
    <2>4. log' = [log EXCEPT ![m] = [log[m] EXCEPT ![Len(log[m])] = r]]
      BY <1>3, <2>1 DEF PromoteLog
    <2>5. PICK q \in Record : q = r
      BY <2>3
    <2>. HIDE DEF r
    <2>. QED
      BY <2>1, <2>3, <2>4, <2>5, RelogRemembers
  <1>4. CASE ParityGate
    <2>1. PICK m \in Models, v \in {"pass", "fail"} :
            /\ log[m] # <<>>
            /\ Latest(m).parity = "pending"
            /\ log' = [log EXCEPT ![m] =
                 [log[m] EXCEPT ![Len(log[m])] = [Latest(m) EXCEPT !.parity = v]]]
      BY <1>4 DEF ParityGate
    <2>2. Latest(m) \in Record
      BY <2>1, LatestIsRecord DEF TypeInv
    <2>. DEFINE r == [Latest(m) EXCEPT !.parity = v]
    <2>3. r \in Record /\ r.promoted = Latest(m).promoted
      BY <2>2 DEF Record
    <2>4. log' = [log EXCEPT ![m] = [log[m] EXCEPT ![Len(log[m])] = r]]
      BY <2>1
    <2>5. PICK q \in Record : q = r
      BY <2>3
    <2>. HIDE DEF r
    <2>. QED
      BY <2>1, <2>3, <2>4, <2>5, RelogRemembers
  <1>5. ASSUME NEW p \in Procs, Step(p), ~AppendRelease(p), ~PromoteLog(p)
        PROVE  log' = log
    <2>1. /\ StartDeploy(p) => log' = log
          /\ ListEndpoints(p) => log' = log
          /\ FindOrCreateTemplate(p) => log' = log
          /\ CreateEndpoint(p) => log' = log
          /\ PatchEndpoint(p) => log' = log
          /\ DeploySave(p) => log' = log
      BY DEF files, StartDeploy, ListEndpoints, FindOrCreateTemplate, CreateEndpoint,
             PatchEndpoint, DeploySave
    <2>2. /\ StartRollback(p) => log' = log
          /\ RollbackPatch(p) => log' = log
          /\ RollbackSave(p) => log' = log
          /\ StartPromote(p) => log' = log
          /\ PromoteSave(p) => log' = log
          /\ Fail(p) => log' = log
      BY DEF files, StartRollback, RollbackPatch, RollbackSave, StartPromote,
             PromoteSave, Fail
    <2>. QED
      BY <1>5, <2>1, <2>2 DEF Step
  <1>6. UNCHANGED vars => log' = log
    BY DEF vars
  <1>. QED
    BY <1>1, <1>2, <1>3, <1>4, <1>5, <1>6 DEF Next

(* No step takes an endpoint away, or gives it to another model.           *)
LEMMA EndpointsStay ==
  ASSUME TypeInv, [Next]_vars, NEW i \in EndpointIds, endpoints[i] # None
  PROVE  endpoints'[i] # None /\ endpoints'[i].model = endpoints[i].model
  <1>1. CASE endpoints' = endpoints
    BY <1>1
  <1>2. ASSUME NEW j \in EndpointIds, NEW e \in Endpoint, Reendpointed(j, e),
               i = j => e.model = endpoints[i].model
        PROVE  endpoints'[i] # None /\ endpoints'[i].model = endpoints[i].model
    BY <1>2, ConstantsAssumption DEF Reendpointed
  <1>3. ASSUME NEW p \in Procs, CreateEndpoint(p)
        PROVE  endpoints'[i] # None /\ endpoints'[i].model = endpoints[i].model
    BY <1>2, <1>3, CreateEffect
  <1>4. ASSUME NEW p \in Procs, PatchEndpoint(p)
        PROVE  endpoints'[i] # None /\ endpoints'[i].model = endpoints[i].model
    <2>1. PICK j \in EndpointIds, e \in Endpoint :
            Reendpointed(j, e) /\ e.model = endpoints[j].model
      BY <1>4, PatchEffect DEF Reendpointed
    <2>. QED
      BY <1>2, <2>1
  <1>5. ASSUME NEW p \in Procs, RollbackPatch(p)
        PROVE  endpoints'[i] # None /\ endpoints'[i].model = endpoints[i].model
    BY <1>1, <1>2, <1>5, RollbackPatchEffect
  <1>6. ASSUME NEW p \in Procs, Step(p),
               ~CreateEndpoint(p), ~PatchEndpoint(p), ~RollbackPatch(p)
        PROVE  endpoints' = endpoints
    <2>1. /\ StartDeploy(p) => endpoints' = endpoints
          /\ ListEndpoints(p) => endpoints' = endpoints
          /\ FindOrCreateTemplate(p) => endpoints' = endpoints
          /\ DeploySave(p) => endpoints' = endpoints
          /\ AppendRelease(p) => endpoints' = endpoints
      BY DEF remote, StartDeploy, ListEndpoints, FindOrCreateTemplate, DeploySave,
             AppendRelease
    <2>2. /\ StartRollback(p) => endpoints' = endpoints
          /\ RollbackSave(p) => endpoints' = endpoints
          /\ StartPromote(p) => endpoints' = endpoints
          /\ PromoteLog(p) => endpoints' = endpoints
          /\ PromoteSave(p) => endpoints' = endpoints
          /\ Fail(p) => endpoints' = endpoints
      BY DEF remote, StartRollback, RollbackSave, StartPromote, PromoteLog, PromoteSave,
             Fail
    <2>. QED
      BY <1>6, <2>1, <2>2 DEF Step
  <1>7. ParityGate \/ UNCHANGED vars => endpoints' = endpoints
    BY DEF ParityGate, vars
  <1>. QED
    BY <1>1, <1>3, <1>4, <1>5, <1>6, <1>7 DEF Next

(* So what was known of a model stays known.                               *)
LEMMA KnownStays ==
  ASSUME TypeInv, [Next]_vars, NEW m \in Models
  PROVE  /\ PassedOnce(m) => PassedOnce(m)'
         /\ PromotedOnce(m) => PromotedOnce(m)'
         /\ \A i \in EndpointIds : OfModel(i, m) => OfModel(i, m)'
  <1>1. Remembers(log[m], log'[m])
    BY LogRemembers
  <1>. QED
    BY <1>1, EndpointsStay DEF Remembers, PassedOnce, PromotedOnce, OfModel

LEMMA FileStays ==
  ASSUME TypeInv, [Next]_vars, NEW f \in StateFile, FileIsKnown(f)
  PROVE  FileIsKnown(f)'
  <1>. SUFFICES ASSUME NEW m \in Models, f[m] # None
                PROVE  EntryIsKnown(m, f[m])'
    BY DEF FileIsKnown, EntryIsKnown
  <1>1. f[m] \in Entry /\ f[m].id \in EndpointIds
    BY EntryPromoted DEF Entry
  <1>. QED
    BY <1>1, KnownStays DEF FileIsKnown, EntryIsKnown

(* What a command carries stays good while others take steps.              *)
LEMMA CarriesStays ==
  ASSUME OverlapInv, [Next]_vars, NEW q \in Procs,
         pc'[q] = pc[q], local'[q] = local[q]
  PROVE  CarriesAt(q, pc[q])'
  <1>. SUFFICES ASSUME pc[q] # "idle"
                PROVE  CarriesAt(q, pc[q])'
    BY DEF CarriesAt, ActsOn
  <1>1. PICK l \in Local : l = local[q]
    BY DEF OverlapInv, TypeInv, LocalsTyped
  <1>2. l.copy \in StateFile /\ l.model \in Models /\ l.id \in EndpointIds \cup {None}
    BY LocalTypes
  <1>3. FileIsKnown(l.copy) /\ FileIsKnown(l.copy)'
    BY <1>1, <1>2, FileStays DEF OverlapInv, CarriesAt
  <1>4. CarriesAt(q, pc[q])
    BY DEF OverlapInv
  <1>. QED
    BY <1>1, <1>2, <1>3, <1>4, KnownStays DEF CarriesAt, OverlapInv

(* So a step of command p leaves the invariant if it leaves the file and   *)
(* the command as the invariant wants them.                                *)
LEMMA OverlapStep ==
  ASSUME OverlapInv, [Next]_vars, NEW p \in Procs, NEW label \in Labels,
         At(p, label), FileIsKnown(state)', CarriesAt(p, label)'
  PROVE  OverlapInv'
  <1>1. TypeInv'
    BY StepTyped DEF OverlapInv
  <1>2. /\ pc'[p] = label
        /\ \A q \in Procs \ {p} : pc'[q] = pc[q] /\ local'[q] = local[q]
    BY DEF At, OverlapInv, TypeInv, TypeOK
  <1>3. \A q \in Procs : CarriesAt(q, pc[q])'
    BY <1>2, CarriesStays DEF CarriesAt
  <1>. QED
    BY <1>1, <1>3 DEF OverlapInv

(* A file that is not written stays known.                                 *)
LEMMA StateStays ==
  ASSUME OverlapInv, [Next]_vars, state' = state
  PROVE  FileIsKnown(state)'
  <1>1. PICK f \in StateFile : f = state
    BY DEF OverlapInv, TypeInv, TypeOK
  <1>2. FileIsKnown(f)'
    BY <1>1, FileStays DEF OverlapInv
  <1>. QED
    BY <1>1, <1>2

(* A file written from a known copy, with one known entry, is known.       *)
LEMMA ResavedKnown ==
  ASSUME OverlapInv, [Next]_vars, NEW f \in StateFile, FileIsKnown(f),
         NEW m \in Models, NEW e \in Entry, Resaved(f, m, e), EntryIsKnown(m, e)'
  PROVE  FileIsKnown(state)'
  <1>1. FileIsKnown(f)'
    BY FileStays DEF OverlapInv
  <1>. QED
    BY <1>1 DEF Resaved, FileIsKnown

(* One lemma for each action.                                              *)
LEMMA InitOverlap == Init => OverlapInv
  BY InitTyped, ConstantsAssumption
     DEF Init, OverlapInv, FileIsKnown, EntryIsKnown, CarriesAt, ActsOn

(* The commands that start hold the file as their copy.                    *)
LEMMA StartsOverlap ==
  ASSUME OverlapInv, [Next]_vars, NEW p \in Procs,
         NEW label \in {"d_list", "r_patch", "p_log"}, At(p, label),
         state' = state, local'[p].copy = state,
         label = "p_log" => PassedOnce(local[p].model)'
  PROVE  OverlapInv'
  <1>1. FileIsKnown(state)'
    BY StateStays
  <1>2. CarriesAt(p, label)'
    BY <1>1 DEF CarriesAt, ActsOn
  <1>. QED
    BY <1>1, <1>2, OverlapStep DEF Labels

LEMMA StartDeployOverlap ==
  ASSUME OverlapInv, [Next]_vars, NEW p \in Procs, StartDeploy(p)
  PROVE  OverlapInv'
  BY StartDeployEffect, StartsOverlap DEF OverlapInv, files

LEMMA StartRollbackOverlap ==
  ASSUME OverlapInv, [Next]_vars, NEW p \in Procs, StartRollback(p)
  PROVE  OverlapInv'
  BY StartRollbackEffect, StartsOverlap DEF OverlapInv, files

(* A promotion starts from a log whose latest verdict is "pass".           *)
LEMMA StartPromoteOverlap ==
  ASSUME OverlapInv, [Next]_vars, NEW p \in Procs, StartPromote(p)
  PROVE  OverlapInv'
  <1>1. /\ At(p, "p_log")
        /\ local'[p] \in Local
        /\ MayPromote(local'[p].model)
        /\ local'[p].copy = state
        /\ UNCHANGED <<state, log>>
    BY StartPromoteEffect DEF OverlapInv, files
  <1>2. PICK m \in Models : m = local'[p].model
    BY <1>1, LocalTypes
  <1>3. PassedOnce(m)'
    <2>1. PICK s \in Seq(Record) : s = log[m] /\ s # <<>> /\ s[Len(s)].parity = "pass"
      BY <1>1, <1>2 DEF MayPromote, Latest, OverlapInv, TypeInv, TypeOK
    <2>2. Len(s) \in DOMAIN s
      BY <2>1, EmptySeq, LenProperties
    <2>. QED
      BY <1>1, <2>1, <2>2 DEF PassedOnce
  <1>. QED
    BY <1>1, <1>2, <1>3, StartsOverlap

(* A command that ends, or dies, without a write.                          *)
LEMMA EndsOverlap ==
  ASSUME OverlapInv, [Next]_vars, NEW p \in Procs, At(p, "idle"), FileIsKnown(state)'
  PROVE  OverlapInv'
  BY OverlapStep DEF CarriesAt, ActsOn, Labels

LEMMA FailOverlap ==
  ASSUME OverlapInv, [Next]_vars, NEW p \in Procs, Fail(p)
  PROVE  OverlapInv'
  BY FailEffect, EndsOverlap, StateStays DEF OverlapInv, files

LEMMA AppendOverlap ==
  ASSUME OverlapInv, [Next]_vars, NEW p \in Procs, AppendRelease(p)
  PROVE  OverlapInv'
  BY AppendEffect, EndsOverlap, StateStays DEF OverlapInv

(* A command on its way: its copy stays, and its endpoint is the model's.  *)
LEMMA MovesOverlap ==
  ASSUME OverlapInv, [Next]_vars, NEW p \in Procs, pc[p] # "idle", state' = state,
         NEW label \in ActsOn, At(p, label),
         local'[p].copy = local[p].copy,
         local'[p].id # None => OfModel(local[p].id, local[p].model)'
  PROVE  OverlapInv'
  <1>1. FileIsKnown(state)'
    BY StateStays
  <1>2. PICK f \in StateFile : f = local[p].copy
    BY LocalTypes DEF OverlapInv, TypeInv, LocalsTyped
  <1>3. FileIsKnown(f)'
    BY <1>2, FileStays DEF OverlapInv, CarriesAt
  <1>4. FileIsKnown(local[p].copy)'
    BY <1>2, <1>3
  <1>5. CarriesAt(p, label)'
    BY <1>4 DEF CarriesAt, ActsOn
  <1>. QED
    BY <1>1, <1>5, OverlapStep DEF ActsOn, Labels

LEMMA ListOverlap ==
  ASSUME OverlapInv, [Next]_vars, NEW p \in Procs, ListEndpoints(p)
  PROVE  OverlapInv'
  <1>1. /\ From(p, "d_list")
        /\ UNCHANGED <<endpoints, state>>
        /\ local[p].id = None
    BY ListEffect DEF OverlapInv, remote, files, TypeInv, LocalsTyped, From
  <1>2. CASE At(p, "d_template") /\ local'[p] = local[p]
    BY <1>1, <1>2, MovesOverlap DEF ActsOn, From
  <1>3. CASE /\ At(p, "d_template")
             /\ local'[p].id \in EndpointIds
             /\ endpoints[local'[p].id] \in Endpoint
             /\ endpoints[local'[p].id].model = local[p].model
             /\ local'[p].model = local[p].model
             /\ local'[p].copy = local[p].copy
    <2>1. OfModel(local[p].id, local[p].model)'
      BY <1>1, <1>3, ConstantsAssumption DEF OfModel
    <2>. QED
      BY <1>1, <1>3, <2>1, MovesOverlap DEF ActsOn, From
  <1>4. CASE At(p, "idle")
    BY <1>1, <1>4, EndsOverlap, StateStays
  <1>. QED
    BY <1>2, <1>3, <1>4, ListEffect DEF OverlapInv

LEMMA TemplateOverlap ==
  ASSUME OverlapInv, [Next]_vars, NEW p \in Procs, FindOrCreateTemplate(p)
  PROVE  OverlapInv'
  <1>1. /\ From(p, "d_template")
        /\ At(p, "d_endpoint")
        /\ local'[p] = local[p]
        /\ UNCHANGED <<endpoints, state>>
    BY TemplateEffect DEF OverlapInv, files
  <1>2. local[p].id # None => OfModel(local[p].id, local[p].model)
    BY <1>1 DEF OverlapInv, CarriesAt, ActsOn, From
  <1>. QED
    BY <1>1, <1>2, MovesOverlap DEF ActsOn, From, OfModel

LEMMA CreateOverlap ==
  ASSUME OverlapInv, [Next]_vars, NEW p \in Procs, CreateEndpoint(p)
  PROVE  OverlapInv'
  <1>1. From(p, "d_endpoint") /\ At(p, "d_save") /\ state' = state
    BY CreateEffect DEF OverlapInv, files
  <1>2. PICK i \in EndpointIds, e \in Endpoint :
          /\ Reendpointed(i, e)
          /\ e.model = local[p].model
          /\ local'[p].id = i
          /\ local'[p].model = local[p].model
          /\ local'[p].copy = local[p].copy
    BY CreateEffect DEF OverlapInv
  <1>3. OfModel(local[p].id, local[p].model)'
    BY <1>2, ConstantsAssumption DEF OfModel, Reendpointed
  <1>. QED
    BY <1>1, <1>2, <1>3, MovesOverlap DEF ActsOn, From

LEMMA PatchOverlap ==
  ASSUME OverlapInv, [Next]_vars, NEW p \in Procs, PatchEndpoint(p)
  PROVE  OverlapInv'
  <1>1. /\ From(p, "d_endpoint") /\ At(p, "d_save") /\ state' = state
        /\ local[p].id \in EndpointIds
        /\ local'[p].id = local[p].id
        /\ local'[p].model = local[p].model
        /\ local'[p].copy = local[p].copy
    BY PatchEffect DEF OverlapInv, files
  <1>2. PICK i \in EndpointIds, m \in Models : i = local[p].id /\ m = local[p].model
    BY <1>1, LocalTypes DEF From
  <1>3. OfModel(i, m)
    BY <1>1, <1>2, ConstantsAssumption DEF OverlapInv, CarriesAt, ActsOn, From
  <1>4. OfModel(i, m)'
    BY <1>3, KnownStays DEF OverlapInv
  <1>. QED
    BY <1>1, <1>2, <1>4, MovesOverlap DEF ActsOn, From

LEMMA RollbackPatchOverlap ==
  ASSUME OverlapInv, [Next]_vars, NEW p \in Procs, RollbackPatch(p)
  PROVE  OverlapInv'
  <1>1. From(p, "r_patch") /\ state' = state
    BY RollbackPatchEffect DEF OverlapInv, files
  <1>2. CASE At(p, "idle")
    BY <1>1, <1>2, EndsOverlap, StateStays
  <1>3. ASSUME NEW i \in EndpointIds, NEW e \in Endpoint,
               Reendpointed(i, e), e.model = local[p].model, At(p, "r_save"),
               local'[p].id = i, local'[p].model = local[p].model,
               local'[p].copy = local[p].copy
        PROVE  OverlapInv'
    <2>1. OfModel(local[p].id, local[p].model)'
      BY <1>3, ConstantsAssumption DEF OfModel, Reendpointed
    <2>. QED
      BY <1>1, <1>3, <2>1, MovesOverlap DEF ActsOn, From
  <1>. QED
    BY <1>2, <1>3, RollbackPatchEffect DEF OverlapInv

(* What a save writes, besides its own entry, its copy already held.       *)
LEMMA CopyIsKnown ==
  ASSUME OverlapInv, NEW p \in Procs, pc[p] # "idle"
  PROVE  /\ local[p].copy \in StateFile
         /\ FileIsKnown(local[p].copy)
         /\ local[p].model \in Models
  BY LocalTypes DEF OverlapInv, TypeInv, LocalsTyped, CarriesAt

(* After a save to the endpoint of the model, promoted or not.             *)
LEMMA SaveKnown ==
  ASSUME OverlapInv, [Next]_vars, NEW p \in Procs, pc[p] # "idle", NEW e \in Entry,
         Resaved(local[p].copy, local[p].model, e),
         OfModel(e.id, local[p].model),
         e.client_data => PassedOnce(local[p].model) /\ PromotedOnce(local[p].model)
  PROVE  FileIsKnown(state)'
  <1>1. PICK f \in StateFile, m \in Models : f = local[p].copy /\ m = local[p].model
    BY CopyIsKnown
  <1>2. FileIsKnown(f)
    BY <1>1, CopyIsKnown
  <1>3. Resaved(f, m, e)
    BY <1>1
  <1>4. EntryIsKnown(m, e)'
    <2>1. e.id \in EndpointIds
      BY DEF Entry
    <2>. QED
      BY <1>1, <2>1, KnownStays DEF OverlapInv, EntryIsKnown
  <1>. QED
    BY <1>2, <1>3, <1>4, ResavedKnown

LEMMA DeploySaveOverlap ==
  ASSUME OverlapInv, [Next]_vars, NEW p \in Procs, DeploySave(p)
  PROVE  OverlapInv'
  <1>1. PICK l \in Local : l = local[p]
    BY DeploySaveEffect DEF OverlapInv, From
  <1>2. /\ From(p, "d_save")
        /\ Resaved(l.copy, l.model, DeployEntry(l))
        /\ IF l.release
           THEN At(p, "append") /\ local'[p] = local[p]
           ELSE At(p, "idle") /\ local'[p] = None
    BY <1>1, DeploySaveEffect DEF OverlapInv
  <1>3. OfModel(l.id, l.model)
    BY <1>1, <1>2 DEF OverlapInv, TypeInv, LocalsTyped, CarriesAt, ActsOn, From
  <1>4. Promoted(l.copy[l.model]) => PassedOnce(l.model) /\ PromotedOnce(l.model)
    BY <1>1, <1>2, CopyIsKnown DEF From, FileIsKnown, EntryIsKnown, Promoted
  <1>5. FileIsKnown(state)'
    <2>. DEFINE e == DeployEntry(l)
    <2>1. /\ e \in Entry
          /\ e.id = l.id
          /\ e.client_data => Promoted(l.copy[l.model])
      BY <1>2 DEF Resaved, DeployEntry
    <2>. HIDE DEF e
    <2>2. PICK d \in Entry : d = e
      BY <2>1
    <2>. QED
      BY <1>1, <1>2, <1>3, <1>4, <2>1, <2>2, SaveKnown DEF From, e
  <1>6. CASE l.release
    <2>1. PICK f \in StateFile : f = l.copy /\ FileIsKnown(f)
      BY <1>1, <1>2, CopyIsKnown DEF From
    <2>2. FileIsKnown(f)'
      BY <2>1, FileStays DEF OverlapInv
    <2>3. CarriesAt(p, "append")'
      BY <1>1, <1>2, <1>6, <2>1, <2>2 DEF CarriesAt, ActsOn
    <2>. QED
      BY <1>2, <1>5, <1>6, <2>3, OverlapStep DEF Labels
  <1>7. CASE ~l.release
    BY <1>2, <1>5, <1>7, EndsOverlap
  <1>. QED
    BY <1>6, <1>7

LEMMA RollbackSaveOverlap ==
  ASSUME OverlapInv, [Next]_vars, NEW p \in Procs, RollbackSave(p)
  PROVE  OverlapInv'
  <1>1. PICK l \in Local : l = local[p]
    BY RollbackSaveEffect DEF OverlapInv, From
  <1>2. /\ From(p, "r_save")
        /\ Resaved(l.copy, l.model, RollbackEntry(l))
        /\ At(p, "append") /\ local'[p] = local[p]
    BY <1>1, RollbackSaveEffect DEF OverlapInv
  <1>3. OfModel(l.id, l.model)
    BY <1>1, <1>2 DEF OverlapInv, TypeInv, LocalsTyped, CarriesAt, ActsOn, From
  <1>4. FileIsKnown(state)'
    <2>. DEFINE e == RollbackEntry(l)
    <2>1. e \in Entry /\ e.id = l.id /\ ~e.client_data
      BY <1>2 DEF Resaved, RollbackEntry
    <2>. HIDE DEF e
    <2>2. PICK d \in Entry : d = e
      BY <2>1
    <2>. QED
      BY <1>1, <1>2, <1>3, <2>1, <2>2, SaveKnown DEF From, e
  <1>5. PICK f \in StateFile : f = l.copy /\ FileIsKnown(f)
    BY <1>1, <1>2, CopyIsKnown DEF From
  <1>6. FileIsKnown(f)'
    BY <1>5, FileStays DEF OverlapInv
  <1>7. CarriesAt(p, "append")'
    BY <1>1, <1>2, <1>5, <1>6 DEF CarriesAt, ActsOn
  <1>. QED
    BY <1>2, <1>4, <1>7, OverlapStep DEF Labels

(* The mark in the log comes before the promotion of the file.             *)
LEMMA PromoteLogOverlap ==
  ASSUME OverlapInv, [Next]_vars, NEW p \in Procs, PromoteLog(p)
  PROVE  OverlapInv'
  <1>1. /\ From(p, "p_log")
        /\ At(p, "p_save") /\ local'[p] = local[p]
        /\ state' = state
    BY PromoteLogEffect DEF OverlapInv
  <1>2. PICK m \in Models, f \in StateFile :
          m = local[p].model /\ f = local[p].copy /\ FileIsKnown(f)
    BY <1>1, CopyIsKnown DEF From
  <1>3. PassedOnce(m)'
    <2>1. PassedOnce(m)
      BY <1>1, <1>2 DEF OverlapInv, CarriesAt, From
    <2>. QED
      BY <2>1, KnownStays DEF OverlapInv
  <1>4. PromotedOnce(m)'
    <2>1. PICK r \in Record : Relogged(m, r) /\ r.promoted
      BY <1>2, PromoteLogEffect DEF OverlapInv
    <2>2. PICK s \in Seq(Record) : s = log'[m] /\ s # <<>> /\ s[Len(s)] = r
      BY <2>1 DEF Relogged
    <2>3. Len(s) \in DOMAIN s
      BY <2>2, EmptySeq, LenProperties
    <2>. QED
      BY <2>1, <2>2, <2>3 DEF PromotedOnce
  <1>5. FileIsKnown(state)'
    BY <1>1, StateStays
  <1>6. FileIsKnown(f)'
    BY <1>2, FileStays DEF OverlapInv
  <1>7. CarriesAt(p, "p_save")'
    BY <1>1, <1>2, <1>3, <1>4, <1>6 DEF CarriesAt, ActsOn
  <1>. QED
    BY <1>1, <1>5, <1>7, OverlapStep DEF Labels

LEMMA PromoteSaveOverlap ==
  ASSUME OverlapInv, [Next]_vars, NEW p \in Procs, PromoteSave(p)
  PROVE  OverlapInv'
  <1>1. PICK l \in Local : l = local[p]
    BY PromoteSaveEffect DEF OverlapInv, From
  <1>2. PICK e \in Entry :
          /\ From(p, "p_save")
          /\ l.copy[l.model] \in Entry
          /\ Resaved(l.copy, l.model, e)
          /\ e.id = l.copy[l.model].id
          /\ At(p, "idle")
    BY <1>1, PromoteSaveEffect DEF OverlapInv
  <1>3. OfModel(e.id, l.model)
    BY <1>1, <1>2, CopyIsKnown, ConstantsAssumption DEF From, FileIsKnown, EntryIsKnown
  <1>4. PassedOnce(l.model) /\ PromotedOnce(l.model)
    BY <1>1, <1>2 DEF OverlapInv, CarriesAt, From
  <1>5. FileIsKnown(state)'
    BY <1>1, <1>2, <1>3, <1>4, SaveKnown DEF From
  <1>. QED
    BY <1>2, <1>5, EndsOverlap

(* The gate, and a step that changes nothing, leave every command as it is. *)
LEMMA QuietOverlap ==
  ASSUME OverlapInv, [Next]_vars, UNCHANGED <<state, pc, local>>
  PROVE  OverlapInv'
  <1>1. TypeInv' /\ FileIsKnown(state)'
    BY StepTyped, StateStays DEF OverlapInv
  <1>2. \A q \in Procs : CarriesAt(q, pc[q])'
    BY CarriesStays DEF CarriesAt
  <1>. QED
    BY <1>1, <1>2 DEF OverlapInv

LEMMA StepOverlap == OverlapInv /\ [Next]_vars => OverlapInv'
  <1>. SUFFICES ASSUME OverlapInv, [Next]_vars
                PROVE  OverlapInv'
    OBVIOUS
  <1>1. CASE UNCHANGED vars
    BY <1>1, QuietOverlap DEF vars
  <1>2. CASE ParityGate
    BY <1>2, QuietOverlap DEF ParityGate
  <1>3. ASSUME NEW p \in Procs, Step(p)
        PROVE  OverlapInv'
    BY <1>3, StartDeployOverlap, ListOverlap, TemplateOverlap, CreateOverlap,
       PatchOverlap, DeploySaveOverlap, AppendOverlap, StartRollbackOverlap,
       RollbackPatchOverlap, RollbackSaveOverlap, StartPromoteOverlap,
       PromoteLogOverlap, PromoteSaveOverlap, FailOverlap DEF Step
  <1>. QED
    BY <1>1, <1>2, <1>3 DEF Next

(* However many commands overlap and die: the state file lets client data  *)
(* out only to an endpoint of the model it is for, and only for a model    *)
(* that the log has once seen pass the parity gate and be promoted.        *)
THEOREM OverlapIsLogged == Spec => []ClientDataHasPassed
  <1>1. OverlapInv => ClientDataHasPassed
    BY DEF OverlapInv, FileIsKnown, EntryIsKnown, OfModel, PassedOnce, PromotedOnce,
           ClientDataHasPassed, Promoted
  <1>. QED
    BY <1>1, InitOverlap, StepOverlap, PTL DEF Spec

=============================================================================
