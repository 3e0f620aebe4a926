------------------------ MODULE ArtifactStore_proofs ------------------------
(***************************************************************************)
(* Proofs about ArtifactStore, for any number of configs, replies and      *)
(* upsets.                                                                 *)
(***************************************************************************)
EXTENDS ArtifactStore, TLAPS

(* Every input of a stage comes before it in the order of a pass, and the  *)
(* order goes over every stage once.                                       *)
LEMMA OrderIsTopological ==
  /\ Len(Order) = 6
  /\ \A k \in 1..6 : Order[k] \in Stages
  /\ \A j, k \in 1..6 : Order[j] = Order[k] => j = k
  /\ \A s \in Stages : \E k \in 1..6 : s = Order[k]
  /\ \A k \in 1..6 : \A i \in STAGE_INPUTS[Order[k]] : \E j \in 1..(k - 1) : i = Order[j]
<1>1. Len(Order) = 6
  BY DEF Order
<1>2. \A k \in 1..6 : k = 1 \/ k = 2 \/ k = 3 \/ k = 4 \/ k = 5 \/ k = 6
  OBVIOUS
<1>3. /\ Order[1] = "classify" /\ Order[2] = "layout" /\ Order[3] = "segments"
      /\ Order[4] = "readings" /\ Order[5] = "reconcile" /\ Order[6] = "verify"
  BY DEF Order
<1>4. \A k \in 1..6 : Order[k] \in Stages
  BY <1>2, <1>3 DEF Stages
<1>5. \A j, k \in 1..6 : Order[j] = Order[k] => j = k
  BY <1>2, <1>3
<1>6. \A s \in Stages : \E k \in 1..6 : s = Order[k]
  BY <1>3 DEF Stages
<1>7. ASSUME NEW k \in 1..6, NEW i \in STAGE_INPUTS[Order[k]]
      PROVE  \E j \in 1..(k - 1) : i = Order[j]
  <2>1. CASE k = 1 \/ k = 2
    BY <2>1, <1>3 DEF STAGE_INPUTS
  <2>2. CASE k = 3
    <3>1. i = Order[2]
      BY <2>2, <1>3 DEF STAGE_INPUTS
    <3>2. QED  BY <3>1, <2>2
  <2>3. CASE k = 4
    <3>1. i = Order[3]
      BY <2>3, <1>3 DEF STAGE_INPUTS
    <3>2. QED  BY <3>1, <2>3
  <2>4. CASE k = 5
    <3>1. i = Order[2] \/ i = Order[3] \/ i = Order[4]
      BY <2>4, <1>3 DEF STAGE_INPUTS
    <3>2. QED  BY <3>1, <2>4
  <2>5. CASE k = 6
    <3>1. i = Order[1] \/ i = Order[5]
      BY <2>5, <1>3 DEF STAGE_INPUTS
    <3>2. QED  BY <3>1, <2>5
  <2>6. QED  BY <2>1, <2>2, <2>3, <2>4, <2>5, <1>2
<1>8. QED  BY <1>1, <1>4, <1>5, <1>6, <1>7

(* A stage reads other stages, and not itself. *)
LEMMA InputsAreOtherStages ==
  \A s \in Stages : STAGE_INPUTS[s] \subseteq Stages /\ s \notin STAGE_INPUTS[s]
<1>1. SUFFICES ASSUME NEW s \in Stages, NEW i \in STAGE_INPUTS[s]
               PROVE  i \in Stages /\ i # s
  OBVIOUS
<1>2. PICK k \in 1..6 : s = Order[k]
  BY OrderIsTopological
<1>3. PICK j \in 1..(k - 1) : i = Order[j]
  BY <1>2, OrderIsTopological
<1>4. j \in 1..6 /\ j # k
  OBVIOUS
<1>5. QED  BY <1>2, <1>3, <1>4, OrderIsTopological

-----------------------------------------------------------------------------
(* Downstream is a closure operator.                                       *)

(* A set of stages that holds every stage reading one of its members. *)
Closed(C) ==
  \A t \in Stages : STAGE_INPUTS[t] \cap C # {} => t \in C

(* What is downstream of A holds A and is closed. *)
LEMMA DownstreamExtends ==
  ASSUME NEW A, A \subseteq Stages
  PROVE  A \subseteq Downstream(A) /\ Downstream(A) \subseteq Stages
BY DEF Downstream

(* What lies downstream of a set is closed under reading. *)
LEMMA DownstreamClosed ==
  ASSUME NEW A, NEW t \in Stages, NEW i \in STAGE_INPUTS[t], i \in Downstream(A)
  PROVE  t \in Downstream(A)
<1>1. SUFFICES ASSUME NEW C \in SUBSET Stages, A \subseteq C, Closed(C)
               PROVE  t \in C
  BY DEF Downstream, Closed
<1>2. i \in C
  BY <1>1 DEF Downstream, Closed
<1>3. QED  BY <1>1, <1>2 DEF Closed

(* It is the least such set. *)
LEMMA DownstreamLeast ==
  ASSUME NEW A, NEW C \in SUBSET Stages, A \subseteq C, Closed(C)
  PROVE  Downstream(A) \subseteq C
BY DEF Downstream, Closed

(* What is downstream of A stays so when A grows, or when what is added    *)
(* was downstream of A.                                                    *)
LEMMA DownstreamOfDownstream ==
  ASSUME NEW A, NEW B, A \subseteq Downstream(B)
  PROVE  Downstream(A) \subseteq Downstream(B)
<1>1. Downstream(B) \in SUBSET Stages
  BY DEF Downstream
<1>2. Closed(Downstream(B))
  BY DownstreamClosed DEF Closed
<1>3. QED  BY <1>1, <1>2, DownstreamLeast

(* More changed artifacts have no less downstream of them. *)
LEMMA DownstreamMonotone ==
  ASSUME NEW A, NEW B, A \subseteq B, B \subseteq Stages
  PROVE  Downstream(A) \subseteq Downstream(B)
BY DownstreamExtends, DownstreamOfDownstream

(* Nothing is downstream of nothing. *)
LEMMA DownstreamOfNothing == Downstream({}) = {}
<1>1. Closed({})
  BY DEF Closed
<1>2. QED  BY <1>1, DownstreamLeast

-----------------------------------------------------------------------------
(* The inductive invariant.  A pass is told apart from what came before it *)
(* by what the last complete pass built: outside of what was touched or    *)
(* computed since, the files still are the ones of that pass.              *)

(* The artifact of s is still the one of the last complete pass. *)
Intact(s) ==
  /\ s \in DOMAIN file
  /\ file[s].readable
  /\ file[s].config = built[s]
  /\ file[s].inputs = InputHashes(s)

Changed == {s \in Stages : config[s] # built[s]}

(* The call under way holds the hashes of inputs that are still there. *)
CallIsPending ==
  call # None =>
    /\ InputsExist(call)
    /\ inputs = InputHashes(call)
    /\ pos # 0 => Order[pos] = call

(* What the pass has been over is fresh. *)
PassIsFresh == \A k \in 1..(pos - 1) : IsFresh(Order[k])

(* Only a pass counts what it computed. *)
ComputedInPass == pos = 0 => computed = {}

RestIsIntact ==
  built # None => \A s \in Stages : s \notin Downstream(touched \cup computed) => Intact(s)

OnlyStaleComputed ==
  built # None => /\ computed \subseteq Downstream(Changed \cup touched)
                  /\ call # None => call \in Downstream(Changed \cup touched)

IInv ==
  /\ TypeOK
  /\ CallIsPending
  /\ PassIsFresh
  /\ ComputedInPass
  /\ RestIsIntact
  /\ OnlyStaleComputed

(* The inputs of a stage that is intact, or that a pass has been over, are *)
(* on file.                                                                *)
LEMMA IntactHasInputs ==
  ASSUME IInv, built # None, NEW s \in Stages, s \notin Downstream(touched \cup computed)
  PROVE  Intact(s) /\ InputsExist(s)
<1>1. \A i \in STAGE_INPUTS[s] : i \in Stages /\ i \notin Downstream(touched \cup computed)
  BY DownstreamClosed, InputsAreOtherStages
<1>2. QED  BY <1>1 DEF IInv, RestIsIntact, Intact, InputsExist

(* A stage that a pass has come to has its inputs on file. *)
LEMMA PassHasInputs ==
  ASSUME IInv, NEW k \in 1..6, k <= pos
  PROVE  InputsExist(Order[k])
<1>1. pos \in 0..6
  BY OrderIsTopological DEF IInv, TypeOK
<1>2. ASSUME NEW i \in STAGE_INPUTS[Order[k]]
      PROVE  i \in DOMAIN file
  <2>1. PICK j \in 1..(k - 1) : i = Order[j]
    BY OrderIsTopological
  <2>2. j \in 1..(pos - 1)
    BY <1>1, <2>1
  <2>3. QED  BY <2>1, <2>2 DEF IInv, PassIsFresh, IsFresh
<1>3. QED  BY <1>2 DEF InputsExist

(* A fresh stage is up to date. *)
LEMMA FreshIsUpToDate ==
  ASSUME NEW s, IsFresh(s)
  PROVE  UpToDate(s)
BY DEF IsFresh, UpToDate, InputHashes

(* The initial store satisfies the invariant. *)
LEMMA InitIInv == Init => IInv
<1>1. SUFFICES ASSUME Init PROVE IInv
  OBVIOUS
<1>2. TypeOK
  BY <1>1, OrderIsTopological DEF TypeOK, Init
<1>3. CallIsPending /\ PassIsFresh /\ ComputedInPass /\ RestIsIntact /\ OnlyStaleComputed
  BY <1>1 DEF Init, CallIsPending, PassIsFresh, ComputedInPass, RestIsIntact, OnlyStaleComputed
<1>4. QED  BY <1>2, <1>3 DEF IInv

(* Starting a pass keeps the invariant. *)
LEMMA BeginPassKeeps == ASSUME IInv, BeginPass PROVE IInv'
<1>1. TypeOK'
  BY OrderIsTopological DEF IInv, TypeOK, BeginPass
<1>2. CallIsPending' /\ PassIsFresh'
  BY DEF BeginPass, CallIsPending, PassIsFresh
<1>3. ComputedInPass' /\ OnlyStaleComputed'
  BY DEF IInv, ComputedInPass, OnlyStaleComputed, Changed, Downstream, BeginPass
<1>4. RestIsIntact'
  BY DEF IInv, RestIsIntact, Intact, InputHashes, Downstream, BeginPass
<1>5. QED  BY <1>1, <1>2, <1>3, <1>4 DEF IInv

(* A call that returns: what it wrote, if anything, is fresh now, and the  *)
(* other files the invariant speaks of were kept.                          *)
LEMMA AdvanceKeeps ==
  ASSUME IInv, NEW s \in Stages, NEW newly \in SUBSET {s},
         pos # 0 => Order[pos] = s,
         Advance(newly), config' = config, call' = None,
         TypeOK',
         built # None /\ newly # {} => s \in Downstream(Changed \cup touched),
         IsFresh(s)',
         \A t \in Stages : t \notin newly /\ newly \cap STAGE_INPUTS[t] = {} /\ InputsExist(t)
             => (IsFresh(t) => IsFresh(t)') /\ (Intact(t) /\ built' = built => Intact(t)')
  PROVE  IInv'
<1>0. pos \in 0..6 /\ Len(Order) = 6
  BY OrderIsTopological DEF IInv, TypeOK
<1>1. CallIsPending'
  BY DEF CallIsPending
<1>2. ASSUME NEW k \in 1..6, k < pos
      PROVE  IsFresh(Order[k])'
  <2>1. Order[k] # s
    BY <1>0, <1>2, OrderIsTopological
  <2>2. s \notin STAGE_INPUTS[Order[k]]
    <3>1. SUFFICES ASSUME s \in STAGE_INPUTS[Order[k]] PROVE FALSE
      OBVIOUS
    <3>2. PICK j \in 1..(k - 1) : s = Order[j]
      BY <3>1, OrderIsTopological
    <3>3. j \in 1..6 /\ j # pos /\ pos \in 1..6
      BY <1>0, <1>2
    <3>4. QED  BY <3>2, <3>3, OrderIsTopological
  <2>3. k \in 1..(pos - 1) /\ k <= pos
    BY <1>0, <1>2
  <2>4. IsFresh(Order[k]) /\ InputsExist(Order[k])
    BY <2>3, PassHasInputs DEF IInv, PassIsFresh
  <2>5. Order[k] \in Stages
    BY OrderIsTopological
  <2>6. QED  BY <2>1, <2>2, <2>4, <2>5
<1>3. CASE pos = 6
  <2>1. pos' = 0 /\ built' = config /\ touched' = {} /\ computed' = {}
    BY <1>0, <1>3 DEF Advance
  <2>2. ASSUME NEW t \in Stages
        PROVE  IsFresh(t)'
    <3>1. PICK k \in 1..6 : t = Order[k]
      BY OrderIsTopological
    <3>2. k < pos \/ t = s
      BY <1>3, <3>1
    <3>3. QED  BY <1>2, <3>1, <3>2
  <2>3. RestIsIntact'
    BY <2>1, <2>2 DEF RestIsIntact, Intact, IsFresh
  <2>4. PassIsFresh' /\ ComputedInPass' /\ OnlyStaleComputed'
    BY <2>1 DEF PassIsFresh, ComputedInPass, OnlyStaleComputed
  <2>5. QED  BY <1>1, <2>3, <2>4 DEF IInv
<1>4. CASE pos # 6
  <2>1. /\ pos' = IF pos = 0 THEN 0 ELSE pos + 1
        /\ computed' = IF pos = 0 THEN computed ELSE computed \cup newly
        /\ touched' = IF pos = 0 THEN touched \cup newly ELSE touched
        /\ built' = built
    BY <1>0, <1>4 DEF Advance
  <2>2. touched' \cup computed' = (touched \cup computed) \cup newly
    BY <2>1
  <2>3. PassIsFresh'
    <3>1. SUFFICES ASSUME NEW k \in 1..(pos' - 1) PROVE IsFresh(Order[k])'
      BY DEF PassIsFresh
    <3>2. pos # 0 /\ k \in 1..6 /\ (k < pos \/ k = pos)
      BY <1>0, <1>4, <2>1, <3>1
    <3>3. QED  BY <1>2, <3>2
  <2>4. ComputedInPass'
    BY <1>0, <2>1 DEF IInv, ComputedInPass
  <2>5. RestIsIntact'
    <3>1. SUFFICES ASSUME built # None, NEW t \in Stages,
                          t \notin Downstream((touched \cup computed) \cup newly)
                   PROVE  Intact(t)'
      BY <2>1, <2>2 DEF RestIsIntact, Downstream
    <3>2. (touched \cup computed) \cup newly \subseteq Stages
      BY DEF IInv, TypeOK
    <3>3. t \notin Downstream(touched \cup computed)
      BY <3>1, <3>2, DownstreamMonotone
    <3>4. t \notin newly /\ newly \cap STAGE_INPUTS[t] = {}
      BY <3>1, <3>2, DownstreamExtends, DownstreamClosed
    <3>5. Intact(t) /\ InputsExist(t)
      BY <3>1, <3>3, IntactHasInputs
    <3>6. QED  BY <2>1, <3>4, <3>5
  <2>6. OnlyStaleComputed'
    <3>1. Changed' = Changed
      BY <2>1 DEF Changed
    <3>2. Changed \cup touched \subseteq Changed \cup touched' /\ Changed \cup touched' \subseteq Stages
      BY <2>1 DEF IInv, TypeOK, Changed
    <3>3. Downstream(Changed \cup touched) \subseteq Downstream(Changed \cup touched')
      BY <3>2, DownstreamMonotone
    <3>4. computed' \subseteq computed \cup newly
      BY <2>1
    <3>5. Downstream(Changed \cup touched)' = Downstream(Changed \cup touched')
      BY <3>1 DEF Downstream
    <3>6. QED  BY <2>1, <3>3, <3>4, <3>5 DEF IInv, OnlyStaleComputed
  <2>7. QED  BY <1>1, <2>3, <2>4, <2>5, <2>6 DEF IInv
<1>5. QED  BY <1>3, <1>4

(* Skipping an artifact keeps the invariant. *)
LEMMA SkipKeeps == ASSUME IInv, NEW s \in Stages, Skip(s) PROVE IInv'
<1>1. Advance({}) /\ config' = config /\ file' = file /\ call = None /\ call' = None
  BY DEF Skip, Callable
<1>2. TypeOK'
  BY <1>1, OrderIsTopological DEF IInv, TypeOK, Skip, Advance
<1>3. pos # 0 => Order[pos] = s
  BY DEF Skip, Callable
<1>4. IsFresh(s)'
  BY <1>1 DEF Skip, IsFresh, InputHashes
<1>5. \A t \in Stages : (IsFresh(t) => IsFresh(t)') /\ (Intact(t) /\ built' = built => Intact(t)')
  BY <1>1 DEF IsFresh, Intact, InputHashes
<1>6. {} \in SUBSET {s}
  OBVIOUS
<1>7. QED
  <2>1. ASSUME NEW newly, newly = {} PROVE IInv'
    BY <1>1, <1>2, <1>3, <1>4, <1>5, <1>6, <2>1, AdvanceKeeps
  <2>2. QED  BY <2>1

(* A stage that is computed is stale: its config changed, or it is         *)
(* downstream of what was touched or computed.                             *)
LEMMA ComputeKeeps == ASSUME IInv, NEW s \in Stages, Compute(s) PROVE IInv'
<1>1. TypeOK'
  BY DEF IInv, TypeOK, Compute
<1>2. CallIsPending' /\ PassIsFresh' /\ ComputedInPass'
  BY DEF IInv, Compute, Callable, CallIsPending, InputsExist, InputHashes, PassIsFresh, IsFresh,
         ComputedInPass
<1>3. RestIsIntact'
  BY DEF IInv, RestIsIntact, Intact, InputHashes, Downstream, Compute
<1>4. ASSUME built # None, s \notin Downstream(Changed \cup touched)
      PROVE  FALSE
  <2>1. Changed \cup touched \subseteq Stages
    BY DEF IInv, TypeOK, Changed
  <2>2. config[s] = built[s]
    BY <1>4, <2>1, DownstreamExtends DEF Changed
  <2>3. touched \cup computed \subseteq Downstream(Changed \cup touched)
    BY <1>4, <2>1, DownstreamExtends DEF IInv, OnlyStaleComputed
  <2>4. s \notin Downstream(touched \cup computed)
    BY <1>4, <2>3, DownstreamOfDownstream
  <2>5. Intact(s)
    BY <1>4, <2>4 DEF IInv, RestIsIntact
  <2>6. QED  BY <2>2, <2>5 DEF Intact, IsFresh, Compute
<1>5. OnlyStaleComputed'
  BY <1>4 DEF IInv, OnlyStaleComputed, Changed, Downstream, Compute
<1>6. QED  BY <1>1, <1>2, <1>3, <1>5 DEF IInv

(* Writing an artifact keeps the invariant. *)
LEMMA WriteKeeps == ASSUME IInv, NEW reply \in Replies, Write(reply) PROVE IInv'
<1>1. call \in Stages /\ Advance({call}) /\ config' = config /\ call' = None
  BY DEF Write, IInv, TypeOK
<1>2. PICK s \in Stages : s = call
  BY <1>1
<1>3. file' = [t \in DOMAIN file \cup {s} |->
        IF t = s THEN [config |-> config[s], inputs |-> inputs, reply |-> reply, readable |-> TRUE]
                 ELSE file[t]]
  BY <1>2 DEF Write
<1>4. inputs = InputHashes(s) /\ InputsExist(s) /\ (pos # 0 => Order[pos] = s)
  BY <1>1, <1>2, ConstantsAssumption DEF IInv, CallIsPending
<1>5. TypeOK'
  <2>1. /\ DOMAIN file' \subseteq Stages
        /\ \A t \in DOMAIN file' :
             /\ DOMAIN file'[t] = {"config", "inputs", "reply", "readable"}
             /\ file'[t].config \in Configs
             /\ DOMAIN file'[t].inputs = STAGE_INPUTS[t]
             /\ file'[t].reply \in Replies
             /\ file'[t].readable \in BOOLEAN
    <3>1. DOMAIN file' = DOMAIN file \cup {s}
      BY <1>3
    <3>2. ASSUME NEW t \in DOMAIN file, t # s
          PROVE  file'[t] = file[t]
      BY <1>3, <3>2
    <3>3. file'[s] = [config |-> config[s], inputs |-> inputs, reply |-> reply, readable |-> TRUE]
      BY <1>3
    <3>4. DOMAIN inputs = STAGE_INPUTS[s] /\ config[s] \in Configs
      BY <1>4 DEF InputHashes, IInv, TypeOK
    <3>5. DOMAIN file' \subseteq Stages
      BY <3>1 DEF IInv, TypeOK
    <3>6. ASSUME NEW t \in DOMAIN file', t # s
          PROVE  /\ DOMAIN file'[t] = {"config", "inputs", "reply", "readable"}
                 /\ file'[t].config \in Configs
                 /\ DOMAIN file'[t].inputs = STAGE_INPUTS[t]
                 /\ file'[t].reply \in Replies
                 /\ file'[t].readable \in BOOLEAN
      BY <3>1, <3>2, <3>6 DEF IInv, TypeOK
    <3>7. /\ DOMAIN file'[s] = {"config", "inputs", "reply", "readable"}
          /\ file'[s].config \in Configs
          /\ DOMAIN file'[s].inputs = STAGE_INPUTS[s]
          /\ file'[s].reply \in Replies
          /\ file'[s].readable \in BOOLEAN
      BY <3>3, <3>4
    <3>8. QED  BY <3>5, <3>6, <3>7
  <2>2. config' \in [Stages -> Configs] /\ call' \in Stages \cup {None}
    BY <1>1 DEF IInv, TypeOK
  <2>3. /\ pos' \in 0..Len(Order) /\ built' \in [Stages -> Configs] \cup {None}
        /\ touched' \subseteq Stages /\ computed' \subseteq Stages
    BY <1>1, OrderIsTopological DEF IInv, TypeOK, Advance
  <2>4. upsets' \in Nat
    BY DEF IInv, TypeOK, Write
  <2>5. QED  BY <2>1, <2>2, <2>3, <2>4 DEF TypeOK
<1>6. s \notin STAGE_INPUTS[s]
  BY InputsAreOtherStages
<1>7. \A i \in STAGE_INPUTS[s] : file'[i] = file[i]
  BY <1>3, <1>4, <1>6 DEF InputsExist
<1>8. IsFresh(s)'
  <2>1. InputHashes(s)' = InputHashes(s)
    BY <1>7 DEF InputHashes
  <2>2. s \in DOMAIN file' /\ file'[s].readable /\ file'[s].config = config[s] /\ file'[s].inputs = inputs
    BY <1>3
  <2>3. QED  BY <1>1, <1>4, <2>1, <2>2 DEF IsFresh
<1>9. ASSUME NEW t \in Stages, t \notin {s}, {s} \cap STAGE_INPUTS[t] = {}, InputsExist(t)
      PROVE  (IsFresh(t) => IsFresh(t)') /\ (Intact(t) /\ built' = built => Intact(t)')
  <2>1. \A i \in STAGE_INPUTS[t] : file'[i] = file[i]
    BY <1>3, <1>9 DEF InputsExist
  <2>2. InputHashes(t)' = InputHashes(t)
    BY <2>1 DEF InputHashes
  <2>3. t \in DOMAIN file => t \in DOMAIN file' /\ file'[t] = file[t]
    BY <1>3, <1>9
  <2>4. QED  BY <1>1, <2>2, <2>3 DEF IsFresh, Intact
<1>10. built # None => s \in Downstream(Changed \cup touched)
  BY <1>1, <1>2, ConstantsAssumption DEF IInv, OnlyStaleComputed
<1>11. QED
  <2>1. ASSUME NEW newly, newly = {s} PROVE IInv'
    <3>1. newly \in SUBSET {s} /\ Advance(newly)
      BY <1>1, <1>2, <2>1
    <3>2. QED  BY <1>1, <1>4, <1>5, <1>8, <1>9, <1>10, <2>1, <3>1, AdvanceKeeps
  <2>2. QED  BY <2>1

(* A pass that dies keeps the invariant. *)
LEMMA FailKeeps == ASSUME IInv, Fail PROVE IInv'
<1>1. TypeOK'
  BY OrderIsTopological DEF IInv, TypeOK, Fail
<1>2. touched' \cup computed' = touched \cup computed
  BY DEF Fail
<1>3. RestIsIntact'
  BY <1>2 DEF IInv, RestIsIntact, Intact, InputHashes, Downstream, Fail
<1>4. CallIsPending' /\ PassIsFresh' /\ ComputedInPass' /\ OnlyStaleComputed'
  BY DEF Fail, CallIsPending, PassIsFresh, ComputedInPass, OnlyStaleComputed
<1>5. QED  BY <1>1, <1>3, <1>4 DEF IInv

(* A change of a configuration file keeps the invariant. *)
LEMMA ChangeConfigKeeps == ASSUME IInv, ChangeConfig PROVE IInv'
<1>1. TypeOK'
  BY DEF IInv, TypeOK, ChangeConfig
<1>2. RestIsIntact'
  BY DEF IInv, RestIsIntact, Intact, InputHashes, Downstream, ChangeConfig
<1>3. CallIsPending' /\ PassIsFresh'
  BY DEF ChangeConfig, CallIsPending, PassIsFresh
<1>4. ComputedInPass' /\ OnlyStaleComputed'
  BY DEF IInv, ComputedInPass, OnlyStaleComputed, ChangeConfig
<1>5. QED  BY <1>1, <1>2, <1>3, <1>4 DEF IInv

(* An artifact lost or spoiled keeps the invariant. *)
LEMMA SpoilKeeps == ASSUME IInv, Spoil PROVE IInv'
<1>1. PICK s \in DOMAIN file :
        /\ \/ file' = [t \in DOMAIN file \ {s} |-> file[t]]
           \/ file' = [file EXCEPT ![s] = [@ EXCEPT !.readable = FALSE]]
        /\ touched' = touched \cup {s}
  BY DEF Spoil
<1>2. s \in Stages
  BY DEF IInv, TypeOK
<1>3. ASSUME NEW t \in Stages, t # s
      PROVE  (t \in DOMAIN file' <=> t \in DOMAIN file) /\ (t \in DOMAIN file => file'[t] = file[t])
  BY <1>1, <1>3
<1>4. s \in DOMAIN file' =>
        DOMAIN file' = DOMAIN file /\ file'[s] = [file[s] EXCEPT !.readable = FALSE]
  BY <1>1
<1>5. DOMAIN file' \subseteq DOMAIN file
  BY <1>1
<1>6. pos = 0 /\ call = None /\ config' = config /\ built' = built
      /\ pos' = 0 /\ call' = None /\ computed' = computed
  BY DEF Spoil
<1>7. TypeOK'
  <2>1. ASSUME NEW t \in DOMAIN file'
        PROVE  /\ DOMAIN file'[t] = {"config", "inputs", "reply", "readable"}
               /\ file'[t].config \in Configs
               /\ DOMAIN file'[t].inputs = STAGE_INPUTS[t]
               /\ file'[t].reply \in Replies
               /\ file'[t].readable \in BOOLEAN
    <3>1. t \in DOMAIN file /\ t \in Stages
      BY <1>5 DEF IInv, TypeOK
    <3>2. CASE t # s
      BY <1>3, <3>1, <3>2 DEF IInv, TypeOK
    <3>3. CASE t = s
      <4>1. file'[s] = [file[s] EXCEPT !.readable = FALSE]
        BY <1>4, <3>3
      <4>2. DOMAIN file[s] = {"config", "inputs", "reply", "readable"}
        BY DEF IInv, TypeOK
      <4>3. /\ DOMAIN file'[s] = {"config", "inputs", "reply", "readable"}
            /\ file'[s].config = file[s].config
            /\ file'[s].inputs = file[s].inputs
            /\ file'[s].reply = file[s].reply
            /\ file'[s].readable = FALSE
        BY <4>1, <4>2
      <4>4. QED  BY <3>1, <3>3, <4>3 DEF IInv, TypeOK
    <3>4. QED  BY <3>2, <3>3
  <2>2. DOMAIN file' \subseteq Stages
    BY <1>5 DEF IInv, TypeOK
  <2>3. QED  BY <1>1, <1>2, <2>1, <2>2 DEF IInv, TypeOK, Spoil
<1>8. RestIsIntact'
  <2>1. SUFFICES ASSUME built # None, NEW t \in Stages,
                        t \notin Downstream((touched \cup computed) \cup {s})
                 PROVE  Intact(t)'
    <3>1. touched' \cup computed' = (touched \cup computed) \cup {s}
      BY <1>1, <1>6
    <3>2. QED  BY <1>6, <3>1 DEF RestIsIntact, Downstream
  <2>2. (touched \cup computed) \cup {s} \subseteq Stages
    BY <1>2 DEF IInv, TypeOK
  <2>3. t # s /\ s \notin STAGE_INPUTS[t]
    BY <2>1, <2>2, DownstreamExtends, DownstreamClosed
  <2>4. t \notin Downstream(touched \cup computed)
    BY <2>1, <2>2, DownstreamMonotone
  <2>5. Intact(t) /\ InputsExist(t)
    BY <2>1, <2>4, IntactHasInputs
  <2>6. \A i \in STAGE_INPUTS[t] : file'[i] = file[i]
    BY <1>3, <2>3, <2>5, InputsAreOtherStages DEF InputsExist
  <2>7. InputHashes(t)' = InputHashes(t)
    BY <2>6 DEF InputHashes
  <2>8. QED  BY <1>3, <1>6, <2>3, <2>5, <2>7 DEF Intact
<1>9. CallIsPending' /\ PassIsFresh' /\ ComputedInPass' /\ OnlyStaleComputed'
  BY <1>6 DEF IInv, CallIsPending, PassIsFresh, ComputedInPass, OnlyStaleComputed
<1>10. QED  BY <1>7, <1>8, <1>9 DEF IInv

(* Every step keeps the invariant, one case for each action. *)
LEMMA NextIInv == ASSUME IInv, [Next]_vars PROVE IInv'
<1>1. CASE UNCHANGED vars
  <2>1. TypeOK'
    BY <1>1 DEF vars, IInv, TypeOK
  <2>2. CallIsPending' /\ PassIsFresh' /\ ComputedInPass'
    BY <1>1 DEF vars, IInv, CallIsPending, PassIsFresh, ComputedInPass, IsFresh, InputsExist, InputHashes
  <2>3. RestIsIntact'
    BY <1>1 DEF vars, IInv, RestIsIntact, Intact, InputHashes, Downstream
  <2>4. OnlyStaleComputed'
    BY <1>1 DEF vars, IInv, OnlyStaleComputed, Changed, Downstream
  <2>5. QED  BY <2>1, <2>2, <2>3, <2>4 DEF IInv
<1>2. CASE Next
  BY <1>2, BeginPassKeeps, SkipKeeps, ComputeKeeps, WriteKeeps, FailKeeps, ChangeConfigKeeps,
     SpoilKeeps DEF Next
<1>3. QED  BY <1>1, <1>2

(* The inductive invariant holds in every reachable state. *)
THEOREM Invariance == Spec => []IInv
<1>1. Init => IInv
  BY InitIInv
<1>2. IInv /\ [Next]_vars => IInv'
  BY NextIInv
<1>3. QED  BY <1>1, <1>2, PTL DEF Spec

(* Every variable has its type. *)
THEOREM TypeCorrect == Spec => []TypeOK
<1>1. IInv => TypeOK
  BY DEF IInv
<1>2. QED  BY <1>1, Invariance, PTL

(* A pass that skips builds what a pass over an empty directory would,     *)
(* whatever failed, was changed or was spoiled before.                     *)
THEOREM PassBuilds == Spec => []PassBuildsEverything
<1>1. ASSUME IInv PROVE PassBuildsEverything
  <2>1. \A k \in 1..(pos - 1) : UpToDate(Order[k])
    BY <1>1, FreshIsUpToDate DEF IInv, PassIsFresh
  <2>2. ASSUME pos = 0, built = config, touched = {}, NEW s \in Stages
        PROVE  UpToDate(s)
    <3>1. built # None
      BY <1>1, <2>2, ConstantsAssumption DEF IInv, TypeOK
    <3>2. touched \cup computed = {}
      BY <1>1, <2>2 DEF IInv, ComputedInPass
    <3>3. Intact(s)
      BY <1>1, <3>1, <3>2, DownstreamOfNothing DEF IInv, RestIsIntact
    <3>4. QED  BY <2>2, <3>3, FreshIsUpToDate DEF Intact, IsFresh
  <2>3. QED  BY <2>1, <2>2 DEF PassBuildsEverything
<1>2. QED  BY <1>1, Invariance, PTL

(* A pass computes nothing that is not downstream of a change. *)
THEOREM RerunsOnlyWhatChanged == Spec => []RerunsOnlyDownstream
<1>1. ASSUME IInv PROVE RerunsOnlyDownstream
  BY <1>1 DEF IInv, OnlyStaleComputed, Changed, RerunsOnlyDownstream
<1>2. QED  BY <1>1, Invariance, PTL
=============================================================================
