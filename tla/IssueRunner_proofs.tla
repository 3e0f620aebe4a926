------------------------- MODULE IssueRunner_proofs -------------------------
(***************************************************************************)
(* Proofs about IssueRunner, for any list of issues, any budgets of fix    *)
(* rounds and CI fixes, and any number of kills, foreign pushes and runs.  *)
(***************************************************************************)
EXTENDS IssueRunner, TLAPS

AtAgent    == {"implement", "fix", "ci-fix"}
AtShipping == {"push", "checks", "watch", "merge"}
AtMerged   == {"tick", "clean"}

(* The runner works on an issue of the list that stays open until it is    *)
(* merged, and in its worktree; a branch holds no commit that was not made. *)
Placed ==
  /\ pc \notin {"idle", "issue"} => cur \in DOMAIN Issues
  /\ pc \in {"worktree"} \cup AtAgent \cup AtShipping => I \in open
  /\ pc \in AtAgent \cup AtShipping \cup AtMerged => wt[I] # None
  /\ \A i \in Issue : wt[i] # None => wt[i].head <= commits

(* What is shipped has passed the post-checks; what is about to be merged, *)
(* unless someone pushed on top of it, has passed CI too; what was merged  *)
(* is what the worktree holds.                                             *)
Shipped ==
  /\ pc \in AtShipping => wt[I].head \in checked
  /\ pc = "merge" /\ remote[I] = wt[I].head => ci[remote[I]] = "pass"
  /\ pc \in AtMerged => I \notin open /\ merged[I] = wt[I].head

(* The issues behind the runner are closed, or left to a human; only a run *)
(* that went through the list ends with 0.                                 *)
BehindIsDone ==
  /\ pc # "idle" =>
       /\ exit = None
       /\ \A k \in DOMAIN Issues : k < cur =>
            Issues[k] \notin open \/ outcome[Issues[k]] = "skipped-human"
  /\ ExitZeroMeansDelivered

(* The inductive invariant. *)
IInv == TypeOK /\ Placed /\ Shipped /\ BehindIsDone /\ MergedIsVerified

LEMMA ListIsSequence == Len(Issues) \in Nat /\ DOMAIN Issues = 1..Len(Issues)
  BY ConstantsAssumption

LEMMA NoneIsNotZero == None # 0
  BY ConstantsAssumption DEF Commits

LEMMA InitIInv == Init => IInv
<1>1. SUFFICES ASSUME Init PROVE IInv
  OBVIOUS
<1>2. TypeOK
  BY <1>1, ConstantsAssumption, ListIsSequence DEF Init, TypeOK, Commits
<1>3. Placed /\ Shipped
  BY <1>1 DEF Init, Placed, Shipped, AtAgent, AtShipping, AtMerged
<1>4. BehindIsDone /\ MergedIsVerified
  BY <1>1, NoneIsNotZero DEF Init, BehindIsDone, ExitZeroMeansDelivered,
       MergedIsVerified
<1>5. QED  BY <1>2, <1>3, <1>4 DEF IInv

-----------------------------------------------------------------------------
(* The types of the runner's own variables, and those of the others.       *)
Labels   == {"idle", "issue", "worktree"} \cup AtAgent \cup AtShipping \cup AtMerged
Outcomes == {"error", "blocked", "ci-failed", "merged", "skipped-closed", "skipped-human"}

RunnerTyped ==
  /\ pc \in Labels /\ cur \in 1..(Len(Issues) + 1)
  /\ rounds \in Nat /\ fixes \in 0..MaxCiFixes
  /\ outcome \in [Issue -> Outcomes \cup {None}] /\ exit \in {None, 0, 1}

WorldTyped ==
  /\ open \subseteq Issue /\ pr \subseteq open /\ ticked \subseteq Issue
  /\ remote \in [Issue -> Commits \cup {None}]
  /\ merged \in [Issue -> Commits \cup {None}]
  /\ ci \in [Commits -> {"none", "running", "pass", "fail"}]
  /\ commits \in Commits /\ faults \in Nat /\ pushes \in Nat /\ runs \in Nat

WorktreesTyped ==
  /\ wt \in [Issue -> Worktree \cup {None}]
  /\ checked \subseteq Commits
  /\ lastCall \in [Issue -> {None, "done", "blocked", "missing", "cut"}]

LEMMA TypeSplit == TypeOK <=> RunnerTyped /\ WorldTyped /\ WorktreesTyped
<1>1. Labels = {"idle", "issue", "worktree", "implement", "fix", "ci-fix", "push", "checks",
                "watch", "merge", "tick", "clean"}
  BY DEF Labels, AtAgent, AtShipping, AtMerged
<1>2. Outcomes \cup {None} = {None, "error", "blocked", "ci-failed", "merged",
                             "skipped-closed", "skipped-human"}
  BY DEF Outcomes
<1>3. QED  BY <1>1, <1>2 DEF TypeOK, RunnerTyped, WorldTyped, WorktreesTyped

LEMMA TypeJoin == RunnerTyped' /\ WorldTyped' /\ WorktreesTyped' => TypeOK'
<1>1. Labels = {"idle", "issue", "worktree", "implement", "fix", "ci-fix", "push", "checks",
                "watch", "merge", "tick", "clean"}
  BY DEF Labels, AtAgent, AtShipping, AtMerged
<1>2. Outcomes \cup {None} = {None, "error", "blocked", "ci-failed", "merged",
                             "skipped-closed", "skipped-human"}
  BY DEF Outcomes
<1>3. QED  BY <1>1, <1>2 DEF TypeOK, RunnerTyped, WorldTyped, WorktreesTyped

(* The issue at hand is one of the list. *)
LEMMA HereIs ==
  ASSUME TypeOK, cur \in DOMAIN Issues
  PROVE  I \in Issue /\ cur \in Nat /\ cur + 1 \in 1..(Len(Issues) + 1)
<1>1. I \in Issue
  BY DEF I, Issue
<1>2. QED  BY <1>1, ListIsSequence

(* How the runner moves on. *)
LEMMA GotoTyped ==
  ASSUME RunnerTyped, NEW label \in Labels, Goto(label)
  PROVE  RunnerTyped'
BY DEF RunnerTyped, Goto

LEMMA HaltTyped ==
  ASSUME RunnerTyped, NEW o \in Outcomes, Halt(o)
  PROVE  RunnerTyped'
<1>1. outcome' \in [Issue -> Outcomes \cup {None}] /\ pc' \in Labels
  BY DEF RunnerTyped, Halt, Labels
<1>2. QED  BY <1>1 DEF RunnerTyped, Halt

LEMMA NextIssueTyped ==
  ASSUME TypeOK, cur \in DOMAIN Issues, NEW o \in Outcomes, NextIssue(o)
  PROVE  RunnerTyped'
<1>1. outcome' \in [Issue -> Outcomes \cup {None}] /\ pc' \in Labels
  BY TypeSplit DEF RunnerTyped, NextIssue, Labels
<1>2. cur' \in 1..(Len(Issues) + 1)
  BY HereIs DEF NextIssue
<1>3. QED  BY <1>1, <1>2, TypeSplit DEF RunnerTyped, NextIssue

LEMMA RejectedTyped == RunnerTyped /\ Rejected => RunnerTyped'
<1>1. SUFFICES ASSUME RunnerTyped, Rejected PROVE RunnerTyped'
  OBVIOUS
<1>2. CASE fixes >= MaxCiFixes
  BY <1>1, <1>2, HaltTyped DEF Rejected, Outcomes
<1>3. CASE ~(fixes >= MaxCiFixes)
  <2>1. fixes' \in 0..MaxCiFixes
    BY <1>1, <1>3, ConstantsAssumption DEF Rejected, RunnerTyped
  <2>2. QED  BY <1>1, <1>3, <2>1 DEF Rejected, RunnerTyped, Labels, AtAgent
<1>4. QED  BY <1>2, <1>3

(* What the runner does to a worktree leaves it typed. *)
LEMMA WorktreeSet ==
  ASSUME WorktreesTyped, NEW i \in Issue, NEW w \in Worktree, wt' = [wt EXCEPT ![i] = w]
  PROVE  wt' \in [Issue -> Worktree \cup {None}] /\ wt'[i] = w /\ wt'[i] # None
BY ConstantsAssumption DEF WorktreesTyped

LEMMA FreshTyped == Fresh \in Worktree /\ Fresh.head = 0
<1>1. 0 \in Commits /\ {0} \in SUBSET Commits
  BY ConstantsAssumption DEF Commits
<1>2. QED  BY <1>1 DEF Fresh, Worktree

(* What setting up the worktree does. *)
SetUpOf(i, w) ==
  /\ i = I /\ pc = "worktree" /\ (wt[i] = w \/ w = Fresh)
  /\ \/ /\ wt' = [wt EXCEPT ![i] = w]
        /\ \/ Goto("push") /\ checked' = checked \cup {w.head}
           \/ Goto("implement") /\ checked' = checked
     \/ Halt("error") /\ wt' = wt /\ checked' = checked
  /\ UNCHANGED <<github, ci, lastCall, commits, faults, pushes, runs>>

LEMMA SetUpIs ==
  ASSUME TypeOK, Placed, SetUpWorktree
  PROVE  \E i \in Issue, w \in Worktree : SetUpOf(i, w)
<1>1. PICK i \in Issue : i = I
  BY HereIs DEF Placed, SetUpWorktree
<1>2. PICK w \in Worktree : w = IF wt[i] = None THEN Fresh ELSE wt[i]
  BY FreshTyped, TypeSplit DEF WorktreesTyped
<1>3. /\ pc = "worktree"
      /\ \/ /\ wt' = [wt EXCEPT ![I] = w]
            /\ IF PostChecks(w, w.status)
                 THEN Goto("push") /\ checked' = checked \cup {w.head}
                 ELSE Goto("implement") /\ UNCHANGED checked
         \/ Halt("error") /\ UNCHANGED <<wt, checked>>
      /\ UNCHANGED <<github, ci, lastCall, commits, faults, pushes, runs>>
  BY <1>1, <1>2 DEF SetUpWorktree
<1>4. SetUpOf(i, w)
  BY <1>1, <1>2, <1>3 DEF SetUpOf
<1>5. QED  BY <1>4

(* What the agent's work does to the worktree. *)
WorkOf(i, old, new) ==
  /\ i = I /\ wt[i] = old /\ new.head = commits' /\ wt' = [wt EXCEPT ![i] = new]

LEMMA WorkIs ==
  ASSUME TypeOK, Placed, AgentWorks
  PROVE  \E i \in Issue, old, new \in Worktree : WorkOf(i, old, new)
<1>1. PICK i \in Issue : i = I
  BY HereIs DEF Placed, AgentWorks, AgentRuns
<1>2. PICK old \in Worktree : wt[i] = old
  BY <1>1, TypeSplit DEF WorktreesTyped, Placed, AgentWorks, AgentRuns, AtAgent
<1>3. commits' \in Commits
  BY TypeSplit, ConstantsAssumption DEF WorldTyped, AgentWorks, Commits
<1>4. PICK ok \in BOOLEAN :
        wt' = [wt EXCEPT ![I] = [wt[I] EXCEPT !.head = commits', !.past = wt[I].past \cup {commits'}, !.ok = ok]]
  BY DEF AgentWorks
<1>5. PICK c \in Commits : c = commits'
  BY <1>3
<1>6. PICK past \in SUBSET Commits : past = old.past \cup {c}
  BY DEF Worktree
<1>7. PICK new \in Worktree : new = [old EXCEPT !.head = c, !.past = past, !.ok = ok]
  BY DEF Worktree
<1>8. new.head = commits'
  BY <1>5, <1>7 DEF Worktree
<1>9. wt' = [wt EXCEPT ![i] = new]
  <2>1. wt' = [wt EXCEPT ![i] = [old EXCEPT !.head = c, !.past = old.past \cup {c}, !.ok = ok]]
    BY <1>1, <1>2, <1>4, <1>5
  <2>2. new = [old EXCEPT !.head = c, !.past = old.past \cup {c}, !.ok = ok]
    BY <1>6, <1>7
  <2>3. QED  BY <2>1, <2>2
<1>10. QED  BY <1>1, <1>2, <1>8, <1>9 DEF WorkOf

(* What the end of an agent call does. *)
CallEndOf(i, old, new, status) ==
  /\ i = I /\ pc \in AtAgent /\ wt[i] = old
  /\ new.head = old.head /\ wt' = [wt EXCEPT ![i] = new]
  /\ lastCall' = [lastCall EXCEPT ![i] = status]
  /\ \/ checked' = checked \cup {old.head} /\ Goto("push")
     \/ /\ checked' = checked \/ checked' = checked \cup {old.head}
        /\ \/ \E o \in Outcomes : Halt(o)
           \/ rounds # 0 /\ pc' = "fix" /\ rounds' = rounds - 1 /\ UNCHANGED <<cur, fixes, outcome, exit>>
           \/ Rejected
  /\ UNCHANGED <<github, ci, commits, faults, pushes, runs>>

LEMMA CallEndIs ==
  ASSUME TypeOK, Placed, NEW status \in {"done", "blocked", "missing"}, AgentEnds(status)
  PROVE  \E i \in Issue, old, new \in Worktree : CallEndOf(i, old, new, status)
<1>1. pc \in AtAgent
  BY DEF AgentEnds, AgentRuns, AtAgent
<1>2. PICK i \in Issue : i = I
  BY <1>1, HereIs DEF Placed, AtAgent
<1>3. PICK old \in Worktree : wt[i] = old
  BY <1>1, <1>2, TypeSplit DEF WorktreesTyped, Placed
<1>4. PICK new \in Worktree : new = [old EXCEPT !.status = status]
  BY DEF Worktree
<1>5. new.head = old.head
  BY <1>4 DEF Worktree
<1>6. wt' = [wt EXCEPT ![i] = new] /\ lastCall' = [lastCall EXCEPT ![i] = status]
  BY <1>2, <1>3, <1>4 DEF AgentEnds
<1>7. \/ checked' = checked \cup {old.head} /\ Goto("push")
      \/ /\ checked' = checked \/ checked' = checked \cup {old.head}
         /\ \/ \E o \in Outcomes : Halt(o)
            \/ rounds # 0 /\ pc' = "fix" /\ rounds' = rounds - 1 /\ UNCHANGED <<cur, fixes, outcome, exit>>
            \/ Rejected
  <2>1. checked' = IF PostChecks(old, status) THEN checked \cup {old.head} ELSE checked
    BY <1>2, <1>3 DEF AgentEnds
  <2>2. {"blocked", "ci-failed"} \subseteq Outcomes
    BY DEF Outcomes
  <2>3. \/ status = "blocked" /\ pc # "ci-fix" /\ Halt("blocked")
        \/ status = "blocked" /\ pc = "ci-fix" /\ Halt("ci-failed")
        \/ PostChecks(old, status) /\ Goto("push")
        \/ /\ status # "blocked" /\ ~PostChecks(old, status) /\ pc # "ci-fix"
           /\ IF rounds = 0
                THEN Halt("blocked")
                ELSE pc' = "fix" /\ rounds' = rounds - 1 /\ UNCHANGED <<cur, fixes, outcome, exit>>
        \/ /\ status # "blocked" /\ ~PostChecks(old, status) /\ pc = "ci-fix"
           /\ Rejected
    BY <1>2, <1>3 DEF AgentEnds
  <2>4. QED  BY <2>1, <2>2, <2>3
<1>8. UNCHANGED <<github, ci, commits, faults, pushes, runs>>
  BY DEF AgentEnds
<1>9. QED  BY <1>1, <1>2, <1>3, <1>5, <1>6, <1>7, <1>8 DEF CallEndOf

-----------------------------------------------------------------------------
(* Every step keeps the types. *)
LEMMA TypesStep == TypeOK /\ Placed /\ [Next]_vars => TypeOK'
<1>1. SUFFICES ASSUME TypeOK, Placed, [Next]_vars PROVE TypeOK'
  OBVIOUS
<1> USE ConstantsAssumption, ListIsSequence DEF AtAgent, AtShipping, AtMerged
<1>2. CASE Begin
  <2>0. RunnerTyped /\ WorldTyped /\ WorktreesTyped
    BY <1>1, TypeSplit
  <2>1. RunnerTyped'
    <3>1. pc' \in Labels /\ cur' \in 1..(Len(Issues) + 1)
      BY <1>2, ListIsSequence DEF Begin, Labels
    <3>2. QED  BY <2>0, <3>1, <1>2 DEF RunnerTyped, Begin
  <2>2. WorldTyped'
    BY <2>0, <1>2 DEF WorldTyped, Begin, github
  <2>3. WorktreesTyped'
    BY <2>0, <1>2 DEF WorktreesTyped, Begin, github
  <2>4. QED  BY <2>1, <2>2, <2>3, TypeJoin
<1>3. CASE Finish
  <2>0. RunnerTyped /\ WorldTyped /\ WorktreesTyped
    BY <1>1, TypeSplit
  <2>1. RunnerTyped'
    <3>1. pc' \in Labels
      BY <1>3 DEF Finish, Labels
    <3>2. QED  BY <2>0, <3>1, <1>3 DEF RunnerTyped, Finish
  <2>2. WorldTyped'
    BY <2>0, <1>3 DEF WorldTyped, Finish, github
  <2>3. WorktreesTyped'
    BY <2>0, <1>3 DEF WorktreesTyped, Finish, github
  <2>4. QED  BY <2>1, <2>2, <2>3, TypeJoin
<1>4. CASE TakeIssue
  <2>0. RunnerTyped /\ WorldTyped /\ WorktreesTyped
    BY <1>1, TypeSplit
  <2>1. RunnerTyped'
    <3>0. cur \in DOMAIN Issues
      BY <2>0, <1>4, ListIsSequence DEF TakeIssue, RunnerTyped
    <3>1. CASE NextIssue("skipped-closed") \/ NextIssue("skipped-human")
      BY <1>1, <3>0, <3>1, NextIssueTyped DEF Outcomes
    <3>2. CASE Halt("error")
      BY <2>0, <3>2, HaltTyped DEF Outcomes
    <3>3. CASE /\ rounds' \in Rounds /\ fixes' = 0
               /\ pc' = "worktree"
               /\ UNCHANGED <<cur, outcome, exit>>
      <4>1. rounds' \in Nat /\ fixes' \in 0..MaxCiFixes /\ pc' \in Labels
        BY <3>3, ConstantsAssumption DEF Labels
      <4>2. QED  BY <2>0, <3>3, <4>1 DEF RunnerTyped
    <3>4. QED  BY <1>4, <3>1, <3>2, <3>3 DEF TakeIssue
  <2>2. WorldTyped'
    BY <2>0, <1>4 DEF WorldTyped, TakeIssue, github
  <2>3. WorktreesTyped'
    BY <2>0, <1>4 DEF WorktreesTyped, TakeIssue, github
  <2>4. QED  BY <2>1, <2>2, <2>3, TypeJoin
<1>5. CASE SetUpWorktree
  <2>0. RunnerTyped /\ WorldTyped /\ WorktreesTyped
    BY <1>1, TypeSplit
  <2>1. RunnerTyped'
    <3>1. PICK i \in Issue, w \in Worktree : SetUpOf(i, w)
      BY <1>1, <1>5, SetUpIs
    <3>2. Goto("push") \/ Goto("implement") \/ Halt("error")
      BY <3>1 DEF SetUpOf
    <3>3. QED  BY <2>0, <3>2, GotoTyped, HaltTyped DEF Labels, Outcomes
  <2>2. WorldTyped'
    BY <2>0, <1>5 DEF WorldTyped, SetUpWorktree, github
  <2>3. WorktreesTyped'
    <3>1. PICK i \in Issue, w \in Worktree : SetUpOf(i, w)
      BY <1>1, <1>5, SetUpIs
    <3>2. wt' \in [Issue -> Worktree \cup {None}]
      BY <2>0, <3>1, WorktreeSet DEF SetUpOf, WorktreesTyped
    <3>3. checked' \subseteq Commits
      BY <2>0, <3>1 DEF SetUpOf, WorktreesTyped, Worktree
    <3>4. QED  BY <2>0, <3>1, <3>2, <3>3 DEF SetUpOf, WorktreesTyped
  <2>4. QED  BY <2>1, <2>2, <2>3, TypeJoin
<1>6. ASSUME NEW status \in {"done", "blocked", "missing"}, AgentEnds(status) PROVE TypeOK'
  <2>0. RunnerTyped /\ WorldTyped /\ WorktreesTyped
    BY <1>1, TypeSplit
  <2>1. RunnerTyped'
    <3>1. PICK i \in Issue, old, new \in Worktree : CallEndOf(i, old, new, status)
      BY <1>1, <1>6, CallEndIs
    <3>2. CASE Goto("push")
      BY <2>0, <3>2, GotoTyped DEF Labels
    <3>3. CASE \E o \in Outcomes : Halt(o)
      BY <2>0, <3>3, HaltTyped
    <3>4. CASE /\ rounds # 0 /\ pc' = "fix" /\ rounds' = rounds - 1
               /\ UNCHANGED <<cur, fixes, outcome, exit>>
      <4>1. rounds' \in Nat
        BY <2>0, <3>4 DEF RunnerTyped
      <4>2. pc' \in Labels
        BY <3>4 DEF Labels
      <4>3. QED  BY <2>0, <3>4, <4>1, <4>2 DEF RunnerTyped
    <3>5. CASE Rejected
      BY <2>0, <3>5, RejectedTyped
    <3>6. QED  BY <3>1, <3>2, <3>3, <3>4, <3>5 DEF CallEndOf
  <2>2. WorldTyped'
    BY <2>0, <1>6 DEF WorldTyped, AgentEnds, github
  <2>3. WorktreesTyped'
    <3>1. PICK i \in Issue, old, new \in Worktree : CallEndOf(i, old, new, status)
      BY <1>1, <1>6, CallEndIs
    <3>2. wt' \in [Issue -> Worktree \cup {None}]
      BY <2>0, <3>1, WorktreeSet DEF CallEndOf
    <3>3. checked' \subseteq Commits
      BY <2>0, <3>1 DEF CallEndOf, WorktreesTyped, Worktree
    <3>4. lastCall' \in [Issue -> {None, "done", "blocked", "missing", "cut"}]
      BY <2>0, <3>1 DEF CallEndOf, WorktreesTyped
    <3>5. QED  BY <3>2, <3>3, <3>4 DEF WorktreesTyped
  <2>4. QED  BY <2>1, <2>2, <2>3, TypeJoin
<1>7. CASE Push
  <2>0. RunnerTyped /\ WorldTyped /\ WorktreesTyped
    BY <1>1, TypeSplit
  <2>1. RunnerTyped'
    <3>1. Goto("checks") \/ Halt("error") \/ Halt("ci-failed")
      BY <1>7 DEF Push
    <3>2. QED  BY <2>0, <3>1, GotoTyped, HaltTyped DEF Labels, Outcomes
  <2>2. WorldTyped'
    <3>1. PICK i \in Issue : i = I
      BY <1>1, <1>7, HereIs DEF Placed, Push
    <3>2. wt[i] \in Worktree
      BY <1>1, <2>0, <3>1, <1>7 DEF Placed, Push, WorktreesTyped
    <3>3. PICK h \in Commits : h = wt[i].head
      BY <3>2 DEF Worktree
    <3>4. remote' = remote \/ remote' = [remote EXCEPT ![i] = h]
      BY <3>1, <3>3, <1>7 DEF Push
    <3>5. remote' \in [Issue -> Commits \cup {None}]
      BY <2>0, <3>4 DEF WorldTyped
    <3>6. pr' \subseteq open
      <4>1. CASE pr' = pr
        BY <2>0, <4>1 DEF WorldTyped
      <4>2. CASE pr' = pr \cup {I}
        BY <1>1, <2>0, <4>2, <1>7 DEF WorldTyped, Placed, Push
      <4>3. QED  BY <1>7, <4>1, <4>2 DEF Push
    <3>7. QED  BY <2>0, <3>5, <3>6, <1>7 DEF WorldTyped, Push
  <2>3. WorktreesTyped'
    BY <2>0, <1>7 DEF WorktreesTyped, Push, github
  <2>4. QED  BY <2>1, <2>2, <2>3, TypeJoin
<1>8. CASE WaitForChecks
  <2>0. RunnerTyped /\ WorldTyped /\ WorktreesTyped
    BY <1>1, TypeSplit
  <2>1. RunnerTyped'
    <3>1. Goto("watch") \/ Halt("ci-failed")
      BY <1>8 DEF WaitForChecks
    <3>2. QED  BY <2>0, <3>1, GotoTyped, HaltTyped DEF Labels, Outcomes
  <2>2. WorldTyped'
    BY <2>0, <1>8 DEF WorldTyped, WaitForChecks, github
  <2>3. WorktreesTyped'
    BY <2>0, <1>8 DEF WorktreesTyped, WaitForChecks, github
  <2>4. QED  BY <2>1, <2>2, <2>3, TypeJoin
<1>9. CASE WatchChecks
  <2>0. RunnerTyped /\ WorldTyped /\ WorktreesTyped
    BY <1>1, TypeSplit
  <2>1. RunnerTyped'
    <3>1. Goto("merge") \/ Rejected
      BY <1>9 DEF WatchChecks
    <3>2. QED  BY <2>0, <3>1, GotoTyped, RejectedTyped DEF Labels
  <2>2. WorldTyped'
    BY <2>0, <1>9 DEF WorldTyped, WatchChecks, github
  <2>3. WorktreesTyped'
    BY <2>0, <1>9 DEF WorktreesTyped, WatchChecks, github
  <2>4. QED  BY <2>1, <2>2, <2>3, TypeJoin
<1>10. CASE Merge
  <2>0. RunnerTyped /\ WorldTyped /\ WorktreesTyped
    BY <1>1, TypeSplit
  <2>1. RunnerTyped'
    <3>1. Goto("tick") \/ Halt("ci-failed")
      BY <1>10 DEF Merge
    <3>2. QED  BY <2>0, <3>1, GotoTyped, HaltTyped DEF Labels, Outcomes
  <2>2. WorldTyped'
    <3>1. PICK i \in Issue : i = I
      BY <1>1, <1>10, HereIs DEF Placed, Merge
    <3>2. CASE Squash
      BY <2>0, <3>1, <3>2, <1>10 DEF WorldTyped, Squash, Merge
    <3>3. CASE UNCHANGED <<open, merged, pr, remote, faults>>
      BY <2>0, <3>3, <1>10 DEF WorldTyped, Merge
    <3>4. QED  BY <1>10, <3>2, <3>3 DEF Merge
  <2>3. WorktreesTyped'
    BY <2>0, <1>10 DEF WorktreesTyped, Merge, github
  <2>4. QED  BY <2>1, <2>2, <2>3, TypeJoin
<1>11. CASE Tick
  <2>0. RunnerTyped /\ WorldTyped /\ WorktreesTyped
    BY <1>1, TypeSplit
  <2>1. RunnerTyped'
    BY <2>0, <1>11, GotoTyped DEF Tick, Labels
  <2>2. WorldTyped'
    <3>1. I \in Issue
      BY <1>1, <1>11, HereIs DEF Placed, Tick
    <3>2. ticked' \subseteq Issue
      BY <2>0, <3>1, <1>11 DEF WorldTyped, Tick
    <3>3. QED  BY <2>0, <3>2, <1>11 DEF WorldTyped, Tick
  <2>3. WorktreesTyped'
    BY <2>0, <1>11 DEF WorktreesTyped, Tick, github
  <2>4. QED  BY <2>1, <2>2, <2>3, TypeJoin
<1>12. CASE Clean
  <2>0. RunnerTyped /\ WorldTyped /\ WorktreesTyped
    BY <1>1, TypeSplit
  <2>1. RunnerTyped'
    BY <1>1, <1>12, NextIssueTyped DEF Clean, Placed, Outcomes
  <2>2. WorldTyped'
    BY <2>0, <1>12 DEF WorldTyped, Clean, github
  <2>3. WorktreesTyped'
    BY <2>0, <1>12 DEF WorktreesTyped, Clean, github
  <2>4. QED  BY <2>1, <2>2, <2>3, TypeJoin
<1>13. CASE AgentWorks
  <2>0. RunnerTyped /\ WorldTyped /\ WorktreesTyped
    BY <1>1, TypeSplit
  <2>1. RunnerTyped'
    BY <2>0, <1>13 DEF RunnerTyped, AgentWorks, runner
  <2>2. WorldTyped'
    <3>1. commits' \in Commits
      BY <2>0, <1>13, ConstantsAssumption DEF WorldTyped, AgentWorks, Commits
    <3>2. QED  BY <2>0, <3>1, <1>13 DEF WorldTyped, AgentWorks, github
  <2>3. WorktreesTyped'
    <3>1. PICK i \in Issue, old, new \in Worktree : WorkOf(i, old, new)
      BY <1>1, <1>13, WorkIs
    <3>2. wt' \in [Issue -> Worktree \cup {None}]
      BY <2>0, <3>1, WorktreeSet DEF WorkOf
    <3>3. lastCall' \in [Issue -> {None, "done", "blocked", "missing", "cut"}]
      BY <2>0, <1>13 DEF AgentWorks, WorktreesTyped
    <3>4. QED  BY <2>0, <3>2, <3>3, <1>13 DEF WorktreesTyped, AgentWorks
  <2>4. QED  BY <2>1, <2>2, <2>3, TypeJoin
<1>14. CASE Kill
  <2>0. RunnerTyped /\ WorldTyped /\ WorktreesTyped
    BY <1>1, TypeSplit
  <2>1. RunnerTyped'
    <3>1. pc' \in Labels
      BY <1>14 DEF Kill, Labels
    <3>2. QED  BY <2>0, <3>1, <1>14 DEF RunnerTyped, Kill
  <2>2. WorldTyped'
    BY <2>0, <1>14 DEF WorldTyped, Kill, github
  <2>3. WorktreesTyped'
    BY <2>0, <1>14 DEF WorktreesTyped, Kill, github
  <2>4. QED  BY <2>1, <2>2, <2>3, TypeJoin
<1>15. CASE CiRuns
  <2>0. RunnerTyped /\ WorldTyped /\ WorktreesTyped
    BY <1>1, TypeSplit
  <2>1. RunnerTyped'
    BY <2>0, <1>15 DEF RunnerTyped, CiRuns, runner
  <2>2. WorldTyped'
    <3>1. PICK i \in pr, result \in {"running", "pass", "fail"} : ci' = [ci EXCEPT ![remote[i]] = result]
      BY <1>15 DEF CiRuns
    <3>2. QED  BY <2>0, <3>1, <1>15 DEF WorldTyped, CiRuns, github
  <2>3. WorktreesTyped'
    BY <2>0, <1>15 DEF WorktreesTyped, CiRuns, github
  <2>4. QED  BY <2>1, <2>2, <2>3, TypeJoin
<1>16. CASE SomeonePushes
  <2>0. RunnerTyped /\ WorldTyped /\ WorktreesTyped
    BY <1>1, TypeSplit
  <2>1. RunnerTyped'
    BY <2>0, <1>16 DEF RunnerTyped, SomeonePushes, runner
  <2>2. WorldTyped'
    <3>1. PICK c \in Commits : c = commits'
      BY <2>0, <1>16, ConstantsAssumption DEF WorldTyped, SomeonePushes, Commits
    <3>2. PICK i \in pr : remote' = [remote EXCEPT ![i] = c]
      BY <3>1, <1>16 DEF SomeonePushes
    <3>3. remote' \in [Issue -> Commits \cup {None}]
      BY <2>0, <3>2 DEF WorldTyped
    <3>4. QED  BY <2>0, <3>1, <3>3, <1>16 DEF WorldTyped, SomeonePushes
  <2>3. WorktreesTyped'
    BY <2>0, <1>16 DEF WorktreesTyped, SomeonePushes, github
  <2>4. QED  BY <2>1, <2>2, <2>3, TypeJoin
<1>17. CASE UNCHANGED vars
  BY <1>1, <1>17 DEF vars, TypeOK
<1>18. QED  BY <1>1, <1>2, <1>3, <1>4, <1>5, <1>6, <1>7, <1>8, <1>9, <1>10,
     <1>11, <1>12, <1>13, <1>14, <1>15, <1>16, <1>17 DEF Next, Step

(* The runner has a worktree from its set-up to its removal. *)
LEMMA PlacedStep == TypeOK /\ Placed /\ [Next]_vars => Placed'
<1>1. SUFFICES ASSUME TypeOK, Placed, [Next]_vars PROVE Placed'
  OBVIOUS
<1> USE ConstantsAssumption, ListIsSequence DEF AtAgent, AtShipping, AtMerged
<1>2. CASE Begin
  BY <1>1, <1>2 DEF Begin, github, TypeOK, Placed, Commits, Worktree, I
<1>3. CASE Finish
  BY <1>1, <1>3 DEF Finish, github, TypeOK, Placed, Commits, Worktree, I
<1>4. CASE TakeIssue
  BY <1>1, <1>4 DEF TakeIssue, Halt, NextIssue, github, TypeOK, Placed, Commits,
       Worktree, I
<1>5. CASE SetUpWorktree
  <2>1. PICK i \in Issue, w \in Worktree : SetUpOf(i, w)
    BY <1>1, <1>5, SetUpIs
  <2>0. WorktreesTyped /\ commits \in Nat
    BY <1>1, TypeSplit DEF WorldTyped, Commits
  <2>2. wt' \in [Issue -> Worktree \cup {None}]
    BY <2>0, <2>1, WorktreeSet DEF WorktreesTyped, SetUpOf
  <2>3. \A j \in Issue : wt'[j] # None => wt'[j].head <= commits'
    <3>1. SUFFICES ASSUME NEW j \in Issue, wt'[j] # None PROVE wt'[j].head <= commits'
      OBVIOUS
    <3>2. CASE j = i /\ wt' = [wt EXCEPT ![i] = w]
      <4>1. wt'[j] = w /\ w # None
        BY <2>1, <2>0, <3>1, <3>2, WorktreeSet
      <4>2. w = wt[i] \/ w.head = 0
        BY <2>1, FreshTyped DEF SetUpOf
      <4>3. w.head <= commits
        BY <1>1, <2>0, <4>1, <4>2 DEF Placed
      <4>4. QED  BY <2>1, <4>1, <4>3 DEF SetUpOf
    <3>3. CASE ~(j = i /\ wt' = [wt EXCEPT ![i] = w])
      <4>1. wt'[j] = wt[j]
        BY <2>0, <2>1, <3>1, <3>3 DEF SetUpOf, WorktreesTyped
      <4>2. QED  BY <1>1, <2>1, <3>1, <4>1 DEF SetUpOf, Placed
    <3>4. QED  BY <3>2, <3>3

  <2>4. pc' # "idle" => wt'[i] # None
    BY <2>0, <2>1, WorktreeSet DEF SetUpOf, Halt, Goto
  <2>5. QED  BY <1>1, <2>1, <2>3, <2>4 DEF Placed, SetUpOf, Halt, Goto, I,
       github
<1>6. ASSUME NEW status \in {"done", "blocked", "missing"}, AgentEnds(status) PROVE Placed'
  <2>1. PICK i \in Issue, old, new \in Worktree : CallEndOf(i, old, new, status)
    BY <1>1, <1>6, CallEndIs
  <2>2. WorktreesTyped /\ wt'[i] = new /\ wt'[i] # None
    BY <1>1, <2>1, WorktreeSet, TypeSplit DEF CallEndOf
  <2>3. \A j \in Issue : wt'[j] # None => wt'[j].head <= commits'
    <3>1. SUFFICES ASSUME NEW j \in Issue, wt'[j] # None PROVE wt'[j].head <= commits'
      OBVIOUS
    <3>2. CASE j = i
      BY <1>1, <2>1, <2>2, <3>2, ConstantsAssumption DEF CallEndOf, Placed
    <3>3. CASE j # i
      <4>1. wt'[j] = wt[j]
        BY <2>1, <2>2, <3>1, <3>3 DEF CallEndOf, WorktreesTyped
      <4>2. QED  BY <1>1, <2>1, <3>1, <4>1 DEF CallEndOf, Placed
    <3>4. QED  BY <3>2, <3>3

  <2>4. cur' = cur
    BY <2>1 DEF CallEndOf, Goto, Halt, Rejected
  <2>5. QED  BY <1>1, <2>1, <2>2, <2>3, <2>4 DEF Placed, CallEndOf, I, github
<1>7. CASE Push
  BY <1>1, <1>7 DEF Push, Goto, Halt, TypeOK, Placed, Commits, Worktree, I
<1>8. CASE WaitForChecks
  BY <1>1, <1>8 DEF WaitForChecks, Goto, Halt, github, TypeOK, Placed, Commits,
       Worktree, I
<1>9. CASE WatchChecks
  BY <1>1, <1>9 DEF WatchChecks, Goto, Rejected, Halt, github, TypeOK, Placed,
       Commits, Worktree, I
<1>10. CASE Merge
  BY <1>1, <1>10 DEF Merge, HeadMatches, Squash, Goto, Halt, TypeOK, Placed,
       Commits, Worktree, I
<1>11. CASE Tick
  BY <1>1, <1>11 DEF Tick, Goto, TypeOK, Placed, Commits, Worktree, I
<1>12. CASE Clean
  BY <1>1, <1>12 DEF Clean, NextIssue, github, TypeOK, Placed, Commits,
       Worktree, I
<1>13. CASE AgentWorks
  <2>1. PICK i \in Issue, old, new \in Worktree : WorkOf(i, old, new)
    BY <1>1, <1>13, WorkIs
  <2>2. WorktreesTyped /\ wt'[i] = new /\ wt'[i] # None
    BY <1>1, <2>1, WorktreeSet, TypeSplit DEF WorkOf
  <2>0. commits \in Nat /\ commits' = commits + 1
    BY <1>1, <1>13, TypeSplit DEF WorldTyped, Commits, AgentWorks
  <2>3. \A j \in Issue : wt'[j] # None => wt'[j].head <= commits'
    <3>1. SUFFICES ASSUME NEW j \in Issue, wt'[j] # None PROVE wt'[j].head <= commits'
      OBVIOUS
    <3>2. CASE j = i
      BY <2>0, <2>1, <2>2, <3>2 DEF WorkOf
    <3>3. CASE j # i
      <4>1. wt'[j] = wt[j]
        BY <2>1, <2>2, <3>1, <3>3 DEF WorkOf, WorktreesTyped
      <4>2. wt[j].head \in Nat /\ wt[j].head <= commits
        BY <1>1, <2>2, <3>1, <4>1 DEF WorktreesTyped, Worktree, Commits, Placed
      <4>3. QED  BY <2>0, <4>1, <4>2
    <3>4. QED  BY <3>2, <3>3

  <2>5. QED  BY <1>1, <1>13, <2>1, <2>2, <2>3 DEF Placed, WorkOf, I, AgentWorks,
       runner, github
<1>14. CASE Kill
  BY <1>1, <1>14 DEF Kill, github, TypeOK, Placed, Commits, Worktree, I
<1>15. CASE CiRuns
  BY <1>1, <1>15 DEF CiRuns, github, runner, TypeOK, Placed, Commits, Worktree,
       I
<1>16. CASE SomeonePushes
  BY <1>1, <1>16 DEF SomeonePushes, runner, TypeOK, Placed, Commits, Worktree, I
<1>17. CASE UNCHANGED vars
  BY <1>1, <1>17 DEF vars, TypeOK, Placed, Commits, Worktree, I
<1>18. QED  BY <1>1, <1>2, <1>3, <1>4, <1>5, <1>6, <1>7, <1>8, <1>9, <1>10,
     <1>11, <1>12, <1>13, <1>14, <1>15, <1>16, <1>17 DEF Next, Step

(* Nothing is shipped unchecked. *)
LEMMA ShippedStep == TypeOK /\ Placed /\ Shipped /\ [Next]_vars => Shipped'
<1>1. SUFFICES ASSUME TypeOK, Placed, Shipped, [Next]_vars PROVE Shipped'
  OBVIOUS
<1> USE ConstantsAssumption, ListIsSequence DEF AtAgent, AtShipping, AtMerged
<1>2. CASE Begin
  BY <1>1, <1>2 DEF Begin, github, TypeOK, Placed, Shipped, I
<1>3. CASE Finish
  BY <1>1, <1>3 DEF Finish, github, TypeOK, Placed, Shipped, I
<1>4. CASE TakeIssue
  BY <1>1, <1>4 DEF TakeIssue, Halt, NextIssue, github, TypeOK, Placed, Shipped,
       I
<1>5. CASE SetUpWorktree
  BY <1>1, <1>5 DEF SetUpWorktree, PostChecks, Fresh, Goto, Halt, github,
       TypeOK, Placed, Shipped, I
<1>6. ASSUME NEW status \in {"done", "blocked", "missing"}, AgentEnds(status) PROVE Shipped'
  BY <1>1, <1>6 DEF AgentEnds, AgentRuns, PostChecks, Goto, Halt, Rejected,
       github, TypeOK, Placed, Shipped, I
<1>7. CASE Push
  BY <1>1, <1>7 DEF Push, Goto, Halt, TypeOK, Placed, Shipped, I
<1>8. CASE WaitForChecks
  BY <1>1, <1>8 DEF WaitForChecks, Goto, Halt, github, TypeOK, Placed, Shipped,
       I
<1>9. CASE WatchChecks
  BY <1>1, <1>9 DEF WatchChecks, Goto, Rejected, Halt, github, TypeOK, Placed,
       Shipped, I
<1>10. CASE Merge
  BY <1>1, <1>10 DEF Merge, HeadMatches, Squash, Goto, Halt, TypeOK, Placed,
       Shipped, I
<1>11. CASE Tick
  BY <1>1, <1>11 DEF Tick, Goto, TypeOK, Placed, Shipped, I
<1>12. CASE Clean
  BY <1>1, <1>12 DEF Clean, NextIssue, github, TypeOK, Placed, Shipped, I
<1>13. CASE AgentWorks
  BY <1>1, <1>13 DEF AgentWorks, AgentRuns, github, runner, TypeOK, Placed,
       Shipped, I
<1>14. CASE Kill
  BY <1>1, <1>14 DEF Kill, github, TypeOK, Placed, Shipped, I
<1>15. CASE CiRuns
  BY <1>1, <1>15 DEF CiRuns, github, runner, TypeOK, Placed, Shipped, I
<1>16. CASE SomeonePushes
  <2>1. UNCHANGED <<open, pr, merged, wt, pc, cur, ci, checked>> /\ I' = I
    BY <1>16 DEF SomeonePushes, runner, I
  <2>2. pc = "merge" /\ remote'[I] = wt[I].head => ci[remote'[I]] = "pass"
    <3>1. SUFFICES ASSUME pc = "merge", remote'[I] = wt[I].head PROVE ci[remote'[I]] = "pass"
      OBVIOUS
    <3>2. PICK i \in Issue : i = I
      BY <1>1, <3>1, HereIs DEF Placed
    <3>3. commits \in Nat /\ commits' = commits + 1 /\ wt[i].head <= commits /\ wt[i].head \in Nat
      BY <1>1, <3>1, <3>2, <1>16, TypeSplit DEF Placed, SomeonePushes,
           WorldTyped, WorktreesTyped, Worktree, Commits
    <3>4. PICK j \in pr : remote' = [remote EXCEPT ![j] = commits']
      BY <1>16 DEF SomeonePushes
    <3>5. j # i
      BY <1>1, <3>1, <3>2, <3>3, <3>4, TypeSplit DEF WorldTyped
    <3>6. remote'[i] = remote[i]
      BY <1>1, <3>2, <3>4, <3>5, TypeSplit DEF WorldTyped
    <3>7. QED  BY <1>1, <3>1, <3>2, <3>6 DEF Shipped
  <2>3. QED  BY <1>1, <2>1, <2>2 DEF Shipped
<1>17. CASE UNCHANGED vars
  BY <1>1, <1>17 DEF vars, TypeOK, Placed, Shipped, I
<1>18. QED  BY <1>1, <1>2, <1>3, <1>4, <1>5, <1>6, <1>7, <1>8, <1>9, <1>10,
     <1>11, <1>12, <1>13, <1>14, <1>15, <1>16, <1>17 DEF Next, Step

(* The runner leaves an issue behind when it is closed, or not for it. *)
LEMMA BehindStep == TypeOK /\ Placed /\ Shipped /\ BehindIsDone /\ [Next]_vars => BehindIsDone'
<1>1. SUFFICES ASSUME TypeOK, Placed, Shipped, BehindIsDone, [Next]_vars PROVE BehindIsDone'
  OBVIOUS
<1> USE ConstantsAssumption, ListIsSequence DEF AtAgent, AtShipping, AtMerged
<1>2. CASE Begin
  BY <1>1, <1>2, NoneIsNotZero, ListIsSequence DEF Begin, github, BehindIsDone,
       ExitZeroMeansDelivered
<1>3. CASE Finish
  BY <1>1, <1>3 DEF Finish, github, TypeOK, Placed, Shipped, BehindIsDone,
       ExitZeroMeansDelivered, Issue, I
<1>4. CASE TakeIssue
  BY <1>1, <1>4 DEF TakeIssue, Halt, NextIssue, github, TypeOK, Placed, Shipped,
       BehindIsDone, ExitZeroMeansDelivered, Issue, I
<1>5. CASE SetUpWorktree
  BY <1>1, <1>5 DEF SetUpWorktree, PostChecks, Fresh, Goto, Halt, github,
       TypeOK, Placed, Shipped, BehindIsDone, ExitZeroMeansDelivered, Issue, I
<1>6. ASSUME NEW status \in {"done", "blocked", "missing"}, AgentEnds(status) PROVE BehindIsDone'
  <2>1. PICK i \in Issue, old, new \in Worktree : CallEndOf(i, old, new, status)
    BY <1>1, <1>6, CallEndIs
  <2>2. open' = open /\ cur' = cur /\ pc # "idle" /\ cur \in DOMAIN Issues
    BY <1>1, <2>1 DEF CallEndOf, Goto, Halt, Rejected, github, Placed, AtAgent
  <2>3. CASE exit' = exit /\ outcome' = outcome
    BY <1>1, <2>2, <2>3, NoneIsNotZero DEF BehindIsDone, ExitZeroMeansDelivered
  <2>4. CASE pc' = "idle" /\ exit' = 1
    BY <2>4 DEF BehindIsDone, ExitZeroMeansDelivered
  <2>5. QED  BY <2>1, <2>3, <2>4 DEF CallEndOf, Goto, Halt, Rejected
<1>7. CASE Push
  BY <1>1, <1>7 DEF Push, Goto, Halt, TypeOK, Placed, Shipped, BehindIsDone,
       ExitZeroMeansDelivered, Issue, I
<1>8. CASE WaitForChecks
  BY <1>1, <1>8 DEF WaitForChecks, Goto, Halt, github, TypeOK, Placed, Shipped,
       BehindIsDone, ExitZeroMeansDelivered, Issue, I
<1>9. CASE WatchChecks
  BY <1>1, <1>9 DEF WatchChecks, Goto, Rejected, Halt, github, TypeOK, Placed,
       Shipped, BehindIsDone, ExitZeroMeansDelivered, Issue, I
<1>10. CASE Merge
  BY <1>1, <1>10 DEF Merge, HeadMatches, Squash, Goto, Halt, TypeOK, Placed,
       Shipped, BehindIsDone, ExitZeroMeansDelivered, Issue, I
<1>11. CASE Tick
  BY <1>1, <1>11 DEF Tick, Goto, TypeOK, Placed, Shipped, BehindIsDone,
       ExitZeroMeansDelivered, Issue, I
<1>12. CASE Clean
  BY <1>1, <1>12 DEF Clean, NextIssue, github, TypeOK, Placed, Shipped,
       BehindIsDone, ExitZeroMeansDelivered, Issue, I
<1>13. CASE AgentWorks
  BY <1>1, <1>13 DEF AgentWorks, AgentRuns, github, runner, TypeOK, Placed,
       Shipped, BehindIsDone, ExitZeroMeansDelivered, Issue, I
<1>14. CASE Kill
  BY <1>1, <1>14 DEF Kill, github, TypeOK, Placed, Shipped, BehindIsDone,
       ExitZeroMeansDelivered, Issue, I
<1>15. CASE CiRuns
  BY <1>1, <1>15 DEF CiRuns, github, runner, TypeOK, Placed, Shipped,
       BehindIsDone, ExitZeroMeansDelivered, Issue, I
<1>16. CASE SomeonePushes
  BY <1>1, <1>16 DEF SomeonePushes, runner, TypeOK, Placed, Shipped,
       BehindIsDone, ExitZeroMeansDelivered, Issue, I
<1>17. CASE UNCHANGED vars
  BY <1>1, <1>17 DEF vars, TypeOK, Placed, Shipped, BehindIsDone,
       ExitZeroMeansDelivered, Issue, I
<1>18. QED  BY <1>1, <1>2, <1>3, <1>4, <1>5, <1>6, <1>7, <1>8, <1>9, <1>10,
     <1>11, <1>12, <1>13, <1>14, <1>15, <1>16, <1>17 DEF Next, Step

(* Only what was checked, here and by CI, is merged. *)
LEMMA VerifiedStep == TypeOK /\ Placed /\ Shipped /\ MergedIsVerified /\ [Next]_vars => MergedIsVerified'
<1>1. SUFFICES ASSUME TypeOK, Placed, Shipped, MergedIsVerified, [Next]_vars PROVE MergedIsVerified'
  OBVIOUS
<1> USE ConstantsAssumption, ListIsSequence DEF AtAgent, AtShipping, AtMerged
<1>2. CASE Begin
  BY <1>1, <1>2 DEF Begin, github, TypeOK, Placed, Shipped, MergedIsVerified, I
<1>3. CASE Finish
  BY <1>1, <1>3 DEF Finish, github, TypeOK, Placed, Shipped, MergedIsVerified, I
<1>4. CASE TakeIssue
  BY <1>1, <1>4 DEF TakeIssue, Halt, NextIssue, github, TypeOK, Placed, Shipped,
       MergedIsVerified, I
<1>5. CASE SetUpWorktree
  BY <1>1, <1>5 DEF SetUpWorktree, PostChecks, Fresh, Goto, Halt, github,
       TypeOK, Placed, Shipped, MergedIsVerified, I
<1>6. ASSUME NEW status \in {"done", "blocked", "missing"}, AgentEnds(status) PROVE MergedIsVerified'
  BY <1>1, <1>6 DEF AgentEnds, AgentRuns, PostChecks, Goto, Halt, Rejected,
       github, TypeOK, Placed, Shipped, MergedIsVerified, I
<1>7. CASE Push
  BY <1>1, <1>7 DEF Push, Goto, Halt, TypeOK, Placed, Shipped, MergedIsVerified,
       I
<1>8. CASE WaitForChecks
  BY <1>1, <1>8 DEF WaitForChecks, Goto, Halt, github, TypeOK, Placed, Shipped,
       MergedIsVerified, I
<1>9. CASE WatchChecks
  BY <1>1, <1>9 DEF WatchChecks, Goto, Rejected, Halt, github, TypeOK, Placed,
       Shipped, MergedIsVerified, I
<1>10. CASE Merge
  BY <1>1, <1>10 DEF Merge, HeadMatches, Squash, Goto, Halt, TypeOK, Placed,
       Shipped, MergedIsVerified, I
<1>11. CASE Tick
  BY <1>1, <1>11 DEF Tick, Goto, TypeOK, Placed, Shipped, MergedIsVerified, I
<1>12. CASE Clean
  BY <1>1, <1>12 DEF Clean, NextIssue, github, TypeOK, Placed, Shipped,
       MergedIsVerified, I
<1>13. CASE AgentWorks
  BY <1>1, <1>13 DEF AgentWorks, AgentRuns, github, runner, TypeOK, Placed,
       Shipped, MergedIsVerified, I
<1>14. CASE Kill
  BY <1>1, <1>14 DEF Kill, github, TypeOK, Placed, Shipped, MergedIsVerified, I
<1>15. CASE CiRuns
  BY <1>1, <1>15 DEF CiRuns, github, runner, TypeOK, Placed, Shipped,
       MergedIsVerified, I
<1>16. CASE SomeonePushes
  BY <1>1, <1>16 DEF SomeonePushes, runner, TypeOK, Placed, Shipped,
       MergedIsVerified, I
<1>17. CASE UNCHANGED vars
  BY <1>1, <1>17 DEF vars, TypeOK, Placed, Shipped, MergedIsVerified, I
<1>18. QED  BY <1>1, <1>2, <1>3, <1>4, <1>5, <1>6, <1>7, <1>8, <1>9, <1>10,
     <1>11, <1>12, <1>13, <1>14, <1>15, <1>16, <1>17 DEF Next, Step

LEMMA Invariance == Spec => []IInv
<1>1. IInv /\ [Next]_vars => IInv'
  BY TypesStep, PlacedStep, ShippedStep, BehindStep, VerifiedStep DEF IInv
<1>2. QED  BY <1>1, InitIInv, PTL DEF Spec

-----------------------------------------------------------------------------
(* Every variable keeps its type. *)
THEOREM TypeCorrect == Spec => []TypeOK
<1>1. IInv => TypeOK
  BY DEF IInv
<1>2. QED  BY <1>1, Invariance, PTL

(* Whatever is pushed, killed or resumed in between, nothing is merged but *)
(* a commit that passed the post-checks and CI, and exit code 0 leaves no  *)
(* issue behind.                                                           *)
THEOREM DeliveredIsVerifiedHolds == Spec => []DeliveredIsVerified
<1>1. IInv => DeliveredIsVerified
  BY DEF IInv, BehindIsDone, DeliveredIsVerified
<1>2. QED  BY <1>1, Invariance, PTL

(* What MergesInOrder and NoWorkLost ask of a step. *)
InOrderStep ==
  \A k \in DOMAIN Issues :
    merged'[Issues[k]] # merged[Issues[k]] =>
      \A j \in 1..(k - 1) : \/ Issues[j] \notin open
                            \/ outcome[Issues[j]] = "skipped-human"

KeepStep == \A i \in Issue : wt[i] # None /\ wt'[i] = None => merged[i] # None /\ merged[i] = wt[i].head

(* An issue is merged only after those before it in the list.              *)
THEOREM MergesAreInOrder == Spec => MergesInOrder
<1>1. IInv /\ [Next]_vars => [InOrderStep]_vars
  <2>0. SUFFICES ASSUME IInv, [Next]_vars PROVE [InOrderStep]_vars
    OBVIOUS
  <2>1. CASE merged' = merged
    BY <2>1 DEF InOrderStep
  <2>2. CASE Merge
    <3>1. /\ cur \in DOMAIN Issues /\ pc # "idle"
          /\ merged' = merged \/ merged' = [merged EXCEPT ![I] = remote[I]]
      BY <2>0, <2>2 DEF IInv, Placed, Merge, Squash
    <3>2. ASSUME NEW k \in DOMAIN Issues, merged'[Issues[k]] # merged[Issues[k]],
                 NEW j \in 1..(k - 1)
          PROVE  Issues[j] \notin open \/ outcome[Issues[j]] = "skipped-human"
      <4>1. Issues[k] = Issues[cur]
        BY <2>0, <3>1, <3>2 DEF IInv, TypeOK, I, Issue
      <4>2. k = cur
        BY <3>1, <4>1, ConstantsAssumption
      <4>3. j \in DOMAIN Issues /\ j < cur
        BY <3>1, <4>2, ListIsSequence
      <4>4. QED  BY <2>0, <3>1, <4>3 DEF IInv, BehindIsDone
    <3>3. QED  BY <3>2 DEF InOrderStep
  <2>3. ASSUME [Next]_vars, ~Merge PROVE merged' = merged
    BY <2>3 DEF Next, Step, vars, Begin, Finish, TakeIssue, SetUpWorktree,
         AgentEnds, Push,
       WaitForChecks, WatchChecks, Tick, Clean, AgentWorks, Kill, CiRuns, SomeonePushes, github
  <2>4. QED  BY <2>0, <2>1, <2>2, <2>3
<1>2. QED  BY <1>1, Invariance, PTL DEF Spec, MergesInOrder, InOrderStep

(* A worktree goes only after its head was merged.                         *)
THEOREM NoWorkIsLost == Spec => NoWorkLost
<1>1. IInv /\ [Next]_vars => [KeepStep]_vars
  <2>0. SUFFICES ASSUME IInv, [Next]_vars PROVE KeepStep
    OBVIOUS
  <2>1. CASE wt' = wt
    BY <2>1 DEF KeepStep
  <2>2. CASE Clean
    <3>1. cur \in DOMAIN Issues /\ wt' = [wt EXCEPT ![I] = None] /\ merged[I] = wt[I].head
          /\ wt[I] # None
      BY <2>0, <2>2 DEF IInv, Placed, Shipped, Clean, AtMerged
    <3>2. ASSUME NEW i \in Issue, wt[i] # None, wt'[i] = None
          PROVE  merged[i] # None /\ merged[i] = wt[i].head
      <4>1. i = I
        BY <2>0, <3>1, <3>2 DEF IInv, TypeOK
      <4>2. wt[i].head \in Commits
        BY <2>0, <3>2 DEF IInv, TypeOK, Worktree
      <4>3. QED  BY <3>1, <4>1, <4>2, ConstantsAssumption
    <3>3. QED  BY <3>2 DEF KeepStep
  <2>3. CASE SetUpWorktree \/ AgentWorks \/ \E status \in {"done", "blocked", "missing"} : AgentEnds(status)
    <3>0. TypeOK /\ Placed /\ WorktreesTyped
      BY <2>0, TypeSplit DEF IInv
    <3>1. \E i \in Issue, w \in Worktree : wt' = [wt EXCEPT ![i] = w] \/ wt' = wt
      <4>1. CASE SetUpWorktree
        BY <3>0, <4>1, SetUpIs DEF SetUpOf
      <4>2. CASE AgentWorks
        BY <3>0, <4>2, WorkIs DEF WorkOf
      <4>3. ASSUME NEW status \in {"done", "blocked", "missing"}, AgentEnds(status)
            PROVE  \E i \in Issue, w \in Worktree : wt' = [wt EXCEPT ![i] = w]
        BY <3>0, <4>3, CallEndIs DEF CallEndOf
      <4>4. QED  BY <2>3, <4>1, <4>2, <4>3
    <3>2. PICK i \in Issue, w \in Worktree : wt' = [wt EXCEPT ![i] = w] \/ wt' = wt
      BY <3>1
    <3>3. \A j \in Issue : wt[j] # None => wt'[j] # None
      BY <3>0, <3>2, ConstantsAssumption DEF WorktreesTyped
    <3>4. QED  BY <3>3 DEF KeepStep
  <2>4. QED
    BY <2>0, <2>1, <2>2, <2>3 DEF Next, Step, vars, Begin, Finish, TakeIssue,
         Push,
       WaitForChecks, WatchChecks, Merge, Tick, Kill, CiRuns, SomeonePushes
<1>2. QED  BY <1>1, Invariance, PTL DEF Spec, NoWorkLost, KeepStep
=============================================================================
