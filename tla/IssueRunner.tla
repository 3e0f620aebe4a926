---------------------------- MODULE IssueRunner ----------------------------
(***************************************************************************)
(* The issue runner (scripts/run_issue.sh, scripts/run_issue/lib.sh): one  *)
(* issue after the other is implemented by an agent in a worktree of its   *)
(* own, checked again locally, pushed, watched on CI, squash-merged and    *)
(* ticked off in its parent.  The run halts at the first issue that cannot *)
(* be merged.  A run may be killed at any point, and started again with    *)
(* the same list it picks up the worktrees, branches and pull requests it  *)
(* finds.                                                                  *)
(*                                                                         *)
(* Around the runner: the agent commits while a call lasts; CI reports on  *)
(* the head of a pull request; someone else may push to its branch.        *)
(*                                                                         *)
(* Abstractions.  A commit is a number, 0 the base.  What the post-checks  *)
(* look at (clean tree, PR body, protected paths, tests, lint) is one      *)
(* verdict per state of the worktree, chosen as the agent works.  A        *)
(* pull request is its head: GitHub allows one per branch.  Dry runs,      *)
(* logs, costs and prompts are left out.                                   *)
(***************************************************************************)
EXTENDS Naturals, Sequences, FiniteSets

CONSTANTS
  Issues,       \* the list to run, after expansion: a sequence of issues
  Rounds,       \* fix rounds a model may get: one, and one on Opus after Sonnet
  MaxCiFixes,   \* --max-ci-fixes
  None,         \* "absent"
  MaxCommits,   \* bound: commits ever made
  MaxFaults,    \* bound: kills of the runner and merges whose answer is lost
  MaxPushes,    \* bound: commits pushed by someone else
  MaxRuns       \* bound: runs started

Commits == 0..MaxCommits
Issue   == {Issues[k] : k \in DOMAIN Issues}

(* head: the checked out commit; past: what its branch contains; ok: the   *)
(* post-checks would pass; status: .run_issue/STATUS.                      *)
Worktree == [head : Commits, past : SUBSET Commits, ok : BOOLEAN,
             status : {"none", "done", "blocked", "missing"}]

ASSUME ConstantsAssumption ==
  /\ Issues \in Seq(Issue)
  /\ \A j, k \in DOMAIN Issues : Issues[j] = Issues[k] => j = k
  /\ Rounds \subseteq Nat
  /\ MaxCiFixes \in Nat /\ MaxCommits \in Nat
  /\ MaxFaults \in Nat /\ MaxPushes \in Nat /\ MaxRuns \in Nat
  /\ None \notin Commits /\ None \notin Worktree

VARIABLES
  open,      \* issues that are open on GitHub
  remote,    \* head of each issue's branch on GitHub, and of its pull request
  pr,        \* issues with an open pull request
  merged,    \* the commit squashed into the base, by issue
  ticked,    \* issues ticked off in their parent
  ci,        \* CI result by commit
  wt,        \* worktree by issue
  pc, cur, rounds, fixes,   \* the runner: step, position, fix rounds left, CI fixes done
  outcome, exit,            \* its results: OUT_OUTCOME and the exit code
  checked,   \* commits that passed the post-checks
  lastCall,  \* how the last agent call on an issue's worktree ended
  commits, faults, pushes, runs   \* counters for the bounds

github == <<open, remote, pr, merged, ticked>>
runner == <<pc, cur, rounds, fixes, outcome, exit>>
vars   == <<open, remote, pr, merged, ticked, ci, wt, pc, cur, rounds, fixes,
            outcome, exit, checked, lastCall, commits, faults, pushes, runs>>

Init ==
  /\ open = Issue /\ pr = {} /\ ticked = {}
  /\ remote = [i \in Issue |-> None]
  /\ merged = [i \in Issue |-> None]
  /\ ci = [c \in Commits |-> "none"]
  /\ wt = [i \in Issue |-> None]
  /\ pc = "idle" /\ cur = 1 /\ rounds = 0 /\ fixes = 0
  /\ outcome = [i \in Issue |-> None] /\ exit = None
  /\ checked = {}
  /\ lastCall = [i \in Issue |-> None]
  /\ commits = 0 /\ faults = 0 /\ pushes = 0 /\ runs = 0

-----------------------------------------------------------------------------
I == Issues[cur]

Goto(label) == pc' = label /\ UNCHANGED <<cur, rounds, fixes, outcome, exit>>

(* On to the next issue of the list. *)
NextIssue(o) ==
  /\ outcome' = [outcome EXCEPT ![I] = o]
  /\ cur' = cur + 1
  /\ pc' = "issue"
  /\ UNCHANGED <<rounds, fixes, exit>>

(* Mutant of Halt: the run goes on with the next issue. *)
HaltNot(o) == NextIssue(o)

(* The run stops at this issue. *)
Halt(o) ==
  /\ outcome' = [outcome EXCEPT ![I] = o]
  /\ pc' = "idle"
  /\ exit' = 1
  /\ UNCHANGED <<cur, rounds, fixes>>

Begin ==
  /\ pc = "idle"
  /\ runs < MaxRuns
  /\ runs' = runs + 1
  /\ pc' = "issue" /\ cur' = 1
  /\ outcome' = [i \in Issue |-> None] /\ exit' = None
  /\ UNCHANGED <<github, ci, wt, rounds, fixes, checked, lastCall, commits, faults, pushes>>

Finish ==
  /\ pc = "issue"
  /\ cur > Len(Issues)
  /\ pc' = "idle" /\ exit' = 0
  /\ UNCHANGED <<github, ci, wt, cur, rounds, fixes, outcome, checked, lastCall,
                 commits, faults, pushes, runs>>

(* Closed issues are skipped, and so are those that their tier, or routing, *)
(* leaves to a human; the others get their model's fix rounds.             *)
TakeIssue ==
  /\ pc = "issue"
  /\ cur <= Len(Issues)
  /\ \/ I \notin open /\ NextIssue("skipped-closed")
     \/ I \in open /\ NextIssue("skipped-human")
     \/ /\ I \in open
        /\ rounds' \in Rounds
        /\ fixes' = 0
        /\ pc' = "worktree"
        /\ UNCHANGED <<cur, outcome, exit>>
     \/ Halt("error")
  /\ UNCHANGED <<github, ci, wt, checked, lastCall, commits, faults, pushes, runs>>

(* post_checks, given the status the agent ended with. *)
PostChecks(w, status) == status = "done" /\ w.head # 0 /\ w.ok

Fresh == [head |-> 0, past |-> {0}, ok |-> FALSE, status |-> "none"]

(* Create the worktree, or reuse it; one whose STATUS is done and that     *)
(* passes the checks needs no agent call.                                  *)
SetUpWorktree ==
  LET w == IF wt[I] = None THEN Fresh ELSE wt[I] IN
  /\ pc = "worktree"
  /\ \/ /\ wt' = [wt EXCEPT ![I] = w]
        /\ IF PostChecks(w, w.status)
             THEN Goto("push") /\ checked' = checked \cup {w.head}
             ELSE Goto("implement") /\ UNCHANGED checked
     \/ Halt("error") /\ UNCHANGED <<wt, checked>>
  /\ UNCHANGED <<github, ci, lastCall, commits, faults, pushes, runs>>

-----------------------------------------------------------------------------
(* Agent calls: implement, fix, ci-fix                                     *)

AgentRuns == pc \in {"implement", "fix", "ci-fix"}

(* The agent commits, and leaves the worktree in some state. *)
AgentWorks ==
  LET w == wt[I] IN
  /\ AgentRuns
  /\ commits < MaxCommits
  /\ commits' = commits + 1
  /\ \E ok \in BOOLEAN :
       wt' = [wt EXCEPT ![I] = [w EXCEPT !.head = commits', !.past = w.past \cup {commits'}, !.ok = ok]]
  /\ lastCall' = [lastCall EXCEPT ![I] = "cut"]
  /\ UNCHANGED <<github, ci, runner, checked, faults, pushes, runs>>

(* Mutant of Rejected: a CI fix that fails the local checks costs nothing. *)
RejectedForFree ==
  pc' = "ci-fix" /\ UNCHANGED <<cur, rounds, fixes, outcome, exit>>

(* The checks reject a CI fix: on with the budget of CI fixes. *)
Rejected ==
  IF fixes >= MaxCiFixes
    THEN Halt("ci-failed")
    ELSE pc' = "ci-fix" /\ fixes' = fixes + 1 /\ UNCHANGED <<cur, rounds, outcome, exit>>

(* The call ends, or is cut off by its timeout: record its status, then    *)
(* check the work.  "blocked" halts the run; a failed check costs a round. *)
AgentEnds(status) ==
  LET w == wt[I] IN
  /\ AgentRuns
  /\ wt' = [wt EXCEPT ![I] = [@ EXCEPT !.status = status]]
  /\ lastCall' = [lastCall EXCEPT ![I] = status]
  /\ checked' = IF PostChecks(w, status) THEN checked \cup {w.head} ELSE checked
  /\ \/ status = "blocked" /\ pc # "ci-fix" /\ Halt("blocked")
     \/ status = "blocked" /\ pc = "ci-fix" /\ Halt("ci-failed")
     \/ PostChecks(w, status) /\ Goto("push")
     \/ /\ status # "blocked" /\ ~PostChecks(w, status) /\ pc # "ci-fix"
        /\ IF rounds = 0
             THEN Halt("blocked")
             ELSE pc' = "fix" /\ rounds' = rounds - 1 /\ UNCHANGED <<cur, fixes, outcome, exit>>
     \/ /\ status # "blocked" /\ ~PostChecks(w, status) /\ pc = "ci-fix"
        /\ Rejected
  /\ UNCHANGED <<github, ci, commits, faults, pushes, runs>>

-----------------------------------------------------------------------------
(* Shipping                                                                *)

(* Push the branch, which must be ahead of what GitHub has, and open the   *)
(* pull request unless it is there.  Either may fail.                      *)
Push ==
  /\ pc = "push"
  /\ \/ /\ remote[I] \in wt[I].past \cup {None}
        /\ remote' = [remote EXCEPT ![I] = wt[I].head]
        /\ pr' = pr \cup {I}
        /\ Goto("checks")
     \/ /\ remote[I] \in wt[I].past \cup {None}
        /\ remote' = [remote EXCEPT ![I] = wt[I].head]
        /\ I \notin pr
        /\ Halt("error") /\ UNCHANGED pr
     \/ Halt(IF fixes = 0 THEN "error" ELSE "ci-failed") /\ UNCHANGED <<remote, pr>>
  /\ UNCHANGED <<open, merged, ticked, ci, wt, checked, lastCall, commits, faults, pushes, runs>>

(* wait_for_checks: the head GitHub shows is ours and a check is reported. *)
WaitForChecks ==
  /\ pc = "checks"
  /\ \/ remote[I] = wt[I].head /\ ci[remote[I]] # "none" /\ Goto("watch")
     \/ Halt("ci-failed")
  /\ UNCHANGED <<github, ci, wt, checked, lastCall, commits, faults, pushes, runs>>

(* gh pr checks --watch, on whatever the head of the pull request is by    *)
(* then; running out of time counts as a failure.                          *)
WatchChecks ==
  /\ pc = "watch"
  /\ \/ ci[remote[I]] = "pass" /\ Goto("merge")
     \/ ci[remote[I]] # "pass" /\ Rejected
  /\ UNCHANGED <<github, ci, wt, checked, lastCall, commits, faults, pushes, runs>>

(* Mutant of HeadMatches: whatever the head is gets merged. *)
HeadMatchesAny == TRUE

(* --match-head-commit: the head must be the one whose checks were awaited. *)
HeadMatches == remote[I] = wt[I].head

(* GitHub squashes the pull request and closes the issue. *)
Squash ==
  /\ merged' = [merged EXCEPT ![I] = remote[I]]
  /\ open' = open \ {I}
  /\ pr' = pr \ {I}
  /\ remote' = [remote EXCEPT ![I] = None]

Merge ==
  /\ pc = "merge"
  /\ \/ HeadMatches /\ Squash /\ Goto("tick") /\ UNCHANGED faults
     \/ Halt("ci-failed") /\ UNCHANGED <<open, merged, pr, remote, faults>>
     \/ /\ HeadMatches /\ faults < MaxFaults
        /\ faults' = faults + 1
        /\ Squash
        /\ Halt("ci-failed")       \* merged, but gh reports a failure
  /\ UNCHANGED <<ticked, ci, wt, checked, lastCall, commits, pushes, runs>>

(* after_merge: tick the parent and comment, either of which may fail. *)
Tick ==
  /\ pc = "tick"
  /\ ticked' \in {ticked, ticked \cup {I}}
  /\ Goto("clean")
  /\ UNCHANGED <<open, remote, pr, merged, ci, wt, checked, lastCall, commits, faults, pushes, runs>>

(* Remove the worktree and the branch. *)
Clean ==
  /\ pc = "clean"
  /\ wt' = [wt EXCEPT ![I] = None]
  /\ NextIssue("merged")
  /\ UNCHANGED <<github, ci, checked, lastCall, commits, faults, pushes, runs>>

-----------------------------------------------------------------------------
(* The world around the runner                                             *)

(* The runner is killed, and an agent call with it. *)
Kill ==
  /\ pc # "idle"
  /\ faults < MaxFaults
  /\ faults' = faults + 1
  /\ pc' = "idle"
  /\ lastCall' = IF AgentRuns THEN [lastCall EXCEPT ![I] = "cut"] ELSE lastCall
  /\ UNCHANGED <<github, ci, wt, cur, rounds, fixes, outcome, exit, checked, commits, pushes, runs>>

(* CI starts on the head of a pull request, and reports a result. *)
CiRuns ==
  /\ \E i \in pr :
       \/ ci[remote[i]] = "none" /\ ci' = [ci EXCEPT ![remote[i]] = "running"]
       \/ /\ ci[remote[i]] = "running"
          /\ \E result \in {"pass", "fail"} : ci' = [ci EXCEPT ![remote[i]] = result]
  /\ UNCHANGED <<github, wt, runner, checked, lastCall, commits, faults, pushes, runs>>

(* Someone else pushes a commit to the branch of a pull request. *)
SomeonePushes ==
  /\ pushes < MaxPushes
  /\ commits < MaxCommits
  /\ pushes' = pushes + 1
  /\ commits' = commits + 1
  /\ \E i \in pr : remote' = [remote EXCEPT ![i] = commits']
  /\ UNCHANGED <<open, pr, merged, ticked, ci, wt, runner, checked, lastCall, faults, runs>>

Step ==
  \/ Finish \/ TakeIssue \/ SetUpWorktree
  \/ \E status \in {"done", "blocked", "missing"} : AgentEnds(status)
  \/ Push \/ WaitForChecks \/ WatchChecks \/ Merge \/ Tick \/ Clean

Next == Begin \/ Step \/ AgentWorks \/ Kill \/ CiRuns \/ SomeonePushes

(* Every step of the runner ends: agent calls and CI watches have timeouts. *)
Spec == Init /\ [][Next]_vars /\ WF_vars(Step)

-----------------------------------------------------------------------------
(* Properties                                                              *)

(* Every variable has its type. *)
TypeOK ==
  /\ open \subseteq Issue /\ pr \subseteq open /\ ticked \subseteq Issue
  /\ remote \in [Issue -> Commits \cup {None}]
  /\ merged \in [Issue -> Commits \cup {None}]
  /\ ci \in [Commits -> {"none", "running", "pass", "fail"}]
  /\ wt \in [Issue -> Worktree \cup {None}]
  /\ pc \in {"idle", "issue", "worktree", "implement", "fix", "ci-fix", "push", "checks",
             "watch", "merge", "tick", "clean"}
  /\ cur \in 1..(Len(Issues) + 1) /\ rounds \in Nat /\ fixes \in 0..MaxCiFixes
  /\ outcome \in [Issue -> {None, "error", "blocked", "ci-failed", "merged",
                            "skipped-closed", "skipped-human"}]
  /\ exit \in {None, 0, 1}
  /\ checked \subseteq Commits
  /\ lastCall \in [Issue -> {None, "done", "blocked", "missing", "cut"}]
  /\ commits \in Commits /\ faults \in Nat /\ pushes \in Nat /\ runs \in Nat

(* Nothing reaches the base but a commit that passed the runner's own      *)
(* checks and CI, whatever is pushed, killed or resumed in between.        *)
MergedIsVerified ==
  \A i \in Issue : merged[i] # None => merged[i] \in checked /\ ci[merged[i]] = "pass"

(* Later issues may depend on earlier ones: an issue is merged only when   *)
(* the issues before it in the list are closed or were left to a human,    *)
(* also over runs that halt, are killed and start again.                   *)
MergesInOrder ==
  [][\A k \in DOMAIN Issues :
       merged'[Issues[k]] # merged[Issues[k]] =>
         \A j \in 1..(k - 1) : \/ Issues[j] \notin open
                               \/ outcome[Issues[j]] = "skipped-human"]_vars

(* Exit code 0: every issue of the list is closed or for a human. *)
ExitZeroMeansDelivered ==
  exit = 0 => \A i \in open : outcome[i] = "skipped-human"

(* What counts as delivered has passed its checks: no commit is merged     *)
(* without, and exit code 0 leaves no issue of the list behind.            *)
DeliveredIsVerified == MergedIsVerified /\ ExitZeroMeansDelivered

(* A worktree is removed only after its work was merged: a run that halts  *)
(* or dies never loses commits.                                            *)
NoWorkLost ==
  [][\A i \in Issue : wt[i] # None /\ wt'[i] = None => merged[i] # None /\ merged[i] = wt[i].head]_vars

(* Every run ends: fix rounds and CI fixes run out. *)
RunEnds == pc # "idle" ~> pc = "idle"

-----------------------------------------------------------------------------
(* What the comments say and the code does not keep                        *)

(* "Resume shortcut: only when the last agent call on this worktree said   *)
(* done" (scripts/run_issue.sh).                                           *)
ResumesOnlyAfterDone ==
  [][pc = "worktree" /\ pc' = "push" => lastCall[I] = "done"]_vars
=============================================================================
