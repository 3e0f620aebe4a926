# TLA+ models of vlm-ocr-bench

This directory holds TLA+ specifications of vlm-ocr-bench. Some are of the
parts whose correctness depends on order, time or failure: who may send bank
statements to which endpoint, what an interrupted run leaves behind, what
happens to a page while its endpoint boots, how the worker container ends, what
the issue runner merges, and when a document-parsing stage may be skipped. The
others are of the functions that evaluate a run: how a statement is read and its
figures judged, what a failed page costs, what a confidence promises, what is
salvaged of a cut reply. TLC checks each model on bounded instances; for the
eight of the first kind TLAPS proves the safety properties, and that two of them
implement their abstract specifications, for every value of the constants.

Run from this directory:

    tlc -workers 2 -config release.cfg MCRunpodRelease
    tlc -workers 2 -config evaluation.cfg MCEvaluation
    tlapm RunpodRelease_proofs.tla

## 1. The system

vlm-ocr-bench is a Python CLI (`ocrbench`) that prepares document pages, has
several vision-language models transcribe them, scores the answers and
calibrates their confidence. Around it there are tools that deploy the model
servers to Runpod, a worker container for the PaddleOCR pipeline, a standalone
client, a bash script that has an agent work off GitHub issues, and the first
pieces of a document-parsing system.

| Part | State it keeps | Operations | Interacts with | What is hard |
| --- | --- | --- | --- | --- |
| **Release management** `ocr_bench/runpod/{deploy,manage,state,releases,render}.py` | endpoints and templates at Runpod; `.runpod/state.yaml` (endpoint id, template, client-data promotion); `configs/runpod/releases.yaml` (log) | deploy, rollback, promote, status, parity verdict | Runpod's REST API; read by the client-data gate and by infer's settings snapshot | three stores, no transaction; commands die or overlap |
| **Client-data gate** `cli.py:207` | none | refuses statement pages to an unpromoted endpoint | reads the state file | asked once, before a long run |
| **Inference runner** `models/runner.py`, `jsonl.py`, `cli.py` infer | `predictions.jsonl` (append only, last row of a page counts), `config.infer.yaml` | infer: models in turn, pages under a semaphore; resume | requests of a page; score, calibrate and review read the file | kills in mid-append, resumption, retried error rows |
| **Requests of a page** `models/{base,vllm_client,pipeline_client}.py` | per client: age; per call: attempts, failures | chat, layout, one page as a plan of requests, health | vLLM and PaddleX servers behind a Runpod gateway | cold starts, timeouts, one retry, a fan-out that must be whole |
| **Issue runner** `scripts/run_issue.sh`, `run_issue/lib.sh` | worktrees, branches, `.run_issue/STATUS`; pull requests, issues | implement, fix, push, watch CI, merge, tick, clean | agent, GitHub, CI | killed at any point and started again; others push; merge answers get lost |
| **Artifact store** `docparse/artifacts.py` | one JSON artifact per stage and document, with hashes of its inputs and config | read, is_fresh, write, run_stage | stage code (not written yet) | a stage skipped that should not be |
| **PaddleOCR worker** `runpod/{paddle_supervisor,paddle_front,entrypoint}.py` | child processes; round-robin position | start, poll, stop; proxy, health | vLLM, n pipelines, the load balancer | first exit stops all; signals; health of a whole |
| **Parse client** `clients/runpod-ocr-client` | none | wait for a worker, parse a document | endpoints | retries with backoff, two nested fan-outs |
| **Run-directory stages** `cli.py` prepare, score, calibrate, review, dupset; `data/`, `confidence/` | manifest, images, ground truth, scores, fields, aggregates, thresholds, labels | one command per stage | each reads the files of the ones before | re-run or `--force` under existing outputs; several files per stage |
| **Statement algorithms** `metrics/{arithmetic,agreement,statement_gt}.py`, `normalize/statement.py` | none | balance chain, agreement of models, column mapping | score, confidence | gaps, missing values, sign conventions |
| **Confidence** `confidence/{proxy,calibrate}.py` | none | features, fit, bands, threshold search | score's fields, predictions | log probabilities of the value and no other text; targets that cannot be reached |
| **Parsers and imaging** `models/{parsers,imaging,teleocr}.py` | none | layouts, tables, salvage, resizing and crops | requests of a page; the parse client has copies of its own | replies cut at the token limit; two tables of labels that may drift apart |
| **Class registry** `docparse/registry.py` | class files | load, required fields, validate a value | statement mapper's tables, bank list | a class that loads must be usable |
| **Text metrics, configuration, schemas** | none | pure functions and validation | all stages | formats rather than behaviour |
| **docparse stages and service** | none yet | stubs | artifact store | nothing to model yet |

`PROJECT.json` lists them with their source files and status.

What makes each part correct:

- *Release management and gate*: client data is let out only to an endpoint
  whose running container passed the parity gate; the log says what runs; a
  model has one endpoint and its entry names it; a rollback goes back.
- *Inference runner*: no page is dropped; a page that has an answer keeps it and
  is not asked again; repeating an interrupted run finishes it; rows on file are
  of models whose settings are on file.
- *Requests*: every call and every page ends, in bounded time; a cold start
  that fits the window costs no answer; a page is good only if all of it is.
- *Issue runner*: only what passed the runner's checks and CI is merged, in the
  order of the list; no work is lost; exit code 0 means delivered; a run ends.
- *Artifact store*: skipping is invisible in the result, and really skips.
- *Worker*: after any exit or signal all processes are gone; healthy means all
  of them. *Parse client*: it waits no longer than told, and a page's failure is
  reported. *Stages*: an output never mixes two generations of input.
- *Statements*: what was printed is what is read, by either reader; a file
  reconciles exactly if its figures can all be true; a review judges by truth.
- *Scores and confidence*: failing a page never pays; a field's features are of
  its own value, in its own completion; a threshold keeps its promise.
- *Parsers and imaging*: what of a reply is whole is kept, in its place, and the
  harness and the client agree on what a block is; images fit the models.

## 2. The modules

    ClientDataPromise      what the gate promises, without commands or files
      ^ refined by
    RunpodRelease          deploy, rollback, promote, gate
      MCRunpodRelease        instance; RunpodRelease_proofs    theorems

    PagePromise            what inference promises about a page
      ^ refined by
    InferRun               infer over one run directory
      MCInferRun             instance; InferRun_proofs          theorems

    PageRequests           one page's requests against one endpoint
                             PageRequests_proofs             theorems

    IssueRunner            the issue runner, the agent, CI, GitHub
      MCIssueRunner          instance; IssueRunner_proofs       theorems

    ArtifactStore          run_stage over the six stages
      MCArtifactStore        instance; ArtifactStore_proofs    theorems

    PaddleWorker           supervisor, vLLM, pipelines and front
                             PaddleWorker_proofs             theorems

    ParseClient            the standalone client: wait, pages, blocks, exit code
                             ParseClient_proofs              theorems

    RunStages              prepare, infer, review, score, calibrate
                             Evaluation_proofs               theorems

    Absent                 None, and the case under evaluation
      StatementLedger        check_file
        PrintedLedgers         statement files to judge
        StatementPages         the two readers of a statement page
          StatementScores        row scores, agreement, review
            StatementCases         printed pages and reviews
            Dispatch               metrics of a page, tables of a run
              DispatchCases          pages of every task
      StatementHeader        header fields        HeaderCases
      Calibration            confidence           CalibrationCases
      Duplicates             duplicate set        DuplicateCases
      ModelText              tables, repeats, salvage
        ModelBlocks            harness and client  TextCases
      ModelImages            sizes and crops      ImageCases
      ClassRegistry          document classes     RegistryCases
    MCEvaluation           all of these, one case per behaviour
                             Evaluation_proofs               theorems

No module uses RECURSIVE; parameters are CONSTANTS with a named assumption. A
module whose constants are numbers needs no MC module: its .cfg gives them their values.
Counters that bound an instance are named `Max...` and commented `bound`.

### RunpodRelease

`templates`, `endpoints`: what the REST API holds. A template id stands for its
content, because templates are never edited or deleted. `state` is
`.runpod/state.yaml`, `log` the release log by model. `pc` and `local` are the
running commands: the label of the next step and the Python locals, in
particular `copy`, the state file as loaded at the start, which
`save_state` writes back as a whole at the end. Each API write and each file
write is an action (`CreateEndpoint`, `PatchEndpoint`, `DeploySave`,
`AppendRelease`, ...), so a command can die (`Fail`) between any two of them, and
several commands can interleave. `gated` and `torn` are history: which running
containers passed the parity gate, and for which models a release was applied
that the files do not know. `ParityGate` is the verdict of `ocrbench runpod
parity`, taken on the latest release while one is pending.

`ClientDataPromise` is the abstract specification: a set of verified endpoints
and a set of open ones, an endpoint opens only while verified, and a new
container on it closes it in the same step. `open` is mapped to the endpoints
that the gate lets through and whose model is settled, that is, not between the
PATCH of a release and its record in the log, and not torn.

### InferRun

`lines` and `midline` are `predictions.jsonl`; a line is a row or `Broken`.
`midline` says that the last line lacks its newline, so that the next append
continues it. `config` is the settings per model in `config.infer.yaml`. `todo`
is the pages that wait for the semaphore, as positions in the manifest, whose
order is the order they get through; `flying` is the pages past it. `Finish`
appends the page's row; `StopInAppend` kills the process in mid-append,
`StopInSnapshot` while the snapshot is written, `Stop` anywhere else. A page's
row is `ok` or an error; everything else in it is left out except the settings
it was made with.

`PagePromise` is the abstract specification: a set of answered pages that only
grows, and pages asked that are not answered, while no kill tore a file.

### PageRequests

One page per behaviour, beginning at any time `now` after the creation of its
client. `call[0]` is the page's only request or its layout, `call[1..]` are the
block requests of a two-stage plan. A call is `queued` (for the semaphore),
`sent`, in `backoff` after a cold-start answer, `ok` or `error`. `timer` is the
deadline of the attempt or of the backoff, and `Tick` lets time pass only when
nothing is due, so that timers fire on time. The endpoint (`up`, `boot`) is at
zero or has a worker; a request makes it boot, and it is up within `ColdStart`.
While it is not up, its gateway answers with a cold-start signature
(`ColdAnswer`, as a 4xx with the no-workers body or a 502/503) or holds the
request (`NoAnswer` on timeout). A worker that is up may answer 502 or 503 too,
which the client takes for a cold start while its window lasts. `chat` and `layout`
are one model: they have the same loop and differ in what they do not retry
(`ErrorAnswer`).

### IssueRunner

`open`, `remote`, `pr`, `merged`, `ticked` are GitHub; `ci` is the result by
commit; `wt` the worktrees with the commit checked out, what it contains,
whether the post-checks would pass, and `.run_issue/STATUS`. `pc`, `cur`,
`rounds`, `fixes` are the script. The agent commits while a call lasts
(`AgentWorks`); its call ends with a status or is cut off. `Merge` may succeed,
fail, or take effect and report a failure. `checked` and `lastCall` are history
for the properties.

### ArtifactStore

`file` is the artifact per stage with the hashes in its meta. A hash stands for
what it hashes: a config hash is the config, an input hash is the identity of
the input's bytes. Bytes are determined by stage, config, inputs and by `reply`,
what the stage's model happened to answer, so that a recomputation may yield the
same bytes or others. `Skip` and `Compute`/`Write` are the two outcomes of
`run_stage`; `Fail` is an exception or crash before the write, `Spoil` a file
that no longer parses or is gone, `ChangeConfig` an edit of the pipeline's
config between calls. There is no caller in the repository yet: `BeginPass` and
`Advance` are external, a pass over all stages in dependency order.

### PaddleWorker

`proc` is each child process, `termAt` when it got its SIGTERM. The supervisor
(`pc`, `i`) starts the children one after the other, polls them one after the
other, and stops all of them when one has exited or a signal has set `stopping`;
a signal may come between any two of its steps, a child exit at any time, and a
command fail to start, which leaves `main` through its `finally`. `EndIsClean`,
`StopKeepsGrace` and `BrokenWorkerEnds` are about that. A pipeline rewrites the
configuration file all pipelines share and reads it back later
(`paddle-pipeline-entrypoint.py`): `NoTornConfig`. The front's health check asks
all its upstreams at once while they come and go: `HealthIsTrue`.

### ParseClient

`page` is what the client has of each page, `call` each request with why it
failed, `attempt` its attempt. `Answer` takes one of the answers the code tells
apart; `Resend` ends a backoff; pages and blocks wait for a slot of their
semaphore. The first exception that leaves `gather` ends the run with its exit
code, with the other pages still in flight. Time matters in the wait for a
worker only (`now`, `timer`).

### RunStages

Contents are reduced to where they come from: an image to the prepare that wrote
it, a prediction to its image, a score to the predictions and labels it was made
of. One of prepare, score and calibrate runs at a time, may be killed between
any two of its files (`Kill`), and meets infer and review, which may run beside it.

### The evaluation modules

These are functions of their inputs, so a behaviour of `MCEvaluation` is one
step: an action picks an input (`case`), and the invariants say what the
functions make of it. Each `...Cases` module holds the inputs and, as far as the
property needs one, the *reference*: what is true of the case independently of
the code. A statement case is a true ledger, printed the ways banks print it
(side by column, by sign or not at all; newest first; balances left out; an
opening balance or none) with at most one figure misprinted or misread; a page is
that ledger laid out as tables or as positioned words; a reply is a true list of
blocks, cut anywhere.

- `StatementLedger`: `CheckFile`, with the order of the rows, the derived
  opening balance, inferred sides, gaps between pages and totals; `PrintedLedgers`
  makes the files. No move of a ledger undoes another (`MovesAssumption`): with
  balances alone to go by, such a pair would read the same in either order.
- `StatementPages`: `MapStatementPage` reads the tables of a model's answer,
  `ParseTextLayer` the positioned words of the PDF; both share `BuildRow`. Cells
  are values of what the readers tell apart (blank, date, number with a sign,
  header keywords, an opening label, text), not strings.
- `StatementHeader`: `ExtractHeaderFields` over lines of labels and values; the
  pages of `StatementPages` are without the fields of their header box.
- `StatementScores`: row scores, agreement of two models, the review queue, its
  labels, and how they judge flags.
- `Calibration`: spans, features, agreement, bands, bins and the threshold search.
- `Duplicates`: the originals and pairs that are drawn, and the detector.
- `Dispatch`: which metrics and fields a page has, what a failed page gets, and
  the cells of the aggregate tables. How like the truth a text is (cer, wer,
  ...) is an input.
- `ModelText`: OTSL tables, repeats at the end of a cut reply, salvage of cut
  lists and records, the dots.ocr and TeleOCR layouts.
- `ModelBlocks`: what the harness and the parse client make of the same blocks.
- `ModelImages`: `SmartResize`, crops and paddings, on exact integers.
- `ClassRegistry`: `ClassError` names the first thing wrong with a class file.

## 3. What the runs show

| Run | Expect | Question |
| --- | --- | --- |
| `release` | pass | Is client data let out only to gated containers, does the log tell the truth, with commands that die anywhere? |
| `release_died_command` | violation | Does a release always suspend the promotion? Not if deploy dies between PATCH and state file. |
| `infer` | pass | Is no page dropped or asked twice, and does re-running finish? |
| `infer_torn_line` | violation | Does an interrupted run lose only pages in flight? A torn line makes the whole file unreadable. |
| `pages` | pass | Does every call and page end in time, with a whole row, and is a cold start in the window free? |
| `issues` | pass | Is only verified work merged, in order, without losing any, and does every run end? |
| `artifacts` | pass | Does a pass that skips equal a pass from nothing, and redo only what changed? |
| `worker` | pass | Does the container end, clean and within its grace period, whatever exits when, and is a 200 true? |
| `parse` | pass | Does the exit code say what happened to every request, and does the client always end? |
| `stages` | pass | Which files of a run directory may be trusted to belong together? |
| `evaluation` | pass | Is every bounded input of the evaluation read, judged and scored as it should be? |
| `ledger_first_row` | violation | Does a derived opening balance make the first row consistent? Not if that row's amount has no sign. |

The runs that expect a violation each check one sentence of a doc, spec or comment of
the repository against what the code does; `PROJECT.json` quotes the sentence
and says what happens ("findings").

### Properties

*release.* `ClientDataOnlyToVerified`, `PromotionIsLogged` (the gate's open
state is backed by the log), `LogMatchesEndpoint` (the latest record is what
runs), `OneEndpointPerModel`, `RollbackReturnsToEarlier` (a rollback changes the
image, and to one an earlier release ran), and `KeepsPromise`, the refinement
of `ClientDataPromise`. The first, third and last exempt a model whose release is
half on file (`Settled`): that exemption is exactly what `release_died_command`
shows to be needed.

*infer.* `RunIsOnRecord` (no page is missing of a model whose turn is over, and
no row is of a model whose settings are not on file), `KeepsPromise` (refinement
of `PagePromise`) and, as liveness, `AllPagesAnswered`.

*pages.* `CallsEndInTime` bounds a call by what is left of the window, one
backoff and two timeouts. `ColdStartFitsWindow`: a call that ends in error
after cold-start answers alone began so late that the worker it made boot
could not be up within the window. `RowIsComplete`, `PageEnds`.

*issues.* `DeliveredIsVerified` (what is merged passed its checks, and exit code
0 leaves nothing behind), `MergesInOrder`, `NoWorkLost`, `RunEnds`.

*artifacts.* `PassBuildsEverything`: after a pass every file is what a pass over
an empty directory would have made, up to the models' replies.
`RerunsOnlyDownstream`: a pass computes only stages at or after a change.

*worker.* `EndIsClean`, `HealthIsTrue`, `NoTornConfig`, `StopKeepsGrace` and, as
liveness, `BrokenWorkerEnds`.

*parse.* `ExitTells` and `ParseEnds`.

*stages.* `PreparedIsWhole`, `ScoreFilesAgree`, `LabelsKeepTheirAnswer`: which
files belong together, whatever was killed and whatever ran beside. The first
holds without `--force`, the second until a score is killed half way.

*evaluation.* Each is a claim against a reference, not a restatement of the function:

- `LedgerIsJudged`: a file reconciles exactly when there are sides for its
  unsigned amounts and a balance to begin with under which every printed figure
  is true; a misprint breaks its own row and the next with a balance, no other.
- `StatementsAreRead`: the two readers agree on every layout of a page, and on
  what the page says; no header field is given a value printed for another one.
- `ReviewJudgesByTruth`: labels come back at the cell they were asked for, and
  a flag counts as a true error exactly when its row is misread.
- `ThresholdsKeepPromise`: a target is kept by what is accepted.
  `FeaturesAreOfTheField`: the log probabilities are those of exactly the tokens that
  hold a character of the value at its last place, or of the whole completion; a field
  of the primary pair is judged by what the other one of the pair read, whatever a third
  did, agrees only if both wrote the same number, and whichever of them is asked.
- `FailureNeverOutscores`: a failed page never outscores an answered one.
  `ScoresAreComparable`: every model is averaged over the same pages, and the
  duplicate set is even over banks and pairs.
- `RepliesFitTheirPages`: a page is sent in a size that the model takes, what is
  whole in a cut reply is kept at its block, and the client shows exactly the blocks
  the harness scores. `WhatIsSaidIsKept`: a repaired table keeps its shape, a text
  loses only repeats, a record no field.
- `BlocksFitTheModel`: crops lie in the page, have pixels and leave none between
  two regions that touch.
- `LoadedClassIsUsable`: a class that loads can be asked about any bank.

Type correctness is a theorem of each of these modules (section 4).

### Known divergences

Beside the findings, these are places where the code does not do what a comment,
a doc or a careful reader would expect. They are stated here, some as properties
of a module that no run checks because they do not hold.

- `RunpodRelease.EndpointRunsTemplate`: the diff of deploy compares image,
  registry, ports and env (`deploy.py:230`), so a template that differs in its disk
  alone is made and recorded but never applied (`design.md:142` says it is).
- `RunpodRelease.UnpromotedScalesToZero`: the office profile is checked against
  the promotion that the same deploy suspends (`deploy.py:255`), and rollback
  changes nothing but the template (`manage.py:123`): warm workers outlive it.
- `RunpodRelease.NoVolumeOnClientDataEndpoint`: a queue endpoint may get a volume
  while it is not promoted, and promote does not ask (`manage.py:220`).
- `InferRun.SettingsUsedAreRecorded`: a resumed run with edited settings replaces
  the record of those that earlier rows were made with (`cli.py:286`).
- `IssueRunner.ResumesOnlyAfterDone`: a run killed during a later agent call
  leaves the STATUS of the call before, which the next run trusts
  (`run_issue.sh:114`, against its comment at 232).
- `ParseClient.NeverUnreachable`: a success other than 200 on the last attempt
  falls out of the retry loop into the assertion `unreachable`
  (`runpod_parse_document.py:766`).
- `StatementScores`, `FlagIsErrorWhereLabelsDiffer`: an agreed cell that was not
  sampled for review has no label and counts as an error of its flag
  (`statement_run.py:105`, against the comment at 183).
- Right and wrong fields are counted over all data (`calibrate.py:294`): a training
  fold that has one kind only is fitted all the same (302), and raises. Folds are
  by `sample_id`, one page, as `design.md:134` has it: pages of one file, with the
  same header values, may lie in training and test.
- `_agree` normalises the other model's value, which `score` normalised already, once
  more (`proxy.py:136`): an account number with dashes and a leading zero, under a key
  that tells no type, first loses the dashes and then, as an amount, the zero, so that
  two models that wrote the same do not agree (`Stable` in `CalibrationCases`; against
  `confidence-calibration/spec.md:13`).
- A model outside the primary pair is compared with the first other one in the
  alphabet even if that one has no value and another has (`proxy.py:131`, against the
  comment at 35): the feature is then "unknown".
- `statement.py:300`: period counts as a field with a strong shape but takes any
  value with a digit: in a column with a value missing it takes the account
  number. Two amounts in such a column cannot be told apart, and a line
  "Currency Name" counts as a label of the name alone. `HeaderFieldsAreTheirs`
  leaves out the last two (`Ambiguous`) and says nothing of a field that is lost.
- An empty equation is "$$$$" on the harness's page, and a dots.ocr block of white
  space is text there and nothing in the client.
- `salvage_json_pairs` takes a number cut in the middle as complete, and the
  first of two equal keys, where a whole reply takes the last.
- `smart_resize` may exceed `max_pixels` at extreme aspect ratios, where each side
  is at least one factor (`imaging.py:27`, against its docstring).
- In the table of exact fields, a predicted null of a key that was not asked
  counts as exact; a file of which every page failed reconciles
  (`test_arithmetic.py:150` asserts it); the flag precision of agreement is 1 by construction.
- `proxy.py:32` names `dots.ocr`, `configs/run.yaml` names `dotsocr`.
- A file printed newest first, on one day and without sides, is not recognised
  as such (`OrderShows`); a first row of a later page whose date is blank is dropped.
- `--concurrency 0` of the parse client waits for ever.

### Bounds, and why they are enough

- *release*: one queue model (the model with most states: volume and retention
  apply to it), two images, the constants of each cfg for disks and wirings, two
  endpoint ids (so that a second endpoint can exist), one command at a time,
  `MaxReleases` and `MaxFails` as in the cfg: enough for a deploy, a rollback and
  a release after a death. Several models interact only through the state
  file, which a command rewrites whole; the theorems cover any number of them.
  With two overlapping commands the invariants fail, as the code has no lock;
  see section 5.
- *infer*: three pages, two models, `--models` naming both or the second one,
  two pages in flight, one error answer, two stops, one of which may tear a
  file: an error row superseded in a later run, a torn line followed by another
  append, and a run for fewer models than the file knows all occur.
- *pages*: three blocks and two at a time make a block wait and the order matter;
  window 4, backoff 1, timeout 3, boot 2, last page at 5: pages begin inside and
  after the window, a backoff crosses the end of the window, and a timeout is
  longer than the boot. `Horizon` is beyond any page's end. Four blocks give the same
  verdicts on 440,000 states.
- *issues*: two issues (order matters), one fix round, one CI fix, one kill or lost merge
  answer, one foreign push, two runs: a resumed run after each kind of fault.
- *artifacts*: all six stages, two configs per stage, two replies, and two upsets, each a
  config change, a failed call, a spoiled file or an unusual reply: a config that changes
  and changes back, and a change followed by a pass that dies, both occur. The configs are
  interchangeable and reduced by symmetry.

- *worker*: two pipelines (they share a file), a grace period of one, a horizon
  of two: every child can exit, hang or fail to start at each of the supervisor's steps.
- *parse*: two pages and two blocks, one at a time, one retry, a wait of three
  with naps of one and polls of up to two: a page or block waits for a slot, a
  failure meets others in flight, and the deadline falls within a request.
- *stages*: two pages, one of them labelled, two prepares; kills are unbounded.
- *evaluation*: ledgers of up to three rows on two pages, since the functions look
  at a row, the one before it and the page before; header boxes of three labels;
  completions of up to four tokens, read by up to three models; texts of ten
  characters with periods up to three; replies of four tokens; tables of three by
  three; images up to 40 pixels wide with factor 3; two class files. 151,000 cases.

`CHECK_DEADLOCK FALSE` is set where the system really stops: a page that has its
row, an issue list after its last run, a worker or client that has ended, a
case that has been picked.

### Fairness

- *release*, *artifacts*: none; commands are started by people and nothing is
  promised to happen.
- *worker*: weak fairness of the supervisor's own steps, of the clock and of a
  pipeline's own write; none of what children do otherwise, since they may hang.
- *parse*: weak fairness of `Next`: a request ends by its timeout and a sleep ends.
- *stages*, *evaluation*: none.
- *infer*: weak fairness of the event loop's steps and of every request in
  flight, because asyncio runs each ready task and every request ends by its timeout;
  weak fairness of starting an interrupted run again, and strong fairness of a start that
  names every model, which is the operator's part of "re-run to resume".
- *pages*: weak fairness of `Step`: the event loop runs, timers fire, time passes. No
  fairness of answers: a request may never be answered and ends by its timer.
- *issues*: weak fairness of the runner's own steps: agent calls and CI watches
  run under `timeout`.

## 4. What is proved

| Module | Theorems | Also assumed |
| --- | --- | --- |
| `RunpodRelease_proofs` | `TypeCorrect`, `OverlapIsLogged` | |
| | `ClientDataVerified`, `PromotionLogged`, `OneEndpoint`, `LogIsTrue`, `RollbackIsEarlier`; `PromiseIsKept` (implements `ClientDataPromise`) | `OneOperator` |
| `InferRun_proofs` | `TypeCorrect`, `RunIsOnRecordHolds`; `PromiseIsKept` (implements `PagePromise`) | |
| `PageRequests_proofs` | `TypeCorrect`, `CallsEndInTimeHolds`, `ColdStartFitsWindowHolds`, `RowIsCompleteHolds` | |
| `IssueRunner_proofs` | `TypeCorrect`, `DeliveredIsVerifiedHolds`, `MergesAreInOrder`, `NoWorkIsLost` | |
| `PaddleWorker_proofs` | `TypeCorrect`, `EndIsCleanHolds`, `HealthIsTrueHolds`, `NoTornConfigHolds`, `StopAlwaysKeepsGrace` | |
| `ParseClient_proofs` | `TypeCorrect`, `ExitTellsHolds` | |
| `Evaluation_proofs` | `PreparedIsWholeHolds`, `ScoreFilesAgreeHolds`, `LabelsKeepTheirAnswerHolds` | |
| | `FilesAreJudged` (any statement file), `PrintedLedgersAreJudged` (`LedgerIsJudged`) | the opening balance is known; a row has a side, or an amount and a balance |
| | `ThresholdsKept` (`ThresholdsKeepPromise`) | |
| | `NoGainByFailing` (`FailureNeverOutscores`) | a statement page has no official score |
| | `BlocksFit` (`BlocksFitTheModel`), `LoadedClassesAreUsable` (`LoadedClassIsUsable`) | |
| `ArtifactStore_proofs` | `TypeCorrect`, `PassBuilds`, `RerunsOnlyWhatChanged` | |

All of them hold for every value of the constants that satisfies the named
assumption of the module (`ConstantsAssumption`, `MovesAssumption`,
`ImagesAssumption`): any number of models, images and endpoints, of pages,
blocks and issues, of configs and replies, any concurrency and any times, and
any length of history. These assumptions say what kind of thing a constant is,
and of its value little: that the manifest has a row per sample and condition
and the issue list no duplicates (`expand_issues` drops them), that there is a
pipeline, and that a pool has a slot. One is about time: a pipeline has written
the shared file at an age at which none reads it yet (`WriteBy < ReadFrom`),
which `paddle_supervisor.py:10` says ("in its first second", "seconds of imports
later") and nothing enforces; only `NoTornConfigHolds` needs it. The
inductive invariants of `InferRun`, `PageRequests`, `IssueRunner`,
`PaddleWorker` and `ParseClient` were checked by TLC on the instances of the
runs before they were proved; `OverlapInv` of `RunpodRelease`, on two commands that
overlap over one load-balancing model, with two endpoint ids, two releases and one
command that dies (1.2 million states).

**RunpodRelease.** `TypeCorrect` (`[]TypeOK`) needs nothing else. The other
theorems but the last also assume `OneOperator`, that no two commands overlap:
`PromotionLogged`, `ClientDataVerified`, `OneEndpoint` and `LogIsTrue` state the
four safety invariants of run `release`. The inductive invariant is

    IInv == TypeInv /\ CopyIsCurrent /\ OneEndpointPerModel /\ CommandKnows
            /\ PromotionIsLogged /\ PassIsGated /\ LogMatchesEndpoint

`CopyIsCurrent` says that the state file a command has loaded is still the one on
disk, up to its own model: without it, `save_state` of a stale copy could bring
back a promotion, which is why overlapping commands break everything.
`CommandKnows` says what each label of a command implies about its locals (the
id it is about to save is the model's live endpoint, a promotion under way
rests on a passing record). `PassIsGated` ties a passing record to the container
that runs, from which the gate's claim follows with `PromotionIsLogged`. There is
one lemma per action and conjunct group; effects of actions are stated point-wise
first. `RollbackIsEarlier` adds `RollbackKnows`: what a rollback is about to apply
is the image of an earlier record and not that of the latest, which a verdict of
the parity gate in between leaves alone. For `PromiseIsKept`, the endpoints open
to client data are those named by the promoted entries of settled models
(`OpenIs`); `Allowed` is what the abstract specification admits, and one lemma
per action says which of its cases the step is: the step that puts a container
on an endpoint closes it in that step, because its model is unsettled from then
on, and the promotion opens an endpoint that `PassIsGated` says is verified.
`OverlapIsLogged` does without `OneOperator`. Its invariant, `OverlapInv`, says of
the copy of every running command what `ClientDataHasPassed` says of the file: a
promoted entry names an endpoint of its model, and the log of that model has a
record that passed and one that was promoted. It is kept because endpoints and log
only grow (`EndpointsStay`, `LogRemembers`): no step takes back a verdict "pass", a
mark or an endpoint, so that what a copy said when it was loaded is still true of
the log and the endpoints when it is written.

**ArtifactStore.** `TypeCorrect`, `PassBuilds` (`[]PassBuildsEverything`) and
`RerunsOnlyWhatChanged` (`[]RerunsOnlyDownstream`) from the order of the stages
alone. The inductive invariant is

    IInv == TypeOK /\ CallIsPending /\ PassIsFresh /\ ComputedInPass
            /\ RestIsIntact /\ OnlyStaleComputed

`PassIsFresh`: during a pass the stages done so far match their inputs and
config. `RestIsIntact`: a stage not downstream of anything dirty still matches
its inputs, which is what makes it skipped. Downstream is a closure operator
over the stage inputs; the lemmas `Downstream...` and `OrderIsTopological`
carry its properties.

**Evaluation: the stages.** The three invariants of run `stages` are theorems.
`PreparedIsWholeHolds` rests on `PrepareInv`: while a prepare is under way that
needed no `--force` there is no manifest, so that nothing has been asked
(`NotAsked`), and what it has done of its pages is of that prepare (`Underway`).
`ScoreFilesAgreeHolds` rests on `FilesInv`: at each point of the order in which
score writes, the files written so far hold what it read, and before the first
the old files still agree. `LabelsKeepTheirAnswerHolds` rests on `LabelsInv`:
what score has read or left in `fields.jsonl` of an answer is still the latest
prediction of the page, since an answer is never pending again (`AnswersStay`).

**Evaluation: the functions.** A theorem about a function of run `evaluation` states
its property for every case of the kind that the function can be handed, in place
of the bounded sets of cases that TLC goes through; that `None` is none of the
values it stands beside is assumed throughout. The functions fold over sets and
sequences, and the library's induction theorems cannot be instantiated with an
operator. The way round is a set: a set of naturals that is not empty has a least
(`LeastNatural`, from `WFMin`), so that one that has 0 and with a number the next is
all of them (`NatInduct`); likewise for the subsets of a finite set (`FiniteInduct`).
From these a fold exists and takes its elements one by one (`IsSum`, `IsFold`,
`IsFlattened`), and what it has is proved along it.

`FilesAreJudged` takes any sequence of pages. If an account explains the file,
`check_file` says after every row what the account says (`TellsAll`); and if nothing
was marked, the moves that it took the rows to make are such an account
(`PassedFileAgrees`). The opening balance must be known: where no page prints one and
the first row has no balance either, the code leaves the side of an unsigned second
row open, and its totals then miss it.
`PrintedLedgersAreJudged` adds the order and the misprint. In time every balance
continues the one before it, backwards none does, because no move undoes another
(`MovesAssumption`), so that the better chain is the right one (`OrderIsFound`). The
induction over rows is `LedgerInv`: the running balance is the true one, or one more
since a misprint that no printed balance has made good (`Since`), and a page that
opens sets it right (`PageBegins`).

`ThresholdsKept`: what is accepted lies above the least cut that reaches the target,
and a cut that reaches a stricter target reaches this one; bands and bins count each
field once because their ranges are apart. `NoGainByFailing` goes through the measures
one by one. `BlocksFit`: rounding out keeps a pixel, and scaling both sides up by the
same factor, rounded up, keeps the ratio. `LoadedClassesAreUsable`:
that `ClassError` finds nothing wrong gives each clause the mapper relies on.

**InferRun.** The inductive invariant is

    IInv == TypeOK /\ PhaseFits /\ NoPageForgotten /\ LatestExists /\ Untorn
            /\ NoPageDropped /\ RowsAreOfRecordedModels

`RunIsOnRecord` is its last line. `NoPageForgotten` is why no page is dropped:
during a turn each page of the manifest has a row, is in flight, or waits.
`Untorn` says what holds until a kill tears a file: the file is readable, the
settings of the run's models are on record, and what is asked or waits has no
answer and is there once. `LatestExists` keeps "the last row of a page" defined.
The refinement rests on `Untorn`: letting a page through the semaphore asks a
page that is neither answered nor out (`AcquireAsks`), its row answers it or
withdraws it (`FinishAnswers`), every end of a run withdraws all, and appending
a row changes no other page's answer (`AppendedDone`).

**PageRequests.** The inductive invariant is

    IInv == TypeOK /\ Timed /\ BootIsTimed /\ Cold /\ StageFits /\ RowIsComplete

Time cannot pass a timer that is due, so the bound on a call is a bound on its
timers (`Timed`): an attempt is sent by the end of the window and a backoff, and
only one more after a failure. `Cold` is the argument for cold starts: while no
worker is up, one boots since before any call under way began, so a call that
gave up on cold answers at the end of the window began less than a boot before
it. `StageFits` says that a page that is over has no open call.

**IssueRunner.** The inductive invariant is

    IInv == TypeOK /\ Placed /\ Shipped /\ BehindIsDone /\ MergedIsVerified

`Shipped` follows the head of the worktree from the post-checks to CI to the
merge; since the merge asks GitHub for exactly that head, a foreign push cannot
slip in. `BehindIsDone` (the issues before the current one are closed or left to
a human) gives the order and the meaning of exit code 0. `Placed` ties the label
of the runner to the worktree and says that an issue stays open until it is
merged, so that only `Clean`, which comes after the merge, removes a worktree.

**PaddleWorker.** The inductive invariant has nine conjuncts. `Swept` says whom
the supervisor has started, or waited for, at each point of its loops, so that
at the end there is nobody left; a signal or a child that exits in between keeps
it. `StopIsTimed` ties the time of each SIGTERM to the one deadline, at which
time stops until the supervisor has dealt with it. `WritersAreYoung` and
`TornHasCulprit` bound the age of a pipeline that is writing the shared file and
name the one that left it torn. `NeverUpIsDown` relates a health check to what
the upstreams were while it lasted.

**ParseClient.** The inductive invariant is

    IInv == Types /\ ClockFits /\ CodeFits /\ PageFits /\ AttemptFits /\ EndHasCause

`PageFits` says what a page's stage tells of its calls, `AttemptFits` that a call
gives up on a busy gateway or a timeout only when its attempts are used up, and
`EndHasCause` that an exit code has a call, or all pages, to show for it.

**Only model-checked.** Liveness (`AllPagesAnswered`, `PageEnds`, `RunEnds`,
`BrokenWorkerEnds`, `ParseEnds`) is out of the prover's reach. Of run `evaluation`
six properties are checked on its bounded inputs alone: `StatementsAreRead`,
`ReviewJudgesByTruth`, `FeaturesAreOfTheField`, `ScoresAreComparable`,
`RepliesFitTheirPages` and `WhatIsSaidIsKept`. Their functions filter and cut sequences, take square roots or
read one page in two ways, and each needs an invariant of its own. Every safety
property of the other passing runs is a theorem.

## 5. What is not modelled, and why

- *Overlapping commands.* `RunpodRelease` lets commands overlap (`Procs`), and the
  type theorem covers that. What is left of the gate then is `OverlapIsLogged`, which
  no run checks. The runs and the other theorems have one operator, since the code has
  no lock on the state file: two overlapping deploys make two endpoints or bring back
  a promotion.
  Two `infer` on one run directory are not modelled.
- *Torn YAML files.* A state file, log or snapshot truncated by a crash stops every later
  command with a parse error. Only the snapshot's loss is modelled, in `InferRun`.
- *A worker that dies under a page*, and an answer that trickles in (the
  pipeline client's timeout bounds operations, not the request): `PageRequests`
  takes the timeout as a bound on the request.
- *Characters*: canonicalisation of text, the spelling of dates, amounts and
  keywords, regular expressions, HTML and Markdown. The models begin where these have
  told apart what they tell apart.
- *Floating point*: cer, wer, anls, ted and the official scores, the fit of a confidence
  (grouped folds and logistic regression, both a library's), bootstrap intervals. Scores
  and confidences enter as inputs.
- *Pixels and files*: PDF rendering and repair, degradation, encoding, downloads.
- *The front's proxying*: it keeps nothing but whose turn it is.
- *Structural probe, measurement scripts, report tables*: one sequential pass each.
- *Static refusals* of deploy, the review document's contents, rendering, smoke tests,
  cost accounting, prompts: they change nothing that a property speaks of.
- *docparse stages and service*: stubs in the repository.

## 6. Plan

1. **Theorems.** Of the evaluation's functions those that filter sequences: that the
   repairs of `ModelText` lose only repeats, that a label comes back at its cell.
2. **Composition** of RunpodRelease's gate with InferRun: a promotion that is
   suspended while pages are sent.
3. **The front's rotation** over pipelines that come and go, with requests in flight.
4. **The structural probe** (`models/probe.py`), on the requests of `PageRequests`.

Runs are kept to one per question.
