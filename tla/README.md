# A TLA+ model of Bittune

Bittune deploys, measures and records local inference services. A Node process (the
Runtime) hosts an agent and its tools; a Python process (the Core) executes the managed
tools and keeps an append-only ledger in SQLite beside a directory of artifacts. The two
talk JSON lines over the pipes of a child process. This directory models the parts of the
system whose correctness depends on order, interleaving and failure, checks them with TLC
and proves the central properties with TLAPS.

Paths below are relative to `packages/bittune-core/src/bittune_core/` (`*.py`) and
`packages/bittune-runtime/src/` (`*.ts`).

## 1. Inventory

### The parts and the state they keep

| Part | Code | State | Operations |
|---|---|---|---|
| Run ledger, artifact store | `store.py`, `runs.py` | `runs`, `artifacts` and fact tables; files named by sha256 | open and sweep, start a Run, write an artifact, finish, cancel |
| Core server | `protocol.py`, `__main__.py` | request being served, cancellation event, handler thread, line queue | receive, serve, cancel, join, emit, exit at end of input |
| Core client | `harness/core-client.ts`, `harness/managed-tools.ts` | `pending`, `cancelled`, `dead`, guard timer, idle waiters | request, cancel, onLine, onExit, stop |
| Evidence intake | `harness/generic-evidence.ts`, `evidence.py` | staging files, a serial queue per client | stage, wait for idle, ingest, unlink |
| Deployment plans | `plans.py`, `local_model.py` | one row per plan: draft or frozen, verdict, content hash | create, validate, freeze, replay |
| Managed services | `services.py`, `inspect.py` | one row per service: desired and observed state, port; Docker's containers | start, stop, recover, inspect, wait until ready |
| Benchmarks | `benchmark.py`, `measurement.py` | result facts bound to a service | resolve the subject, run EvalScope, store |
| Suites | `suite.py`, `suite_policy.py`, `task_scope.py` | list of points, rows, stop sets, used budget; reservations in Runs | reserve, sweep, decide, confirm, climb, finish |
| Other intents | `correctness.py`, `pd_capacity.py`, `cache_pair.py` | facts | fixed sequences of measurements |
| Comparison and reports | `compare.py`, `reports.py`, `report_selection.py`, `deliverable.py` | facts, exported files | read facts, check claims, write one fact |
| Harness extension | `harness/extension.ts`, `runtime-policy.ts`, `managed-tools.ts` | approval preference, tool in flight | policy, confirmation, managed request |
| Investigations | `harness/subagent.ts`, `child-extension.ts` | up to three slots, abort marks, per-child limits | acquire, abort, run, flush evidence, release |
| Run of a prompt | `core/agent-session.ts`, `modes/interactive/interactive-mode.ts` | run flag, queues, retry and recovery counters, abort controllers, Escape handlers | prompt, steer, follow up, abort, retry, compact |
| Sessions | `core/session-manager.ts`, `core/compaction/`, `core/agent-session-runtime.ts` | a tree of entries, its leaf, its file | append, compact, navigate, fork, reopen |
| Rest of the agent runtime | `core/`, `modes/`, `utils/` | settings, credentials, tools, providers | adopted from an upstream project |
| Installer, scripts, skills | `cli/install/`, `scripts/`, `skills/` | host packages | run once |

### How they interact

A managed tool call goes from the agent through `managed-tools.ts`, which asks the Core first whether
the call is within the task's scope and the user whether to go on, to `CoreClient.request`,
over stdin to the server's reader thread and queue, to a handler thread that opens a
`ManagedRun` in the ledger, and back over stdout. Evidence of generic tools is written to a
staging file first and then ingested by the same client, one file at a time, when no
managed call is in flight. A handler that starts a service, validates a plan or measures
reads a row, works for seconds or minutes with Docker or EvalScope, and writes the row
back. Nothing prevents several Cores from having one store open: each session starts one,
and `bittune doctor` starts another.

A text of the user goes from the editor to the main loop, which prompts the session, or to one
of three queues: steering and follow-ups while a run is active, and the terminal's own queue
while the session compacts. The session emits events; the terminal answers some of them by
prompting again or by exchanging what the Escape key does. What is said becomes an entry of the
session's tree, from which compaction and navigation choose what the model sees.

### What is hard

- a Core that dies, or another that opens the store, between two SQL statements;
- a row that is read before minutes of work and written back afterwards;
- the cancel guard, an abort, a result line, the exit of the child and `stop()` arriving in
  any order at one event loop;
- containers that crash, are restarted by hand or lose their port behind a record's back;
- a list of points that is extended while it is walked, under two budgets;
- investigations that run side by side, share a few slots and one dialog, and are aborted
  before, while and after their child session exists;
- prompts, queues, retries, compactions and key presses of one session, which are asynchronous
  functions that resume each other;
- a context that is cut, summarised, moved and forked again and again, while its file may fail.

`PROJECT.json` lists these hazards at their lines, with the properties that watch them.

Hazards seen while reading and not in that list, because no property is stated of them:
an abort that fires during a confirmation dialog never reaches the Core (core-client.ts:194); a line
written to a Core that has just died (core-client.ts:311); a late cancel line for another request
(protocol.py:196); `recover` and a missed deadline never restore ready (services.py:263); two Cores
that reserve a suite at once (task_scope.py:117); a rung of the ladder that was not good
(suite.py:310); a cancelled process that ignores SIGTERM is recorded as failed and not killed
(process.py:94); a cancellation during the host probe is taken for an absent device (inspect.py:64);
staged evidence that no later session takes up (generic-evidence.ts:136); `/approval session`, whose flag is
not read (extension.ts:255); an abort that is lost while a child's credentials are checked
(subagent.ts:512); `/compact` while another `/compact` writes its summary, which share one controller
(agent-session.ts:1782); a failed flush that overwrites what was queued since (interactive-mode.ts:4025).
The shell commands of the terminal are disabled (interactive-mode.ts:2697), so what `executeBash` guards
against does not arise.

## 2. Modules

| Module | Models | Extends or uses |
|---|---|---|
| `RunLifecycle` | what the ledger promises of one Run (abstract) | |
| `RunLedger` | the ledger and artifact store, any number of Cores | `RunLifecycle` |
| `RunLedgerProofs` | theorems about it | `RunLedger` |
| `CallPromise` | abstract: a call is executed once, answered once and truly | |
| `CoreSession` | client, pipes, server, handler and intake of one session | implements `CallPromise` |
| `CoreSessionProofs` | theorems about it | `CoreSession` |
| `PlanPromise` | plan changes as single steps (abstract) | |
| `PlanLifecycle` | draft, validate, freeze, replay on any number of Cores | `PlanPromise` |
| `PlanLifecycleProofs` | theorems about it | `PlanLifecycle` |
| `ServiceLifecycle` | managed services and their containers, on any number of Cores | |
| `ServiceLifecycleProofs` | theorems about it | `ServiceLifecycle` |
| `SuiteSweep` | one experiment: suites, their sweeps and both budgets | |
| `SuiteSweepProofs` | theorems about it | `SuiteSweep` |
| `Investigate` | investigations: slots, children, confirmations, header slots | |
| `InvestigateProofs` | theorems about it | `Investigate` |
| `AgentRun` | prompts and runs of a session, queues, retries, compactions, Escape | |
| `AgentRunProofs` | theorems about it | `AgentRun` |
| `SessionTree` | the tree of a session, its file, compaction, navigation, forks | |
| `SessionTreeProofs` | theorems about it | `SessionTree` |
| `MC...` | symmetry sets and instances for TLC | the module they name |

Definitions that precede the operator they resemble and differ from it by one slip
(`SelectSettledSilently`, `ExhaustedLate`, ...) are variants: they show that a property
notices the slip, and are no part of any specification.

### RunLedger

`status` is the `status` column, `rows` and `file` the artifacts table and directory, `pc`,
`cur`, `held` and `outcome` the position and local variables of each Core's handler, and
`reply` what the caller was told. `Open` is `build_server`, which sweeps every running
Run. `WriteArtifact`, `RenameArtifact` and `InsertArtifact` are the three steps of
`write_artifact`: temporary file, rename, row. `SelectRunning`, `SelectSettled` and
`UpdateRun` are the two statements of `finish_run`, and the case in which it finds the Run
settled. `Die` ends a Core anywhere. Any step of a handler may raise instead:
`ManagedRun.__exit__` records that as a failed Run (`ExceptionRecorded`), except where nobody
does (`ExceptionEscapes`): `evidence_ingest` catches `ContractError` only (evidence.py:91-103), and the
`finish_run` of the failure may raise itself. The caller then hears of an internal error, the Core
goes on, and the Run stays running without a handler. The history variable `left` holds the Runs
that a death or an escaped exception left behind and that no opening of the store has seen since.

`RunLifecycle` is the promise, for Runs of which `live` have a handler: opened once by a handler,
settled by it once at most (`Settle`) or left (`Abandon`), and otherwise only ever interrupted
(`Interrupt`). Since the sweep makes no difference between the Runs of dead Cores and those of live
ones (store.py:289), an interruption may hit a live Run, and its handler's verdict may still replace it.

### CoreSession

One variable per field of `CoreClient` and of the server's session loop, one FIFO per
direction for a pipe and the queue behind it, and the committed Run of each call. Every
callback of the Node event loop is one action; the server's pump, its handler thread and
the commit are separate actions. Progress lines are left out, because the client drops
those that are not for the pending request. A tool of `Scoped` is called within a task scope: a
request of its own, `Check(c)`, goes ahead of it (`SendCheck`, managed-tools.ts:466) and has to come
back `in_scope` before the tool is taken up. `StartTool` opens the confirmation, `Decline` ends the call
there as `user_declined`, `SendTool` makes the request; `Abort` fires the one signal that the check, the
dialogs and the request share. `MaxCrashes` bounds how often the Core dies of
its own. A handler may raise what it does not foresee (`Raise`): only `ContractError` makes
`ingest_evidence` settle its Run, so a full disk, a locked database or an output without a label
(evidence.py:91) leaves it running behind an answer of failure, and a staging file that cannot be unlinked
turns a committed Run into one.

`CallPromise` is what a caller may rely on: executed at most once, answered at most once, the answer true of
the Run, and no Run touched after its answer. It says how little a failure or `core_unavailable` tells of
the Run, and where the guard breaks it: from then on an answer may be that of another call.

### PlanLifecycle

A handler reads a payload and its hash (`ReadDraft`, `ReadFrozen`), evaluates (`EvaluateDraft`,
`EvaluateFreeze`), looks at the hash in a SELECT (`SelectRow`) and again in the UPDATE
(`UpdateRow`). A payload stands for its own hash; `clock` is the time stamp that makes
payloads differ, and `MaxClock` bounds how many are written. `Launch` is the start of a
service from the payload that was read; `told` and `launched` remember what callers and
services were given.

`PlanPromise` has the three changes of a plan as single steps.

### ServiceLifecycle

`cont` is Docker, `row` the table, `pc`, `svc`, `copy`, `seen` and `polls` the handler of each Core with
its own copy of the record. Every handler writes its whole copy back (`Store`), whatever
another Core has stored since it was read; `overtaken` remembers to whom that happened. A stop is
four steps after it has read the record: `StopContainer`, `InspectStopped`, which sees what the second
inspection reports, `RecordStop` and `ReplyStop`. `ServerUp`, `Crash` and `Restart` happen outside the
Core and fit between any two steps, as does `Interrupt`: a cancellation, a time limit or a death, after
any step, since `run_command` looks for a cancellation once more after the command has taken effect.
Once a container has ended, its port may go to anybody, another container or a program of the host, so a
probe of the recorded endpoint may be answered by a stranger (`MayAnswer`). `tried`, `restarted`,
`confirmed` and `lost` remember what the properties are about. Measurements are not in the model:
`resolve_subject` reads a record (benchmark.py:74) and `ReadyIsEarned` says how much that is worth.

### SuiteSweep

`Reserve` is `suite_reservation` and the start of the Run that holds the reservation; the
loop of `_sweep` is one action per branch; `Confirm` inserts a point behind the current one
and `Climb` appends the next rung, as the code does to the list it walks. `Decide` is
`suite_policy.decide`, with the metrics reduced to the objective's verdict and to whether
success rate and throughput both fell. `Interrupt` ends a suite between two points or
within one. One Core at a time is modelled: the guide says that the budget is no quota
across Cores. The memory floor, the smoke test and a service that is not ready are one
action, `StartBlocked`. The package is `short`: the host's budget accepts no other.

### Investigate

A step is what runs between two awaits. `pc` is where `execute` is, `run` where the child's
`prompt` is, `active` and `aborted` the two tables of `InvestigateScheduler`, `collab` the slots of
`HostStatusStore`, `dialog` the one selector of the terminal. `cancelled` and `limited` are the flags
of `execute`; `stopped` says that the child's current run was told to stop, which is only possible
while there is one (`AbortChildren`): an abort before the child exists leaves the flags, and one that
comes while `prompt` still checks credentials (`Checked`, agent-session.ts:1188) is lost. `Release`
clears what is local to `execute`. A request of a child in `Failing` may fail or fill the context
(`RequestFails`): then the run waits for a retry (`retry`), of which there are `MaxRetries` in a row,
tries to compact (`full`), which the child is not allowed (`CompactionRefused`; the abort at
subagent.ts:270 finds no run to end), or is over. In all of these `child.prompt` resolves as it does after
an answer, so `execute` reports the run as done (`Resume`). `AskUser` puts a question on the screen in place
of the one that is there, as `showExtensionSelector` does (interactive-mode.ts:2220-2259), and `AbortTurn`
needs the editor, which has the focus only while no dialog is shown.

A turn of a child makes one tool call. More calls in a turn are prepared one after the other by the
agent library and only reach the tool limit sooner. That library is external: it awaits the hook and
the tool it calls, ends a turn and the run when aborted, and does not count a blocked call as a tool
result. The intake of a child's staged evidence is in `CoreSession`. After `Shutdown` the process
exits; the model lets the calls run on.

### AgentRun

`pc` is where each prompt is: in a compaction before it, `ready` for the agent, in the agent, after
it, in the wait of a retry, or in a compaction after a run. There are two kinds of compaction before
a prompt: `before` when the context is over the threshold, and `recover` when the last reply was cut
short and nothing has recovered from it, which happens when a session is resumed after such a reply. The
second counts as the one recovery, and when it has saved, the terminal queues what was typed meanwhile
instead of prompting it, because `compaction_end` says that a retry will follow. There are several prompts
because the terminal calls `session.prompt` from two places: the main loop, and `flushCompactionQueue`,
which the listener of `compaction_end` starts without waiting for it. `active` is `_isAgentRunActive`,
`auto` says whose `_autoCompactionAbortController` is set, `manual` is `compact()`, `steer`, `follow` and
`held` are the queues, `ui` the handler that Escape has and the two that were saved. `full` abstracts
token counts: the next reply may be over the threshold or not, and a saved compaction clears it. `last` is
the stop reason of the last reply of the context, as far as the code tells them apart; "length" is a
reply that `isRecoverableLength` accepts.

A step is what runs between two awaits. `CompactEnds`, `SummaryEnds` and `BeforeEnds` contain what the
listener of `compaction_end` does before it first waits, because the code emits the event from
within. `GoOn` is the look at the queues with which a run ends or continues. The agent library is
external: it polls the queues after each reply and each batch of tools, refuses a prompt while it
runs, and an abort makes the reply that is under way end as aborted. `Quiet` keeps the user and the
other prompts waiting while a prompt passes the awaits between the compaction and the agent
(credentials, handlers of extensions), of which most are none. `Calm` keeps the user from typing and
from `/compact` during the compaction before a prompt; `EarlySpec` lets the user type then.

Texts queued are sets: their order within one queue is not modelled. Left out are inputs typed before
the main loop listens, shell commands, which are disabled, extension commands, missing credentials,
replacement of the session, the joining of several texts in the editor, and `/compact` while another
`/compact` is at work.

### SessionTree

Entries are numbered in the order in which they are created, which is the order of the file. `mem`,
`leaf` and `next` are `byId`, `leafId` and the length of `fileEntries`; `disk`, `file`, `flushed` and
`torn` say what a load of the file would give. An entry names its ancestors, the entry it refers to and,
for a summary, the messages it was written from, so that what a text may tell is known without the
text. `Path`, `Shown`, `CutPoints`, `TurnStart`, `Dropped` and `CompactionOf` are the pure functions of
the code. Token counts are left out: `BeginCompaction` tries every cut that some counts would give.
`Persist` is `_persist`: nothing is written before the first reply, then everything at once, then line
by line; `TearLine` is a write that fails half way, after which the next line is glued to the rest.
`Reopen` is the end of the process and the load of the file.

Nothing keeps the user from compacting or navigating while a summary is being written
(agent-session.ts:2901), nor does the model: a compaction remembers the path it was written for
(`job.of`), and one that is saved elsewhere has the type `stray` (`Kind`). The code tells a stray
from no other compaction; the properties do, and say what holds of the branches without one.

## 3. Runs

| Run | Instance | Shows |
|---|---|---|
| `ledger` | 2 Cores, 2 Runs, 2 contents | rows point to whole files; callers were told what the ledger says; a verdict is final; whoever opens the store settles what any handler left running; the ledger implements `RunLifecycle`; a decided outcome is recorded unless its Core dies or an exception escapes |
| `session` | 1 tool call with its scope check, 2 evidence files, 1 crash | own answers, evidence kept, no lost wake-up; implements `CallPromise`; aborted calls settle and sessions end even if a handler never returns; evidence leaves the queue if handlers do |
| `session_guard_misdelivers` | 2 tool calls | **violation**: after the cancel guard a late line settles the next request |
| `plan_lifecycle` | 3 Cores, 2 plans, 4 payloads | what a freeze returned and what was launched stay the stored plan; implements `PlanPromise`, by which a frozen plan is valid and final |
| `service_lifecycle` | 2 Cores, 1 service, 1 port, 1 poll | what runs is recorded or lost in one window; ready is earned; a confirmed stop is true; only an overtaken handler undoes a stop; handlers return |
| `service_copies` | the same | **violation**: `inspect_service get` writes an old copy back over what another Core has stored |
| `suite_sweep` | 4 profiles, budget for one or two suites | both budgets are kept, stops are final, failures are confirmed once and at once |
| `investigate` | 3 calls, 2 slots, limits of 3 turns and 2 tools, one child asks and has a model that may fail, 1 retry | slots are neither leaked nor shared; answers are true; what is stopped settles |
| `agent_run` | 3 texts, 1 flush at a time, 1 retry, 1 reply with tools | while nobody types during the compaction before a prompt, an idle session has no run; no text is lost or said twice; Escape stops what is going on; runs end; what is queued is said |
| `agent_run_early` | the same, and the user types during the compaction before a prompt | **violation**: two prompts run at once, and the session calls itself idle while one is at work |
| `session_tree` | 5 entries (replies, their tools, labels), 1 move, 1 failed write | what compaction drops was summarised and no tool result is without its call, except through a stray; the file lacks what a failed write cost and no more; a fork keeps its path |
| `tree_forgets` | 5 entries, 2 compactions | **violation**: the second compaction drops the summary of the first |

### Why the bounds suffice

The hazards involve pairs: two Cores on one Run or one record, two calls on one client. Each instance has
one more of the entity than a single conflict needs where the state space allows it (three Cores on a plan,
so that one can act between the SELECT and the UPDATE of two others). Services share nothing but ports, and
a stranger may hold a port whether it is a service or not, so one service shows what two would. One poll
suffices because the polls of `_wait_ready` do the same thing each time. Four payloads let a plan be
created, judged twice and frozen. In `suite_sweep` a ladder has three rungs and a confirmation of each, a
listed profile meets every reason to skip a point, and the budget admits one suite of one profile and two of
another. In `investigate` two calls share the slots and the third finds none; one child uses all kinds of
commands, one only concludes, one has its credentials checked, so that each kind of abort meets each stage
of another call; the tool limit is below the turn limit, as in the code, and a child may conclude below
both. Only one of its children asks, because two refute `StoppedSettles` (see below); the same child has the
model that may fail, so that failures meet questions. In `agent_run` three texts are what it takes to fill
the context, to prompt, and to type into what follows; one retry can succeed, fail for good or be cancelled;
a second flush cannot start before the first has reached the agent. `MaxCalls` bounds the replies that call
tools, which are all alike. Five entries are what a compaction of a compaction needs, with a cut within a
turn; the one move is a navigation, a restart or a fork, before, after or during a summary. The theorems
lift what they state to any bound.

Symmetry is used in two runs only, over sets whose elements are compared for equality:
`plan_lifecycle`, whose refinement is a property of single steps, and `agent_run_early`.

Deadlock is checked except where identifiers, ports, calls, entries, texts or the experiment budget
run out.

### Fairness, and why the code justifies it

- `RunLedger`: a handler that has decided its outcome takes its SQL steps, unless one of them raises or
  its Core dies. Nothing makes a body end, a session start or a Core die.
- `CoreSession`: the event loop delivers lines, exits and timers; the server's pump polls its
  queue; an intake step that can run runs. Handlers are not assumed to end, except in
  `EvidenceSettles`, whose handlers only write files and rows. `stop()` is not assumed to
  reach its kill.
- `ServiceLifecycle`: every Docker call has a time limit and the readiness loop a deadline, so
  a handler that can step does. Docker, users and the engine are assumed nothing of.
- `Investigate`: the event loop resumes a call that can go on, the user answers a question that
  is on the screen, a request or a command that was aborted ends, the wait before a retry ends, and a
  compaction is refused at once. A model or a command that
  nobody stopped may hang for ever.
- `AgentRun`: requests have time limits, tools and waits end, and the event loop resumes what it can
  resume. The user owes nothing. `RunEnds` and `QueuedIsSaid` except
  a cancelled retry, because a user who cancels every retry with a follow-up in the queue keeps the run
  going for ever.
- `PlanLifecycle`, `SuiteSweep` and `SessionTree`: safety only.

### What the violations say

1. `onLine` does not compare `request_id`, and the cancel guard frees the client without
   marking it dead. A result that was already in the pipe then settles the next request
   with success, while that request's own Run does not exist.
2. When a compaction splits the very turn at which the previous one began to keep, there is no history
   to summarise, and `compact()` hands the previous summary to nobody. What only it told is then in
   no summary that the model sees.
3. `prompt()` waits for a compaction before it marks the session as active. A text typed meanwhile
   is held back, and the end of that compaction prompts it beside the first. The agent refuses one
   of the two, whose `finally` clears the mark of the other: the session is idle by its own account
   and a run is under way. (During that compaction itself `isIdle` is true as well, although its
   comment says "no auto-compaction"; `IdleHasNoRun` does not repeat that claim.)
4. `inspect_service get` is documented as read-only, yet it stores the whole payload it read before it
   asked Docker. When another Core has recorded a stop or a new port in between, that is undone.

Disagreements met on the way, without a run of their own: `mark_interrupted_runs` is documented to touch
the Runs of a dead Core (store.py:286) and touches every running Run, so a second Core interrupts what the
first executes; a second Core's sweep can also settle a Run in between `finish_run`'s two statements, so
that one Run is settled twice (`RunLifecycle` has both); an exception that `evidence_ingest` does not catch
leaves its Run running until some Core starts again; a record that says ready is measured without looking
at the container, whose port may belong to a stranger by then; two
investigations that ask at the same time lose the first question, because the second dialog replaces
it without settling it, so its child, its slot and the aborted turn wait for ever (`StoppedSettles` with
`Asked = {i1, i2}`); an investigation whose model failed for good, or whose context overflowed, is
reported as done; a navigation while a summary is being written puts it on another branch, where it
hides messages that it does not tell of (a stray of `SessionTree`); a first write of a session file that
fails is never made up for, because `wx` refuses the file it has left (session-manager.ts:1030); a fork
drops the label at which a compaction began to keep, and what was kept with it; a retry that is
cancelled with a follow-up in the queue is followed by another request at once; an abort while a child's
credentials are checked is lost; a declined confirmation shows an
investigation as failed that goes on; a child that concludes in its last turn is reported as cut
short by the limit; the
message of `onExit` says that nothing was written although the Run may be committed; an
abort that fires during a confirmation dialog never reaches the Core; a container is lost if
its handler is interrupted between `docker run` and the record; `recover` never restores
ready; a point that is skipped for lack of budget may be followed by a cheaper one that is
sent, although the benchmark contract says that an exhausted budget sends no new point.

## 4. Proofs

Every theorem holds for all values of the constants. The proofs assume only the named
assumptions of each module: disjointness of identifier sets, natural bounds, the shape of
a profile.

**RunLedgerProofs.** `LedgerInv` adds to the type invariant that a handler owns a Run it has
not answered (`OwnsUnsettled`), that two Cores never own the same Run (`OwnersDiffer`), and
that a file is whole before its row is due (`FilesFirst`). `ArtifactsWhole` alone is not
inductive: the INSERT relies on what the rename did. `ReplyMatchesLedger` and
`VerdictIsFinal` need `OwnersDiffer`, because only the owner may write a verdict, and another Core
only ever turns running into interrupted. `NoOrphanRun` needs that a Core at rest owns nothing
(`IdleOwnsNothing`): what a handler gives up is then in `left`, and `Open` empties `left` because it
leaves nothing running. `ImplementsLifecycle` holds step by step: a handler that answers
releases exactly its own Run (`ReleasesOwn`). All of it for any number of Cores.

**CoreSessionProofs.** Four layers, each inductive on the one below. `TypeInv`: the pending request is of a call
that waits (`PendingIsPending`) and only the head of the intake queue is past its turn
(`IntakeIsSerial`); otherwise a settled call could shorten an empty queue. `IntakeInv`: the staged file is
there while its handler works, and a handler that has succeeded has committed (`StagedAtWork`), whence
`EvidenceKept` and, with what `flushIdle` wakes, `NoLostWakeup`. `FlightInv`: of a request line, a request
being served and a reply not yet read there is at most one between the two processes, and it is of the
pending call (`OneInFlight`). On it rest `OwnAnswer` and `SuccessIsCommitted`, since `onLine` itself
compares nothing. The cancel guard is the one step that breaks it, which is why both are claimed only
before it goes off; `session_guard_misdelivers` shows what happens after. `PromiseInv` adds how the Run of a
call stands while its request travels: not opened before the request is received (`RunsOnce`), at the stage
of its handler (`RunAtWork`), and as the reply says, even after the guard (`RepliesHold`), because the
killed Core leaves no handler (`GuardIsGone`). Every step then maps to one of `CallPromise` or to a stutter
(`CallsKeepPromise`): `Serve` to none, `OpenRun` to `Open`, `CommitRun` to `Commit`, the guard to `Break`,
and whatever settles a promise to `Answer`. `SuccessIsCommitted` is a consequence and has no run of its own.

**PlanLifecycleProofs.** `PlanInv` relates a handler's `base` and `copy` to what it may do next
(`ReadSomething`, `EvaluatesDraft`, `WritesJudged`, `ReplaysFrozen`). The key is that an UPDATE
succeeds only on the very draft that was judged, hence never on a frozen plan. From it follow
`ToldIsStored`, `LaunchedAsFrozen` and, step by step, `ImplementsPromise`.
Type correctness is part of it and proved only; no run repeats it.

**ServiceLifecycleProofs.** `ServiceInv` says what a handler holds (`HandlersHold`), that a
record's container exists (`RecordsAreReal`), that a service which is being started belongs to one handler
(`StartsAlone`) and that a container that ever ran is recorded, about to be, or lost (`RanIsAccounted`):
`RunningIsRecorded`. Two lemmas sum up what a step does to one container (`ContainerSteps`) and to
one record (`HolderSteps`, `RowSteps`); each further theorem adds its conjuncts to those. `ReadyInv`: a
record or a copy that says ready is of a service whose container has answered or exited, because
as long as it holds its port nobody else answers there (`AnswersAreEarned`), whence `ReadyIsEarned`.
`StopInv`: from `InspectStopped` on, a handler that saw its container exited may say so, since a
container that runs again was started by hand (`Excused`), whence `ConfirmedStopHolds`.
`CopiesAreStored`: a copy differs from the stored record only if its handler was overtaken, whence
`StopsAreUndoneByOldCopies`. All of it for any number of Cores.

**SuiteSweepProofs.** The list of points grows while it is walked, so the type invariant needs
lemmas on insertion and append (`InsertAtType`, `GrowthType`). `SweepInv` adds `Reserved`: what
all suites have sent, plus what the running one may still send, is within the reservations,
which are within the host's budget. `ExperimentIsKept` is not inductive without it. `StopIsKept` needs that a
scenario in none of the stop sets has no row that stops it (`HaltsAreNoted`). `FailureIsConfirmed` needs that
an insertion never moves a point already passed (`GrowthKeeps`, `InsertAtElements`) and that the last
measured row of a scenario is the row to be confirmed (`PreviousIsLast`); this assumes that `NoRow` is no
row (`NoRowAssumption`).

**InvestigateProofs.** `ShownInv` adds to the types that a run is under way only while `execute` awaits
`prompt` (`RunsWhilePrompting`) and that the question on the screen is one its child still waits for
(`QuestionIsWaitedFor`). Without them `SettledIsShown` (the header never shows a call that is over as
running) is not inductive: an answer sets its slot to running. `SlotPerInvestigation` is inductive
with `ShownInv`; the capacity needs two facts about cardinalities (`FewerSlots`, `OneMoreSlot`).
`ReplyIsTrue` follows from `AnswerInv`: a limit is noted only when it was reached (`LimitIsReached`), a
child that was stopped has a reason (`StopHasReason`), an abort stays noted (`AbortIsKept`), and before the
run nothing has been concluded (`NothingYet`); failed requests, retries and refused compactions disturb none
of them (`FailureAnswers`). The limits are assumed positive.

**AgentRunProofs.** `Invariant` joins four facts. `Places` says which stages exclude each other: at most one
prompt is under way (`Alone`), the run flag is set while one is in its run (`BusyIsActive`), the agent,
the automatic compaction and the manual one belong to certain stages (`AgentIsRun`, `AutoIsStage`,
`CommandWaits`), and texts are held or queued only while somebody will look at them (`HeldWaits`,
`QueueWaits`). `IdleHasNoRun` follows from it and is not inductive without: whether a run that ends leaves a
queue behind depends on where the others are. `UiFits` adds to `EscapeFits` what the saved handlers are, so
that an event restores the right one; `Texts` says the same as `KeptOnce` with the carried text of each
prompt told apart, so that a step of one prompt does not touch another's. All for any number of texts,
prompts and retries.

**SessionTreeProofs.** `SavedInv` strengthens `SavedExceptFailed`: a torn line is a failure that has not had
its second victim yet, so it counts as one missing entry in advance. With it each failure after the first
write costs at most two entries, and a failed first write everything from some entry on (`Beginning`), for
any number of entries, moves and failures. A first layer, `ChainInv`,
says that the parent ids chain: an entry ends the same path wherever it is met (`PathUp`), before and after
an append, a fork or a load that cannot read some lines (`GrownPaths`, `PathOfFork`, `PathOfPart`). From it
follows `ForkKeeps`. `ToldInv` adds that each compaction tells what it took off its own path, unless an
earlier one of that path hid it already, and so does the summary still being written (`JobTold`). What is
hidden was then told by the first compaction that hides it (`HiddenIsTold`), which exists because the
natural numbers are well-founded (`OldestIs`). `PairedInv` adds that, while no write has failed, only
metadata comes between a tool call and its result, and that of the entries from a cut on, saved or about to
be, each result has a call before it. Nothing is assumed of when the user navigates: a compaction that lands
on the path it was written for is a part of it (`PathInPlace`, `JobLands`, `CutLands`), and one that lands
elsewhere is a stray, of which both properties make an exception.

Only model-checked: liveness (`RunEnds`, `QueuedIsSaid`, `OutcomeIsRecorded`, `AbortedCallSettles`,
`SessionEnds`, `EvidenceSettles`, `HandlersReturn`, `StoppedSettles`), which the prover does not reach.
Every invariant and every action property of a passing run is a theorem.

## 5. Not modelled

`PROJECT.json` lists every component with its status. Left aside for good: pure data
transformations (adapters, parsing, statistics, redaction, report layout), display, the
installer and scripts, and of the agent runtime what neither `AgentRun` nor `SessionTree` has.
Abstracted in what is modelled: the contents of messages, plans, profiles and metrics; SQLite
itself (a statement with its commit is one step); the bytes that a power failure may lose
between `write` and the disk.

Worth a module, and not modelled: the approval policy and its dialogs (`harness/extension.ts`); the host
probe with its child processes (`inspect_environment`, process.py); `execute_workload` of benchmark.py
with what it stores of a killed measurement; the claims of a report (reports.py); the file locks of
`settings-manager.ts` and `auth-storage.ts`. None of them shares state with the modules above except
through the ledger.

## 6. Plan

Done: ledger, session of the Core, plans, services, suites, investigations, sessions of the agent and its
runs. Next, in this order: `Approval`, on the dialog of `Investigate`; `HostProbe`; `Measure`, within
`ServiceLifecycle`; `SettingsFile`.

Of the theorems, what is left are refinements like that of `CallPromise`: slots and answers of
`Investigate`, texts of `AgentRun`.
