# pi-cron in TLA+

A model of the pi-cron daemon (`rust/src`): its SQLite store, its scheduler, its
connection handlers, its process, its runners and its clients, checked with TLC on small
instances and proved, in part, with TLAPS for every instance.

## 1. The system

pi-cron runs prompts and protocol calls on cron schedules. A TypeScript extension talks
to a Rust daemon over a Unix socket; the daemon keeps jobs and their occurrences in
SQLite, sleeps until the nearest job is due, claims the occurrence, and runs the action
in a child process, one at a time.

| Component | State | Operations | Talks to |
|---|---|---|---|
| Repository (`repository.rs`) | tables `jobs`, `occurrences` | add, replace, delete, set_enabled, recalculate_all, advance, nearest, claim, finish, skip_interrupted, list, get, history | behind one async mutex, used by all |
| Scheduler (`scheduler.rs`) | `notify` permit, cancellation token, execution mutex, `pending`, `drained`, loop task, one task per run | start, run_loop/wake, run_now, enqueue/execute, stop | store, runner |
| Service (`service.rs`) | none | dispatch of `add edit delete enable disable run_now list get ping`, validation | store, scheduler, runner |
| Socket (`socket.rs`) | listener, `JoinSet` of handlers, socket file | serve, handle, respond | service, token |
| Daemon (`daemon.rs`) | lock file, signal task | run | all of the above |
| Runner host (`runner.rs`) | child, its process group, two drains | validate, execute, invoke, kill_group | runner program |
| Schedule (`schedule.rs`) | none | next_occurrence (croner, chrono-tz) | |
| Runner program (`runner/*.ts`) | one request, one answer | chat, protocol, validate | Pi SDK |
| Client (`src/client.ts`) | none | request, send, startDaemon | socket |
| Extension (`extension.ts`, `index.ts`) | dialogue | /cron commands | client |
| Paths (`paths.rs`, `src/paths.ts`) | environment | where the store, the socket and the lock are | daemon, client |
| Main, install script | none | | |

What is hard in it:

* **Interleaving.** The store's mutex is the only lock; between two stretches under it the
  loop, the handlers and the execution tasks interleave freely. `wake` reads the clock
  before the lock, a request commits before its `notify`, a run is claimed before it is
  enqueued, and an occurrence waits behind the gate while its job is edited or deleted.
* **Failure.** Every SQL statement outside `delete` commits by itself, so a kill or a
  failing statement leaves `wake` and `finish` half done. `accept` failing ends the daemon
  and aborts the handlers. Runners are sessions of their own and survive a kill.
* **Ordering and shutdown.** A signal cancels the token; `serve` joins its handlers, `stop`
  joins the loop and waits on `pending` with a `Notified` future.
* **Time.** The clock may be set, a slot may come up again, a late wake must not catch up.

What makes each component correct:

* Repository: a scheduled slot is never claimed twice; a row belongs to its claim until it
  is finished; the history is bounded; a killed method leaves a store that start repairs.
* Scheduler: every claim has somebody who will finish it; one run at a time; the loop is
  armed for the nearest job; no backlog; the drain waits for all runs and ends.
* Service and socket: every mutation re-arms the loop; no request is lost in the drain; a
  waiting client is answered.
* Daemon: recovery settles what the last process left; a drained daemon leaves nothing open.
* Runner host: every invocation ends, nothing of its group lives on, and only a whole answer
  counts.
* Client: it finds the daemon or starts one, and no request is executed twice.
* Paths: client and daemon agree on the socket, and one store has one daemon.

## 2. Modules

There are four models, each of the part of the system its name says.

**The daemon.** `Daemon` EXTENDS `Service` EXTENDS `Scheduler` EXTENDS `Repository`.

* **`Repository`**: the store as a value `d` with `d.jobs`, `d.occ`, `d.seq` (AUTOINCREMENT)
  and `d.adds` (numbers the incarnations of a job id), and one pure operator per method.
  `FinishPrefixes` are the stores `finish` leaves when it stops between its statements.
  `NextOccurrence` stands for croner, with what the code relies on as `CronAssumption`:
  strictly later, and matches at least a minute apart.
* **`Scheduler`**: variables for the store, the clock and every field of the struct.
  `loop.pc` is the place of `run_loop`/`wake`: *plan* (read nearest, choose the delay),
  *sleep* (the `select!`), *wake* (clock read, store not locked yet), *skip* (a missed
  occurrence claimed, not finished yet). `task[i]` is the snapshot of occurrence `i` and how
  far its run is. Each stretch of code under the store's mutex is one action: claim, advance
  and notify are one (`WakeClaim`); `run_now`'s claim and its enqueue are two.
* **`Service`**: `handler[h]`, from accept to reply. A request is read, parsed and validated
  before it locks the store, so all of this is one stretch that ends in a commit or in a
  reply that changes nothing. `notify` is a step of its own.
* **`Daemon`**: `main` (where `daemon::run` is, or how it ended), mishaps, time, the
  next-state relation, fairness and the properties. `tainted` says that a store statement
  or accept failed under the present process; some properties except such a process and say so.
* **`Occurrences`**: what the daemon promises, without jobs, clocks, tasks or processes: a
  ledger in which ids are given in order and once, a claim has at most one effect, effects
  of a process begin one at a time, and a finished row never changes until it is forgotten.
  **`Ledger`** maps the daemon to it: `RowStatus` from the table, `RunEffect` from the tasks.

**One invocation of a runner.** **`Runner`** is `invoke` of `runner.rs`, one action per step
(`host.pc`: *spawn*, *write* the request, *select*, *reap* after a kill, *joinOut*, *joinErr*),
its two drains, and the three pipes with a capacity. The runner and its descendants are the
environment: they may do anything a process can do, at any time. Sizes are counted in units.
`Scheduler` sees all of this as `ExecStart`, `ExecRefused` and `ExecEnd`.

**The way of a call.** **`Client`** EXTENDS **`Socket`**. `Socket` has several daemon processes
at the same time, the lock file, the socket file, the listener with its backlog, and for each
call its connection with the handler at the other end. `Client` is `request`, `send` and
`startDaemon` of each call over it. What a request does is one step here (`Commit`, `Reject`);
`Service` has its details.

**The names.** **`Paths`**: the functions of `paths.rs` and `src/paths.ts` on environments in
which a variable is unset, empty or set, and daemons that start behind the lock their
environment names.

**`MCDaemon`**, **`MCRunner`**: the instances (`Client` and `Paths` need no definitions of their
own). **`StoreProofs`**, **`DaemonProofs`**, **`LedgerProofs`**, **`DrainProofs`**,
**`ScheduleProofs`**, each over the one before it, **`RunnerProofs`**, **`ClientProofs`** and the
end of `Paths`: the theorems.

Abstractions. Names, prompts, results, error texts and stamps are left out. The execution
mutex is FIFO in tokio and is granted in any order here, which adds behaviours. In `Daemon`
a reply is written in no time and the singleton lock is taken as: one daemon at a time; both
are what `Socket` and `Client` are about. In `Runner` a timer fires at any time after it is
set, and process numbers are not reused. In `Client` a ping is one step that finds a listener
or does not; a call has one connection at a time; a client may stall for ever while it waits;
and the 7.5 s of `startDaemon` are long enough for a daemon that finds the lock free
(`PingDeadline`), which the code assumes too. A daemon a client starts is named after the
call; it is not started a second time, the daemons of service managers are. Definitions
commented as mutated forms are not part of the model; they show which defect each property
would catch.

## 3. Runs

A tick is one minute, in `timer` half a minute (so that a wake can be late and not yet
missed). A schedule is its period in ticks. `MissedAfter` and `TimerCap` are the code's
60 s; `IdleTimer` (24 h) only needs to be longer than the run. `HistoryLimit` stands for
100: the code only compares a count of rows with it, and one (two in `claim_backs_effect`)
is the limit that a short run can exceed.

| Run | Bounds | Question |
|---|---|---|
| `drain` | 1 job, 2 handlers, 2 occurrences, 2 minutes, 1 signal | gate, counter, drain and its wake-up under all races of two clients and the loop; refinement of the ledger |
| `history` | 1 job added twice, 1 handler, 3 occurrences, limit 1, 1 clock step | rows of runs, slots across edits, deletion, adding anew and clock steps, wakes whose slot is taken already |
| `timer` | 2 jobs, schedules of 1 and 2 minutes, 1 occurrence, 4 half minutes, 1 clock step | lost wake-ups, cap of the timer, lateness, catch-up |
| `faults` | 1 job, 2 occurrences, 2 minutes, 1 crash, 1 failing statement or accept | owners of claims, half-done methods, recovery; refinement of the ledger |
| `liveness_loop` | 1 job, 2 occurrences, 2 minutes, no signal | due jobs are taken, claims end |
| `liveness_drain` | 1 job, 2 occurrences, 1 minute, 1 signal | the drain ends, clients are answered |
| `runner` | 1 descendant, pipes of 2 units, requests of 2, 3 and 4 with limit 3, 3 units of output with limit 1 | what outlives an invocation, what counts as an answer, whether it ends |
| `client` | 2 calls, 1 service manager, 1 signal, failure or crash | the socket file, executed once, autostart, the drain with a stalled client |

Two occurrences are enough for one run to wait behind another, which is what the gate, the
counter, the orphan cleanup and the drain are about (`timer` has one, since its properties are
about the loop before it claims; a wake whose slot is refused is met in `history`); three with a limit of one let a claim
be pruned by newer ones. `history` and `timer` have a clock step, because a slot can come
up again, and a computed delay be wrong, only then. Two minutes allow a slot to be taken on
time and another one late (missed). `Room` keeps an id free for each claim on its way, so that
the bound does not stop the loop between its steps. In `runner` a request may fit into the pipe,
not fit, or be too large, an answer may be within the limit or beyond it, and one descendant
can stay in the group, leave it, and hold each pipe alone. In `client` three daemons meet at
the lock, and one trouble lets a daemon go while another comes.

The deadlock check is on for the daemon, which can always be started again when it is down.
It is off where the system really stops: an invocation returns once, and a call is made once.

What the properties say, in one line each (the modules state them in full):
`NoAbandonedClaim` a claimed row has an owner in this process; `RunKeepsItsRow` a run finds
its own claimed row, or the row was deleted with its job or pruned; `NoDuplicateRun` no slot
is run twice unless the clock was set back *and* the row that would refuse it is gone;
`HistoryBounded`; `SerialGate`; `PendingCount`; `DrainIsNotified` a `stop` that waits is
notified, or has a run to wait for, or the task about to notify it; `StoppedClean` after a
drain on a signal nothing is open; `ImplementsLedger` every step is one of the abstract ledger; `ArmedTimer` a
sleeping loop with no wake-up on its way wakes in time for every job; `NoCatchUp`; the
liveness of `DueIsTaken`, `ClaimsTerminate`, `DrainEnds` and `RunNowAnswered`. Of a runner:
`GroupGone` none of its group outlives a return; `AnswerIsWhole` an answer is taken if and
only if it is all that was written, within the limit, and the leader succeeded;
`EndsUnlessHeld` it ends unless its stdin is full and unread or a process outside the group
keeps a pipe. Of the calls: `FileLeadsToListener` the socket file leads to the one daemon that
listens; `CommittedOnce` a request is executed at most once and the client's verdict fits;
`AutostartWorks`; `DrainsUnlessUnread` a drain ends unless a client leaves a large answer unread.

### What the documents say and the code does not keep

Four runs end in a counterexample, each to a sentence of the documents.

* `claim_backs_effect` ("Claims are persisted before effects and always terminalized",
  `README.md:97`): two runs are queued, the job is deleted (its claimed rows stay, as
  `delete` intends), the first run finishes, and the cleanup of `finish` removes the claim
  of the second one too. That run still executes, and then its `finish` fails.
* `effects_serialized` ("Execution is globally serialized", `docs/compatibility.md:9`): after
  a kill the old runner works on while the restarted daemon starts the next one.
* `runner_timeout` ("Validation has a 60-second timeout. Execution defaults to 15 minutes",
  `docs/ipc-v1.md:41`): the request is written before the time limit is set, so a runner that
  does not read a request larger than its pipe is never timed out, and holds the gate.
* `paths` ("A single-instance lock is acquired before SQLite is opened", `README.md:94`): the
  lock lies where `XDG_RUNTIME_DIR` says and the database where `XDG_STATE_HOME` says, so a
  daemon of a session and one started without `XDG_RUNTIME_DIR` open the same database.

A smaller one has no run: `docs/compatibility.md:11` says "each job retains at most 100 history
rows", but `skip_interrupted` turns claims into history rows without pruning, so a job may
have more until its next finish, by as many as it had open claims. `HistoryBounded` excepts a
crash for this reason, and nothing bounds the excess.

The invariants above are stated so that they hold with these behaviours: `RunKeepsItsRow`
names the two ways a row may go (its count of newer claims is over all jobs, which with several
jobs allows a little more than pruning does), `SerialGate` is about the runs of one process,
`EndsUnlessHeld` names the ways an invocation may hang.

### Fairness

`FairSpec` of `Daemon` adds to `Spec`: weak fairness of the loop's work, of `run` and `stop`, of
each task and of each handler, because tokio polls every ready task; strong fairness of the
expired timer, because `select!` polls its ready branches in random order, so notifies
cannot win over it for ever. Clients, signals, restarts, time and store faults are
not assumed to happen. Two parts of it are not facts of the code and are looked into by the
other models: that a runner ends, which `Runner` shows but for the two cases of
`EndsUnlessHeld`, and that a reply is written, which `Client` shows but for the case of
`DrainsUnlessUnread`.

`FairSpec` of `Runner`: weak fairness of the invocation and of its two drains (the runtime
polls them), nothing of the runner. `FairSpec` of `Client`: weak fairness of each daemon's main
task, of each handler, and of each client that has not stalled; nothing of signals, crashes,
service managers and stalls.

## 4. Proofs

All theorems hold for every number of jobs, handlers, occurrences, descendants, clients and
mishaps, and rest on the named assumptions of the modules: bounds are naturals, NULL is no
value of a table, and croner returns a time that is strictly later, with matches at least a
minute apart. The last two are what the theorems about slots and wakes rest on.

`StoreProofs` proves what the operators of `Repository` return: each keeps the store well
typed, and each goes from one table of occurrences to the next in one of five ways: as it was
(`RowsKeep`), one new claim under the next id (`RowsNew`), one claim settled while only rows
that may go do go (`RowsSettle`), the finished rows of a job forgotten (`RowsForget`), every
claim skipped (`RowsRecover`). What it does to the jobs is said in the same way, and that
`finish` leaves at most `HistoryLimit` finished rows is a count over finite sets.

`DaemonProofs`: `TypeCorrect` (`Spec => []TypeOK`) and `ClaimsAreOwned`
(`Spec => []NoAbandonedClaim`). `NoAbandonedClaim` is not inductive alone. A new claim must not
land on a row that is already there (`IdsInOrder`: ids in use are at most `seq`), the loop that
finishes a missed occurrence must finish its own (`SkipOwned`), and a handler on its way from
claim to enqueue must hold a proper id (`HandlerOwns`). `IInv` is their conjunction with the
type invariant.

`LedgerProofs` first sorts the steps into sixteen kinds by what they do to the table, the tasks,
the gate, the counter and the runners (nothing, a claim, an enqueue, a begin, a finish, a count
down, an end of the process, ...); `StepKinds` says that every step is of one of them. The proofs
after it have one case per kind instead of one per action.

Then `OneAtATime` (`SerialGate`), `PendingIsExact` (`PendingCount`) and
`LedgerImplemented` (`Spec => ImplementsLedger`). `LInv` adds to `IInv`: nothing volatile lives
in a daemon that is down (`Idle`), the gate is held by exactly the run it names (`GateHeld`),
runners live only in a run or lost (`RunnersTied`), and the count. The refinement maps each kind of step to
one step of the ledger or a stutter; a crash in the middle of `finish` or `wake` maps to
`Abandon` with the statements that were committed.

`DrainProofs`: `DrainIsClean` (`Spec => StoppedClean`). `DInv` adds what each stage of the
drain has waited for: handlers between claim and enqueue keep the drain in *joining*
(`ClaimHeld`), a missed occurrence keeps the loop from its end (`MissHeld`), nobody handles
anything after the join (`Joined`), and `stop` is *done* only with the loop gone and the counter at zero
(`StopOrder`), from which the exact counter gives that no run is left (`DrainedIdle`).
`WaitIsAnswered` (`Spec => []DrainIsNotified`) is the safety part of `DrainEnds`: `stop` begins
to wait only after it read a counter above zero, the counter falls to zero only in a task that
is then about to notify, and a notice given from then on is not missed.

`ScheduleProofs`, on the kinds of step and on what a step does to the jobs:

* `RowsAreKept` (`RunKeepsItsRow`) and `SlotsRunOnce` (`NoDuplicateRun`). Once a run's row is
  gone nothing in the table tells whose it was, so the invariant relates *every* task, also one
  that is through, to its row or to the reason why it is gone (`RowsRemembered`). A deleted job
  may be added again under the same id, so a reason must not turn false: incarnations are
  numbered in the order of their inserts (`BornInOrder`), and the rows above an id only grow in
  number. That a slot does not come up again without a clock step needs that `next_at` is past
  every slot taken for the job and that no taken slot lies in the future (`SlotsBehind`). After
  a clock step the unique index still refuses a slot whose row is there, so a slot taken twice
  by one incarnation had its row pruned, which needs `HistoryLimit` claims in between.
  `RInv` is the conjunction, `RowsInductive` its theorem.
* `WakesWithoutBacklog` (`NoCatchUp`): an action property. A wake that missed its slot
  advances from the time it woke at; one that did not advances from the slot, which is itself
  a match of the schedule (`NextAtIsMatch`), so the next one is a minute on and past the wake.
* `HistoryStaysBounded` (`HistoryBounded`). Only recovery adds finished rows without pruning, so
  without a crash or a fault it must find no claim to skip: a process that met none of them
  comes down through the drain and leaves no claim (`RestClean`, from `DrainedIdle`), because
  only a fault leads to the error exit or taints a process (`Faulted`).
* `TimerIsArmed` (`ArmedTimer`): by actions, since the timer is of no kind. A plan reads the
  nearest job; while the loop sleeps, whatever stores an earlier `next_at` has a `notify`
  ahead of it or taints the process; a tick takes from the timer what it adds to the clock.

`RunnerProofs`: `InvocationTypes`, `GroupIsGone` (`GroupGone`), `WholeAnswer` (`AnswerIsWhole`).
The invariant says that members of the group have been born (`GroupBorn`), that none of them
lives before the spawn nor from the kill on (`GroupKilled`), that the leader is gone when its
exit status is used or the future was dropped (`LeaderGone`), that the drains begin after the
request is written (`DrainsLater`), that the end of a pipe is final (`EofIsFinal`), and that a
verdict at the end of stdout stays true (`Judgement`).

`ClientProofs`: `CallTypes`, `OneListener`, `ExecutedOnce`, `AutostartSound`. The invariant says
what a connection and its call tell about the execution of the request (`Requested`), that a
call starts its daemon between its two attempts and once (`StartsOne`), and what holds until the
first trouble (`Untroubled`: nobody stops, who holds the lock goes on, once a daemon gave up
somebody holds the lock, and a second attempt finds a listener).

`Paths`: `ClientFindsDaemon`: client and daemon agree on the socket in every environment in which
HOME is set and no variable is empty. With an empty one they do not: `||` of `paths.ts` takes it
for unset, `var_os` of `paths.rs` for set.

Model-checked only: liveness (`DueIsTaken`, `ClaimsTerminate`, `DrainEnds`, `RunNowAnswered`,
`EndsUnlessHeld`, `DrainsUnlessUnread`), which rests on fairness and ENABLED and is out of the
prover's reach. Every invariant and action property of a passing run is a theorem.

## 5. Not modelled

* croner's calendar (`schedule.rs`): a library's; `CronAssumption` states what is relied on.
* Text: `bound`, the syntax of ids, names and targets, and the wording of errors, except that
  an error may name ENOENT, which the client takes for a daemon that is away.
* The sizes of answers between the daemon and the client's 2 MiB.
* The runner program (`runner/*.ts`): `Runner` lets it do anything.
* The extension's dialogues and the generated bindings: no state of their own; that an edit
  overwrites what was changed since its dialogue was opened is listed as a hazard.
* File permissions, `main.rs`, the install script.

PROJECT.json lists each part with its reason.

## 6. Plan

What could come next: the safety parts of the other liveness properties (that whoever waits has
somebody who will wake it: a handler in `wait` its task, the loop its timer), and a `Daemon`
whose replies and runners are those of `Socket` and `Runner` instead of steps.
