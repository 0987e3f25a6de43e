# dsh-TUI: a verification project

dsh-TUI is a terminal client for coding agents. One process draws the screen,
keeps sessions, and drives one of several backends: an in-process kernel, the
Codex app-server (a child process that speaks JSON-RPC over its standard
streams) or Claude. Most of its 3250 files draw, format or test. What can go
wrong in a way a test hardly reaches is in the smaller part that survives
crashes of child processes, shares files with other dsh-TUI processes, and
decides to whom an answer belongs. This directory models that part in TLA+,
checks it with TLC and proves the core of it with TLAPS.

Paths below are relative to the repository root.

## 1. The system

### Components

| Component | Source | State it keeps | Operations | Modelled by |
|---|---|---|---|---|
| Session mount ledger | `src/sessionMounts.ts`, `src/dsh-adapter/session-mount-heartbeat.ts` | the ledger file (which process drives which session), the lock file, per process the claims (`ownMounts`), the reservations, the live agents | reserve, commit / release, publish (beat), prune, clear at teardown | `SessionMounts`, `MountLedger` |
| Codex hub: connection | `src/backends/codex/rpc/hub.ts`, `client.ts`, `transport.ts` | child process, connection, generation, restart attempt, timers, retainers, calls in flight | call, handshake, child exit, restart with back-off, retain / release, idle close, close | `CodexHub`, `HubContract` |
| Codex hub: routing | `src/backends/codex/rpc/hub.ts` | sinks, routes, known parents, lookups, queues of waiting messages, pending server requests | notification, server request, parent lookup, attach / detach, route, exit | `CodexRouting` |
| Codex session: rejoin | `src/backends/codex/session/session.ts`, `input.ts`, `approvals.ts`, `auth/external-tokens.ts` | rejoining, permanentlyLost, held-back events, prompts, input queue, credentials | connection lost / restored, resume, paging of missed turns, submit, server request, dispose | `CodexRejoin` |
| Codex session: input queue | `src/backends/codex/session/input.ts` | queue, started and steered inputs, active turn, cancel cause, force-close timer | submit (idle, queued, steer, `now`), follow-up, remove, cancel, interrupt, connection lost / restored | `CodexInput` |
| Prompts of a Codex session | `src/backends/codex/session/approvals.ts`, `src/channel/interaction.ts`, `permissions.ts`, `questions.ts` | pending requests of the hub, parked prompts, panel and questionnaire, links, timers | ask, answer, explain, time out, resolve elsewhere, turn or item ends, withdraw, switch, dispose | `CodexPrompts` |
| Session binding and switch | `src/dsh-adapter/channel/binding.ts`, `owner.ts`, `core/session-switch.ts` | bound session, generation, prepared candidates, adoption on the stack, claims | `/new`, `/resume`, rewind: veto, reserve, open, history, prepare, adopt, abandon; release; beat | `SessionSwitch` |
| Restart and handoff | `src/dsh-adapter/plugin.ts`, `src/update.ts`, `src/heldInputs.ts`, `src/handoffAck.ts` | the chain of processes, held-inputs files, unsettled handoffs, ownership of the alternate screen | `/restart`, kernel switch, exit, dispose, spawn, follow, adopt, recompose, resume | `Restart` |
| Input delivery within a process | `src/dsh-adapter/channel/input-delivery.ts`, `input-actions.ts` | what was typed while no session could take it | hold, flush, recall, give up | planned: `InputDelivery` |
| Claude session | `src/backends/claude/*` | SDK process, turn, interrupts, authentication | submit, interrupt, restart | planned |
| Update | `src/update.ts`, `src/updateHost.ts` | the installation and its record | install, acknowledge, roll back | planned |
| Plugin host, grants, storage | `src/dsh-adapter/plugin-host.ts`, ... | grant files, loaded plugins | grant, load, store | planned last |
| Kernel adapter, projections, lists, settings, usage, UI | `src/adapter`, `src/ink`, `src/screens`, ... | views and data | fold events, draw | not modelled |

`PROJECT.json` lists every component with its reason when it is left out.

### How they interact

* Processes of one user share a directory. `sessionMounts.ts` serialises its
  writes with a lock file and reads the ledger without it; a session is opened
  only after `reserve` answered yes, and a *beat* re-publishes what the process
  drives from time to time.
* A Codex session shares the hub with all sessions of its process that have the
  same settings. It calls the hub (`hub.call`, which awaits the handshake), and
  the hub calls it back through a *sink*: notification, server request,
  connection lost, connection restored. Nothing is concurrent within a process
  except by `await`; all the hazards are in what happens between an `await` and
  the code behind it, and in the child, which dies whenever it wants and whose
  last lines are still read after that.
* A session calls the channel back: prompts to show, what became of an input,
  which notices to print. A prompt passes four owners on its way to the user
  (hub, bridge, interaction link, panel) and each of them may let go of it.
* A channel binds one session at a time. A switch opens the next one beside
  it, claims its id in the ledger, and swaps only if nothing happened meanwhile.
* A process that restarts itself hands its queued inputs to the next one in a
  file, and the terminal's alternate screen through a pipe; it then follows its
  replacement until that one ends.

### What is hard

1. *Processes at once*: two processes that judge the same stale lock, that
   reserve the same session, that crash with the lock in hand.
2. *Generations*: JSON-RPC ids restart with each child, so an answer, a
   request or an exit of a dead child may be taken for one of the living.
3. *State across an await*: `connectionRestored` awaits resume, paging and
   credentials; the child may die at each, and what was true before is not
   true after.
4. *Budgets and timers*: back-off, handshake timeout, idle close, a lock that
   ages under its holder.
5. *Promises to the user*: an input is sent, run, or honestly dropped; an
   approval is shown, answered or refused, never left to hang.
6. *Order within one process*: the lines of one chunk of output are all taken
   before any code behind an `await` runs, so an answer may continue after the
   turn it speaks of has ended.
7. *Processes in sequence*: the old process dies, stalls or fails to spawn at
   every step of a handoff, and so does the new one.

`PROJECT.json` lists these hazards one by one, each at the line where it bites
and with the properties that would catch it.

### What makes each part correct

* ledger: no session is driven by two living processes, what a process drives
  is recorded under it, only a lock holder writes, a dead process's record goes;
* hub connection: one child at a time, an answer reaches the call it belongs
  to, every call settles, sinks hear the truth about the connection, a
  permanent loss is declared only when the budget is spent;
* hub routing: messages of a thread arrive in order, no open request is lost,
  only orphans are refused, every lookup ends;
* input queue: an input runs once, a dropped one never ran, a discarded one
  never will, a confirmed cancel is true, and none is left without an answer;
* prompts: the panel shows what is parked, the user is told what was sent, a
  request the server waits for is not forgotten;
* switch: no session leaks, an open session is claimed, no work is lost, every
  replaced session closes;
* restart: no input is lost or shown twice, no ready pass waits for nobody, the
  shell gets its own screen back;
* session: after a reconnect it is usable, nothing stays parked behind a dead
  session, prompts belong to the living child, no turn before the credentials.

## 2. Modules

| Module | What it is |
|---|---|
| `MountLedger` | abstract: one table from sessions to owners, changed by atomic claims and releases |
| `SessionMounts` | the lock-and-ledger protocol, one step per file-system call |
| `MCSessionMounts` | TLC instance |
| `SessionMounts_proofs` | type correctness, the inductive invariant and the refinement of `MountLedger` |
| `HubContract` | abstract: what the sinks of a hub may rely on (how the connection goes up, down and away, that they hear of it in that step, how calls are settled) |
| `CodexHub` | the hub's connection, calls and users |
| `MCCodexHub`, `CodexHub_proofs` | TLC instance; invariants and the refinement of `HubContract` |
| `CodexRejoin`, `MCCodexRejoin` | one session across connection losses; the hub appears as what `HubContract` leaves of it |
| `CodexRejoin_proofs` | type correctness, the invariants of the session's input queue, and what a reconnect promises after calm losses |
| `CodexRouting`, `MCCodexRouting` | threads, lookups and queues of the hub |
| `CodexRouting_proofs` | order, requests that survive a lookup, and refusals of orphans only |
| `CodexInput`, `MCCodexInput` | the input queue of a session against its server |
| `CodexInputInv` | the inductive invariants of `CodexInput` in named parts, and what a step of the session or of the server may do, for the proofs |
| `CodexInput_proofs` | type correctness, where an input is, the order of the turns, that an input runs once, that what was discarded stays so and what was dropped did not run, that none is forgotten, and what is left at rest |
| `CodexPrompts`, `MCCodexPrompts`, `CodexPrompts_proofs` | prompts from the server to the panel and back |
| `SessionSwitch`, `MCSessionSwitch`, `SessionSwitch_proofs` | replacing the bound session of a channel |
| `Restart`, `MCRestart`, `Restart_proofs` | a process that replaces itself |

Composition: `SessionMounts` contains the processes, the file system and the
opening of sessions in one module. `CodexHub` is composed with its sessions
through `HubContract`: `CodexHub` implements it (checked and proved), and the
hub part of `CodexRejoin` (`link`, `gen`, and the actions `ChildGone`,
`Connect`, `ShakeFails`, `Restored`, `GivenUp`) does what it allows.
`SessionSwitch` has of the ledger this process's own set, whose file is
`SessionMounts`; `CodexPrompts` leaves held and resent requests to
`CodexRejoin` and routes to `CodexRouting`; `CodexInput` leaves rejoining to
`CodexRejoin`, which has the queue in outline. The Codex modules share names
with `hub.ts` where they speak of the same variable.

A definition marked `Mistake:` is not part of any specification. It is a wrong
version of the definition below it, kept because a property that such a slip
does not break would say nothing.

### SessionMounts

Each process is at a step `pc` of one protocol run: `open` (create the lock
file with `wx`), `judge` and `remove` (a lock found in the way),
`reopen`, `token` (write who holds it), `check` (`stillHoldsLock`), `read`,
`reread`, `replace` (write a temporary file, rename it), `unlock` (is it still
mine?), `unlink`. `call` says what the run is for: a claim (reserve), a
publication, a release. State outside the processes is the lock file
`[by, token, aged]` and `ledger`; per process `own` (claims, `ownMounts`),
`agents` (driven sessions), `rsv` (reservations of open operations); `stored`
and `minted` tell old sessions from new. `Crash` may happen in every state;
`LockAges` makes a lock old while its holder works; with `Faults` each call may
fail, the read of a lock's token too: the lock is then judged by its age
(`JudgeReclaimable`), or taken for busy when that cannot be asked for either. What the ledger stands for is refined to `MountLedger` by dropping the
records of the dead.

The code is right only under three assumptions about its surroundings,
`CalmNext`. Each is stated as a predicate on steps and each is necessary: a
configuration without it finds a violation.

* `CalmReclaim`: a lock that is removed as stale is held by nobody alive: no other
  process has created it since the judgment, and it is not an old one whose token
  could not be read;
* `OneOperationPerSession`: one process does not resume a session twice at once;
* `AnnouncementsSucceed`: the claim for a new session is not refused.

Two properties are about what a crash leaves. `ClaimSurvivesCrash`
(`mounts_live`, where no call fails) says that a claim whose next try is to come
is granted once the other process has died, at whatever step it did. The one
exception is a lock whose token was not written: it is reclaimable by age only,
`STALE_LOCK_MS` (30 seconds) later, while the retries of a claim are over in
less than one. `DeadRecordPruned` (`mounts_faulty`, without the three assumptions)
says that the record of a dead process goes whatever failed before, if calls
do not fail for ever (`FaultsEnd`); its exception, `Leftover`, is the lock of
`mounts_leftover`.

### CodexHub

`state`, `gen`, `running` (a child whose exit was not reported), `closing`,
`open` (the RPC client of the child), `hs` (the handshake), `attempt` and
`timer` (back-off), `info` (the generation of the last answered handshake), `told`
(what sinks heard last), `call` (each call:
waiting for the handshake, sent with an id on a connection, settled), `nextId`,
`lines` (answers of dead children still to be read), `retainers`, `holds`,
`idle`, `quit`. The actions are the hub's operations and callbacks:
`Call`, `Send`, `Refuse`, `GiveUp`, `HandshakeAnswered`, `HandshakeFails`,
`Answer`, `DropAnswer`, `ExitAfterClose`, `ExitBeforeReady`,
`ExitThenRestart`, `ExitThenGiveUp`, `Restart`, `Retain`, `Release`,
`ReleaseAgain`, `IdleFires`, `ReplaceFailed`, `Quit`. `onExit` is four
actions because its early returns are four outcomes.

### CodexRejoin

One session. `link`, `gen`, `asked`, `native` are the hub's and the server's;
`rejoining`, `connected`, `lost`, `held`, `heldEnd`, `parked`, `told`,
`closing` are the session's variables; `flow` is the continuation of
`connectionRestored` with the generation it began in and the `await` at which
it stands, `authing` / `authed` the credentials; `offline`, `dead`, `queue`,
`turn`, `cur`, `fate` the input queue. Each `await` ends in an action of its
own (`Rejoined`, `ResumeRefused`, `RejoinIncomplete`, `RefreshDone`,
`AuthSettles`), and the child's exit is split by what it interrupts
(`ExitHeard`, `ExitWhileResuming`, `ExitWhileAuth`, `ExitUnheard`).

`Calm` names the circumstances in which the comments' promises hold:
`SettledExits` (no child dies in the middle of a rejoin), `DeadSilent` (a dead
child is not heard any more), `GapsClosed` (the missed turns reach back to a
known one), `RefusedFirst` (a refused resume comes before requests were held
back). As above each is necessary; the configurations of section 6 drop them.

### CodexRouting

`sinks`, `routes`, `parents`, `reading` (`parentReads`), `buffered` are the maps
of `hub.ts`; `at` is the `current` at which the lookup of a queue stands.
Messages are named by the order of their arrival; `pending`, `handed`,
`refused` say what became of them. `WayUp` is `sinkOf` and the loop of
`resolveSink`; `Continue` is what runs when a parent is known. `Parent` is the
tree the server knows, a constant. One connection is one step from spawn to
ready here (`CodexHub` has the details of that).

### CodexInput

`queue`, `started`, `steered`, `active`, `starting`, `cause`, `force`, `seen`
are the variables of `createInputQueue`. The transport hands over the lines of
one chunk in one loop, so `Chunk` picks how many lines arrive together
(`chunk`), `Line` actions take them one by one, and what an answer resolves is
appended to `micro`, whose continuations (`StartTurnContinues`,
`SteerContinues`, `InterruptContinues`, ...) run only when the chunk is done
and before anything else. The server is the environment: it takes requests in
order, answers them, starts, shows, ends and interrupts turns. `said`, `ran`,
`fell`, `stray`, `cover`, `gone` are history. The properties speak of inputs
whose `turn/steer` failed (`fell`) and of turns given up without an answer
(`stray`) as exceptions, because there the code may be wrong (section 6).

### CodexPrompts

For each request: what the server holds of it (`srv`), the hub (`open`,
`sent`), the bridge (`parked`, `answered`, `round`, `armed`), the link
(`links`, `due`) and the panel (`panel`, `sheet`); `told`, `noticed`,
`reasons` are what the user was told. The end of an item settles every parked
prompt of the item; as which requests belong to one item decides nothing else,
`HearsItem` takes with the request it names any others that the server is done
with. A line of the server is read when the
microtasks are done (`Quiet`); a questionnaire's answer is one microtask
behind the key that gave it (`Answers`, then `Continues`: `ComesTooLate`,
`Reaches`, `AsksAgain`). `Withdraw`, `SwitchCancels`, `Released`, `Disposed`
and `ConnectionLost` are the ways in which the owner of a prompt goes away.

### SessionSwitch

A session object is named by the attempt that opened it. `pc` is the `await`
at which an attempt stands, `cap` what it captured when it began (`Raced` is
`raceProbe` over it), `pending`, `releasing` and `life` what the binding cell
owns. An adoption is on the stack from `AdoptBegins` to `AdoptEnds` or
`AdoptThrows`, in the phases of `adopt` between which callbacks run; what a
callback can do there is dispose the owner, submit an input and start a turn
(`Idle` says that no adoption is on the stack). `claims`, `held`, `fresh` and
`announcing` are this process's side of the ledger.

### Restart

A process is at a stage `st` of its life; `dad` is the process that spawned it
and follows it, `why` the reason it left for, `code` how it ended. A handoff of
inputs goes through `carry` (collected), `files` (written), `marker` (named in
the environment), `waiting` (read, unsettled) and `rows` (on the dock). `pass`
has the state of each application of the plugin in a process: `listens` until
its channel is ready, `stages` the images, `waits` for another pass, is a
`ghost` when it was stopped while staging. `ack`, `drawn` and `screen` are the
screen of a kernel switch. `forgone` collects the inputs that nobody promised
to keep: those of a process that quits, crashes or is killed, and those a
restart could not write or has no session for.

`Risks` lists what a run lets the environment do although the code has no
answer to it; every one of its names alone makes a property false:

* `unsettled`: a replacement quits, restarts or switches before it has parked
  what it was handed, or its boot ends with code 0; `signalled`: it dies by a
  termination signal before that, during its boot too;
* `late`: the images are staged while the process is already leaving;
* `parked`: the recompose disposes a screen on which held inputs are parked;
* `switched`: the recompose happens in a kernel switch's replacement;
* `undrawn`: that replacement leaves between its mount and its first flushed
  frame; `stalled`: the disposal stalls in a kernel switch.

`NoneStranded` and `ShownOnce` hold whatever is in `Risks`.

## 3. What the runs show

Every run is one question. "Distinct states" are TLC's.

| Run | Instance | Distinct states | What it shows |
|---|---|---|---|
| `mounts_calm` | 2 processes, a stored and a new session, crashes, every call may fail | 530,247 | lock exclusion, exclusive ledger, driven sessions are published; refinement of `MountLedger` |
| `mounts_live` | 2 processes, a stored session, 1 retry | 161,673 | a claim with a try to come is granted whatever a dead process left behind |
| `mounts_faulty` | 2 processes, a new session, every call may fail, no assumption | 435,756 | a dead process's record is pruned once calls stop failing; every failure path is taken |
| `hub` | 2 calls, 2 users, 3 restarts | 146,871 | one child, own answers, the budget, the contract; losses are resolved, calls settle, closed children are reaped |
| `rejoin` | 2 inputs, 1 request, 4 generations | 78,300 | what holds whatever dies when; every rejoin ends |
| `rejoin_calm` | 2 inputs, 2 requests, under `Calm` | 13,555 | the five promises of a reconnect |
| `routing` | 3 threads, 2 messages, limit 1 | 44,532 | order, no lost request, only orphans refused, every lookup ends |
| `routing_poisoned` | 2 threads | violation | see section 6 |
| `input` | 2 inputs, 3 turns, chunks of 3 lines, 2 cancels, 1 slip | 3,559,107 | an input runs once, dropped ones never ran, discarded ones never will, a confirmed cancel is true, everything is settled at rest |
| `prompts` | 2 requests of any kind | 1,215,987 | the panel is honest, the user is told what was sent, no awaited request is forgotten |
| `switch` | 2 attempts, 1 stored session, 1 input, 1 turn | 365,205 | no leak, open sessions claimed, no work lost; replaced sessions close |
| `restart` | 3 processes, 2 passes each, 2 inputs, no risk | 462,123 | inputs survive and are shown once, no pass is stranded, the screen is restored |

More configurations are kept beside these. Most are for one counterexample
each, which shows that an assumption of a passing run is necessary or that a
comment is wrong: `mounts_racing_reclaim` (`CalmReclaim`), `mounts_repeated`
(`OneOperationPerSession`), `mounts_silent` (`AnnouncementsSucceed`),
`mounts_leftover` (a lock whose removal failed is nobody's to reclaim),
`rejoin_parked`, `rejoin_forgotten`, `rejoin_stale_prompt`,
`rejoin_credentials`, `rejoin_false_success` (parts of `Calm`),
`rejoin_stranded` (`RefusedAlone`), `input_twice`, `input_overtaken`,
`input_untimed`, `prompts_dropped`, `switch_claimed` and `restart_unsettled`;
the other names of `Risks` are shown by writing them into the last one in place
of its own, with `InputsSurvive` for `late`, `parked` and `signalled` and with
`ScreenRestored` for `switched`, `undrawn` and `stalled`. Three pass and ask
something more: `input_three` (three inputs, with the order of the queue and
one turn at a time), `prompts_live` (a question with a time limit does not keep
the server waiting) and `rejoin_drains` (a queued input is sent or reported).

What TLAPS proves for every instance is not run again for its own sake: the
type invariants of the modules with proofs, the hub's `NoCallStranded`,
`ToldTheTruth`, `UnusedHubIsTimed`, `PermanentIsFinal` and `RetainedStaysOpen`,
`NoTwoWriters` and `OnlyOwnRecordChanges` of the ledger, `SentIsRemembered` of
the session, `BoundIsLive` and `OneSwitchPerBinding` of the switch, `OneAnswer`
and `NeverMoreThanOffered` of the prompts.

### Bounds, and why they are enough

* `Procs` 2-3: a race over a stale lock needs the process that died, or an aged
  lock, and two that judge it. `Sessions` 2 tells a record from its neighbour
  and a stored from a new session. `Ops` 2 lets operations of one process
  overlap. `MaxTries` is the number of
  retries of a claim that found the ledger busy, 5 in the code: 1 in `mounts_live`,
  where a claim has to survive a crash between its tries (a retry starts the
  protocol over and keeps nothing of the failed one, so further ones only repeat
  it), and 0 in the safety runs, where a caller that asks again is another
  operation; the proofs are for any number.
* `MaxGen` bounds the children. An answer of the first child can be mistaken
  for one of the second; the third gives a loss during recovery, the fourth is
  there because the last generation never becomes ready and only ends a run.
  `MaxRestarts` 3 is the code's own number of back-off delays.
* `Calls`, `Users`, `Inputs`, `Requests` 1-2: two to overtake, confuse or
  release for one another; the code compares each with no other.
* `Limit` 1 for 1000: two messages overflow it, and two of one thread that
  are both requests exceed it. `Family`: a session's thread, the thread below it
  and one below that, so a lookup climbs more than once; while the session has
  no sink all three are orphans.
* `MaxTurns` 3 of `CodexInput`: the turn an input was meant for, the one it ran
  in after all, and one behind it. `MaxChunk` 3 is an answer, the turn's start
  and its end in one read, in every order; `MaxSlips` 1 is a timed-out call or
  a lost connection at any moment; `MaxCancels` 2, because a later cancel
  replaces the cause of an earlier one. `RestIsSettled` is the at-rest form of
  "every input is settled in the end": it needs no fairness, and is an
  invariant.
* `Asks` 2: a panel shows the first and keeps the second behind it. `MaxRounds`
  1: a form asked again once already has two ids on their way.
* `Attempts` 2, `Stored` 1: two switches to one log are the case the code has to
  tell apart. One input and one turn can come before, between and after them.
* `MaxProcs` 3: a process, its replacement and the replacement of that, or a
  resumed one; `MaxPasses` 2 is the boot's recompose. Two inputs, one that
  stays and one that goes.
* Symmetry is used in safety runs only, over sets of model values none of which
  is singled out.

### Fairness

Liveness is asked under no more than what the code or the operating system
brings about: a timer fires, the code behind an `await` runs, a call that has a
timeout ends, a child that was killed exits, a process that is neither crashed
nor blocked takes its next step. `mounts_faulty` needs strong
fairness of the beat (`Beat`) and `mounts_live` of a retried reservation
(`Retry`): both are repeated by a timer and are disabled again and again while
another run of the same process is under way. `FaultsEnd` is the one assumption
about failures: from some time on the calls of `mounts_faulty` succeed. `switch` assumes that a history
that was asked for is answered, that a close ends, and that continuations run;
plugins, peers and the user are not fair. `rejoin_drains` alone assumes
something of the server, that a running turn ends (`TurnsEnd`). Nothing else
is assumed of exits, crashes, failures, users or messages.

`CHECK_DEADLOCK FALSE` is set because the systems may stop: a hub is closed, a
session disposed, a bound exhausted.

## 4. What is proved

The eight `_proofs` modules hold for every value of the constants: any sets of
processes, sessions, operations, calls, users, inputs, attempts, threads and
server requests, any number of restarts, passes, turns and rounds, any bound on
the generations, the chunks and the queues.

**Ledger.** `TypeCorrect`: `Spec => []TypeOK`, with crashes, faults and no
assumption on the surroundings. `CalmInvariant`: `CalmSpec => []CalmInv`, from
which `WriterLocked`, `ExclusiveLedger`, `DrivenPublished`, `SingleWriter`,
`OwnRecord` and the refinement follow. None of these is inductive. That no two
living processes record one session needs that a writer's snapshot is still the
ledger (`SnapInv`), which needs that it holds the lock (`LockInv`: who holds
the lock file, at which steps, and that a dead holder's lock is judged
by processes that have not read the ledger yet), that what it is about to add
is free (`AddInv`) and what it clears its own (`ClearInv`), that a positive
answer means a recorded claim (`AnswerInv`), and that claims are kept while
an operation or an agent needs them (`HeldInv`, `OpInv`, `OneOpInv`). `Refinement`
maps each file-system step to a stutter, except the rename that publishes the
new ledger and the death of a process.

**Hub.** `HubInvariant`: `Spec => []HubInv`, with `HubInv` the conjunction of
`TypeOK`, `LinkInv` (which combinations of state, timer, handshake, connection
and child exist), `CallInv` (a call in flight has an id its connection gave out
once) and `UseInv` (retainers, holds and the idle timer agree). From it:
`SingleChild`, `OwnAnswers`, `NoneStranded`, `ToldTruly`, `BudgetSpent`,
`UnusedTimed`, the action properties `LossIsFinal` and `RetainedKept`, and
`ContractKept`, that the hub implements `HubContract`. `BudgetSpent` counts the
failed restarts by the generations of the children that were started since the
last answered handshake, which the code does not compare; that its own counter
`attempt` (`restartAttempt`) agrees with them, in each state of the connection,
is the part of `LinkInv` that the proof needs.

**Session.** `QueueInvariant`: `Spec => []QueueInv`, for connections that are
lost at any moment, rejoins that fail and a session that closes meanwhile.
`QueueInv` joins `TypeOK`, `QueueHonest` (exactly the inputs reported as queued
are in the queue, once each), `SentIsRemembered` (a sent input is the turn's)
and `CurInv` (the turn's input is neither queued nor new), without which a
report about the turn's input could unqueue one that waits. Every action does
one of five things to the queue (nothing, an append, a report about the turn's
input, sending the head, emptying it): the lemmas `Unchanged`, `Appended`,
`StaysHonest`, `PopHonest` and `EmptiedHonest` show that `QueueHonest` and
`SentIsRemembered` survive each. From it: `SessionTypes`, `HonestQueue`,
`SentRemembered`.

What a reconnect promises is proved under `Calm` (`CalmSpec`), without which
each promise is false. `CalmInv` joins `Severed` (no continuation and no request
outlives its child), `Final` (a permanent loss leaves nothing to send or to
await), `Shown` (what the server waits for is what the prompts are about, all
held back or all shown) and `Gated` (from a loss until the continuation of the
restored connection, with the credentials of this child, no input is sent).
Each needs the others: that a request is shown when a rejoin ends needs that
it was held back and not dropped with a dead child. From it:
`ReconnectIsTrue`, `NothingStaysParked`, `RequestsAreShown`, `ShownAreLive`,
`CredentialsAreFirst`.

**Switch.** `SwitchInvariant`: `Spec => []SwitchInv`, the conjunction of
`TypeOK`, `Lifecycle` (how far the session object of an attempt is allowed to
be at each of its stages, that every live object has somebody who answers for
it, and what the stack of an adoption guarantees), `Claimed` (every pinned id is
published, and a resuming attempt is pinned as long as its session may write),
`Counted` (work that began since a probe left a counter ahead of it) and
`Generations` (a committed attempt left its generation behind). From it
`NoneLeaks`, `LiveBinding`, `OpenClaimed`, `OneSwitch`, and the action property
`WorkKept`. Nothing is assumed of the environment.

**Prompts.** `PromptsInvariant`: `Spec => []PromptsInv`. Its halves are `Lines`,
what a line on its way to the hub promises (a request comes once and before
anything was done about it, an item completes when its request is over, what was
asked after the end of a turn is behind that end), and `Prompt`, how far a
request has come: parked and unanswered means unanswered everywhere, an answer
is what was sent. From it `ToldTheTruth`, `AwaitedParked`, `AnsweredOnce`,
`OfferedOnly`. `PanelInvariant` adds the screen: `Linked` (a link is of a
parked prompt, in its current round), `Stored` (a store holds a prompt once, and
no questionnaire the link gave up), `Left` (what left the panel is of this round
or an earlier one, so a form that is asked again is not taken for the answered
one) and `Offered` (what is unanswered is on the screen or its answer is on its
way). It rests on `PromptsInv`: that a prompt enters the panel once needs that
its request comes once. From it `HonestPanel`.

**Routing.** `RoutingInvariant`: `Spec => []RoutingInv`, the types with `Waits`
(a queue waits only for a lookup in flight on a living connection), `Known`
(what was handed over or waits has arrived, of its own thread), `Ordered` (what
a thread's sinks got and what waits for it is in the order of arrival) and
`OpenHeld` (a request the server waits for was handed over, or waits). From it
`HandedInOrder` and `RequestsSurvive`. `WaysInvariant` says of the maps that
routes lead to sinks, that what is looked up was not read before, and that no
sink lies between a thread whose messages wait and the thread that is looked
up for it; from both, the action property `OnlyOrphansRefused`.

**Input.** `InputTypes` and `InputInvariant`: `Spec => []InputInv`. Of each input
whose `turn/steer` did not fail, `Lone` says that it is in one place at a time
and there once (new, in the queue, a steer whose call waits or whose
continuation is due, the steers of the turn, or asked for by `turn/start`);
`Told` that a reported discard or drop leaves it in none; `Covered` and `Early`
that a cancel(interrupt) which covers it leaves it no other place than the
turn that it stops. `Flow` orders the continuations against the lines of a
chunk. An input whose steer failed is an exception because the code
queues it again whatever became of it (`input_twice`). From it `GoneIsGone` and
`ConfirmedIsGone`.

`TurnInvariant`: `Spec => []TurnInv`, the order of the turns between the session,
the lines on their way and the server: the server starts turns one after the
other (`Serves`, `Single`), a lost connection leaves nothing under way (`Down`),
and of every turn (`Sequenced`) its beginning comes before its lines and these
before its end, what is still to be read is of the turn that is active or a
later one, and a turn whose interrupt was accepted shows nothing more.
`RanOnce` adds, of each input whose steer did not fail, `Chance`: the requests,
the answers and the lines that are under way leave it one chance to become part
of a turn, and none once it was. The hard steps are the end of a turn, which
queues its unshown steers again, and a failed `turn/start`: nothing may be left
under way that could still take them. `OneTurnAtATime` and `DroppedRanNot`
hold where no `turn/start` was given up without knowing (`stray`): `Solo` says
that no turn runs while one is asked for, so that an answer that refuses is
the server's word, and `Fate` that an input refused, or whose turn ended
without showing it, was part of none.

`NoneForgotten`: an input that was handed in is in the queue, a steer, asked for
or answered for (`Placed`), whatever fails. `RestSettled`, for a session none of
whose steers failed: once nothing is under way any more, every input was
answered for, or is in the queue of a session whose last `turn/start` failed or
that holds an ended turn for running. Its invariant `Rest` says what each part
of the state is waiting for, and that it is still to come: `Asking` (while
`starting`, a `turn/start` or its continuation is under way; an idle session
with a queue had its start fail), `Sole` (the awaited `turn/start` is the last
the server will take), `Lasts` (an active turn has ended, or its end is on its
way, or a later turn takes its place), `Opened` (a turn begins before it is
stopped), `AskedFor`, `Unheard` (no answer is on its way for what was not
sent) and `Doomed` (a steer into a turn that has ended will be refused). All of
it holds only together with `RunInv`.

Queues are filtered at every step of these three modules. `Kept` (what a
sequence holds of a set, in its order) is a recursive function, and what the
invariants need of it is proved by induction over its prefixes. As no prover
here can instantiate the library's induction theorems, the induction is over
the set of lengths for which the claim holds (`Induction`), which follows from
the least element of a set of naturals.

**Restart.** `Claims` is inductive with the types: a handoff is claimed exactly
when some pass stages it, and the pass of a mounted screen has a reason to wait;
`NeverStranded` follows, whatever the environment does. `ChainInvariant` adds
`Unborn`, `Family` (a process has one replacement, one process at a time is
nobody's, who holds a file) and `Exclusive` (an input is in one place), from
which `NeverShownTwice`. `InputsInvariant` assumes `Calm`, that the four risks
to inputs are not in `Risks`, and adds `Fates`, `Settled` (only a failure, of the boot
or later, leaves an unsettled handoff), `Places` and `Accounted` (an input is somewhere), from
which `InputsAreKept`. `ScreenInvariant` assumes `Tidy`, that the three risks to
the screen are not in `Risks`: `Line` (at most one process is at work, and those
it descends from follow it), `Adoption` (how far a kernel switch's replacement has
taken over the screen), `Ended` and `Drawn` (who draws, draws on the alternate
screen) and `Closed` (an open alternate screen has somebody who will close it),
from which `ScreenIsRestored`.

The assumptions are the named `ASSUME`s of the modules: the sentinels are not
members of the sets they are sentinels of, bounds are naturals, the users are
finitely many (their number is counted). Where a specification or a hypothesis
restricts the surroundings (`CalmNext` of the ledger, `Calm` of rejoin and of
restart, `Tidy`) the theorem names it, a passing run has states that satisfy it,
and section 6 has what happens without it.

Only model-checked: all liveness (it rests on fairness and ENABLED); of
`CodexInput`, that nothing is left over at rest of a session some of whose
steers failed (`RestSettled` is about the others); and the necessity of the
assumptions, which is a matter of counterexamples. The exception of
`RestSettled` is one of the model at larger bounds than the runs': its calls
are records without an id, so of an input that a failed steer queued twice two
`turn/start`s can be the same record, and a late answer to one is taken for the
other's. The ids of the code differ.

## 5. What is not modelled

* Of the ledger: the kernel's own write lock on a session file, the reuse of
  process ids, the repair of a damaged ledger file, the order of teardown
  between agents and ledger.
* Of the hub: registry of hubs by fingerprint, diagnostics, line splitting,
  redelivery of a request that is pending already, global listeners, a sink
  that throws or calls back into the hub.
* Of the session: a context clear, which changes the thread; deduplication of
  notifications; history and controls. A session of `CodexRejoin` starts open
  and ready, and has the input queue in outline only (no steers or interrupts).
* Of the input queue: `/review`, which splits the ids of a turn, the causes
  `dispose` and `switch` of a cancel, and the picture files a submission reads.
* Of the prompts: asynchronous questions, the sign-in and plan-review prompts,
  `clearContext`, questionnaires of several pages, and the kernel's own stores.
  A turn the session closes by force is `CodexInput`'s; its late
  `turn/completed` never reaches `turnEnded` of the bridge.
* Of the switch: the DSH extension's own `/resume` with parked sessions,
  `switchTo` and the workspace attach, and the ledger file behind the claims.
* Of the restart: the update and its rollback (`runUpdate`,
  `updateTuiAndRestart`), inline mode, standard input and terminal modes, a
  signal forwarded to a replacement that survives it, two shells that resume one
  file, the removal of a file that fails, the seven-day sweep. The images
  of an input are the time it takes to stage them.
* Components without a model are listed in `PROJECT.json`. The kernel is not in
  this repository. Rendering, formatting and tables are left out for having no
  order to get wrong.

## 6. Where code and comments disagree

Each of these but two is a configuration, or a name of `Risks`, that TLC finds
violated; the exceptions are differences that the model follows. The one that is
listed as a run is a finding in `PROJECT.json` with the line quoted.

| Configuration | Disagreement |
|---|---|
| `mounts_racing_reclaim` | judging a lock and removing it are two calls; the lock of a living process can be removed |
| `mounts_repeated` | of two overlapping resumes, the abandoned one releases the claim of the one that drives the session |
| `mounts_silent` | a refused claim for a new id does not only cost announcement: a peer may claim the session |
| modelled as it is (`JudgeReclaimable`) | `sessionMounts.ts:44-46` again: of a lock whose token cannot be read only the age is judged (`sessionMounts.ts:377-383`), so an old lock of a living process can be removed |
| `mounts_leftover` | a lock left behind after a failed removal names a living process and is never stale |
| `rejoin_false_success` | a child's death during `thread/resume` makes the session permanently lost; the next rejoin says it is reconnected |
| `rejoin_parked` | a rejoin that gives up leaves parked inputs neither sent nor reported |
| `rejoin_forgotten` | a rejoin that fails throws held-back server requests away unanswered |
| `rejoin_stale_prompt` | a request of a dead child is shown after the rejoin |
| `rejoin_credentials` | a child that dies while credentials are awaited reopens the queue early |
| `rejoin_stranded` | an input behind a refused `turn/start` waits on an idle thread |
| `input_twice` | a `turn/steer` refused after its turn's end has queued the input again queues it a second time: it runs twice |
| `input_overtaken` | an answer to `turn/start` that continues after the turn's end in the same chunk makes an ended turn the active one |
| `input_untimed` | an interrupt whose answer continues after its turn's end in the same chunk arms the force-close timer for the ended turn, and the next turn's interrupt then arms none |
| modelled as it is (`Superseded`) | `input.ts:16-20` and `agent/session.ts:54-58` promise that what a confirmed cancel(interrupt) stopped does not run later; `cancelCause` is one variable that a later cancel overwrites (`input.ts:324`) or a failed one withdraws (`input.ts:208-213`, `326-330`), and the steers of the turn are then queued again |
| `prompts_dropped` | `approvals.ts:47-48` says a subagent's request "must SURVIVE this thread's turn completion"; an MCP server's form does not |
| `switch_claimed` | `binding.ts:51-53` says a reservation is "only safe to give back after" a handle stopped writing; the replaced session's id leaves the published set while that session is still closing |
| `switch_claimed`, with `BoundIsClaimed` in place of its invariant | `session-switch.ts:405-406` says the ledger holds the key of the bound session; of two resumes of one log, the one that fails gives back the id under which the other is bound |
| `restart_unsettled` | `plugin.ts:3783` says "A replacement that ran took them already"; one that quits, restarts or switches before it has parked them, or whose boot ends with code 0, exits cleanly, and its parent deletes the file |
| risk `signalled` | a replacement that dies by a signal before it has parked, while it boots included, takes its parent with it, which prints no resume command |
| risk `late` | staging that ends while the process leaves parks the inputs on a screen nobody sees and removes the file |
| risk `parked` | a recompose after the inputs were parked loses the rows, and the file is gone |
| risk `switched` | a recompose in a kernel switch's replacement leaves the alternate screen and never enters it again |
| risk `undrawn` | a replacement that leaves between adoption and its first flushed frame skips the close, and its late `ready` tells the old process not to close either |
| risk `stalled` | a disposal that stalls in a kernel switch exits with the alternate screen open |
| `routing_poisoned` | a parent lookup cut off by an exit is remembered as "no parent" under the next child |

## 7. Plan

Done, in the order of importance: the ledger (the only state shared between
processes), the hub (on which every Codex session depends), rejoin, routing,
the input queue, the prompts, the switch, the restart.

Next:

1. `InputDelivery` (`input-delivery.ts`, `input-actions.ts`): what is typed while
   a session starts, works or is lost, composed with `SessionSwitch` (whose
   `Types` and `InputSettles` are its outline). Abstract specification: an input
   is on the dock, with the backend, or answered. Bounds: 2 inputs, 2 sessions.
2. `ClaudeSession`: turns, interrupts and restarts of the SDK process.
3. The update: installation transaction, acknowledgement and rollback around
   the `Restart` chain.
4. An abstract specification of the input contract of `src/agent/events.ts`
   (one fate per input) that `CodexInput` implements where no steer failed.

## 8. Running

    tlc -config mounts_calm.cfg MCSessionMounts
    tlapm SessionMounts_proofs.tla

The configurations of a component are named after it: `mounts_*` belong to
`MCSessionMounts`, `hub` to `MCCodexHub`, `rejoin*` to `MCCodexRejoin`,
`routing*` to `MCCodexRouting`, `input*` to `MCCodexInput`, `prompts*` to
`MCCodexPrompts`, `switch*` to `MCSessionSwitch`, `restart*` to `MCRestart`.
The longest runs take about two minutes; most proofs take up to five, those of
`CodexInput_proofs` about twenty minutes.
