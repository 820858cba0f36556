# Chora in TLA+

Chora (Go) is a local workbench in which a person gives an AI agent a task,
the agent works in a supervised process, and the person reviews what it
produced. This directory holds TLA+ modules of the parts of Chora whose
correctness depends on the order in which things happen, the TLC
configurations that check them, and machine-checked proofs of their main
properties. Paths below are relative to the repository (`src/` here).

## 1. Inventory

### Parts, their state and what makes them correct

| Part | State | Operations | Hard because | Correct when |
|---|---|---|---|---|
| Run and Attempt machines (`internal/domain`) | state, version, attempt number, four timestamps | 27 commands, 10 attempt events | two independent computations of every successor must agree | no legal history reaches a Run that the store refuses to move |
| Run lifecycle service (`internal/app`: `runs`, `streams`, `terminal`, `stops`, `recovery`, reviews, retries) | Run, Attempt, RuntimeSession, events, command replies, all in SQLite | prepare, start, exit, stop, review, recover | one command is several transactions with supervisor calls between them, under a per-Run mutex that a crash does not respect | no process without a Run that admits it; a stop is final only with proof; a review has finished output; a retry never repeats uncertain work |
| Workbench server (`internal/localweb`) | a monitor goroutine per started attempt, the dispatcher, the target router's routes | HTTP handlers, monitor ticks, dispatch, startup | goroutines act on a version read earlier; everything in memory is lost in a crash | stale actors are refused; every executing Run settles |
| Supervisors (`internal/dockersupervisor`, `internal/trustedhost`) | process or containers, durable records, stream files | Start, Reconcile, Stop, Drain, Finalize, Recover | a process may outlive the server, its number may be given out again, and a call may end without a known outcome | ownership is proven before anything is signalled; an answer "dead" is true |
| Isolated import (`internal/isolatedworkspace`) | worktrees of the Task, the snapshot of before, `import-journal.json` | prepare, collect, recover | several repositories are overwritten file by file, while a person may edit them | all of a result or none of it, unless a journal remembers otherwise |
| Independent verification (`app/verification.go`, `internal/verifier`) | VerificationRun, its attempts, evidence | start, retry, cancel, commit, recover | the executor runs in a goroutine; cancellation races its result | one verdict per attempt, never from a cancelled or lost execution |
| Task worktrees (`app/task_worktrees.go`) | intent rows and directories | ensure, clean up, recover | database and file system change one after the other | a directory exists only for a row that claims it |
| Patch application (`app/patch_application.go`, `resource_apply.go`) | application rows and steps, the original checkouts | inspect, apply, retry, recover | a crash between writing a checkout and recording it, and a person who edits the same files | a write is announced until it is proven or gone; `applied` means the reviewed files were there |
| Result closure (`app/result_closure.go`, `result_cleanup.go`) | closure row, cleanup operation | close, clean up | it races deliveries that are under way or uncertain | a closed Result left nothing behind |
| Task delivery (`app/task_delivery*.go`, `internal/taskdelivery`) | operations, Task worktree and branch, remote, pull request | commit, push, open request, merge, clean up, refresh | the remote changes by itself, and a call may take effect after it failed | no effect is started twice; `failed` means that a pull request, a merge or a removal was not started, and of a commit that it was not written unless the person or a failing Git read got in between |
| Delegation (`app/delegation*.go`) | parent, children, planning, synthesis | propose, approve, dispatch, stop, synthesise | children run concurrently while the parent stops | no child starts under a stopped parent; one synthesis |
| Product and Pi installation | journal, generations, selection | install, resume, select, remove | crash in every step | a selected generation is complete |
| Tasks, rooms, projects, board, documents, gates | versioned records | single-transaction commands | little | versions and references stay consistent |
| Adapters, contracts, context, capture, preview, desktop, web client | mostly pure data or one-shot I/O | | | out of scope, see section 7 |

### How they interact

A handler of `localweb` calls `app.Service`. Each command takes the lock of its
Run (`Service.runLock`), reads and writes the store in one or more
transactions, and calls the target router, which forwards to the supervisor of
the attempt's provider. After a start the handler spawns
`monitorRuntimeRun`, which every 250 ms reads the Run, reconciles its own
process identity, and calls `HandleExit`, `RequestCancel` or
`RequestIntervention` with the Run version it read. `runAutomaticRetryDispatcher`
looks at every Run, projects the automatic-retry state from the event log, and
prepares and starts the next attempt. A crash loses the locks, monitors,
routes and handlers; the store, the containers or host processes and the
trusted host's records survive. `newServer` then restores routes, runs
`RecoverStartup` and only then accepts requests.

An accepted Run hands its Result to one of three deliveries (the checkouts of
several repositories, the one patch of a Run without resources, the Task
branch), which share the Run's lock, the Task, the closure and the Room. The
archive of the Room takes no lock of the Run, so the only thing between the two
is what the rows say.

### What is hard

Concurrency: monitors, dispatcher and executors act on a version they read
before; `Start`, `Stop`, `waitAndReap` and the stream monitor share one process
group. Failure: every external effect (process, container, worktree, remote) has
a row or a file before it and one after it, with a crash between. Ordering: the
proof of death comes before an import, preflight of all before the write of one,
the journal before the worktrees. Time: deadlines race exits, and a remote call
that timed out may land later. Other hands: a person edits worktrees, indexes,
branches and pull requests at any moment.

## 2. Plan

The order is by importance to the system:

1. `RunTable`, `RunMachine`, `AgentRun`: the state machine of the domain. Done.
2. `RunLifecycle`: everything that drives one Run. Done.
3. The proofs of both: type correctness, every invariant and action property
   of the runs, and both refinements. Done.
   `SupervisedProcess` between the Run and its supervisors, and `OnceLedger` over
   Task delivery, each with its refinements proved. Done.
4. `VerdictOnce`, `Verification`: a Run with a registered verifier, composed
   with `RunMachine` and shown to implement "one verdict per output". Modelled,
   checked, and proved but for liveness.
5. `ResultRecords`, `ResourceApply`, `PatchApply`, `TaskDelivery`, composed by
   `ResultDelivery`: what happens to a reviewed Result. Modelled, checked and
   proved.
6. `SupervisedLaunch`, `TrustedHost`, `IsolatedImport`, `DockerAttempt`,
   composed by `Supervisors`: what `RunLifecycle` knows as `proc`, `record` and
   `route`. Modelled, checked and, as section 5 tells, proved.
7. `StreamIngestion` (planned, as are those below): offsets, notifications and
   the exit proof between the sink, `ConsumeStream` and `drainToEOF`, against "the events are a prefix of
   the bytes written, and all of them after a drain".
8. `TaskWorktree`: intent rows and directories with crashes.
9. `Delegation`: a parent, its children as abstract Runs, stop and synthesis.
10. `ProductInstall`, `ProjectDocument`.

Delivery and supervisors were taken before streams and delegation because their
hazards are the ones a test reaches least: two writers of one checkout, and a
process that outlives its parent.

## 3. Modules and how they correspond to the code

| Module | Models | Composes |
|---|---|---|
| `RunTable` | the two transition tables of `internal/domain/run_transition.go` | |
| `RunMachine` | abstract: what the domain package promises of a stored Run | `RunTable` |
| `AgentRun` | one stored Run with its timestamps: `Transition`, `ApplyReview`, `ValidateRunSuccessor`, `SaveRunCAS`, the commands that reach them | implements `RunMachine` |
| `SupervisedProcess` | abstract: what a supervisor promises of the attempts it runs, and all that the lifecycle may rely on | |
| `RunLifecycle` | one Run with its attempts, sessions, processes, the server's goroutines, crash and startup | implements `RunMachine` and `SupervisedProcess` |
| `VerdictOnce` | abstract: what independent verification promises | |
| `Verification` | the verification of one Run: commands, executor, sandbox, commit, recovery, Room, shutdown, crash and startup | implements `VerdictOnce` and `RunMachine` |
| `ResultRecords` | what the three deliveries share: Run, Task, Room, closure, original checkouts | |
| `ResourceApply` | `ApplyResourceResult`: several repositories, one operation with steps | `ResultRecords` |
| `PatchApply` | `ApplyAcceptedPatch` with `gitPatchTarget` and `recoverPatchApplications` | `ResultRecords` |
| `TaskDelivery` | preview, confirmation and refresh of commit, push, pull request, merge and cleanup, with Git, the remote and the person | `ResultRecords` |
| `OnceLedger` | abstract: what the record of Task delivery promises of side effects | |
| `ResultDelivery` | acceptance, closure, archive and restore around the three | the three deliveries; implements `OnceLedger` |
| `SupervisedLaunch` | what both supervisors share: target, server, losses, failing calls | |
| `TrustedHost` | `internal/trustedhost`: launcher, process group, manifest | `SupervisedLaunch` |
| `IsolatedImport` | `internal/isolatedworkspace`: Prepare, Collect, Recover | `SupervisedLaunch` |
| `DockerAttempt` | `internal/dockersupervisor`: container, `docker exec`, runtime root | `IsolatedImport` |
| `Supervisors` | the two behind the router | `TrustedHost`, `DockerAttempt`; implements `SupervisedProcess` |
| `RunTableProofs`, `AgentRunProofs` | lemmas on the tables; theorems on `AgentRun` | |
| `RunLifecycleTypes`, `RunLifecycleSafety`, `RunLifecycleRecovery` | theorems on `RunLifecycle` | |
| `VerificationProofs` | theorems on `Verification` | |
| `ResultDeliveryProofs` | theorems on `ResultDelivery` | |
| `SupervisorsProofs` | theorems on `Supervisors` | |

**AgentRun.** The state is the row of `runs` (`RunRecord`: state, version,
attempt number, `startedAt`, `reviewRequestedAt`, `terminalAt`, `updatedAt`,
with `Zero` for an absent time) plus the rejection class and the profile that
the commands read. `Successor` and `Reviewed` are what the code computes;
`ValidateRunSuccessor`, with its `Expected...` operators, is the store's own
computation. A command computes its successor and calls `Save`, which changes
the row only when the validator agrees; `SaveNeverConflicts` says that it
always does, unless `overruled`: a profile switch took up a Run that a rejection
had settled. The clock may stand still between two commands, as
`time.Now` truncated to storage precision may.

**RunLifecycle.** A command of `app.Service` holds the Run's lock for several
transactions and supervisor calls, so it is a sequence of actions linked by
`op` (where the command stands, its attempt, what it is doing, the version it
read); `op.pc = "idle"` is the free lock. One action is one transaction or one
supervisor call:

| Code | Actions |
|---|---|
| `PrepareRun`, `retryRun`, the dispatcher's retry and block | `PrepareRun`, `HumanRetry`, `AutoRetry`, `BlockAutomaticRetry` |
| `StartAttempt` | `StartReserve`; `LaunchNoChild`, `LaunchStarted` or `LaunchUncertain`; `StartRecord` |
| `monitorRuntimeRun` | `MonitorLeaves`, `MonitorSeesExit`, `MonitorSeesViolation`, `MonitorUncertain`, with the version read stored in `monVer` until the lock is granted |
| `HandleExit` | `ExitEnter`, `ExitFinalize`, `ExitCommit` |
| `requestStop` | `HumanCancel`, `MonitorPolices` or `MonitorIntervenes`; `StopSignal`, `StopFinalize`, `StopMark`, `StopConfirm` or `StopUncertain`; `CancelInactive`, `HumanCancelsAgain` |
| reviews | `Accept`, `Reject` |
| crash, `newServer`, `RecoverStartup` | `Crash`; `BootRoutesDocker`, `BootRoutesTrusted`, `BootDetect`, `BootUnknown`, `BootStop`, `BootInterrupt`, `BootFinalize`, `BootMark`, `BootFails` |
| any of these calls returning an error | `OperationFails`, `HandlerFails` and the `Fault` disjuncts |

Several monitors exist at once: that of an old attempt keeps watching while the
Run says `running`, even for a successor. `proc`, `record` and `route` are the
supervisor seen from the Run: the process, what a restart can find again, and
what the router of this server knows.

For `SupervisedProcess`, an Attempt is `starting` while `StartAttempt` is inside
the supervisor's `Start`, `alive` while its process is, and `proven` once its
session is finalized or recorded as stopped.

**Verification.** Commands of `app/verification.go` are one transaction each
and are one action each. `exec[k]` is the goroutine `executeVerification` of
Verification Attempt `k` together with its entry in `verificationSignals`:
`at` is where it stands (preparing the workspace and the container, executing
the frozen commands, cleaning up, returned, and `"doubt"` when its commit
reported an error and it is about to mark recovery), `ctx` is its context,
`evid` the ends of the commands so far and `class` the classification that
`Verify` returns. Commit actions end with `Leave`: the goroutine ends, or the
commit is durable but reported an error (`ErrCommitUnknown`), in which case it
goes on to `MarkRecovery`; `CommitFails` is the error with a rollback. The
Agent's half of the Run is reduced to three commands, since `RunLifecycle` has
the rest. `Startable` and `Retryable` are the conditions of `StartVerification`
and `RetryVerification`. `boxes` is the set of attempts whose container may exist, which the
records know nothing of.

**ResultDelivery.** One command at a time holds the Run's lock, so each delivery
has one job variable (`aj`, `pj`, `dj`) that says where its command stands; an
action is one transaction, one inspection or one Git or provider call.

| Code | Actions |
|---|---|
| `ApplyResourceResult` | `ApplyBegins`; per repository `PreflightSkips`, `PreflightNoChange`, `PreflightReconciles`, `PreflightRefuses` or `PreflightPasses`; then `ApplyMarks`, `ApplyChecks` or `ApplyFindsChange`, `ApplyPatches`, `ApplySettles`; `ApplyCloses` |
| `ApplyAcceptedPatch` | `PatchUnreadable`, `PatchInserts`, `PatchTakesUp`, `PatchRetries`, `PatchMovedHead`, `PatchRefuses`; `PatchChecks`, `PatchPatches`, `PatchApplied`, `PatchFails` |
| `recoverPatchApplications` | `PatchRestart` |
| previews of Task delivery and of cleanup | `Preview(kind)` |
| `ConfirmTaskDelivery`, `ConfirmClosedResultCleanup` | `ConfirmMarks` (the durable `writing`), `ConfirmChecks` or `CheckFails`, `CommitLocks`, `CommitWrites`, `CommitProves`, `RemoteSends` or `RemoteFails`, `RemoteProves`, `CleanupRemoves` or `RemovalFails`, `CleanupProves`; `ProofFails` instead of any of the proofs |
| `RefreshTaskDelivery` and the uncertain branch of a cleanup | `Refresh`, `Reconfirm` |
| `CloseResult`, archive and restore of a Room | `CloseResult`, `ArchiveRoom`, `RestoreRoom` |
| a failing save, a cancelled request, a lost server | `ApplyIsLost`, `PatchIsLost`, `ConfirmIsLost` |
| nobody's code | `LegacyEdits`, `PatchEdits`, the `Person...` actions, `TargetAdvances`, `RemoteMoves`, `LateEffect` |

A checkout is abstracted to what `git apply --check`, `Inspect` and the index
comparison tell apart (`Works`, `Indexes`, `frozen`); the Task worktree, its
branch and the remote likewise. `GitApply` is what one `git apply` may leave:
nothing, all, or, when the process was killed, a part.

`made`, `sent` and `lost` remember what was done. `stirred` and `misread`
remember the two ways in which a commit that was written can be recorded as
failed: the person moved the branch while its outcome was open, or Git could not
be asked, which `validateBinding` does not tell from a changed branch
(`CheckFails`, `ProofFails` and the fault of `Refresh`, with `Unread`).

For `OnceLedger`, an operation that is `writing` or in recovery is `open`, the
confirmation is in hand from the durable `writing` to the call that sends, and
the `blind` operations are those whose effect may still land unseen (everything
but a commit and a push).

**Supervisors.** The frozen target of an Attempt selects the supervisor, so a
behaviour belongs to one of the two and the other keeps its initial state.

| Code | Actions |
|---|---|
| `trustedhost` `Start`, `launcher` | `StartClaims`, `StartWrites`, `StartRefuses` or `StartSpawns`; `StartIdentifies` or `StartContains`; `StartReleases` or `StartAborts`; `TargetExecutes` |
| `terminateAndProve` | `TermProbes` or `TermFindsNothing`, `TermSignals`, `TermKills`, `TermProves` or `TermGivesUp`, for a failed Start, a Stop and the stream monitor |
| `Stop` | `StopAsks`, `StopAnswers` |
| `waitAndReap`, `markTerminal` | `WaitReaps`, `WaitNotes`, `WaitProves` or `WaitGivesUp`, `MarkSaves` |
| `Reconcile`, `Drain`, `Finalize`, `loadRecords` | `ReconcileAnswers`, `ReconcileProves`, `Drain`, `FinalizeRemoves`, `FinalizeEnds`, `HostRecovers` |
| `dockersupervisor` `Start`, `setupWorkbench`, `finishFailedSetup` | `BoxClaims`, `BoxPrepares`, `BoxCreates`, `BoxRuns`, `BoxExecs`, `BoxReaps`, `BoxReapsLate` |
| `wait`, `exportSettledWorkbench` | `ExecReaped`, `Classifies`, `Terminates`, `Pauses`, `Exports`, `ProvesDead`, `Collects`, `Collected`, `WaitEnds`, `Expires` |
| `Stop`, `Drain`, `Finalize`, `cleanupAttempt`, `Recover` | `BoxStops`, `BoxForces`, `StopSees`, `BoxAnswers`, `BoxDrains`, `CleanRemoves`, `CleanEnds`, `FinalizesRecovered`, `DockerStarts` |
| `Prepare`, `Collect`, `Recover` of the import | `Prepares`; `ImportChecks`, `ImportJournals`, `ImportWrites`, `ImportWrote`, `ImportVerifies`, `ImportCommits`; the `Undo...` actions |
| the system | `LeaderExits`, `Forks`, `KinExits`, `NumberMoves`, `ExecEnds`, `Edits`, `HostLost`, `DockerLost` |

For `SupervisedProcess` there is one launch token: it is `starting` from the claim
until the gated child is spawned or the container runs, or until neither will;
`alive` while the leader, its kin or the container is; and `proven` while
`claimed` is set.

`rec` and `att` are the records in memory; `disk`, `root` and `journal` are what
a restarted server finds. `claimed` remembers that the Attempt was reported
dead, and `hit` that a signal reached a foreign process.

An operator whose comment starts with "Mutant:" is no part of the
specification: nothing refers to it. It states a plausible mistake in the
definition that follows it, and checks that the properties notice it.

## 4. What the runs check

| Run | Properties | Shows |
|---|---|---|
| `AgentRun` | `SaveNeverConflicts` | with two profiles and the switch between them, no order of commands makes a Run that the store refuses to move, unless a switch overruled a rejection (section 6) |
| `RunLifecycle` | `TypeOK`, `LiveProcessIsOwned`, `StoppedMeansDrained`, `ReviewIsBacked`, `AutoOnlyAfterRetryableFailure`, `AutoBudget`, `RefusedIsExplained`, `AttemptsFollowTable`, `StartupSettles`, `ImplementsRunMachine`, `ImplementsSupervisedProcess` | safety of one Run under every interleaving of person, dispatcher, old and new monitors, two failing calls and a crash at any step, for both providers; the Run asks of its supervisors no more than their contract, and only the one history of section 6 (or, on the trusted host, a missing record) makes the server refuse to start |
| `RunLifecycleLive` | `RunSettles`, `RetryIsDispatched` | an executing Run settles and a retryable failure is dispatched and started, with a crash anywhere |
| `Verification` | `TypeOK`, `RecordsAgree`, `VerdictIsEarned`, `VerdictMatchesEvidence`, `TerminalIsClean`, `ReviewIsVerified`, `StartupAccepts`, `WaitingCanBeVerified` | the three records and the Run never disagree; a verdict rests on complete evidence, a removed container and no pending cancellation; no history makes startup fail, and none leaves an output that neither start nor retry would take up |
| `VerificationRetries` | `OneVerifierPerRun`, `ImplementsVerdictOnce`, `VerificationSettles` | over two outputs and two attempts each, an executor that is late or in doubt never settles an attempt that is not its own, and no verification hangs while the server is up |
| `ResultDelivery` | `TypeOK`, `WritesAreAnnounced`, `AppliedWasThere`, `PreflightCoversAll`, `ClosedLeftNothing`, `FailedDidNothing`, `OnePullRequest`, `CleanupKeepsWork`, `ArchivedIsSettled`, `ImplementsOnceLedger` | in all three deliveries, with a person at the files, the index, the branch and the remote, what the rows say of a write is true but for the cases section 6 names, a closed Result left nothing else, an archived Room has nothing under way, and the operations of a Task are a ledger in which an effect begins at most once |
| `Supervisors` | `TypeOK`, `DeathIsReal`, `ChildIsOwned`, `ImportIsWhole`, `ImplementsSupervisedProcess` | across failing calls and two losses of the server, an Attempt reported dead has no process and no container, no child runs unrecorded, no signal leaves its group, and an isolated result arrives whole, from a dead container, or is remembered by a journal; both keep the contract that `RunLifecycle` relies on |

The other five runs are disagreements, each a counterexample to one sentence
of the repository; section 6 tells them.

Deadlock is not checked: every Run really ends (accepted, or cancelled without
authority to retry), a delivered or refused Result stays, a launch ends, and a
damaged record keeps a supervisor from starting for good; the bounds end the
others. `ResultDelivery` and `Supervisors` are about safety only and assume no
fairness.

### Bounds and why they are enough

* `AgentRun`: the clock takes three values and the version stops at 12, which
  two attempts with a review each stay below; the timestamps are only
  compared, so more values repeat the same orders. Two profiles are the least
  between which a switch can be rejected.
* `RunLifecycle`: three attempts give a first attempt, a successor, and a
  successor that can outrun the budget, which is 1 here (2 in the code, and 2
  in `RunLifecycleLive`) so that the budget is met within three attempts. One
  crash at every step, and two failing calls, so that a failure meets the
  failure of what should repair it. About 1.5 million states. The loss of two
  servers in a row is covered where it matters by the proofs, which have no
  bound on crashes.
* `RunLifecycleLive`: Docker only, no failing calls. With one failing call
  `RunSettles` does not hold; that is the run `RunLifecycleExitFault`.
* `Verification`: one output, two attempts, two commands, and two criteria of
  which one uses both commands and the other shares one of them, which is the
  least that tells the orders of merging apart. Two failing calls reach the
  failing mark after a failing commit. About 560 thousand states.
* `VerificationRetries`: two outputs with two attempts each, so that an
  executor of an old attempt meets a newer attempt and a newer output; one
  command, one failing call, no crash (the shutdown and the restart are still
  there). About 770 thousand states.
* `ResultDelivery`: all three modes; two repositories, so that one is written
  while the other refuses; two edits by a person, the second of which can undo
  the first or meet another place; two failing calls or losses, so that a
  recovery is lost too; four operations, enough for commit, push, request and a
  cleanup or a repeated one. About 2.3 million states.
* `Supervisors`: both targets, two failing calls, two losses of the server (the
  second during the recovery from the first), two repositories and two edits.
  About 210 thousand states.

### Fairness and why the code justifies it

`RunLifecycle!Fairness`. A goroutine inside a command runs on (weak fairness
of `Start`, `Exit`, `Stop`): every call it makes has a timeout or ends. A
goroutine that waits for the lock of the Run gets it: `sync.Mutex` hands the
lock to a waiter that starves, so the entry of each monitor into the lock is
strongly fair, and so are the dispatcher's attempt to prepare and its start,
because it looks at every Run again in each round. A process ends at its
`MaxRuntime` at the latest. A server that was lost is started again, and its
startup runs on. Nothing is assumed of the person: no run needs a person to
cancel, retry or review.

`Verification!Fairness`. The executor goroutine runs on (a command of the
verifier and each call to Docker have timeouts), and the auto-start goroutine
runs. Nothing is assumed of commands, shutdown, crash or restart;
`VerificationSettles` therefore speaks only of the time the server is up.

## 5. What is proved

TLAPS checks these for every value of the constants: any number of attempts,
crashes and failing calls, any providers, any retry budget, any commands and
criteria. The assumptions are the named `ASSUME`s of the modules (bounds are
naturals, providers are the two that exist).

| Module | Theorem | Statement |
|---|---|---|
| `AgentRunProofs` | `TypeCorrect` | `Spec => []TypeOK` |
| | `NeverConflicts` | `Spec => []SaveNeverConflicts` |
| | `RefinesRunMachine` | `Spec => ImplementsRunMachine` |
| | `SwitchAloneOverrules` | `OnlySwitchOverrules`, an action property |
| `RunLifecycleTypes` | `TypeCorrect` | `Spec => []TypeOK` |
| `RunLifecycleSafety` | `Safety` | `Spec => []SafetyInvariant` |
| | `LiveProcessOwned`, `StoppedIsDrained`, `ReviewBacked`, `AutoRetriesFailures`, `RecoveryApplies` | the invariants of the run `RunLifecycle` |
| | `AttemptsObeyTable` | `AttemptsFollowTable`, an action property |
| | `RefinesRunMachine` | `Spec => ImplementsRunMachine` |
| `RunLifecycleRecovery` | `RecoveryKnown` | `Spec => []RecoveryInvariant` |
| | `AutoRetriesAreBounded` | `Spec => []AutoBudget` |
| | `StartupsSettle` | `StartupSettles`, an action property |
| | `DeathKnown` | `Spec => []DeathInvariant` |
| | `RefusalsAreExplained` | `Spec => []RefusedIsExplained` |
| | `LifecycleKeepsContract` | `Spec => ImplementsSupervisedProcess` |
| `VerificationProofs` | `Safety` | `Spec => []SafetyInvariant` |
| | `TypeCorrect`, `RecordsAlwaysAgree`, `VerdictsAreEarned`, `VerdictsMatchEvidence`, `FinishedIsClean`, `OneVerifier`, `OnlyVerifiedIsReviewed`, `StartupNeverRefuses`, `WaitingIsVerifiable` | the invariants of the runs `Verification` and `VerificationRetries` |
| | `CancellationsHaveCause` | `Spec => []CancelledHasCause` |
| | `RefinesVerdictOnce`, `RefinesRunMachine` | `Spec => ImplementsVerdictOnce`, `Spec => ImplementsRunMachine` |
| `ResultDeliveryProofs` | `Safety` | `Spec => []DeliveryInvariant` |
| | `TypeCorrect`, `AnnouncedWrites`, `AppliedIsThere`, `PreflightIsComplete`, `ClosedIsEmpty`, `FailuresAreClean`, `RequestIsUnique`, `CleanupIsSafe`, `ArchiveIsSettled` | the invariants of the run `ResultDelivery` |
| | `EffectsAreStartedOnce` | `Spec => []NeverReplayed` |
| | `DeliveryKeepsLedger` | `Spec => ImplementsOnceLedger` |
| `SupervisorsProofs` | `Safety` | `Spec => []Inv` |
| | `TypeCorrect`, `DeathsAreReal`, `ChildrenAreOwned`, `ImportsAreWhole` | the invariants of the run `Supervisors` |
| | `SupervisorsKeepContract` | `Spec => ImplementsSupervisedProcess` |

Some theorems state more than the runs check: `TypeCorrect` and
`RefinesRunMachine` of `AgentRunProofs`, `RefinesRunMachine` of
`VerificationProofs`, `RecoveryApplies`, `EffectsAreStartedOnce`,
`CancellationsHaveCause` and `SwitchAloneOverrules` are about formulas no run
has a line for, because a stronger one took their place or the proof made the
run needless.

**What the findings leave true.** Three theorems say how far a disagreement of
section 6 reaches. `SwitchAloneOverrules`: a profile switch is the only command
that gives a Run another attempt after a rejection that blocks it; it rests on
`DecidedIsNoDraft`, that such a Run is no draft, so `PrepareRun` cannot take it
up. `CancellationsHaveCause`: an attempt is recorded as cancelled only when
somebody asked, or when a command of it was cut short, which a timeout or a
shutdown does. `RefusalsAreExplained`: a start of the server is refused only
over a stop that was finalized and not confirmed, or, on the trusted host, over
an unfinished session without a record.

**The supervisor's contract.** `SupervisedProcess` is proved from both sides:
`SupervisorsKeepContract` says that the two supervisors, with their process
groups, containers, journals and losses, do nothing it forbids, and
`LifecycleKeepsContract` that the processes, launches and proofs of death that
`RunLifecycle` takes for granted are those of the contract: it launches nothing
beside a living process, and records no death before it. The two modules are
tied by this contract alone, not composed: that a call to a supervisor is one
step of `RunLifecycle` stays an abstraction.

**AgentRun.** The type invariant carries the order of the timestamps (none is
later than `updatedAt`), without which a successor's own `updatedAt` could not
be compared; `RunTableProofs` states what the tables do, so that the 27
commands are treated as one set and not one by one.

**RunLifecycle.** None of the five invariants is inductive: each is about what
is stored, while the reason it holds is in the command that is under way. The
inductive invariant adds

* `Begun`, `FutureUntouched`, `PastIsOver`: attempts above the current one do
  not exist, and those below are final and own no process;
* `RunMatchesAttempt`: which attempt and session states each Run state allows;
* `FailedUnstopped`, `FinalHasSession`: a failed attempt carries no intention to
  stop, and only a session can be finalized;
* `CommandKnows`: what holds at each point of the command inside the lock. It
  says, for instance, that at `stopMark` the process is gone and the streams
  are read; this is what links the transactions of one command;
* `StartupKnows`: the same for `RecoverStartup`.

Each step of `Next` is one lemma or one case, and each case treats the conjuncts
that the action can disturb; the frame lemmas (`AutoFrame` and its
neighbours) take care of the others. The refinement follows from the same invariant.

`AutoBudget` and `StartupSettles` need more, which `RunLifecycleRecovery` adds
on top of `SafetyInvariant`:

* `BudgetCounted`: the projection of the retry events counts the attempts since
  the person's last one, so `cur - retry.used` names an attempt that was not
  automatic, and it still lies in the window when the dispatcher adds one;
* `CleanupKnown`: a Run outside running, stopping and recovery has the cleanup
  proof of its session, so `ListStartupCandidates` overlooks none; a stop is
  about the current attempt;
* `BootIsEmpty`: Docker's `Recover` has left no container to the rest of a start.

`RefusedIsExplained` and the contract rest on `DeathInvariant`, on top of both:

* `ProofKept`: what a Run in running, stopping or recovery says of its session,
  and that a session recorded as stopped without being finalized belongs to an
  interrupted attempt;
* `StopKnows`: the command that is stopping has not finalized its session yet;
* `BootKnows`: which of these a start has met at each of its steps, in
  particular that Docker routes exactly what is not finalized.

So a proof of death, once recorded, is not taken back but by the launch of
another attempt. `LifecycleMoves` then takes the actions by what they change: those
that make or end a process (`ProcessSavers`), begin or end a launch
(`LaunchSavers`) or move a session (`SessionSavers`); each is `Claim`, `Launch`, `Die`
or `Prove` of the contract, and all others stutter.

**Verification.** The invariant has a half about the store (`StoreInvariant`)
and a half that ties it to the executors and containers (`ExecutorInvariant`).
The core is that an executor which finds its own three records running
(`Running(k)`, the re-check of each committing transaction) is that of the
current attempt (`RunningIsCurrent`): other outputs are over and other attempts
of this output gave up. So the step that ends an attempt meets no other
executor that can still record. To this the invariant adds that

* later outputs have no verification and a completed one has a verdict
  (`FutureUnverified`, `CompletedIsJudged`);
* an executor that returned other than for recovery left no container
  (`ReturnedIsClean`), which `AfterUnclean` is there for;
* work in progress holds its Room (`PendingHoldsRoom`), without which
  `RecoverStartup` could meet a Room that refuses its write;
* a server that is down or starting has no executor (`DownIsEmpty`).

`VerdictsMatchEvidence` needs one more, that a stored verdict is the outcome of
the evidence stored with it (`VerdictIsOutcome`), and uses that each command
counts towards a criterion.

`WaitingCanBeVerified` follows from `SafetyInvariant`: a Run that waits has an
active Room, no verdict, and an attempt that is absent, cancelled or in recovery,
which is what `Startable` and `Retryable` ask for.

**Delivery.** `Safety` holds for any number of repositories, operations, edits
and failing calls. A Task delivers in one mode, so `DeliveryInvariant` has a part
for each, and a frame lemma says that the steps of one mode leave the others
alone. Each part links what the records say to what is in the files:

* `CheckoutKnown` (several repositories): a checkout with a write of Chora has a
  step that says so and no longer takes the patch forward, which is why a
  repository that passes `Inspect` as applicable may be marked again;
* `ApplyKnows`: the preflight loop has settled or passed every repository below
  the one it is at, so that from the first "writing" step on all other pending
  ones are in "preflight";
* `PatchKnows`, `PatchKnown` (scalar): each point of the command belongs to one
  state of the row; a patch that can be reversed was seen since the row was
  there; a row in conflict over a write was once in recovery;
* `OperationsKnown` (Task branch): one operation in doubt, each started once, a
  failed commit not written unless `stirred` or `misread`, and
  the chain commit, push, pull request, merge behind every later kind;
* `ConfirmKnows`: nothing has been sent before the step that sends, and a commit
  is on the Task branch unless the person moved it;
* `MadeKnown`, `RemoteKnown`: whose commit, branch or pull request it is that the
  world holds, and that a call which may still land has not landed, so that one
  carried out late makes no second pull request;
* `BranchKnown`, `LegacyKnown` and the last part of `PatchKnown`: what closure
  and archive have excluded stays excluded.

The actions that settle an operation in many ways share one lemma, `MoveKeeps`,
and those of the person and of late calls share `WorldKeeps`.

`DeliveryKeepsLedger` maps each action of Task delivery to a step of
`OnceLedger`: `Preview`, `ConfirmMarks` (`Confirm`), `CommitWrites`,
`RemoteSends` and `CleanupRemoves` (`Begin`), everything that settles or looks
again (`Settle`); the rest leaves the three variables alone. It says more than
`NeverReplayed`, which it replaced in the run: an effect begins only while its
own confirmation is in hand, no confirmation is given while an outcome is open,
and a failure of what cannot be ruled out by looking means that nothing began.

**Supervisors.** `Safety` holds for any number of failing calls, losses of the
server, repositories and edits. What is promised is about processes, containers
and worktrees, while the code decides from records; `Inv` says what each record,
and each step that a goroutine has reached, implies about the world.

* `RecordKept` (trusted host): a record in memory outlives no server, Start and
  a recovered record exclude each other, and only a terminal record is saved;
* `StartKnows`: what lies on disk at each step of Start. A child that waits at
  the gate is still unreaped, so its number cannot have moved; a released gate
  finds a running, exact manifest;
* `ChildIsKnown`: a released launcher is on record, an inexact record has nobody
  alive behind it, and the number leads elsewhere only after leader and group
  are gone. With these the signals stay in the group, since a signal needs a
  present leader;
* `JournalKept`: while worktrees are being written the journal is valid, and
  where it may be missing they are all as before or all as after;
* `AttemptKept` (Docker): which steps of Start, wait, Stop and cleanup go with
  which state of the record, and that a collection has a dead container and no
  timeout;
* `ImportIsOwned`: one import at a time, owned by the collector or by one
  cleanup whose container is already gone. So whoever answers "dead" has no
  container, and a new `Prepare` meets no import under way.

Each of these has its own lemma with a case per action. The supervisor of the
other target keeps its initial state, which is the last part of `Inv`.

**Only model-checked.** Liveness (`RunSettles`, `RetryIsDispatched`,
`VerificationSettles`) is out of the prover's reach, as is ENABLED. Every other
property of a passing run has its theorem.

## 6. Disagreements between the code and its own words

* `AgentRunSwitchRejected`: `PrepareProfileSwitch` (`app/profile_switch.go`)
  prepares another Agent attempt after a planning-gap or contract-change
  rejection, which `app/verified_retry.go` says blocks it.
* `RunLifecycleRelaunch`: a crash between `markStoppedFinalized` and the last
  transaction of `requestStop` leaves a Run that makes every later start of the
  server end with "malformed reconcile outcome"; `docs/macos-application.md`
  tells the person to relaunch.
* `RunLifecycleExitFault`: one failing call in `HandleExit` ends the monitor and
  leaves the Run running for ever; `docs/isolated-local.md` says that a stopped
  runtime triggers recovery instead.
* `RunLifecycleLostObservation`: one failed observation sends the Run to
  `revision_required` without authority to retry, not to recovery.
* `VerificationCancelled`: the attempt timeout of the Verifier, and a shutdown,
  are stored as `user_cancelled`, because the context that carries them is what
  `executeCommands` takes for the person's.

### Met while modelling deliveries and supervisors

These have no run of their own; the properties are stated so that each is
visible as the case they leave out (`stirred`, `misread`, `doubted`, `lost`, the
late effects), and the model contains every one of them.

* `validateBinding` answers `ErrConflict` also when Git itself fails, when one
  of its reads meets the 20 s limit, or when the request was cancelled
  (`taskdelivery/git.go:345-348`, `363-365`, `373-375`). It is the first thing
  `reconcileCommitContent` does after `git commit` (`git.go:179`, `221`), so a
  browser that goes away at that moment has the commit saved as failed
  (`app/task_delivery.go:618-625`), and a refresh can do the same
  (`:711-713`). The commit stays on the Task branch; a fresh commit preview is
  refused, since the branch moved, and the Result can be closed. Worktree and
  branch are kept. `FailedDidNothing` and `ClosedLeftNothing` therefore except
  the commits in `misread`. A push that landed may be recorded as failed in the
  same way; the next push finds it at the remote and succeeds, and
  `FailedDidNothing` says nothing of a push.

* A person who switches or moves the Task branch while `git commit` runs makes
  `reconcileCommitContent` record the operation as failed although a commit was
  written to the other branch; a person's own commit in the window leaves it in
  recovery until it is undone. A crash may leave `index.lock`, which blocks later
  commits until the person removes it.
* A push that timed out and lands later is refreshed to `failed` before it
  lands. The next push operation finds the branch at the remote and succeeds.
* After a crash between the removal of a worktree and the save of an ordinary
  cleanup, `RefreshTaskDelivery` first reads the recorded pull request back
  through the missing worktree (`localweb/task_delivery.go:62-68`,
  `app/task_delivery.go:672-696`) and gives up, each time. The operation stays
  open and holds closure and archive back, while `localweb/HTTP_API.md:145-146`
  and `docs/workbench-maintenance.md:249` describe a refresh that settles it.
* A scalar patch application that is retried from recovery may record what is
  left of a partial write as a conflict, after which the Result can be closed.
* The cleanup of a closed Result checks the worktree and then runs `git worktree
  remove --force`; an edit in between is lost.
* `ReconcileDead` of the Docker supervisor says that `docker exec` ended. After
  a failed setup, or a termination whose error is ignored, the container may
  still run, so this answer is not counted in `claimed`.
* A Stop that comes after `wait` took its snapshot of a finished Runtime lets the
  whole result be imported although the stop is confirmed. A Stop after a natural
  exit and before the drain removes the result file.
* A crash after an import is complete and before its result is consumed leaves
  the changes in the worktrees of an Attempt that is recorded failed. A journal
  whose removal cannot be synced is reported as a failure of a complete import.
* A torn journal, or a runtime root without its marker (a crash between the two),
  keeps the isolated mode unavailable until somebody repairs it
  (`docs/isolated-local.md:156-162` says so of damaged records). An attempt
  directory of the trusted host without a manifest (a crash between `Mkdir` and
  the first write, or amid the removal) makes `New` fail in the same way.
* A live trusted-host record whose group outlives its leader by the kill wait
  stays uncertain until the server restarts, and a proof of death that could not
  be saved is not saved again, so `Finalize` refuses it until then.
* The outcome of a failed start carries no handle, so the router has no route to
  an uncertain attempt until the next start of the server.

## 7. What is not modelled, and why

* Command replay by idempotency key: the digest holds the expected version, so
  a repeated command either finds its own reply or is another command.
* The content of messages, evidence, bindings, patches and logs; digests that
  must agree are taken to agree, since nothing in the modelled code changes a
  frozen one.
* The graceful shutdown of the desktop application (`gracefulShutdown` in
  `Server.Close`), which stops runtimes with the actions of `requestStop`.
* In `Verification`: the acceptance-only policy mode (it runs no command), the
  recovery of a Verifier that is not installed as a product, the path of local
  Runs that are reviewed without a Verifier, the protection of results in a
  Room that a project owns, and a duplicate execution identity (identities are
  random and fresh).
* The workspace directory of a Verification Attempt apart from its container:
  `Recover` removes both, and no record depends on the directory.
* In the deliveries: Git children that outlive the server (they are taken to die
  with it), the archive of the Project that owns a Room, and writes of other
  Tasks to a shared checkout, which count among the person's edits. A person's
  edit is one change of one of the abstracted aspects; there is one other branch.
* In `TrustedHost`: the number of a group is not given out again between a proof
  of the leader's birth and the signal right after it (the two are one system
  call apart in the code and one action here); saving a record is one step with
  the change of state it saves; the stream monitor may end the group at any time,
  which includes its real limits; one launch token at a time. Descendants that
  leave the group (a session of their own) are out of the code's own reach.
  A probe of a group that fails for another reason than absence
  (`trustedhost/process.go:430-433`) is left out: `kill(-pgid, 0)` of a group
  the process has rights to answers by presence or absence.
* In `RunLifecycle`: `PrepareProfileSwitch` (it is a command of `AgentRun`),
  decision gates and handoff.
* In `DockerAttempt`: a Docker command has had its effect, or never will, once it
  returned; an orphaned `docker create` of a lost server is not modelled. One
  cleanup at a time (`cleanupMu`). The liveness probe changes no state. The
  acceptance-only mode, the injections, the network boundary, the proxy and the
  output streams are left out.
* In `IsolatedImport`: how a result is scanned, its scope and its limits (a check
  may refuse at any time); the contents of files, but for whether a tree is as
  before, as the result, in between, half written, or a person's.
* Stream ingestion, worktrees, delegation, installation, documents: planned in
  section 2.
* Adapters, contract parsing, context assembly, repository capture, profile
  rendering, web client, command line, migrations: data transformation or
  one-shot I/O with no order of events to get wrong. They are most of the
  repository's lines.
