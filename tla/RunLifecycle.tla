---------------------------- MODULE RunLifecycle ----------------------------
(***************************************************************************)
(* One pi Run of the Workbench from draft to review, with everything that  *)
(* drives it: the service commands of internal/app, each a critical        *)
(* section of the Run's lock made of several store transactions and        *)
(* supervisor calls; the monitor goroutine of every started attempt and    *)
(* the automatic-retry dispatcher of internal/localweb; the supervisor     *)
(* that owns the processes; and the crash of the whole server followed by  *)
(* RecoverStartup.  The Run has a local capability (no independent         *)
(* verifier, so a result goes straight to human review) and a single       *)
(* repository; its attempts are bound to one execution provider, "docker"  *)
(* (Isolated Local) or "trusted_host" (PATH Pi).                           *)
(***************************************************************************)
EXTENDS Naturals, RunTable

CONSTANTS Providers,     \* execution providers the Run may be bound to
          AutomaticRetryMaxRetries,   \* 2 in the code
          MaxAttempts,   \* bound on the attempts of the Run
          MaxCrashes,    \* bound on server crashes
          MaxFaults      \* bound on failing store and supervisor calls

ASSUME ProviderAssumption == Providers \subseteq {"docker", "trusted_host"}
ASSUME RetriesAssumption == AutomaticRetryMaxRetries \in Nat
ASSUME BoundsAssumption ==
  MaxAttempts \in Nat \ {0} /\ MaxCrashes \in Nat /\ MaxFaults \in Nat

Attempts == 1..MaxAttempts

VARIABLES
  provider,    \* execution provider of the Run's attempts
  \* the store
  runState, version, cur,   \* state, version, currentAttemptNumber
  att,         \* state of each Attempt, "none" before it is inserted
  sess,        \* RuntimeSession.State of its session, "none" without one
  final,       \* FinalizedAt is set
  drained,     \* both stream offsets are at EOF
  intent,      \* StopIntent of the session
  failure,     \* what automaticRetryableFailure says of its recorded reason
  authority,   \* retry authority recorded by its stop event or its review
  origin,      \* who prepared the attempt
  retry,       \* automatic-retry event projection
  \* processes and the supervisor
  proc,        \* the attempt's process (or containers)
  record,      \* the supervisor can find it again after a restart
  route,       \* the target router knows the identity
  \* the server
  server,      \* phase of the server process
  op,          \* the command inside the Run's lock
  handler,     \* an HTTP handler is between prepare and StartAttempt
  mon, monVer, \* monitor goroutine of an attempt, Run version it read
  \* the environment
  crashes, faults

storeVars == <<provider, runState, version, cur, att, sess, final, drained,
               intent, failure, authority, origin, retry>>
procVars == <<proc, record, route>>
serverVars == <<server, op, handler, mon, monVer>>
vars == <<storeVars, procVars, serverVars, crashes, faults>>

SessionStates ==
  {"none", "starting", "running", "stopping", "stopped", "lost", "failed"}
Intents == {"none", "cancel", "revision"}
RejectionClasses ==
  {"implementation_gap", "planning_gap", "contract_change_required"}
MonitorPhases == {"off", "watching", "exiting", "policing", "intervening"}
Hows == {"none", "started", "no_child", "uncertain",   \* of a start
         "cancel", "police", "revision"}               \* of a stop
OpPcs == {"idle", "launch", "record", "signal", "stopFinalize", "stopMark",
          "confirm", "uncertain", "exitFinalize", "exitCommit"}
Op(pc, a, how, ver) == [pc |-> pc, att |-> a, how |-> how, ver |-> ver]
Idle == Op("idle", 0, "none", 0)

(***************************************************************************)
(* Predicates the code evaluates.                                          *)
(***************************************************************************)
Free == server = "up" /\ op.pc = "idle"

(* runtimeSessionFinalizedForRetry, recoveryRetryReady, cancelledRetryReady *)
(* and the revision_required branch of retryRun.                           *)
FinalizedForRetry(a) == final[a] /\ sess[a] \in {"stopped", "failed"}
AutomaticRetryFinalized(a) ==
  /\ final[a]
  /\ \/ att[a] = "interrupted" /\ sess[a] = "stopped"
     \/ att[a] = "failed" /\ sess[a] \in {"stopped", "failed"}

HumanRetryReady ==
  \/ runState = "recovery_required" /\ AutomaticRetryFinalized(cur)
  \/ /\ runState = "cancelled"
     /\ authority[cur] = "allowed"
     /\ \/ /\ att[cur] = "cancelled" /\ final[cur]
           /\ sess[cur] = "stopped" /\ intent[cur] = "cancel"
        \/ AutomaticRetryFinalized(cur)
  \/ /\ runState = "revision_required"
     /\ att[cur] = "output_submitted"
     /\ authority[cur] = "allowed"

(* automaticRetryForRun.                                                   *)
AutoBlocked ==
  /\ runState \in {"ready", "running", "stopping", "recovery_required"}
  /\ retry.blocked = cur

AutoRetrying ==
  /\ ~AutoBlocked
  /\ runState \in {"ready", "running", "stopping"}
  /\ retry.prepared = cur

(* Mutant: interrupted work is repeated like failed work.                  *)
AutoRetryableInterrupted ==
  /\ runState = "recovery_required" /\ ~AutoBlocked
  /\ failure[cur] = "retryable"
  /\ AutomaticRetryFinalized(cur)

AutoRetryable ==
  /\ runState = "recovery_required" /\ ~AutoBlocked
  /\ att[cur] # "interrupted"
  /\ failure[cur] = "retryable"
  /\ AutomaticRetryFinalized(cur)

(* The dispatcher's own start answered without a live session.             *)
AutoStartFailed ==
  /\ runState = "recovery_required" /\ ~AutoBlocked
  /\ retry.prepared = cur /\ sess[cur] \in {"failed", "lost"}

(* Mutant: one retry too many.                                             *)
AutoPendingPastBudget ==
  AutoRetryable /\ retry.used <= AutomaticRetryMaxRetries

AutoPending == AutoRetryable /\ retry.used < AutomaticRetryMaxRetries

(* Mutant: a recovery cut off by a second crash is no candidate.           *)
StartupCandidateFirstCrashOnly ==
  \/ runState \in {"running", "stopping"}
  \/ cur # 0 /\ att[cur] \in {"starting", "running"}

(* Mutant: a session with its cleanup proof is a candidate again.          *)
StartupCandidateFinalizedToo ==
  \/ runState \in {"running", "stopping"}
  \/ cur # 0 /\ att[cur] \in {"starting", "running"}
  \/ runState = "recovery_required" /\ sess[cur] \notin {"none", "failed"}

(* ListStartupCandidates, for this Run.                                    *)
StartupCandidate ==
  \/ runState \in {"running", "stopping"}
  \/ cur # 0 /\ att[cur] \in {"starting", "running"}
  \/ /\ runState = "recovery_required"
     /\ sess[cur] \notin {"none", "failed"} /\ ~final[cur]
-----------------------------------------------------------------------------
Init ==
  /\ provider \in Providers
  /\ runState = "draft" /\ version = 0 /\ cur = 0
  /\ att = [a \in Attempts |-> "none"]
  /\ sess = [a \in Attempts |-> "none"]
  /\ final = [a \in Attempts |-> FALSE]
  /\ drained = [a \in Attempts |-> FALSE]
  /\ intent = [a \in Attempts |-> "none"]
  /\ failure = [a \in Attempts |-> "none"]
  /\ authority = [a \in Attempts |-> "none"]
  /\ origin = [a \in Attempts |-> "none"]
  /\ retry = [used |-> 0, prepared |-> 0, blocked |-> 0]
  /\ proc = [a \in Attempts |-> "none"]
  /\ record = [a \in Attempts |-> FALSE]
  /\ route = [a \in Attempts |-> FALSE]
  /\ server = "up" /\ op = Idle /\ handler = FALSE
  /\ mon = [a \in Attempts |-> "off"]
  /\ monVer = [a \in Attempts |-> 0]
  /\ crashes = 0 /\ faults = 0

(* Mutant: the successor keeps the version it replaces.                    *)
SaveRunSameVersion(s) == runState' = s /\ version' = version

(* SaveRunCAS of the successor in state s.                                 *)
SaveRun(s) == runState' = s /\ version' = version + 1

Fault == faults < MaxFaults /\ faults' = faults + 1
-----------------------------------------------------------------------------
(***************************************************************************)
(* Preparing an attempt (app.Service.prepare) and starting it              *)
(* (StartAttempt).                                                         *)
(***************************************************************************)

(* The transaction that moves the Run to ready and inserts its successor   *)
(* attempt, prepared by the person or by the dispatcher.                   *)
InsertAttempt(who) ==
  /\ cur < MaxAttempts
  /\ SaveRun("ready")
  /\ cur' = cur + 1
  /\ att' = [att EXCEPT ![cur + 1] = "created"]
  /\ origin' = [origin EXCEPT ![cur + 1] = who]
  /\ UNCHANGED <<provider, sess, final, drained, intent, failure, authority>>
  /\ UNCHANGED <<procVars, server, op, mon, monVer, crashes, faults>>

PrepareRun ==
  /\ Free /\ ~handler /\ runState = "draft"
  /\ InsertAttempt("human")
  /\ handler' = TRUE
  /\ UNCHANGED retry

(* retryRun on a settled Run; an explicit retry resets the budget.         *)
HumanRetry ==
  /\ Free /\ ~handler
  /\ HumanRetryReady /\ FinalizedForRetry(cur)
  /\ InsertAttempt("human")
  /\ handler' = TRUE
  /\ retry' = [used |-> 0, prepared |-> 0, blocked |-> 0]

(* dispatchAutomaticRetry, the prepare half.                               *)
AutoRetry ==
  /\ Free /\ AutoPending /\ FinalizedForRetry(cur)
  /\ InsertAttempt("auto")
  /\ retry' = [used |-> retry.used + 1, prepared |-> cur + 1, blocked |-> 0]
  /\ UNCHANGED handler

(* blockAutomaticRetry: the dispatcher finds no route for the attempt, or   *)
(* its start failed.                                                       *)
BlockAutomaticRetry ==
  /\ Free
  /\ \/ AutoPending
     \/ AutoRetrying /\ runState = "ready"
     \/ AutoStartFailed
  /\ retry' = [retry EXCEPT !.blocked = cur]
  /\ UNCHANGED <<provider, runState, version, cur, att, sess, final,
                 drained, intent, failure, authority, origin, procVars,
                 serverVars, crashes, faults>>

(* Mutant: the dispatcher prepares but does not start.                     *)
MayStartByHand == handler \/ AutoBlocked

(* StartAttempt is called by the handler that prepared the attempt, by the *)
(* dispatcher, and by startBlockedAutomaticRetry.                          *)
MayStart == handler \/ AutoRetrying \/ AutoBlocked

(* Its first transaction; "run.started" lifts a block.                     *)
StartReserve ==
  /\ Free /\ runState = "ready"
  /\ MayStart
  /\ sess[cur] = "none" /\ att[cur] = "created"
  /\ SaveRun("running")
  /\ att' = [att EXCEPT ![cur] = "starting"]
  /\ sess' = [sess EXCEPT ![cur] = "starting"]
  /\ retry' = [retry EXCEPT !.blocked = 0]
  /\ handler' = FALSE
  /\ op' = Op("launch", cur, "none", 0)
  /\ UNCHANGED <<provider, cur, final, drained, intent, failure, authority,
                 origin, procVars, server, mon, monVer, crashes, faults>>

(* The launch is refused before any child exists.                          *)
LaunchNoChild ==
  /\ op.pc = "launch"
  /\ op' = [op EXCEPT !.pc = "record", !.how = "no_child"]
  /\ UNCHANGED <<storeVars, procVars, server, handler, mon, monVer,
                 crashes, faults>>

(* Supervisor.Start with an owned process.                                 *)
LaunchStarted ==
  /\ op.pc = "launch"
  /\ proc' = [proc EXCEPT ![op.att] = "alive"]
  /\ record' = [record EXCEPT ![op.att] = TRUE]
  /\ route' = [route EXCEPT ![op.att] = TRUE]
  /\ op' = [op EXCEPT !.pc = "record", !.how = "started"]
  /\ UNCHANGED <<storeVars, server, handler, mon, monVer, crashes, faults>>

(* StartReconciliationRequired: a child may exist; the identity, and with  *)
(* it the route and the record, may be missing.                            *)
LaunchUncertain ==
  /\ op.pc = "launch" /\ Fault
  /\ \E p \in {"alive", "dead"}, known \in BOOLEAN :
       /\ proc' = [proc EXCEPT ![op.att] = p]
       /\ record' = [record EXCEPT ![op.att] = known]
       /\ route' = [route EXCEPT ![op.att] = known]
  /\ op' = [op EXCEPT !.pc = "record", !.how = "uncertain"]
  /\ UNCHANGED <<storeVars, server, handler, mon, monVer, crashes>>

(* recordStartOutcome; the caller starts a monitor for a live identity.    *)
StartRecord ==
  /\ op.pc = "record"
  /\ LET a == op.att IN
     \/ /\ op.how = "started"
        /\ SaveRun("running")
        /\ att' = [att EXCEPT ![a] = "running"]
        /\ sess' = [sess EXCEPT ![a] = "running"]
        /\ mon' = [mon EXCEPT ![a] = "watching"]
        /\ UNCHANGED final
     \/ /\ op.how = "no_child"
        /\ SaveRun("recovery_required")
        /\ att' = [att EXCEPT ![a] = "failed"]
        /\ sess' = [sess EXCEPT ![a] = "failed"]
        /\ final' = [final EXCEPT ![a] = TRUE]
        /\ UNCHANGED mon
     \/ /\ op.how = "uncertain"
        /\ SaveRun("recovery_required")
        /\ sess' = [sess EXCEPT ![a] = "lost"]
        /\ UNCHANGED <<att, final, mon>>
  /\ op' = Idle
  /\ UNCHANGED <<provider, cur, drained, intent, failure, authority,
                 origin, retry, procVars, server, handler, monVer, crashes,
                 faults>>
-----------------------------------------------------------------------------
(***************************************************************************)
(* The process ends by itself or at its MaxRuntime; its monitor notices.   *)
(***************************************************************************)
ProcessDies(a) ==
  /\ proc[a] = "alive"
  /\ proc' = [proc EXCEPT ![a] = "dead"]
  /\ UNCHANGED <<storeVars, record, route, serverVars, crashes, faults>>

(* One tick of monitorRuntimeRun.  It looks at the Run, then reconciles its *)
(* own identity, then reads the Run's version for the command it issues.   *)
Watches(a) == server = "up" /\ mon[a] = "watching"

(* Mutant: the monitor passes the version before the last one.             *)
DecideStale(a, next) ==
  /\ mon' = [mon EXCEPT ![a] = next]
  /\ monVer' = [monVer EXCEPT ![a] = IF next = "off" THEN 0 ELSE version - 1]
  /\ UNCHANGED <<storeVars, procVars, server, op, handler, crashes>>

Decide(a, next) ==
  /\ mon' = [mon EXCEPT ![a] = next]
  /\ monVer' = [monVer EXCEPT ![a] = IF next = "off" THEN 0 ELSE version]
  /\ UNCHANGED <<storeVars, procVars, server, op, handler, crashes>>

MonitorLeaves(a) ==
  /\ Watches(a)
  /\ runState \notin {"running", "stopping"}
  /\ Decide(a, "off") /\ UNCHANGED faults

MonitorSeesExit(a) ==
  /\ Watches(a) /\ runState \in {"running", "stopping"}
  /\ route[a] /\ proc[a] = "dead"
  /\ Decide(a, "exiting") /\ UNCHANGED faults

MonitorSeesViolation(a) ==
  /\ Watches(a) /\ runState \in {"running", "stopping"}
  /\ route[a] /\ proc[a] = "alive"
  /\ Decide(a, "policing") /\ UNCHANGED faults

(* No route, or a failed observation: only a running Run is intervened in. *)
MonitorUncertain(a) ==
  /\ Watches(a) /\ runState \in {"running", "stopping"}
  /\ \/ ~route[a] /\ UNCHANGED faults
     \/ route[a] /\ Fault
  /\ Decide(a, IF runState = "running" THEN "intervening" ELSE "off")

MonitorOff(a) == /\ mon' = [mon EXCEPT ![a] = "off"]
                 /\ monVer' = [monVer EXCEPT ![a] = 0]

(***************************************************************************)
(* HandleExit.  The version is compared only in the last transaction,      *)
(* after the supervisor has finalized the runtime.                         *)
(***************************************************************************)
ExitEnter(a) ==
  /\ Free /\ mon[a] = "exiting"
  /\ MonitorOff(a)
  /\ IF route[a] /\ proc[a] = "dead"
       THEN /\ drained' = [drained EXCEPT ![a] = TRUE]
            /\ op' = Op("exitFinalize", a, "none", monVer[a])
       ELSE UNCHANGED <<drained, op>>
  /\ UNCHANGED <<provider, runState, version, cur, att, sess, final,
                 intent, failure, authority, origin, retry, procVars,
                 server, handler, crashes, faults>>

(* Supervisor.Finalize: runtime, route and record are gone.                *)
SupervisorFinalize(a) ==
  /\ record' = [record EXCEPT ![a] = FALSE]
  /\ route' = [route EXCEPT ![a] = FALSE]
  /\ UNCHANGED proc

ExitFinalize ==
  /\ op.pc = "exitFinalize"
  /\ SupervisorFinalize(op.att)
  /\ op' = [op EXCEPT !.pc = "exitCommit"]
  /\ UNCHANGED <<storeVars, server, handler, mon, monVer, crashes, faults>>

ExitResults == {"review_ready", "no_change", "retryable", "other"}

(* Mutants: the session is stopped but its FinalizedAt is not saved; or it  *)
(* is given a state that no session has.                                   *)
FinalizeSessionHalf(a) ==
  sess' = [sess EXCEPT ![a] = "stopped"] /\ UNCHANGED final
FinalizeSessionUnknownState(a) ==
  /\ sess' = [sess EXCEPT ![a] = "finalized"]
  /\ final' = [final EXCEPT ![a] = TRUE]

(* The session of a proven exit, as HandleExit and markStoppedFinalized    *)
(* save it.                                                                *)
FinalizeSession(a) ==
  /\ sess' = [sess EXCEPT ![a] = "stopped"]
  /\ final' = [final EXCEPT ![a] = TRUE]

(* submitTerminalTx: report, Run, Attempt and finalized session at once.   *)
Submit(a, result) ==
  /\ CASE result = "review_ready" -> SaveRun("awaiting_review")
       [] result = "no_change" -> SaveRun("completed")
       [] OTHER -> SaveRun("recovery_required")
  /\ IF result \in {"review_ready", "no_change"}
       THEN /\ att' = [att EXCEPT ![a] = "output_submitted"]
            /\ UNCHANGED failure
       ELSE /\ att' = [att EXCEPT ![a] = "failed"]
            /\ failure' = [failure EXCEPT ![a] = result]
  /\ FinalizeSession(a)

(* What the last transaction of HandleExit requires.                       *)
ExitApplies(a) ==
  version = op.ver /\ runState = "running" /\ att[a] = "running"

ExitCommit ==
  /\ op.pc = "exitCommit"
  /\ LET a == op.att IN
     IF ExitApplies(a)
       THEN \E result \in ExitResults : Submit(a, result)
       ELSE UNCHANGED <<runState, version, att, failure, sess, final>>
  /\ op' = Idle
  /\ UNCHANGED <<provider, cur, drained, intent, authority, origin, retry,
                 procVars, server, handler, mon, monVer, crashes, faults>>
-----------------------------------------------------------------------------
(***************************************************************************)
(* requestStop: a cancellation by the person, by a monitor that saw a      *)
(* policy violation, or a monitor's intervention.  The first transaction    *)
(* records "stopping"; the second reads the current attempt again.          *)
(***************************************************************************)
IntentOf(how) == IF how = "revision" THEN "revision" ELSE "cancel"

EnterStop(how) ==
  /\ runState = "running"
  /\ SaveRun("stopping")
  /\ sess' = [sess EXCEPT ![cur] = "stopping"]
  /\ intent' = [intent EXCEPT ![cur] = IntentOf(how)]
  /\ authority' = [authority EXCEPT
                     ![cur] = IF how = "cancel" THEN "allowed" ELSE "denied"]
  /\ op' = Op("signal", cur, how, 0)
  /\ UNCHANGED <<provider, cur, att, final, drained, failure, origin, retry>>

HumanCancel ==
  /\ Free /\ EnterStop("cancel")
  /\ UNCHANGED <<procVars, server, handler, mon, monVer, crashes, faults>>

(* A stopping Run whose stop was cut off accepts another cancellation.     *)
CancelsAgain(how) ==
  /\ runState = "stopping" /\ how # "revision" /\ intent[cur] = "cancel"
  /\ op' = Op("signal", cur, how, 0)
  /\ UNCHANGED storeVars

HumanCancelsAgain ==
  /\ Free /\ CancelsAgain("cancel")
  /\ UNCHANGED <<procVars, server, handler, mon, monVer, crashes, faults>>

(* A monitor stops the current attempt of the Run, whatever its own is;    *)
(* a stale version is answered ErrVersionConflict and only logged.         *)
MonitorStops(a, phase, how) ==
  /\ Free /\ mon[a] = phase
  /\ MonitorOff(a)
  /\ \/ monVer[a] = version /\ EnterStop(how)
     \/ monVer[a] = version /\ CancelsAgain(how)
     \/ /\ \/ monVer[a] # version
           \/ runState = "stopping" /\ intent[cur] = "revision"
        /\ UNCHANGED <<storeVars, op>>
  /\ UNCHANGED <<procVars, server, handler, crashes, faults>>

MonitorPolices(a) == MonitorStops(a, "policing", "police")
MonitorIntervenes(a) == MonitorStops(a, "intervening", "revision")

(* A cancellation with no process to stop: a prepared automatic retry, or  *)
(* a recovery whose cleanup is proven.                                     *)
CancelInactive ==
  /\ Free
  /\ \/ /\ runState = "ready" /\ sess[cur] = "none"
        /\ AutoRetrying \/ AutoBlocked
     \/ runState = "recovery_required" /\ AutomaticRetryFinalized(cur)
  /\ SaveRun("cancelled")
  /\ authority' = [authority EXCEPT ![cur] = "allowed"]
  /\ UNCHANGED <<provider, cur, att, sess, final, drained, intent, failure,
                 origin, retry, procVars, serverVars, crashes, faults>>

(* Reconcile, Stop and the drain to EOF.                                   *)
GoTo(pc) == op' = [op EXCEPT !.pc = pc]

(* Mutant: an uncertain stop counts as a confirmed one.                    *)
AfterStopAssumed(confirmed) == GoTo("stopFinalize")

(* A stop is finalized only when its outcome is StopConfirmed.             *)
AfterStop(confirmed) ==
  GoTo(IF confirmed THEN "stopFinalize" ELSE "uncertain")

StopSignal ==
  /\ op.pc = "signal"
  /\ LET a == op.att IN
     \/ /\ final[a]
        /\ IF sess[a] = "stopped" /\ intent[a] = IntentOf(op.how)
             THEN GoTo("confirm") ELSE op' = Idle
        /\ UNCHANGED <<proc, drained, faults>>
     \/ /\ ~final[a] /\ ~route[a]
        /\ AfterStop(FALSE)
        /\ UNCHANGED <<proc, drained, faults>>
     \/ /\ ~final[a] /\ route[a]
        /\ proc' = [proc EXCEPT ![a] = "dead"]
        /\ drained' = [drained EXCEPT ![a] = TRUE]
        /\ AfterStop(TRUE)
        /\ UNCHANGED faults
     \/ /\ ~final[a] /\ route[a] /\ Fault
        /\ proc' \in {proc, [proc EXCEPT ![a] = "dead"]}
        /\ AfterStop(FALSE)
        /\ UNCHANGED drained
  /\ UNCHANGED <<provider, runState, version, cur, att, sess, final,
                 intent, failure, authority, origin, retry, record, route,
                 server, handler, mon, monVer, crashes>>

StopFinalize ==
  /\ op.pc = "stopFinalize"
  /\ \/ SupervisorFinalize(op.att) /\ GoTo("stopMark") /\ UNCHANGED faults
     \/ Fault /\ GoTo("uncertain") /\ UNCHANGED procVars
  /\ UNCHANGED <<storeVars, server, handler, mon, monVer, crashes>>

(* markStoppedFinalized, a transaction of its own.                         *)
StopMark ==
  /\ op.pc = "stopMark"
  /\ FinalizeSession(op.att)
  /\ GoTo("confirm")
  /\ UNCHANGED <<provider, runState, version, cur, att, drained, intent,
                 failure, authority, origin, retry, procVars, server,
                 handler, mon, monVer, crashes, faults>>

(* The last transaction.  Its checks are about the current attempt and its *)
(* session; a check that fails rolls back.                                 *)
Confirmed ==
  /\ runState = "stopping" /\ att[cur] \in {"starting", "running"}
  /\ sess[cur] = "stopped" /\ final[cur] /\ intent[cur] = IntentOf(op.how)

(* Mutant: the stopped Attempt is made new again.                          *)
StoppedAttemptReused == "created"

StoppedAttempt == IF op.how = "revision" THEN "interrupted" ELSE "cancelled"

StopConfirm ==
  /\ op.pc = "confirm"
  /\ IF Confirmed
       THEN /\ SaveRun(IF op.how = "revision" THEN "revision_required"
                                              ELSE "cancelled")
            /\ att' = [att EXCEPT ![cur] = StoppedAttempt]
       ELSE UNCHANGED <<runState, version, att>>
  /\ op' = Idle
  /\ UNCHANGED <<provider, cur, sess, final, drained, intent, failure,
                 authority, origin, retry, procVars, server, handler, mon,
                 monVer, crashes, faults>>

StopUncertain ==
  /\ op.pc = "uncertain"
  /\ IF runState = "stopping"
       THEN /\ SaveRun("recovery_required")
            /\ sess' = [sess EXCEPT ![cur] = "lost"]
       ELSE UNCHANGED <<runState, version, sess>>
  /\ op' = Idle
  /\ UNCHANGED <<provider, cur, att, final, drained, intent, failure,
                 authority, origin, retry, procVars, server, handler, mon,
                 monVer, crashes, faults>>

(* A store or supervisor call of the command in progress fails: the        *)
(* command returns its error with what it has done so far.                 *)
OperationFails ==
  /\ op.pc # "idle" /\ Fault
  /\ op' = Idle
  /\ UNCHANGED <<provider, runState, version, cur, att, sess, final,
                 drained, intent, failure, authority, origin, retry,
                 procVars, server, handler, mon, monVer, crashes>>

(* The handler fails between prepare and StartAttempt.                     *)
HandlerFails ==
  /\ handler /\ Fault
  /\ handler' = FALSE
  /\ UNCHANGED <<storeVars, procVars, server, op, mon, monVer, crashes>>
-----------------------------------------------------------------------------
(* Service.Review and ReviewVerifiedResult.                                *)
Accept ==
  /\ Free /\ runState = "awaiting_review"
  /\ SaveRun("accepted")
  /\ UNCHANGED <<provider, cur, att, sess, final, drained, intent, failure,
                 authority, origin, retry, procVars, serverVars, crashes,
                 faults>>

(* Only an implementation gap lets the Agent retry.                        *)
Reject(class) ==
  /\ Free /\ runState = "awaiting_review"
  /\ SaveRun("revision_required")
  /\ authority' = [authority EXCEPT ![cur] = IF class = "implementation_gap"
                                               THEN "allowed" ELSE "denied"]
  /\ UNCHANGED <<provider, cur, att, sess, final, drained, intent, failure,
                 origin, retry, procVars, serverVars, crashes, faults>>
-----------------------------------------------------------------------------
(***************************************************************************)
(* The crash of the server, and the start that recovers from it: the       *)
(* Docker supervisor's Recover or the trusted host's loaded records, the   *)
(* restored routes, then RecoverStartup on the candidate.                  *)
(***************************************************************************)
BootPhases == {"routed", "detected", "stopped", "finalized"}

(* Everything in memory is gone; containers and host processes are not.    *)
ServerLost(phase) ==
  /\ server' = phase
  /\ op' = Idle /\ handler' = FALSE
  /\ mon' = [a \in Attempts |-> "off"]
  /\ monVer' = [a \in Attempts |-> 0]
  /\ route' = [a \in Attempts |-> FALSE]
  /\ UNCHANGED <<provider, runState, version, cur, att, sess, final,
                 drained, intent, failure, authority, origin, retry, proc,
                 record>>

Crash ==
  /\ server \in BootPhases \cup {"up"}
  /\ crashes < MaxCrashes /\ crashes' = crashes + 1
  /\ ServerLost("down")
  /\ UNCHANGED faults

(* A store or supervisor call of the start fails: the server exits.        *)
BootFails ==
  /\ server \in BootPhases /\ Fault
  /\ ServerLost("down")
  /\ UNCHANGED crashes

Boot(phase) ==
  /\ server' = phase
  /\ UNCHANGED <<op, handler, mon, monVer, crashes>>

Recoverable == StartupCandidate /\ sess[cur] # "none"
Unfinalized == Recoverable /\ ~final[cur]

(* restorePiStartupRoutes and RestoreTarget.  Docker's Recover has removed *)
(* every owned container, and each unfinalized session is registered dead. *)
(* The trusted host owns what it has a record of; a session without one    *)
(* refuses the start.                                                      *)
BootRoutesDocker ==
  /\ server \in {"down", "refused"} /\ provider = "docker"
  /\ proc' = [a \in Attempts |-> IF proc[a] = "alive" THEN "dead" ELSE proc[a]]
  /\ route' = [a \in Attempts |-> a = cur /\ Unfinalized]
  /\ Boot("routed")
  /\ UNCHANGED <<storeVars, record, faults>>

BootRoutesTrusted ==
  /\ server \in {"down", "refused"} /\ provider = "trusted_host"
  /\ route' = [a \in Attempts |-> a = cur /\ Unfinalized /\ record[a]]
  /\ Boot(IF Unfinalized /\ ~record[cur] THEN "refused" ELSE "routed")
  /\ UNCHANGED <<storeVars, proc, record, faults>>

(* The first transaction of RecoverStartup for the candidate.              *)
BootDetect ==
  /\ server = "routed"
  /\ IF ~StartupCandidate \/ runState = "recovery_required"
       THEN UNCHANGED <<runState, version>>
       ELSE /\ runState \in {"running", "stopping"}
            /\ SaveRun("recovery_required")
  /\ Boot(IF Recoverable THEN "detected" ELSE "up")
  /\ UNCHANGED <<provider, cur, att, sess, final, drained, intent, failure,
                 authority, origin, retry, procVars, faults>>

(* Reconcile without a route: PATH Pi leaves the Run in recovery, a managed *)
(* runtime ends the start with "malformed reconcile outcome".              *)
BootUnknown ==
  /\ server = "detected" /\ ~route[cur]
  /\ Boot(IF provider = "docker" THEN "refused" ELSE "up")
  /\ UNCHANGED <<storeVars, procVars, faults>>

(* A PATH Pi process that outlived the server is stopped, if it can be.    *)
BootStop ==
  /\ server = "detected" /\ route[cur] /\ proc[cur] = "alive"
  /\ \/ /\ proc' = [proc EXCEPT ![cur] = "dead"]
        /\ Boot("detected") /\ UNCHANGED faults
     \/ Fault /\ Boot("up") /\ UNCHANGED proc
  /\ UNCHANGED <<storeVars, record, route>>

(* Reconciled dead: a session already stopped is only finalized.  Else the *)
(* streams are drained and the Attempt is interrupted; its failure reason  *)
(* comes from the terminal files, which only the trusted host still has.   *)
BootFailures ==
  IF provider = "docker" THEN {"retryable"} ELSE {"retryable", "other", "none"}

BootInterrupt ==
  /\ server = "detected" /\ route[cur] /\ proc[cur] # "alive"
  /\ IF sess[cur] = "stopped"
       THEN /\ Boot(IF drained[cur] THEN "stopped" ELSE "refused")
            /\ UNCHANGED <<att, sess, drained, failure>>
       ELSE /\ att[cur] \in {"starting", "running"}
            /\ drained' = [drained EXCEPT ![cur] = TRUE]
            /\ att' = [att EXCEPT ![cur] = "interrupted"]
            /\ sess' = [sess EXCEPT ![cur] = "stopped"]
            /\ \E f \in BootFailures : failure' = [failure EXCEPT ![cur] = f]
            /\ Boot("stopped")
  /\ UNCHANGED <<provider, runState, version, cur, final, intent,
                 authority, origin, retry, procVars, faults>>

BootFinalize ==
  /\ server = "stopped"
  /\ SupervisorFinalize(cur)
  /\ Boot("finalized")
  /\ UNCHANGED <<storeVars, faults>>

(* markFinalized.                                                          *)
BootMark ==
  /\ server = "finalized"
  /\ final' = [final EXCEPT ![cur] = TRUE]
  /\ Boot("up")
  /\ UNCHANGED <<provider, runState, version, cur, att, sess, drained,
                 intent, failure, authority, origin, retry, procVars,
                 faults>>
-----------------------------------------------------------------------------
Prepare == PrepareRun \/ HumanRetry \/ AutoRetry \/ BlockAutomaticRetry
Start == \/ StartReserve \/ LaunchNoChild \/ LaunchStarted \/ LaunchUncertain
         \/ StartRecord
Monitor(a) == \/ MonitorLeaves(a) \/ MonitorSeesExit(a)
              \/ MonitorSeesViolation(a) \/ MonitorUncertain(a)
              \/ ExitEnter(a) \/ MonitorPolices(a) \/ MonitorIntervenes(a)
Exit == ExitFinalize \/ ExitCommit
Stop == StopSignal \/ StopFinalize \/ StopMark \/ StopConfirm \/ StopUncertain
Human == \/ HumanCancel \/ HumanCancelsAgain \/ CancelInactive
         \/ Accept \/ \E class \in RejectionClasses : Reject(class)
Startup == \/ BootRoutesDocker \/ BootRoutesTrusted \/ BootDetect
           \/ BootUnknown \/ BootStop \/ BootInterrupt \/ BootFinalize
           \/ BootMark
Failure == OperationFails \/ HandlerFails \/ Crash \/ BootFails

Next == \/ Prepare \/ Start \/ Exit \/ Stop \/ Human \/ Startup \/ Failure
        \/ \E a \in Attempts : Monitor(a) \/ ProcessDies(a)

Spec == Init /\ [][Next]_vars

(* Goroutines run on; a waiting lock is granted (sync.Mutex hands it over   *)
(* to a starving waiter); every process ends, at its MaxRuntime at the     *)
(* latest; a stopped server is started again.  Nothing is assumed of the    *)
(* person.                                                                  *)
Fairness ==
  /\ WF_vars(Start) /\ WF_vars(Exit) /\ WF_vars(Stop) /\ WF_vars(Startup)
  /\ SF_vars(AutoRetry) /\ SF_vars(~AutoBlocked /\ StartReserve)
  /\ \A a \in Attempts :
       /\ WF_vars(\/ MonitorLeaves(a) \/ MonitorSeesExit(a)
                  \/ MonitorUncertain(a))
       /\ SF_vars(ExitEnter(a) \/ MonitorPolices(a) \/ MonitorIntervenes(a))
       /\ WF_vars(ProcessDies(a))

FairSpec == Spec /\ Fairness
-----------------------------------------------------------------------------
(***************************************************************************)
(* Properties.                                                             *)
(***************************************************************************)

DataTypeOK ==
  /\ provider \in Providers
  /\ runState \in RunStates /\ version \in Nat /\ cur \in 0..MaxAttempts
  /\ att \in [Attempts -> AttemptStates \cup {"none"}]
  /\ sess \in [Attempts -> SessionStates]
  /\ intent \in [Attempts -> Intents]
  /\ failure \in [Attempts -> {"none", "retryable", "other"}]
  /\ authority \in [Attempts -> {"none", "allowed", "denied"}]
  /\ origin \in [Attempts -> {"none", "human", "auto"}]
  /\ retry \in [used : Nat, prepared : 0..MaxAttempts,
                blocked : 0..MaxAttempts]
  /\ proc \in [Attempts -> {"none", "alive", "dead"}]
  /\ server \in BootPhases \cup {"up", "down", "refused"}
  /\ op \in [pc : OpPcs, att : 0..MaxAttempts, how : Hows, ver : Nat]
  /\ mon \in [Attempts -> MonitorPhases] /\ monVer \in [Attempts -> Nat]
  /\ crashes \in Nat /\ faults \in Nat

FlagTypeOK ==
  /\ final \in [Attempts -> BOOLEAN] /\ drained \in [Attempts -> BOOLEAN]
  /\ record \in [Attempts -> BOOLEAN] /\ route \in [Attempts -> BOOLEAN]
  /\ handler \in BOOLEAN

(* Every variable keeps its domain.                                        *)
TypeOK == DataTypeOK /\ FlagTypeOK

(* No live process is left behind: one can exist only for the current      *)
(* Attempt, and only while the Run still admits it may be running.  In     *)
(* particular no successor starts beside a live predecessor.               *)
LiveProcessIsOwned ==
  \A a \in Attempts : proc[a] = "alive" =>
    /\ a = cur
    /\ runState \in {"running", "stopping", "recovery_required"}
    /\ ~final[a]

(* A session recorded as stopped or finalized has no process, and every    *)
(* byte it wrote was read, whichever of the three stop paths recorded it.  *)
StoppedMeansDrained ==
  \A a \in Attempts :
    sess[a] = "stopped" => proc[a] # "alive" /\ drained[a]

(* What a person reviews is the finished output of the current Attempt.    *)
ReviewIsBacked ==
  runState \in {"awaiting_review", "accepted", "completed"} =>
    att[cur] = "output_submitted" /\ sess[cur] = "stopped" /\ final[cur]

(* The dispatcher repeats only work that failed for a retryable reason and  *)
(* was cleaned up; never an Attempt a stop or a restart interrupted.       *)
AutoOnlyAfterRetryableFailure ==
  \A a \in 2..MaxAttempts : origin[a] = "auto" =>
    /\ att[a - 1] = "failed" /\ failure[a - 1] = "retryable"
    /\ final[a - 1] /\ intent[a - 1] = "none"

(* At most AutomaticRetryMaxRetries automatic Attempts follow one another. *)
AutoBudget ==
  \A a \in Attempts :
    a > AutomaticRetryMaxRetries =>
      \E b \in (a - AutomaticRetryMaxRetries)..a : origin[b] # "auto"

(* RecoverStartup's recovery_detected exists for every candidate's state.  *)
RecoveryCommandApplies ==
  server = "up" /\ StartupCandidate =>
    runState \in {"running", "stopping", "recovery_required"}

(* No stored Attempt skips a state or leaves a terminal one.               *)
AttemptsFollowTable ==
  [][\A a \in Attempts : (att[a] # "none" /\ att'[a] # att[a]) =>
       <<att[a], att'[a]>> \in AttemptTransitions]_vars

(* A start that completes leaves nothing running or stopping; under Docker *)
(* it leaves no process and no session without its cleanup proof.          *)
StartupSettles ==
  [][(server \in BootPhases /\ server' = "up") =>
       /\ runState' \notin {"running", "stopping"}
       /\ provider = "docker" =>
            /\ \A a \in Attempts : proc'[a] # "alive"
            /\ (cur # 0 /\ sess'[cur] # "none") => final'[cur]]_vars

(* A start of the server is refused, and by docs/macos-application.md it   *)
(* never should be, for one reason under each provider: the crash came     *)
(* after a stop was finalized and before it was confirmed, or while the    *)
(* trusted host had no record of a session that is not finalized.          *)
RefusedIsExplained ==
  server = "refused" =>
    IF provider = "docker"
      THEN /\ att[cur] \in {"starting", "running"} /\ intent[cur] # "none"
           /\ sess[cur] = "stopped" /\ final[cur]
      ELSE ~record[cur] /\ ~final[cur]

Machine == INSTANCE RunMachine WITH state <- runState, attempt <- cur

(* Whoever drives it, the Run follows the domain's abstract machine.       *)
ImplementsRunMachine == Machine!Spec

(* The Attempts of the Run as a supervisor's contract sees them.           *)
Launching == {a \in Attempts : op.pc = "launch" /\ a = op.att}
Living == {a \in Attempts : proc[a] = "alive"}
ProvenDead == {a \in Attempts : final[a] \/ sess[a] = "stopped"}

Process == INSTANCE SupervisedProcess
  WITH Tokens <- Attempts, starting <- Launching, alive <- Living,
       proven <- ProvenDead

(* The lifecycle asks of the supervisor no more than its contract gives:   *)
(* it claims a launch only beside no process, takes a process only from a  *)
(* launch, and records an Attempt as finalized or stopped only when it has *)
(* no process and will get none, across every crash and restart.           *)
ImplementsSupervisedProcess == Process!Spec

(* An executing Run is eventually settled, by its exit, a stop or the next *)
(* start of the server.                                                    *)
RunSettles ==
  runState \in {"running", "stopping"} ~>
    runState \notin {"running", "stopping"}

(* A retryable failure is eventually dispatched or withdrawn, and what was *)
(* dispatched is eventually started.                                       *)
RetryIsDispatched ==
  /\ (AutoPending /\ cur < MaxAttempts) ~> ~AutoPending
  /\ (AutoRetrying /\ runState = "ready")
       ~> (runState # "ready" \/ AutoBlocked)
-----------------------------------------------------------------------------
(***************************************************************************)
(* Statements of the documentation that the code does not keep.            *)
(***************************************************************************)

(* docs/macos-application.md: "Relaunch to reconcile state"; a restart     *)
(* after a crash always comes up.                                          *)
RelaunchReconciles == server # "refused"

(* docs/isolated-local.md: a stopped runtime of a running attempt triggers *)
(* "recovery instead of remaining indefinitely running".                   *)
NeverIndefinitelyRunning ==
  (runState = "running" /\ att[cur] = "running") ~> runState # "running"

(* docs/isolated-local.md: an unobservable runtime triggers recovery: the   *)
(* intervention of a monitor that lost sight of it ends there.             *)
LostObservationTriggersRecovery ==
  [][(op.how = "revision" /\ runState' # runState) =>
       runState' = "recovery_required"]_vars
=============================================================================
