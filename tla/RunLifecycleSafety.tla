------------------------- MODULE RunLifecycleSafety -------------------------
(***************************************************************************)
(* Safety of RunLifecycle for every value of the constants, by one         *)
(* inductive invariant (SafetyInvariant), and what follows from it step by *)
(* step: the Attempts obey their transition table and the Run implements   *)
(* RunMachine.                                                             *)
(***************************************************************************)
EXTENDS RunLifecycleTypes, RunTableProofs

(* There is a current Attempt exactly once the Run has left draft.         *)
Begun == (cur = 0) <=> (runState = "draft")

(* Earlier Attempts are over, later ones do not exist.                     *)
PastIsOver ==
  \A a \in Attempts :
    a # cur => att[a] \notin {"created", "starting", "running"}

FutureUntouched ==
  \A a \in Attempts :
    a > cur => att[a] = "none" /\ origin[a] = "none" /\ intent[a] = "none"

(* The Run's state and that of its current Attempt agree.                  *)
RunMatchesAttempt ==
  cur # 0 =>
    /\ runState = "ready" => att[cur] = "created" /\ intent[cur] = "none"
    /\ runState = "running" => /\ att[cur] \in {"starting", "running"}
                              /\ intent[cur] = "none" /\ ~final[cur]
    /\ att[cur] \in {"starting", "running"} =>
         runState \in {"running", "stopping", "recovery_required"}

(* A failed Attempt was not being stopped; one without a session has       *)
(* nothing to finalize.                                                    *)
FailedUnstopped == \A a \in Attempts : att[a] = "failed" => intent[a] = "none"
FinalHasSession == \A a \in Attempts : sess[a] = "none" => ~final[a]

(* What the command inside the Run's lock relies on between two of its     *)
(* steps: nobody else moves the Run, and what it proved stays proved.      *)
CommandKnows ==
  /\ op.pc # "idle" => server = "up" /\ op.att \in Attempts
  /\ op.pc \in {"launch", "record"} =>
       /\ op.att = cur /\ runState = "running" /\ sess[cur] = "starting"
       /\ att[cur] = "starting"
  /\ (op.pc = "launch" \/ (op.pc = "record" /\ op.how = "no_child")) =>
       proc[op.att] # "alive"
  /\ op.pc \in {"signal", "stopFinalize", "stopMark", "confirm",
                "uncertain"} => runState = "stopping"
  /\ op.pc \in {"exitFinalize", "exitCommit", "stopFinalize", "stopMark"} =>
       proc[op.att] # "alive" /\ drained[op.att]

(* And what a start of the server relies on.                               *)
StartupKnows ==
  /\ server \in {"detected", "stopped", "finalized"} =>
       cur # 0 /\ sess[cur] # "none" /\ runState = "recovery_required"
  /\ server \in {"stopped", "finalized"} => proc[cur] # "alive"

SafetyInvariant ==
  /\ TypeOK
  /\ Begun /\ PastIsOver /\ FutureUntouched /\ RunMatchesAttempt
  /\ FailedUnstopped /\ FinalHasSession
  /\ CommandKnows /\ StartupKnows
  /\ LiveProcessIsOwned /\ StoppedMeansDrained /\ ReviewIsBacked
  /\ AutoOnlyAfterRetryableFailure
-----------------------------------------------------------------------------
(* What an earlier Attempt was repeated for does not change.               *)
LEMMA AutoFrame ==
  ASSUME TypeOK, FutureUntouched, AutoOnlyAfterRetryableFailure,
         UNCHANGED <<cur, origin>>,
         \A a \in Attempts : a # cur =>
           /\ att'[a] = att[a] /\ failure'[a] = failure[a]
           /\ intent'[a] = intent[a] /\ (final[a] => final'[a])
  PROVE  AutoOnlyAfterRetryableFailure'
<1> SUFFICES ASSUME NEW a \in 2..MaxAttempts, origin[a] = "auto"
             PROVE  /\ att'[a - 1] = "failed" /\ failure'[a - 1] = "retryable"
                    /\ final'[a - 1] /\ intent'[a - 1] = "none"
  BY DEF AutoOnlyAfterRetryableFailure
<1>1. a \in Attempts /\ a - 1 \in Attempts /\ a <= cur
  BY BoundsAssumption DEF Attempts, FutureUntouched, TypeOK, DataTypeOK
<1>2. a - 1 # cur
  BY <1>1, BoundsAssumption DEF Attempts, TypeOK, DataTypeOK
<1>3. /\ att[a - 1] = "failed" /\ failure[a - 1] = "retryable"
      /\ final[a - 1] /\ intent[a - 1] = "none"
  BY DEF AutoOnlyAfterRetryableFailure
<1> QED
  BY <1>1, <1>2, <1>3

(* Finalizing a session marks it stopped.                                  *)
LEMMA FinalizedHasSession ==
  ASSUME TypeOK, FinalHasSession, NEW a \in Attempts, FinalizeSession(a)
  PROVE  FinalHasSession'
<1> SUFFICES ASSUME NEW b \in Attempts, sess'[b] = "none" PROVE ~final'[b]
  BY DEF FinalHasSession
<1>1. b # a /\ sess[b] = "none"
  BY DEF FinalizeSession, TypeOK, DataTypeOK
<1>2. final'[b] = final[b]
  BY <1>1 DEF FinalizeSession, TypeOK, FlagTypeOK
<1> QED
  BY <1>1, <1>2 DEF FinalHasSession

(* A step of a monitor, the dispatcher or a handler that leaves the Run,   *)
(* its processes and the command alone.                                    *)
LEMMA QuietSafe ==
  ASSUME SafetyInvariant, TypeOK',
         UNCHANGED <<runState, cur, att, sess, final, drained, intent, failure,
                     origin, proc, server, op>>
  PROVE  SafetyInvariant'
<1>1. /\ Begun' /\ PastIsOver' /\ FutureUntouched' /\ RunMatchesAttempt'
      /\ FailedUnstopped' /\ FinalHasSession'
  BY DEF SafetyInvariant, Begun, PastIsOver, FutureUntouched,
         RunMatchesAttempt, FailedUnstopped, FinalHasSession
<1>2. CommandKnows' /\ StartupKnows'
  BY DEF SafetyInvariant, CommandKnows, StartupKnows
<1>3. /\ LiveProcessIsOwned' /\ StoppedMeansDrained' /\ ReviewIsBacked'
      /\ AutoOnlyAfterRetryableFailure'
  BY DEF SafetyInvariant, LiveProcessIsOwned, StoppedMeansDrained,
         ReviewIsBacked, AutoOnlyAfterRetryableFailure
<1> QED
  BY <1>1, <1>2, <1>3 DEF SafetyInvariant

(* A person prepares a retry.                                              *)
LEMMA HumanRetrySafe ==
  ASSUME SafetyInvariant, TypeOK', HumanRetry
  PROVE  SafetyInvariant'
<1> USE BoundsAssumption DEF SafetyInvariant, TypeOK, DataTypeOK, FlagTypeOK,
        Attempts
<1>1. Begun' /\ PastIsOver' /\ FutureUntouched'
  BY DEF HumanRetry, Free, HumanRetryReady, AutomaticRetryFinalized,
      FinalizedForRetry, InsertAttempt, SaveRun, procVars, Begun, PastIsOver,
      FutureUntouched
<1>2. RunMatchesAttempt'
  BY DEF HumanRetry, Free, HumanRetryReady, AutomaticRetryFinalized,
      FinalizedForRetry, InsertAttempt, SaveRun, procVars, RunMatchesAttempt,
      FutureUntouched
<1>3. FailedUnstopped' /\ FinalHasSession'
  BY DEF HumanRetry, Free, HumanRetryReady, AutomaticRetryFinalized,
      FinalizedForRetry, InsertAttempt, SaveRun, procVars, FailedUnstopped,
      FinalHasSession
<1>4. CommandKnows'
  BY DEF HumanRetry, Free, HumanRetryReady, AutomaticRetryFinalized,
      FinalizedForRetry, InsertAttempt, SaveRun, procVars, CommandKnows
<1>5. StartupKnows'
  BY DEF HumanRetry, Free, HumanRetryReady, AutomaticRetryFinalized,
      FinalizedForRetry, InsertAttempt, SaveRun, procVars, StartupKnows
<1>6. LiveProcessIsOwned'
  BY DEF HumanRetry, Free, HumanRetryReady, AutomaticRetryFinalized,
      FinalizedForRetry, InsertAttempt, SaveRun, procVars, LiveProcessIsOwned
<1>7. StoppedMeansDrained' /\ ReviewIsBacked'
  BY DEF HumanRetry, Free, HumanRetryReady, AutomaticRetryFinalized,
      FinalizedForRetry, InsertAttempt, SaveRun, procVars,
      StoppedMeansDrained, ReviewIsBacked
<1>8. AutoOnlyAfterRetryableFailure'
  <2> SUFFICES ASSUME NEW a \in 2..MaxAttempts, origin'[a] = "auto"
               PROVE  /\ att'[a - 1] = "failed" /\ failure'[a - 1] = "retryable"
                      /\ final'[a - 1] /\ intent'[a - 1] = "none"
    BY DEF AutoOnlyAfterRetryableFailure
  <2>1. /\ cur' = cur + 1 /\ att' = [att EXCEPT ![cur + 1] = "created"]
        /\ origin' = [origin EXCEPT ![cur + 1] = "human"]
        /\ UNCHANGED <<final, failure, intent>>
    BY DEF HumanRetry, InsertAttempt, SaveRun
  <2>2. a - 1 \in Attempts /\ a \in Attempts
    BY DEF Attempts
  <2>3. CASE a = cur + 1
    BY <2>1, <2>2, <2>3
  <2>4. CASE a # cur + 1
    <3>1. origin[a] = "auto"
      BY <2>1, <2>4
    <3>2. a <= cur
      BY <2>2, <3>1 DEF FutureUntouched
    <3> QED
      BY <2>1, <2>2, <3>1, <3>2 DEF AutoOnlyAfterRetryableFailure
  <2> QED
    BY <2>3, <2>4
<1> QED
  BY <1>1, <1>2, <1>3, <1>4, <1>5, <1>6, <1>7, <1>8

(* The dispatcher prepares a retry.                                        *)
LEMMA AutoRetrySafe ==
  ASSUME SafetyInvariant, TypeOK', AutoRetry
  PROVE  SafetyInvariant'
<1> USE BoundsAssumption DEF SafetyInvariant, TypeOK, DataTypeOK, FlagTypeOK,
        Attempts
<1>1. Begun' /\ PastIsOver' /\ FutureUntouched'
  BY DEF AutoRetry, Free, AutoPending, AutoRetryable,
      AutomaticRetryFinalized, FinalizedForRetry, InsertAttempt, SaveRun,
      procVars, Begun, PastIsOver, FutureUntouched
<1>2. RunMatchesAttempt'
  BY DEF AutoRetry, Free, AutoPending, AutoRetryable,
      AutomaticRetryFinalized, FinalizedForRetry, InsertAttempt, SaveRun,
      procVars, RunMatchesAttempt, FutureUntouched
<1>3. FailedUnstopped' /\ FinalHasSession'
  BY DEF AutoRetry, Free, AutoPending, AutoRetryable,
      AutomaticRetryFinalized, FinalizedForRetry, InsertAttempt, SaveRun,
      procVars, FailedUnstopped, FinalHasSession
<1>4. CommandKnows'
  BY DEF AutoRetry, Free, AutoPending, AutoRetryable,
      AutomaticRetryFinalized, FinalizedForRetry, InsertAttempt, SaveRun,
      procVars, CommandKnows
<1>5. StartupKnows'
  BY DEF AutoRetry, Free, AutoPending, AutoRetryable,
      AutomaticRetryFinalized, FinalizedForRetry, InsertAttempt, SaveRun,
      procVars, StartupKnows
<1>6. LiveProcessIsOwned'
  BY DEF AutoRetry, Free, AutoPending, AutoRetryable,
      AutomaticRetryFinalized, FinalizedForRetry, InsertAttempt, SaveRun,
      procVars, LiveProcessIsOwned
<1>7. StoppedMeansDrained' /\ ReviewIsBacked'
  BY DEF AutoRetry, Free, AutoPending, AutoRetryable,
      AutomaticRetryFinalized, FinalizedForRetry, InsertAttempt, SaveRun,
      procVars, StoppedMeansDrained, ReviewIsBacked
<1>8. AutoOnlyAfterRetryableFailure'
  <2> SUFFICES ASSUME NEW a \in 2..MaxAttempts, origin'[a] = "auto"
               PROVE  /\ att'[a - 1] = "failed" /\ failure'[a - 1] = "retryable"
                      /\ final'[a - 1] /\ intent'[a - 1] = "none"
    BY DEF AutoOnlyAfterRetryableFailure
  <2>1. /\ cur' = cur + 1 /\ att' = [att EXCEPT ![cur + 1] = "created"]
        /\ origin' = [origin EXCEPT ![cur + 1] = "auto"]
        /\ UNCHANGED <<final, failure, intent>>
    BY DEF AutoRetry, InsertAttempt, SaveRun
  <2>2. a - 1 \in Attempts /\ a \in Attempts
    BY DEF Attempts
  <2>3. CASE a = cur + 1
    <3>1. a - 1 = cur /\ cur \in Attempts /\ att'[cur] = att[cur]
      BY <2>1, <2>2, <2>3
    <3>2. att[cur] = "failed" /\ failure[cur] = "retryable" /\ final[cur]
      BY DEF AutoRetry, AutoPending, AutoRetryable, AutomaticRetryFinalized
    <3> QED
      BY <2>1, <3>1, <3>2 DEF FailedUnstopped
  <2>4. CASE a # cur + 1
    <3>1. origin[a] = "auto"
      BY <2>1, <2>4
    <3>2. a <= cur
      BY <2>2, <3>1 DEF FutureUntouched
    <3> QED
      BY <2>1, <2>2, <3>1, <3>2 DEF AutoOnlyAfterRetryableFailure
  <2> QED
    BY <2>3, <2>4
<1> QED
  BY <1>1, <1>2, <1>3, <1>4, <1>5, <1>6, <1>7, <1>8

LEMMA StartReserveSafe ==
  ASSUME SafetyInvariant, TypeOK', StartReserve
  PROVE  SafetyInvariant'
<1> USE BoundsAssumption DEF SafetyInvariant
<1>1. /\ cur \in Attempts /\ cur # 0 /\ sess[cur] = "none" /\ att[cur] = "created"
      /\ runState = "ready" /\ runState' = "running" /\ op.pc = "idle"
      /\ server = "up" /\ ~final[cur]
      /\ intent[cur] = "none" /\ proc[cur] # "alive"
  <2>1. /\ sess[cur] = "none" /\ att[cur] = "created" /\ runState = "ready"
        /\ runState' = "running" /\ op.pc = "idle" /\ server = "up"
    BY DEF StartReserve, Free, SaveRun
  <2>2. cur \in Attempts /\ cur # 0
    BY <2>1 DEF Begun, TypeOK, DataTypeOK, Attempts
  <2>3. ~final[cur] /\ intent[cur] = "none" /\ proc[cur] # "alive"
    BY <2>1, <2>2 DEF FinalHasSession, RunMatchesAttempt, LiveProcessIsOwned
  <2> QED
    BY <2>1, <2>2, <2>3
<1>2. /\ UNCHANGED <<cur, final, drained, intent, failure, origin, proc, server>>
      /\ att'[cur] = "starting" /\ sess'[cur] = "starting"
      /\ \A a \in Attempts : a # cur => att'[a] = att[a] /\ sess'[a] = sess[a]
      /\ op' = Op("launch", cur, "none", 0)
  <2>1. /\ UNCHANGED <<cur, final, drained, intent, failure, origin, proc, server>>
        /\ op' = Op("launch", cur, "none", 0)
        /\ att' = [att EXCEPT ![cur] = "starting"]
        /\ sess' = [sess EXCEPT ![cur] = "starting"]
    BY DEF StartReserve, procVars
  <2> QED
    BY <1>1, <2>1 DEF TypeOK, DataTypeOK
<1>3. Begun' /\ PastIsOver' /\ FutureUntouched'
  <2>1. Begun'
    BY <1>1, <1>2 DEF Begun
  <2>2. PastIsOver'
    BY <1>2 DEF PastIsOver
  <2>3. FutureUntouched'
    BY <1>1, <1>2 DEF FutureUntouched, Attempts
  <2> QED
    BY <2>1, <2>2, <2>3
<1>4. RunMatchesAttempt'
  BY <1>1, <1>2 DEF RunMatchesAttempt
<1>5. FailedUnstopped' /\ FinalHasSession'
  BY <1>1, <1>2 DEF FailedUnstopped, FinalHasSession
<1>6. CommandKnows' /\ StartupKnows'
  BY <1>1, <1>2 DEF CommandKnows, StartupKnows, Op
<1>7. LiveProcessIsOwned'
  BY <1>1, <1>2 DEF LiveProcessIsOwned
<1>8. StoppedMeansDrained' /\ ReviewIsBacked'
  BY <1>1, <1>2 DEF StoppedMeansDrained, ReviewIsBacked
<1>9. AutoOnlyAfterRetryableFailure'
  BY <1>2, AutoFrame
<1> QED
  BY <1>3, <1>4, <1>5, <1>6, <1>7, <1>8, <1>9

LEMMA StopFinalizeSafe ==
  ASSUME SafetyInvariant, TypeOK', StopFinalize
  PROVE  SafetyInvariant'
<1> USE BoundsAssumption DEF SafetyInvariant
<1>1. /\ UNCHANGED <<runState, cur, att, sess, final, drained, intent, failure,
                     origin, proc, server>>
      /\ op.pc = "stopFinalize"
      /\ op' \in {[op EXCEPT !.pc = "stopMark"], [op EXCEPT !.pc = "uncertain"]}
  BY DEF StopFinalize, SupervisorFinalize, GoTo, procVars, storeVars
<1>2. op'.pc \in {"stopMark", "uncertain"} /\ op'.att = op.att
  BY <1>1 DEF TypeOK, DataTypeOK
<1>3. /\ Begun' /\ PastIsOver' /\ FutureUntouched' /\ RunMatchesAttempt'
      /\ FailedUnstopped' /\ FinalHasSession'
  BY <1>1 DEF Begun, PastIsOver, FutureUntouched, RunMatchesAttempt,
              FailedUnstopped, FinalHasSession
<1>4. CommandKnows' /\ StartupKnows'
  BY <1>1, <1>2 DEF CommandKnows, StartupKnows
<1>5. /\ LiveProcessIsOwned' /\ StoppedMeansDrained' /\ ReviewIsBacked'
      /\ AutoOnlyAfterRetryableFailure'
  BY <1>1 DEF LiveProcessIsOwned, StoppedMeansDrained, ReviewIsBacked,
              AutoOnlyAfterRetryableFailure
<1> QED
  BY <1>3, <1>4, <1>5

(* The stop is confirmed.                                                  *)
LEMMA StopConfirmSafe ==
  ASSUME SafetyInvariant, TypeOK', StopConfirm
  PROVE  SafetyInvariant'
<1> USE BoundsAssumption DEF SafetyInvariant, TypeOK, DataTypeOK, FlagTypeOK,
        Attempts
<1>1. Begun' /\ PastIsOver' /\ FutureUntouched'
  BY DEF StopConfirm, Confirmed, SaveRun, StoppedAttempt, Idle, Op, procVars,
      Begun, PastIsOver, FutureUntouched
<1>2. RunMatchesAttempt'
  BY DEF StopConfirm, Confirmed, SaveRun, StoppedAttempt, Idle, Op, procVars,
      RunMatchesAttempt
<1>3. FailedUnstopped' /\ FinalHasSession'
  BY DEF StopConfirm, Confirmed, SaveRun, StoppedAttempt, Idle, Op, procVars,
      FailedUnstopped, FinalHasSession
<1>4. CommandKnows'
  BY DEF StopConfirm, Confirmed, SaveRun, StoppedAttempt, Idle, Op, procVars,
      CommandKnows
<1>5. StartupKnows'
  BY DEF StopConfirm, Confirmed, SaveRun, StoppedAttempt, Idle, Op, procVars,
      StartupKnows
<1>6. LiveProcessIsOwned'
  BY DEF StopConfirm, Confirmed, SaveRun, StoppedAttempt, Idle, Op, procVars,
      LiveProcessIsOwned
<1>7. StoppedMeansDrained' /\ ReviewIsBacked'
  BY DEF StopConfirm, Confirmed, SaveRun, StoppedAttempt, Idle, Op, procVars,
      StoppedMeansDrained, ReviewIsBacked
<1>8. AutoOnlyAfterRetryableFailure'
  BY DEF StopConfirm, Confirmed, SaveRun, StoppedAttempt, Idle, Op, procVars,
      AutoOnlyAfterRetryableFailure
<1> QED
  BY <1>1, <1>2, <1>3, <1>4, <1>5, <1>6, <1>7, <1>8

LEMMA BootInterruptSafe ==
  ASSUME SafetyInvariant, TypeOK', BootInterrupt
  PROVE  SafetyInvariant'
<1> USE BoundsAssumption DEF SafetyInvariant
<1>1. /\ cur \in Attempts /\ cur # 0 /\ sess[cur] # "none"
      /\ runState = "recovery_required" /\ proc[cur] # "alive"
      /\ op.pc = "idle" /\ server = "detected"
  BY DEF BootInterrupt, StartupKnows, CommandKnows, TypeOK, DataTypeOK, Attempts
<1>2. /\ UNCHANGED <<runState, cur, final, intent, origin, proc, op>>
      /\ server' \in {"stopped", "refused"}
      /\ \A a \in Attempts : a # cur =>
           /\ att'[a] = att[a] /\ sess'[a] = sess[a]
           /\ drained'[a] = drained[a] /\ failure'[a] = failure[a]
  BY DEF BootInterrupt, Boot, procVars, TypeOK, DataTypeOK, FlagTypeOK
<1>3. \/ UNCHANGED <<att, sess, drained>>
      \/ /\ att'[cur] = "interrupted" /\ sess'[cur] = "stopped"
         /\ drained'[cur]
  <2>1. \/ UNCHANGED <<att, sess, drained>>
        \/ /\ att' = [att EXCEPT ![cur] = "interrupted"]
           /\ sess' = [sess EXCEPT ![cur] = "stopped"]
           /\ drained' = [drained EXCEPT ![cur] = TRUE]
    BY DEF BootInterrupt
  <2> QED
    BY <1>1, <2>1 DEF TypeOK, DataTypeOK, FlagTypeOK
<1>4. Begun' /\ PastIsOver' /\ FutureUntouched'
  <2>1. Begun'
    BY <1>2 DEF Begun
  <2>2. PastIsOver'
    BY <1>2 DEF PastIsOver
  <2>3. FutureUntouched'
    BY <1>1, <1>2 DEF FutureUntouched, Attempts
  <2> QED
    BY <2>1, <2>2, <2>3
<1>5. RunMatchesAttempt'
  BY <1>1, <1>2, <1>3 DEF RunMatchesAttempt
<1>6. FailedUnstopped' /\ FinalHasSession'
  BY <1>1, <1>2, <1>3 DEF FailedUnstopped, FinalHasSession
<1>7. CommandKnows'
  BY <1>1, <1>2 DEF CommandKnows
<1>8. StartupKnows'
  BY <1>1, <1>2, <1>3 DEF StartupKnows
<1>9. LiveProcessIsOwned' /\ StoppedMeansDrained' /\ ReviewIsBacked'
  BY <1>1, <1>2, <1>3
  DEF LiveProcessIsOwned, StoppedMeansDrained, ReviewIsBacked
<1>10. AutoOnlyAfterRetryableFailure'
  BY <1>2, AutoFrame
<1> QED
  BY <1>4, <1>5, <1>6, <1>7, <1>8, <1>9, <1>10

LEMMA StartRecordSafe ==
  ASSUME SafetyInvariant, TypeOK', StartRecord
  PROVE  SafetyInvariant'
<1> USE BoundsAssumption DEF SafetyInvariant
<1>1. /\ op.att = cur /\ runState = "running" /\ sess[cur] = "starting"
      /\ att[cur] = "starting" /\ cur \in Attempts /\ cur # 0 /\ ~final[cur]
      /\ intent[cur] = "none" /\ server = "up"
      /\ (op.how = "no_child") => proc[cur] # "alive"
  <2>1. /\ op.att = cur /\ runState = "running" /\ sess[cur] = "starting"
        /\ att[cur] = "starting" /\ cur \in Attempts /\ server = "up"
        /\ (op.how = "no_child") => proc[cur] # "alive"
    BY DEF StartRecord, CommandKnows
  <2>2. cur # 0
    BY <2>1 DEF Begun
  <2> QED
    BY <2>1, <2>2 DEF RunMatchesAttempt
<1>2. /\ UNCHANGED <<cur, drained, intent, failure, origin, proc, server>>
      /\ op' = Idle
      /\ \A a \in Attempts : a # cur =>
           att'[a] = att[a] /\ sess'[a] = sess[a] /\ final'[a] = final[a]
  <2>1. /\ UNCHANGED <<cur, drained, intent, failure, origin, proc, server>>
        /\ op' = Idle
        /\ att' \in {att, [att EXCEPT ![cur] = "running"],
                     [att EXCEPT ![cur] = "failed"]}
        /\ sess' \in {[sess EXCEPT ![cur] = s] :
                        s \in {"running", "failed", "lost"}}
        /\ final' \in {final, [final EXCEPT ![cur] = TRUE]}
    BY <1>1 DEF StartRecord, procVars
  <2>2. \A a \in Attempts : a # cur => att'[a] = att[a]
    BY <2>1 DEF TypeOK, DataTypeOK
  <2>3. \A a \in Attempts : a # cur => sess'[a] = sess[a]
    BY <2>1 DEF TypeOK, DataTypeOK
  <2>4. \A a \in Attempts : a # cur => final'[a] = final[a]
    BY <2>1 DEF TypeOK, FlagTypeOK
  <2> QED
    BY <2>1, <2>2, <2>3, <2>4
<1>3. \/ /\ runState' = "running" /\ att'[cur] = "running"
         /\ sess'[cur] = "running" /\ ~final'[cur]
      \/ /\ runState' = "recovery_required" /\ att'[cur] = "failed"
         /\ sess'[cur] = "failed" /\ final'[cur] /\ proc[cur] # "alive"
      \/ /\ runState' = "recovery_required" /\ att'[cur] = "starting"
         /\ sess'[cur] = "lost" /\ ~final'[cur]
  <2>1. CASE op.how = "started"
    <3>1. /\ runState' = "running" /\ att' = [att EXCEPT ![cur] = "running"]
          /\ sess' = [sess EXCEPT ![cur] = "running"] /\ final' = final
      BY <1>1, <2>1 DEF StartRecord, SaveRun
    <3> QED
      BY <1>1, <3>1 DEF TypeOK, DataTypeOK
  <2>2. CASE op.how = "no_child"
    <3>1. /\ runState' = "recovery_required"
          /\ att' = [att EXCEPT ![cur] = "failed"]
          /\ sess' = [sess EXCEPT ![cur] = "failed"]
          /\ final' = [final EXCEPT ![cur] = TRUE]
      BY <1>1, <2>2 DEF StartRecord, SaveRun
    <3> QED
      BY <1>1, <2>2, <3>1 DEF TypeOK, DataTypeOK, FlagTypeOK
  <2>3. CASE op.how = "uncertain"
    <3>1. /\ runState' = "recovery_required" /\ att' = att /\ final' = final
          /\ sess' = [sess EXCEPT ![cur] = "lost"]
      BY <1>1, <2>3 DEF StartRecord, SaveRun
    <3> QED
      BY <1>1, <3>1 DEF TypeOK, DataTypeOK
  <2> QED
    BY <2>1, <2>2, <2>3 DEF StartRecord
<1>4. Begun' /\ PastIsOver' /\ FutureUntouched'
  <2>1. Begun'
    BY <1>1, <1>2, <1>3 DEF Begun
  <2>2. PastIsOver'
    BY <1>2 DEF PastIsOver
  <2>3. FutureUntouched'
    BY <1>1, <1>2 DEF FutureUntouched, Attempts
  <2> QED
    BY <2>1, <2>2, <2>3
<1>5. RunMatchesAttempt'
  BY <1>1, <1>2, <1>3 DEF RunMatchesAttempt
<1>6. FailedUnstopped' /\ FinalHasSession'
  BY <1>1, <1>2, <1>3 DEF FailedUnstopped, FinalHasSession
<1>7. CommandKnows' /\ StartupKnows'
  BY <1>1, <1>2 DEF CommandKnows, StartupKnows, Idle, Op
<1>8. LiveProcessIsOwned'
  BY <1>1, <1>2, <1>3 DEF LiveProcessIsOwned
<1>9. StoppedMeansDrained' /\ ReviewIsBacked'
  BY <1>1, <1>2, <1>3 DEF StoppedMeansDrained, ReviewIsBacked
<1>10. AutoOnlyAfterRetryableFailure'
  BY <1>2, AutoFrame
<1> QED
  BY <1>4, <1>5, <1>6, <1>7, <1>8, <1>9, <1>10

LEMMA StopSignalSafe ==
  ASSUME SafetyInvariant, TypeOK', StopSignal
  PROVE  SafetyInvariant'
<1> USE BoundsAssumption DEF SafetyInvariant
<1>1. /\ UNCHANGED <<runState, cur, att, sess, final, intent, failure, origin,
                     server>>
      /\ op.pc = "signal" /\ op.att \in Attempts /\ runState = "stopping"
      /\ server = "up"
  BY DEF StopSignal, CommandKnows
<1>2. /\ \A a \in Attempts : proc'[a] = proc[a] \/ proc'[a] = "dead"
      /\ \A a \in Attempts : drained'[a] = drained[a] \/ drained'[a]
  <2>1. /\ proc' \in {proc, [proc EXCEPT ![op.att] = "dead"]}
        /\ drained' \in {drained, [drained EXCEPT ![op.att] = TRUE]}
    BY DEF StopSignal
  <2>2. \A a \in Attempts : proc'[a] = proc[a] \/ proc'[a] = "dead"
    BY <2>1 DEF TypeOK, DataTypeOK
  <2>3. \A a \in Attempts : drained'[a] = drained[a] \/ drained'[a]
    BY <2>1 DEF TypeOK, FlagTypeOK
  <2> QED
    BY <2>2, <2>3
<1>3. Begun' /\ PastIsOver' /\ FutureUntouched' /\ RunMatchesAttempt'
  BY <1>1 DEF Begun, PastIsOver, FutureUntouched, RunMatchesAttempt
<1>4. FailedUnstopped' /\ FinalHasSession'
  BY <1>1 DEF FailedUnstopped, FinalHasSession
<1>5. CommandKnows'
  <2>1. CASE op' = Idle
    BY <1>1, <2>1 DEF Idle, Op, CommandKnows
  <2>2. CASE op' \in {[op EXCEPT !.pc = "confirm"], [op EXCEPT !.pc = "uncertain"]}
    <3>1. op'.pc \in {"confirm", "uncertain"} /\ op'.att = op.att
      BY <2>2 DEF TypeOK, DataTypeOK
    <3> QED
      BY <1>1, <3>1 DEF CommandKnows
  <2>3. CASE /\ op' = [op EXCEPT !.pc = "stopFinalize"]
             /\ proc' = [proc EXCEPT ![op.att] = "dead"]
             /\ drained' = [drained EXCEPT ![op.att] = TRUE]
    <3>1. op'.pc = "stopFinalize" /\ op'.att = op.att
      BY <2>3 DEF TypeOK, DataTypeOK
    <3>2. proc'[op.att] = "dead" /\ drained'[op.att]
      BY <1>1, <2>3 DEF TypeOK, DataTypeOK, FlagTypeOK
    <3> QED
      BY <1>1, <3>1, <3>2 DEF CommandKnows
  <2> QED
    BY <2>1, <2>2, <2>3 DEF StopSignal, GoTo, AfterStop
<1>6. StartupKnows'
  BY <1>1 DEF StartupKnows
<1>7. LiveProcessIsOwned' /\ StoppedMeansDrained' /\ ReviewIsBacked'
  BY <1>1, <1>2 DEF LiveProcessIsOwned, StoppedMeansDrained, ReviewIsBacked
<1>8. AutoOnlyAfterRetryableFailure'
  BY <1>1 DEF AutoOnlyAfterRetryableFailure
<1> QED
  BY <1>3, <1>4, <1>5, <1>6, <1>7, <1>8

(* A monitor reports an exit.                                              *)
LEMMA ExitEnterSafe ==
  ASSUME SafetyInvariant, TypeOK', NEW a \in Attempts, ExitEnter(a)
  PROVE  SafetyInvariant'
<1> USE BoundsAssumption DEF SafetyInvariant, TypeOK, DataTypeOK, FlagTypeOK,
        Attempts
<1>1. Begun' /\ PastIsOver' /\ FutureUntouched'
  BY DEF ExitEnter, Free, MonitorOff, Op, procVars, Begun, PastIsOver,
      FutureUntouched
<1>2. RunMatchesAttempt'
  BY DEF ExitEnter, Free, MonitorOff, Op, procVars, RunMatchesAttempt
<1>3. FailedUnstopped' /\ FinalHasSession'
  BY DEF ExitEnter, Free, MonitorOff, Op, procVars, FailedUnstopped,
      FinalHasSession
<1>4. CommandKnows'
  BY DEF ExitEnter, Free, MonitorOff, Op, procVars, CommandKnows
<1>5. StartupKnows'
  BY DEF ExitEnter, Free, MonitorOff, Op, procVars, StartupKnows
<1>6. LiveProcessIsOwned'
  BY DEF ExitEnter, Free, MonitorOff, Op, procVars, LiveProcessIsOwned
<1>7. StoppedMeansDrained' /\ ReviewIsBacked'
  BY DEF ExitEnter, Free, MonitorOff, Op, procVars, StoppedMeansDrained,
      ReviewIsBacked
<1>8. AutoOnlyAfterRetryableFailure'
  BY DEF ExitEnter, Free, MonitorOff, Op, procVars,
      AutoOnlyAfterRetryableFailure
<1> QED
  BY <1>1, <1>2, <1>3, <1>4, <1>5, <1>6, <1>7, <1>8

(* The first transaction of a stop, whoever asks for it.                   *)
LEMMA EnterStopSafe ==
  ASSUME SafetyInvariant, TypeOK', NEW how, Free, EnterStop(how),
         UNCHANGED <<procVars, server>>
  PROVE  SafetyInvariant'
<1> USE BoundsAssumption DEF SafetyInvariant, TypeOK, DataTypeOK, FlagTypeOK,
        Attempts
<1>1. Begun' /\ PastIsOver' /\ FutureUntouched'
  BY DEF Free, procVars, EnterStop, SaveRun, Op, Begun, PastIsOver,
      FutureUntouched
<1>2. RunMatchesAttempt'
  BY DEF Free, procVars, EnterStop, SaveRun, Op, RunMatchesAttempt
<1>3. FailedUnstopped' /\ FinalHasSession'
  BY DEF Free, procVars, EnterStop, SaveRun, Op, FailedUnstopped,
      FinalHasSession, RunMatchesAttempt
<1>4. CommandKnows'
  BY DEF Free, procVars, EnterStop, SaveRun, Op, CommandKnows
<1>5. StartupKnows'
  BY DEF Free, procVars, EnterStop, SaveRun, Op, StartupKnows
<1>6. LiveProcessIsOwned'
  BY DEF Free, procVars, EnterStop, SaveRun, Op, LiveProcessIsOwned
<1>7. StoppedMeansDrained' /\ ReviewIsBacked'
  BY DEF Free, procVars, EnterStop, SaveRun, Op, StoppedMeansDrained,
      ReviewIsBacked
<1>8. AutoOnlyAfterRetryableFailure'
  BY DEF Free, procVars, EnterStop, SaveRun, Op,
      AutoOnlyAfterRetryableFailure, FutureUntouched
<1> QED
  BY <1>1, <1>2, <1>3, <1>4, <1>5, <1>6, <1>7, <1>8

(* A second request to stop enters the stop under way.                     *)
LEMMA CancelsAgainSafe ==
  ASSUME SafetyInvariant, TypeOK', NEW how, Free, CancelsAgain(how),
         UNCHANGED <<procVars, server>>
  PROVE  SafetyInvariant'
<1> USE BoundsAssumption DEF SafetyInvariant, TypeOK, DataTypeOK, FlagTypeOK,
        Attempts
<1>1. Begun' /\ PastIsOver' /\ FutureUntouched'
  BY DEF Free, procVars, CancelsAgain, Op, storeVars, Begun, PastIsOver,
      FutureUntouched
<1>2. RunMatchesAttempt'
  BY DEF Free, procVars, CancelsAgain, Op, storeVars, RunMatchesAttempt
<1>3. FailedUnstopped' /\ FinalHasSession'
  BY DEF Free, procVars, CancelsAgain, Op, storeVars, FailedUnstopped,
      FinalHasSession
<1>4. CommandKnows'
  BY DEF Free, procVars, CancelsAgain, Op, storeVars, CommandKnows,
      PastIsOver, RunMatchesAttempt, Begun
<1>5. StartupKnows'
  BY DEF Free, procVars, CancelsAgain, Op, storeVars, StartupKnows
<1>6. LiveProcessIsOwned'
  BY DEF Free, procVars, CancelsAgain, Op, storeVars, LiveProcessIsOwned
<1>7. StoppedMeansDrained' /\ ReviewIsBacked'
  BY DEF Free, procVars, CancelsAgain, Op, storeVars, StoppedMeansDrained,
      ReviewIsBacked
<1>8. AutoOnlyAfterRetryableFailure'
  BY DEF Free, procVars, CancelsAgain, Op, storeVars,
      AutoOnlyAfterRetryableFailure
<1> QED
  BY <1>1, <1>2, <1>3, <1>4, <1>5, <1>6, <1>7, <1>8

LEMMA MonitorStopsSafe ==
  ASSUME SafetyInvariant, TypeOK', NEW a \in Attempts, NEW phase, NEW how,
         MonitorStops(a, phase, how)
  PROVE  SafetyInvariant'
<1>1. Free /\ UNCHANGED <<procVars, server>>
  BY DEF MonitorStops
<1>2. CASE EnterStop(how)
  BY <1>1, <1>2, EnterStopSafe
<1>3. CASE CancelsAgain(how)
  BY <1>1, <1>3, CancelsAgainSafe
<1>4. CASE UNCHANGED <<storeVars, op>>
  BY <1>1, <1>4, QuietSafe DEF storeVars, procVars
<1> QED
  BY <1>2, <1>3, <1>4 DEF MonitorStops

(* HandleExit's last transaction: the Run is running, so the Attempt that  *)
(* exited is the current one.                                              *)
LEMMA ExitCommitSafe ==
  ASSUME SafetyInvariant, TypeOK', ExitCommit
  PROVE  SafetyInvariant'
<1> USE BoundsAssumption DEF SafetyInvariant
<1>1. CASE ExitApplies(op.att)
  <2>1. /\ op.att = cur /\ runState = "running" /\ cur # 0 /\ cur \in Attempts
        /\ intent[cur] = "none" /\ att[cur] = "running"
    <3>1. op.att \in Attempts /\ runState = "running" /\ att[op.att] = "running"
      BY <1>1 DEF ExitCommit, ExitApplies, CommandKnows
    <3>2. op.att = cur
      BY <3>1 DEF PastIsOver
    <3>3. cur # 0
      BY <3>1 DEF Begun
    <3> QED
      BY <3>1, <3>2, <3>3 DEF RunMatchesAttempt
  <2>2. /\ sess' = [sess EXCEPT ![cur] = "stopped"]
        /\ final' = [final EXCEPT ![cur] = TRUE]
        /\ op' = Idle /\ proc[cur] # "alive" /\ drained[cur] /\ server = "up"
        /\ UNCHANGED <<cur, drained, intent, origin, proc, server>>
    BY <1>1, <2>1
    DEF ExitCommit, Submit, FinalizeSession, procVars, CommandKnows
  <2>3. PICK result \in ExitResults : Submit(cur, result)
    BY <1>1, <2>1 DEF ExitCommit
  <2>4. /\ \/ /\ runState' \in {"awaiting_review", "completed"}
              /\ att' = [att EXCEPT ![cur] = "output_submitted"]
              /\ UNCHANGED failure
           \/ /\ runState' = "recovery_required"
              /\ att' = [att EXCEPT ![cur] = "failed"]
              /\ failure' = [failure EXCEPT ![cur] = result]
    BY <2>3 DEF Submit, SaveRun
  <2>5. /\ \/ /\ runState' \in {"awaiting_review", "completed"}
              /\ att'[cur] = "output_submitted"
           \/ /\ runState' = "recovery_required" /\ att'[cur] = "failed"
        /\ \A a \in Attempts : a # cur => att'[a] = att[a]
    BY <2>1, <2>4 DEF TypeOK, DataTypeOK
  <2>6. /\ sess'[cur] = "stopped" /\ final'[cur]
        /\ \A a \in Attempts :
             a # cur => sess'[a] = sess[a] /\ final'[a] = final[a]
    BY <2>1, <2>2 DEF TypeOK, DataTypeOK, FlagTypeOK
  <2>7. \A a \in Attempts : a # cur => failure'[a] = failure[a]
    BY <2>1, <2>4 DEF TypeOK, DataTypeOK
  <2>8. Begun'
    BY <2>1, <2>2, <2>5 DEF Begun
  <2>9. PastIsOver' /\ RunMatchesAttempt'
    BY <2>1, <2>2, <2>5 DEF PastIsOver, RunMatchesAttempt
  <2>10. FutureUntouched'
    BY <2>1, <2>2, <2>5 DEF FutureUntouched, Attempts
  <2>11. FailedUnstopped'
    BY <2>1, <2>2, <2>5 DEF FailedUnstopped
  <2>12. FinalHasSession'
    BY <2>6 DEF FinalHasSession
  <2>13. CommandKnows' /\ StartupKnows'
    BY <2>2 DEF CommandKnows, StartupKnows, Idle, Op
  <2>14. LiveProcessIsOwned'
    BY <2>1, <2>2 DEF LiveProcessIsOwned
  <2>15. StoppedMeansDrained'
    BY <2>1, <2>2, <2>6 DEF StoppedMeansDrained
  <2>16. ReviewIsBacked'
    BY <2>1, <2>2, <2>5, <2>6 DEF ReviewIsBacked
  <2>17. AutoOnlyAfterRetryableFailure'
    <3>1. \A a \in Attempts : a # cur =>
            /\ att'[a] = att[a] /\ failure'[a] = failure[a]
            /\ intent'[a] = intent[a] /\ (final[a] => final'[a])
      BY <2>2, <2>5, <2>6, <2>7
    <3> QED
      BY <2>2, <3>1, AutoFrame
  <2> QED
    BY <2>8, <2>9, <2>10, <2>11, <2>12, <2>13, <2>14, <2>15, <2>16, <2>17
<1>2. CASE ~ExitApplies(op.att)
  <2>1. /\ UNCHANGED <<runState, cur, att, sess, final, drained, intent,
                       failure, origin, proc, server>>
        /\ op' = Idle
    BY <1>2 DEF ExitCommit, procVars
  <2>2. /\ Begun' /\ PastIsOver' /\ FutureUntouched' /\ RunMatchesAttempt'
        /\ FailedUnstopped' /\ FinalHasSession'
    BY <2>1 DEF Begun, PastIsOver, FutureUntouched, RunMatchesAttempt,
                FailedUnstopped, FinalHasSession
  <2>3. CommandKnows' /\ StartupKnows'
    BY <2>1 DEF CommandKnows, StartupKnows, Idle, Op
  <2>4. /\ LiveProcessIsOwned' /\ StoppedMeansDrained' /\ ReviewIsBacked'
        /\ AutoOnlyAfterRetryableFailure'
    BY <2>1 DEF LiveProcessIsOwned, StoppedMeansDrained, ReviewIsBacked,
                AutoOnlyAfterRetryableFailure
  <2> QED
    BY <2>2, <2>3, <2>4
<1> QED
  BY <1>1, <1>2

(* A crash leaves the store and the processes as they are.                 *)
LEMMA ServerLostSafe ==
  ASSUME SafetyInvariant, TypeOK', ServerLost("down")
  PROVE  SafetyInvariant'
<1> USE BoundsAssumption
<1> USE DEF SafetyInvariant, TypeOK, DataTypeOK, FlagTypeOK, Attempts
<1> USE DEF Begun, PastIsOver, FutureUntouched, RunMatchesAttempt,
            FailedUnstopped, FinalHasSession, CommandKnows, StartupKnows,
            LiveProcessIsOwned, StoppedMeansDrained, ReviewIsBacked,
            AutoOnlyAfterRetryableFailure
<1>1. Begun' /\ PastIsOver' /\ FutureUntouched' /\ RunMatchesAttempt'
  BY DEF ServerLost, Idle, Op
<1>2. FailedUnstopped' /\ FinalHasSession'
  BY DEF ServerLost, Idle, Op
<1>3. CommandKnows' /\ StartupKnows'
  BY DEF ServerLost, Idle, Op
<1>4. LiveProcessIsOwned' /\ StoppedMeansDrained' /\ ReviewIsBacked'
  BY DEF ServerLost, Idle, Op
<1>5. AutoOnlyAfterRetryableFailure'
  BY DEF ServerLost, Idle, Op
<1> QED
  BY <1>1, <1>2, <1>3, <1>4, <1>5

(* A person prepares the first Attempt.                                    *)
LEMMA PrepareRunSafe ==
  ASSUME SafetyInvariant, TypeOK', PrepareRun
  PROVE  SafetyInvariant'
<1> USE BoundsAssumption DEF SafetyInvariant
<1>1. /\ cur = 0 /\ runState = "draft" /\ runState' = "ready" /\ cur' = 1
      /\ 1 \in Attempts /\ op.pc = "idle" /\ server = "up"
      /\ UNCHANGED <<sess, final, drained, intent, failure, proc, server, op>>
  BY DEF PrepareRun, Free, InsertAttempt, SaveRun, procVars, Begun, TypeOK,
         DataTypeOK, Attempts
<1>2. /\ att'[1] = "created"
      /\ \A a \in Attempts : a # 1 => att'[a] = att[a] /\ origin'[a] = origin[a]
      /\ \A a \in Attempts :
           a > 0 /\ att[a] = "none" /\ origin[a] = "none" /\ intent[a] = "none"
      /\ \A a \in Attempts : proc[a] # "alive"
  BY <1>1 DEF PrepareRun, InsertAttempt, FutureUntouched, LiveProcessIsOwned,
              TypeOK, DataTypeOK, Attempts
<1>3. Begun' /\ PastIsOver' /\ FutureUntouched' /\ RunMatchesAttempt'
  BY <1>1, <1>2
  DEF Begun, PastIsOver, FutureUntouched, RunMatchesAttempt, Attempts
<1>4. FailedUnstopped' /\ FinalHasSession'
  BY <1>1, <1>2 DEF FailedUnstopped, FinalHasSession
<1>5. CommandKnows' /\ StartupKnows'
  BY <1>1 DEF CommandKnows, StartupKnows
<1>6. LiveProcessIsOwned' /\ StoppedMeansDrained' /\ ReviewIsBacked'
  BY <1>1, <1>2 DEF LiveProcessIsOwned, StoppedMeansDrained, ReviewIsBacked
<1>7. AutoOnlyAfterRetryableFailure'
  <2>1. \A a \in 2..MaxAttempts : a \in Attempts /\ a # 1 /\ origin'[a] = "none"
    BY <1>2 DEF Attempts
  <2> QED
    BY <2>1 DEF AutoOnlyAfterRetryableFailure
<1> QED
  BY <1>3, <1>4, <1>5, <1>6, <1>7

(* A launch refused before a child exists.                                 *)
LEMMA LaunchNoChildSafe ==
  ASSUME SafetyInvariant, TypeOK', LaunchNoChild
  PROVE  SafetyInvariant'
<1> USE BoundsAssumption DEF SafetyInvariant, TypeOK, DataTypeOK, FlagTypeOK,
        Attempts
<1>1. Begun' /\ PastIsOver' /\ FutureUntouched'
  BY DEF LaunchNoChild, storeVars, procVars, Begun, PastIsOver,
      FutureUntouched
<1>2. RunMatchesAttempt'
  BY DEF LaunchNoChild, storeVars, procVars, RunMatchesAttempt
<1>3. FailedUnstopped' /\ FinalHasSession'
  BY DEF LaunchNoChild, storeVars, procVars, FailedUnstopped, FinalHasSession
<1>4. CommandKnows'
  BY DEF LaunchNoChild, storeVars, procVars, CommandKnows
<1>5. StartupKnows'
  BY DEF LaunchNoChild, storeVars, procVars, StartupKnows
<1>6. LiveProcessIsOwned'
  BY DEF LaunchNoChild, storeVars, procVars, LiveProcessIsOwned
<1>7. StoppedMeansDrained' /\ ReviewIsBacked'
  BY DEF LaunchNoChild, storeVars, procVars, StoppedMeansDrained,
      ReviewIsBacked
<1>8. AutoOnlyAfterRetryableFailure'
  BY DEF LaunchNoChild, storeVars, procVars, AutoOnlyAfterRetryableFailure
<1> QED
  BY <1>1, <1>2, <1>3, <1>4, <1>5, <1>6, <1>7, <1>8

(* A launch that owns its process.                                         *)
LEMMA LaunchStartedSafe ==
  ASSUME SafetyInvariant, TypeOK', LaunchStarted
  PROVE  SafetyInvariant'
<1> USE BoundsAssumption DEF SafetyInvariant, TypeOK, DataTypeOK, FlagTypeOK,
        Attempts
<1>1. Begun' /\ PastIsOver' /\ FutureUntouched'
  BY DEF LaunchStarted, storeVars, Begun, PastIsOver, FutureUntouched
<1>2. RunMatchesAttempt'
  BY DEF LaunchStarted, storeVars, RunMatchesAttempt
<1>3. FailedUnstopped' /\ FinalHasSession'
  BY DEF LaunchStarted, storeVars, FailedUnstopped, FinalHasSession
<1>4. CommandKnows'
  BY DEF LaunchStarted, storeVars, CommandKnows
<1>5. StartupKnows'
  BY DEF LaunchStarted, storeVars, StartupKnows, CommandKnows
<1>6. LiveProcessIsOwned'
  BY DEF LaunchStarted, storeVars, LiveProcessIsOwned, CommandKnows,
      RunMatchesAttempt
<1>7. StoppedMeansDrained' /\ ReviewIsBacked'
  BY DEF LaunchStarted, storeVars, StoppedMeansDrained, ReviewIsBacked,
      CommandKnows
<1>8. AutoOnlyAfterRetryableFailure'
  BY DEF LaunchStarted, storeVars, AutoOnlyAfterRetryableFailure
<1> QED
  BY <1>1, <1>2, <1>3, <1>4, <1>5, <1>6, <1>7, <1>8

(* A launch that may have left a process.                                  *)
LEMMA LaunchUncertainSafe ==
  ASSUME SafetyInvariant, TypeOK', LaunchUncertain
  PROVE  SafetyInvariant'
<1> USE BoundsAssumption DEF SafetyInvariant, TypeOK, DataTypeOK, FlagTypeOK,
        Attempts
<1>1. Begun' /\ PastIsOver' /\ FutureUntouched'
  BY DEF LaunchUncertain, Fault, storeVars, Begun, PastIsOver,
      FutureUntouched
<1>2. RunMatchesAttempt'
  BY DEF LaunchUncertain, Fault, storeVars, RunMatchesAttempt
<1>3. FailedUnstopped' /\ FinalHasSession'
  BY DEF LaunchUncertain, Fault, storeVars, FailedUnstopped, FinalHasSession
<1>4. CommandKnows'
  BY DEF LaunchUncertain, Fault, storeVars, CommandKnows
<1>5. StartupKnows'
  BY DEF LaunchUncertain, Fault, storeVars, StartupKnows, CommandKnows
<1>6. LiveProcessIsOwned'
  BY DEF LaunchUncertain, Fault, storeVars, LiveProcessIsOwned, CommandKnows,
      RunMatchesAttempt
<1>7. StoppedMeansDrained' /\ ReviewIsBacked'
  BY DEF LaunchUncertain, Fault, storeVars, StoppedMeansDrained,
      ReviewIsBacked, CommandKnows
<1>8. AutoOnlyAfterRetryableFailure'
  BY DEF LaunchUncertain, Fault, storeVars, AutoOnlyAfterRetryableFailure
<1> QED
  BY <1>1, <1>2, <1>3, <1>4, <1>5, <1>6, <1>7, <1>8

(* The process that exited is finalized.                                   *)
LEMMA ExitFinalizeSafe ==
  ASSUME SafetyInvariant, TypeOK', ExitFinalize
  PROVE  SafetyInvariant'
<1> USE BoundsAssumption DEF SafetyInvariant, TypeOK, DataTypeOK, FlagTypeOK,
        Attempts
<1>1. Begun' /\ PastIsOver' /\ FutureUntouched'
  BY DEF ExitFinalize, SupervisorFinalize, storeVars, Begun, PastIsOver,
      FutureUntouched
<1>2. RunMatchesAttempt'
  BY DEF ExitFinalize, SupervisorFinalize, storeVars, RunMatchesAttempt
<1>3. FailedUnstopped' /\ FinalHasSession'
  BY DEF ExitFinalize, SupervisorFinalize, storeVars, FailedUnstopped,
      FinalHasSession
<1>4. CommandKnows'
  BY DEF ExitFinalize, SupervisorFinalize, storeVars, CommandKnows
<1>5. StartupKnows'
  BY DEF ExitFinalize, SupervisorFinalize, storeVars, StartupKnows
<1>6. LiveProcessIsOwned'
  BY DEF ExitFinalize, SupervisorFinalize, storeVars, LiveProcessIsOwned
<1>7. StoppedMeansDrained' /\ ReviewIsBacked'
  BY DEF ExitFinalize, SupervisorFinalize, storeVars, StoppedMeansDrained,
      ReviewIsBacked
<1>8. AutoOnlyAfterRetryableFailure'
  BY DEF ExitFinalize, SupervisorFinalize, storeVars,
      AutoOnlyAfterRetryableFailure
<1> QED
  BY <1>1, <1>2, <1>3, <1>4, <1>5, <1>6, <1>7, <1>8

(* A confirmed stop is marked.                                             *)
LEMMA StopMarkSafe ==
  ASSUME SafetyInvariant, TypeOK', StopMark
  PROVE  SafetyInvariant'
<1> USE BoundsAssumption DEF SafetyInvariant, TypeOK, DataTypeOK, FlagTypeOK,
        Attempts
<1>1. Begun' /\ PastIsOver' /\ FutureUntouched'
  BY DEF StopMark, FinalizeSession, GoTo, procVars, Begun, PastIsOver,
      FutureUntouched
<1>2. RunMatchesAttempt'
  BY DEF StopMark, FinalizeSession, GoTo, procVars, RunMatchesAttempt,
      CommandKnows
<1>3. FailedUnstopped' /\ FinalHasSession'
  BY DEF StopMark, FinalizeSession, GoTo, procVars, FailedUnstopped,
      FinalHasSession
<1>4. CommandKnows'
  BY DEF StopMark, FinalizeSession, GoTo, procVars, CommandKnows
<1>5. StartupKnows'
  BY DEF StopMark, FinalizeSession, GoTo, procVars, StartupKnows
<1>6. LiveProcessIsOwned'
  BY DEF StopMark, FinalizeSession, GoTo, procVars, LiveProcessIsOwned,
      CommandKnows
<1>7. StoppedMeansDrained' /\ ReviewIsBacked'
  BY DEF StopMark, FinalizeSession, GoTo, procVars, StoppedMeansDrained,
      ReviewIsBacked, CommandKnows
<1>8. AutoOnlyAfterRetryableFailure'
  <2>1. /\ UNCHANGED <<cur, origin, att, failure, intent>>
        /\ \A a \in Attempts : final[a] => final'[a]
    BY DEF StopMark, FinalizeSession, GoTo, procVars
  <2> QED
    BY <2>1 DEF AutoOnlyAfterRetryableFailure
<1> QED
  BY <1>1, <1>2, <1>3, <1>4, <1>5, <1>6, <1>7, <1>8

(* The outcome of the stop is unknown.                                     *)
LEMMA StopUncertainSafe ==
  ASSUME SafetyInvariant, TypeOK', StopUncertain
  PROVE  SafetyInvariant'
<1> USE BoundsAssumption DEF SafetyInvariant, TypeOK, DataTypeOK, FlagTypeOK,
        Attempts
<1>1. Begun' /\ PastIsOver' /\ FutureUntouched'
  BY DEF StopUncertain, SaveRun, Idle, Op, procVars, Begun, PastIsOver,
      FutureUntouched
<1>2. RunMatchesAttempt'
  BY DEF StopUncertain, SaveRun, Idle, Op, procVars, RunMatchesAttempt
<1>3. FailedUnstopped' /\ FinalHasSession'
  BY DEF StopUncertain, SaveRun, Idle, Op, procVars, FailedUnstopped,
      FinalHasSession
<1>4. CommandKnows'
  BY DEF StopUncertain, SaveRun, Idle, Op, procVars, CommandKnows
<1>5. StartupKnows'
  BY DEF StopUncertain, SaveRun, Idle, Op, procVars, StartupKnows
<1>6. LiveProcessIsOwned'
  BY DEF StopUncertain, SaveRun, Idle, Op, procVars, LiveProcessIsOwned
<1>7. StoppedMeansDrained' /\ ReviewIsBacked'
  BY DEF StopUncertain, SaveRun, Idle, Op, procVars, StoppedMeansDrained,
      ReviewIsBacked
<1>8. AutoOnlyAfterRetryableFailure'
  BY DEF StopUncertain, SaveRun, Idle, Op, procVars,
      AutoOnlyAfterRetryableFailure
<1> QED
  BY <1>1, <1>2, <1>3, <1>4, <1>5, <1>6, <1>7, <1>8

(* A Run without a process is cancelled.                                   *)
LEMMA CancelInactiveSafe ==
  ASSUME SafetyInvariant, TypeOK', CancelInactive
  PROVE  SafetyInvariant'
<1> USE BoundsAssumption DEF SafetyInvariant, TypeOK, DataTypeOK, FlagTypeOK,
        Attempts
<1>1. Begun' /\ PastIsOver' /\ FutureUntouched'
  BY DEF CancelInactive, Free, AutoRetrying, AutoBlocked,
      AutomaticRetryFinalized, SaveRun, procVars, serverVars, Begun,
      PastIsOver, FutureUntouched
<1>2. RunMatchesAttempt'
  BY DEF CancelInactive, Free, AutoRetrying, AutoBlocked,
      AutomaticRetryFinalized, SaveRun, procVars, serverVars,
      RunMatchesAttempt
<1>3. FailedUnstopped' /\ FinalHasSession'
  BY DEF CancelInactive, Free, AutoRetrying, AutoBlocked,
      AutomaticRetryFinalized, SaveRun, procVars, serverVars,
      FailedUnstopped, FinalHasSession
<1>4. CommandKnows'
  BY DEF CancelInactive, Free, AutoRetrying, AutoBlocked,
      AutomaticRetryFinalized, SaveRun, procVars, serverVars, CommandKnows
<1>5. StartupKnows'
  BY DEF CancelInactive, Free, AutoRetrying, AutoBlocked,
      AutomaticRetryFinalized, SaveRun, procVars, serverVars, StartupKnows
<1>6. LiveProcessIsOwned'
  BY DEF CancelInactive, Free, AutoRetrying, AutoBlocked,
      AutomaticRetryFinalized, SaveRun, procVars, serverVars,
      LiveProcessIsOwned
<1>7. StoppedMeansDrained' /\ ReviewIsBacked'
  BY DEF CancelInactive, Free, AutoRetrying, AutoBlocked,
      AutomaticRetryFinalized, SaveRun, procVars, serverVars,
      StoppedMeansDrained, ReviewIsBacked
<1>8. AutoOnlyAfterRetryableFailure'
  BY DEF CancelInactive, Free, AutoRetrying, AutoBlocked,
      AutomaticRetryFinalized, SaveRun, procVars, serverVars,
      AutoOnlyAfterRetryableFailure
<1> QED
  BY <1>1, <1>2, <1>3, <1>4, <1>5, <1>6, <1>7, <1>8

(* A person accepts the output.                                            *)
LEMMA AcceptSafe ==
  ASSUME SafetyInvariant, TypeOK', Accept
  PROVE  SafetyInvariant'
<1> USE BoundsAssumption DEF SafetyInvariant, TypeOK, DataTypeOK, FlagTypeOK,
        Attempts
<1>1. Begun' /\ PastIsOver' /\ FutureUntouched'
  BY DEF Accept, Free, SaveRun, procVars, serverVars, Begun, PastIsOver,
      FutureUntouched
<1>2. RunMatchesAttempt'
  BY DEF Accept, Free, SaveRun, procVars, serverVars, RunMatchesAttempt
<1>3. FailedUnstopped' /\ FinalHasSession'
  BY DEF Accept, Free, SaveRun, procVars, serverVars, FailedUnstopped,
      FinalHasSession
<1>4. CommandKnows'
  BY DEF Accept, Free, SaveRun, procVars, serverVars, CommandKnows
<1>5. StartupKnows'
  BY DEF Accept, Free, SaveRun, procVars, serverVars, StartupKnows
<1>6. LiveProcessIsOwned'
  BY DEF Accept, Free, SaveRun, procVars, serverVars, LiveProcessIsOwned
<1>7. StoppedMeansDrained' /\ ReviewIsBacked'
  BY DEF Accept, Free, SaveRun, procVars, serverVars, StoppedMeansDrained,
      ReviewIsBacked
<1>8. AutoOnlyAfterRetryableFailure'
  BY DEF Accept, Free, SaveRun, procVars, serverVars,
      AutoOnlyAfterRetryableFailure
<1> QED
  BY <1>1, <1>2, <1>3, <1>4, <1>5, <1>6, <1>7, <1>8

(* A command fails between two of its steps.                               *)
LEMMA OperationFailsSafe ==
  ASSUME SafetyInvariant, TypeOK', OperationFails
  PROVE  SafetyInvariant'
<1> USE BoundsAssumption DEF SafetyInvariant, TypeOK, DataTypeOK, FlagTypeOK,
        Attempts
<1>1. Begun' /\ PastIsOver' /\ FutureUntouched'
  BY DEF OperationFails, Fault, Idle, Op, procVars, Begun, PastIsOver,
      FutureUntouched
<1>2. RunMatchesAttempt'
  BY DEF OperationFails, Fault, Idle, Op, procVars, RunMatchesAttempt
<1>3. FailedUnstopped' /\ FinalHasSession'
  BY DEF OperationFails, Fault, Idle, Op, procVars, FailedUnstopped,
      FinalHasSession
<1>4. CommandKnows'
  BY DEF OperationFails, Fault, Idle, Op, procVars, CommandKnows
<1>5. StartupKnows'
  BY DEF OperationFails, Fault, Idle, Op, procVars, StartupKnows
<1>6. LiveProcessIsOwned'
  BY DEF OperationFails, Fault, Idle, Op, procVars, LiveProcessIsOwned
<1>7. StoppedMeansDrained' /\ ReviewIsBacked'
  BY DEF OperationFails, Fault, Idle, Op, procVars, StoppedMeansDrained,
      ReviewIsBacked
<1>8. AutoOnlyAfterRetryableFailure'
  BY DEF OperationFails, Fault, Idle, Op, procVars,
      AutoOnlyAfterRetryableFailure
<1> QED
  BY <1>1, <1>2, <1>3, <1>4, <1>5, <1>6, <1>7, <1>8

(* The routes of the Docker supervisor are restored.                       *)
LEMMA BootRoutesDockerSafe ==
  ASSUME SafetyInvariant, TypeOK', BootRoutesDocker
  PROVE  SafetyInvariant'
<1> USE BoundsAssumption DEF SafetyInvariant, TypeOK, DataTypeOK, FlagTypeOK,
        Attempts
<1>1. Begun' /\ PastIsOver' /\ FutureUntouched'
  BY DEF BootRoutesDocker, Unfinalized, Recoverable, StartupCandidate, Boot,
      storeVars, Begun, PastIsOver, FutureUntouched
<1>2. RunMatchesAttempt'
  BY DEF BootRoutesDocker, Unfinalized, Recoverable, StartupCandidate, Boot,
      storeVars, RunMatchesAttempt
<1>3. FailedUnstopped' /\ FinalHasSession'
  BY DEF BootRoutesDocker, Unfinalized, Recoverable, StartupCandidate, Boot,
      storeVars, FailedUnstopped, FinalHasSession
<1>4. CommandKnows'
  BY DEF BootRoutesDocker, Unfinalized, Recoverable, StartupCandidate, Boot,
      storeVars, CommandKnows
<1>5. StartupKnows'
  BY DEF BootRoutesDocker, Unfinalized, Recoverable, StartupCandidate, Boot,
      storeVars, StartupKnows
<1>6. LiveProcessIsOwned'
  BY DEF BootRoutesDocker, Unfinalized, Recoverable, StartupCandidate, Boot,
      storeVars, LiveProcessIsOwned
<1>7. StoppedMeansDrained' /\ ReviewIsBacked'
  BY DEF BootRoutesDocker, Unfinalized, Recoverable, StartupCandidate, Boot,
      storeVars, StoppedMeansDrained, ReviewIsBacked
<1>8. AutoOnlyAfterRetryableFailure'
  BY DEF BootRoutesDocker, Unfinalized, Recoverable, StartupCandidate, Boot,
      storeVars, AutoOnlyAfterRetryableFailure
<1> QED
  BY <1>1, <1>2, <1>3, <1>4, <1>5, <1>6, <1>7, <1>8

(* The routes of the trusted host are restored.                            *)
LEMMA BootRoutesTrustedSafe ==
  ASSUME SafetyInvariant, TypeOK', BootRoutesTrusted
  PROVE  SafetyInvariant'
<1> USE BoundsAssumption DEF SafetyInvariant, TypeOK, DataTypeOK, FlagTypeOK,
        Attempts
<1>1. Begun' /\ PastIsOver' /\ FutureUntouched'
  BY DEF BootRoutesTrusted, Unfinalized, Recoverable, StartupCandidate, Boot,
      storeVars, Begun, PastIsOver, FutureUntouched
<1>2. RunMatchesAttempt'
  BY DEF BootRoutesTrusted, Unfinalized, Recoverable, StartupCandidate, Boot,
      storeVars, RunMatchesAttempt
<1>3. FailedUnstopped' /\ FinalHasSession'
  BY DEF BootRoutesTrusted, Unfinalized, Recoverable, StartupCandidate, Boot,
      storeVars, FailedUnstopped, FinalHasSession
<1>4. CommandKnows'
  BY DEF BootRoutesTrusted, Unfinalized, Recoverable, StartupCandidate, Boot,
      storeVars, CommandKnows
<1>5. StartupKnows'
  BY DEF BootRoutesTrusted, Unfinalized, Recoverable, StartupCandidate, Boot,
      storeVars, StartupKnows
<1>6. LiveProcessIsOwned'
  BY DEF BootRoutesTrusted, Unfinalized, Recoverable, StartupCandidate, Boot,
      storeVars, LiveProcessIsOwned
<1>7. StoppedMeansDrained' /\ ReviewIsBacked'
  BY DEF BootRoutesTrusted, Unfinalized, Recoverable, StartupCandidate, Boot,
      storeVars, StoppedMeansDrained, ReviewIsBacked
<1>8. AutoOnlyAfterRetryableFailure'
  BY DEF BootRoutesTrusted, Unfinalized, Recoverable, StartupCandidate, Boot,
      storeVars, AutoOnlyAfterRetryableFailure
<1> QED
  BY <1>1, <1>2, <1>3, <1>4, <1>5, <1>6, <1>7, <1>8

(* A start of the server takes the Run over.                               *)
LEMMA BootDetectSafe ==
  ASSUME SafetyInvariant, TypeOK', BootDetect
  PROVE  SafetyInvariant'
<1> USE BoundsAssumption DEF SafetyInvariant, TypeOK, DataTypeOK, FlagTypeOK,
        Attempts
<1>1. Begun' /\ PastIsOver' /\ FutureUntouched'
  BY DEF BootDetect, StartupCandidate, SaveRun, Boot, Recoverable, procVars,
      Begun, PastIsOver, FutureUntouched
<1>2. RunMatchesAttempt'
  BY DEF BootDetect, StartupCandidate, SaveRun, Boot, Recoverable, procVars,
      RunMatchesAttempt
<1>3. FailedUnstopped' /\ FinalHasSession'
  BY DEF BootDetect, StartupCandidate, SaveRun, Boot, Recoverable, procVars,
      FailedUnstopped, FinalHasSession
<1>4. CommandKnows'
  BY DEF BootDetect, StartupCandidate, SaveRun, Boot, Recoverable, procVars,
      CommandKnows
<1>5. StartupKnows'
  BY DEF BootDetect, StartupCandidate, SaveRun, Boot, Recoverable, procVars,
      StartupKnows, PastIsOver, RunMatchesAttempt, Begun
<1>6. LiveProcessIsOwned'
  BY DEF BootDetect, StartupCandidate, SaveRun, Boot, Recoverable, procVars,
      LiveProcessIsOwned
<1>7. StoppedMeansDrained' /\ ReviewIsBacked'
  BY DEF BootDetect, StartupCandidate, SaveRun, Boot, Recoverable, procVars,
      StoppedMeansDrained, ReviewIsBacked
<1>8. AutoOnlyAfterRetryableFailure'
  BY DEF BootDetect, StartupCandidate, SaveRun, Boot, Recoverable, procVars,
      AutoOnlyAfterRetryableFailure
<1> QED
  BY <1>1, <1>2, <1>3, <1>4, <1>5, <1>6, <1>7, <1>8

(* The process cannot be reached.                                          *)
LEMMA BootUnknownSafe ==
  ASSUME SafetyInvariant, TypeOK', BootUnknown
  PROVE  SafetyInvariant'
<1> USE BoundsAssumption DEF SafetyInvariant, TypeOK, DataTypeOK, FlagTypeOK,
        Attempts
<1>1. Begun' /\ PastIsOver' /\ FutureUntouched'
  BY DEF BootUnknown, Boot, storeVars, procVars, Begun, PastIsOver,
      FutureUntouched
<1>2. RunMatchesAttempt'
  BY DEF BootUnknown, Boot, storeVars, procVars, RunMatchesAttempt
<1>3. FailedUnstopped' /\ FinalHasSession'
  BY DEF BootUnknown, Boot, storeVars, procVars, FailedUnstopped,
      FinalHasSession
<1>4. CommandKnows'
  BY DEF BootUnknown, Boot, storeVars, procVars, CommandKnows
<1>5. StartupKnows'
  BY DEF BootUnknown, Boot, storeVars, procVars, StartupKnows
<1>6. LiveProcessIsOwned'
  BY DEF BootUnknown, Boot, storeVars, procVars, LiveProcessIsOwned
<1>7. StoppedMeansDrained' /\ ReviewIsBacked'
  BY DEF BootUnknown, Boot, storeVars, procVars, StoppedMeansDrained,
      ReviewIsBacked
<1>8. AutoOnlyAfterRetryableFailure'
  BY DEF BootUnknown, Boot, storeVars, procVars,
      AutoOnlyAfterRetryableFailure
<1> QED
  BY <1>1, <1>2, <1>3, <1>4, <1>5, <1>6, <1>7, <1>8

(* The process found is stopped.                                           *)
LEMMA BootStopSafe ==
  ASSUME SafetyInvariant, TypeOK', BootStop
  PROVE  SafetyInvariant'
<1> USE BoundsAssumption DEF SafetyInvariant, TypeOK, DataTypeOK, FlagTypeOK,
        Attempts
<1>1. Begun' /\ PastIsOver' /\ FutureUntouched'
  BY DEF BootStop, Boot, Fault, storeVars, Begun, PastIsOver, FutureUntouched
<1>2. RunMatchesAttempt'
  BY DEF BootStop, Boot, Fault, storeVars, RunMatchesAttempt
<1>3. FailedUnstopped' /\ FinalHasSession'
  BY DEF BootStop, Boot, Fault, storeVars, FailedUnstopped, FinalHasSession
<1>4. CommandKnows'
  BY DEF BootStop, Boot, Fault, storeVars, CommandKnows
<1>5. StartupKnows'
  BY DEF BootStop, Boot, Fault, storeVars, StartupKnows
<1>6. LiveProcessIsOwned'
  BY DEF BootStop, Boot, Fault, storeVars, LiveProcessIsOwned
<1>7. StoppedMeansDrained' /\ ReviewIsBacked'
  BY DEF BootStop, Boot, Fault, storeVars, StoppedMeansDrained,
      ReviewIsBacked
<1>8. AutoOnlyAfterRetryableFailure'
  BY DEF BootStop, Boot, Fault, storeVars, AutoOnlyAfterRetryableFailure
<1> QED
  BY <1>1, <1>2, <1>3, <1>4, <1>5, <1>6, <1>7, <1>8

(* The process found is finalized.                                         *)
LEMMA BootFinalizeSafe ==
  ASSUME SafetyInvariant, TypeOK', BootFinalize
  PROVE  SafetyInvariant'
<1> USE BoundsAssumption DEF SafetyInvariant, TypeOK, DataTypeOK, FlagTypeOK,
        Attempts
<1>1. Begun' /\ PastIsOver' /\ FutureUntouched'
  BY DEF BootFinalize, SupervisorFinalize, Boot, storeVars, Begun,
      PastIsOver, FutureUntouched
<1>2. RunMatchesAttempt'
  BY DEF BootFinalize, SupervisorFinalize, Boot, storeVars, RunMatchesAttempt
<1>3. FailedUnstopped' /\ FinalHasSession'
  BY DEF BootFinalize, SupervisorFinalize, Boot, storeVars, FailedUnstopped,
      FinalHasSession
<1>4. CommandKnows'
  BY DEF BootFinalize, SupervisorFinalize, Boot, storeVars, CommandKnows
<1>5. StartupKnows'
  BY DEF BootFinalize, SupervisorFinalize, Boot, storeVars, StartupKnows
<1>6. LiveProcessIsOwned'
  BY DEF BootFinalize, SupervisorFinalize, Boot, storeVars,
      LiveProcessIsOwned
<1>7. StoppedMeansDrained' /\ ReviewIsBacked'
  BY DEF BootFinalize, SupervisorFinalize, Boot, storeVars,
      StoppedMeansDrained, ReviewIsBacked
<1>8. AutoOnlyAfterRetryableFailure'
  BY DEF BootFinalize, SupervisorFinalize, Boot, storeVars,
      AutoOnlyAfterRetryableFailure
<1> QED
  BY <1>1, <1>2, <1>3, <1>4, <1>5, <1>6, <1>7, <1>8

(* And marked.                                                             *)
LEMMA BootMarkSafe ==
  ASSUME SafetyInvariant, TypeOK', BootMark
  PROVE  SafetyInvariant'
<1> USE BoundsAssumption DEF SafetyInvariant, TypeOK, DataTypeOK, FlagTypeOK,
        Attempts
<1>1. Begun' /\ PastIsOver' /\ FutureUntouched'
  BY DEF BootMark, Boot, procVars, Begun, PastIsOver, FutureUntouched,
      StartupKnows
<1>2. RunMatchesAttempt'
  BY DEF BootMark, Boot, procVars, RunMatchesAttempt, StartupKnows
<1>3. FailedUnstopped' /\ FinalHasSession'
  BY DEF BootMark, Boot, procVars, FailedUnstopped, FinalHasSession,
      StartupKnows
<1>4. CommandKnows'
  BY DEF BootMark, Boot, procVars, CommandKnows
<1>5. StartupKnows'
  BY DEF BootMark, Boot, procVars, StartupKnows
<1>6. LiveProcessIsOwned'
  BY DEF BootMark, Boot, procVars, LiveProcessIsOwned, StartupKnows
<1>7. StoppedMeansDrained' /\ ReviewIsBacked'
  BY DEF BootMark, Boot, procVars, StoppedMeansDrained, ReviewIsBacked
<1>8. AutoOnlyAfterRetryableFailure'
  BY DEF BootMark, Boot, procVars, AutoOnlyAfterRetryableFailure
<1> QED
  BY <1>1, <1>2, <1>3, <1>4, <1>5, <1>6, <1>7, <1>8

(* A person rejects the output.                                            *)
LEMMA RejectSafe ==
  ASSUME SafetyInvariant, TypeOK', NEW class \in RejectionClasses, Reject(class)
  PROVE  SafetyInvariant'
<1> USE BoundsAssumption DEF SafetyInvariant, TypeOK, DataTypeOK, FlagTypeOK,
        Attempts
<1>1. Begun' /\ PastIsOver' /\ FutureUntouched'
  BY DEF Reject, Free, SaveRun, procVars, serverVars, Begun, PastIsOver,
      FutureUntouched
<1>2. RunMatchesAttempt'
  BY DEF Reject, Free, SaveRun, procVars, serverVars, RunMatchesAttempt
<1>3. FailedUnstopped' /\ FinalHasSession'
  BY DEF Reject, Free, SaveRun, procVars, serverVars, FailedUnstopped,
      FinalHasSession
<1>4. CommandKnows'
  BY DEF Reject, Free, SaveRun, procVars, serverVars, CommandKnows
<1>5. StartupKnows'
  BY DEF Reject, Free, SaveRun, procVars, serverVars, StartupKnows
<1>6. LiveProcessIsOwned'
  BY DEF Reject, Free, SaveRun, procVars, serverVars, LiveProcessIsOwned
<1>7. StoppedMeansDrained' /\ ReviewIsBacked'
  BY DEF Reject, Free, SaveRun, procVars, serverVars, StoppedMeansDrained,
      ReviewIsBacked
<1>8. AutoOnlyAfterRetryableFailure'
  BY DEF Reject, Free, SaveRun, procVars, serverVars,
      AutoOnlyAfterRetryableFailure
<1> QED
  BY <1>1, <1>2, <1>3, <1>4, <1>5, <1>6, <1>7, <1>8

(* A process ends by itself.                                               *)
LEMMA ProcessDiesSafe ==
  ASSUME SafetyInvariant, TypeOK', NEW a \in Attempts, ProcessDies(a)
  PROVE  SafetyInvariant'
<1> USE BoundsAssumption DEF SafetyInvariant, TypeOK, DataTypeOK, FlagTypeOK,
        Attempts
<1>1. Begun' /\ PastIsOver' /\ FutureUntouched'
  BY DEF ProcessDies, storeVars, serverVars, Begun, PastIsOver,
      FutureUntouched
<1>2. RunMatchesAttempt'
  BY DEF ProcessDies, storeVars, serverVars, RunMatchesAttempt
<1>3. FailedUnstopped' /\ FinalHasSession'
  BY DEF ProcessDies, storeVars, serverVars, FailedUnstopped, FinalHasSession
<1>4. CommandKnows'
  BY DEF ProcessDies, storeVars, serverVars, CommandKnows
<1>5. StartupKnows'
  BY DEF ProcessDies, storeVars, serverVars, StartupKnows
<1>6. LiveProcessIsOwned'
  BY DEF ProcessDies, storeVars, serverVars, LiveProcessIsOwned
<1>7. StoppedMeansDrained' /\ ReviewIsBacked'
  BY DEF ProcessDies, storeVars, serverVars, StoppedMeansDrained,
      ReviewIsBacked
<1>8. AutoOnlyAfterRetryableFailure'
  BY DEF ProcessDies, storeVars, serverVars, AutoOnlyAfterRetryableFailure
<1> QED
  BY <1>1, <1>2, <1>3, <1>4, <1>5, <1>6, <1>7, <1>8

(* Every step keeps the invariant.                                         *)
LEMMA StepSafe ==
  ASSUME SafetyInvariant, TypeOK', [Next]_vars
  PROVE  SafetyInvariant'
<1>1. CASE PrepareRun
  BY <1>1, PrepareRunSafe
<1>2. CASE HumanRetry
  BY <1>2, HumanRetrySafe
<1>3. CASE AutoRetry
  BY <1>3, AutoRetrySafe
<1>4. CASE BlockAutomaticRetry
  BY <1>4, QuietSafe DEF BlockAutomaticRetry, procVars, serverVars
<1>5. CASE StartReserve
  BY <1>5, StartReserveSafe
<1>6. CASE LaunchNoChild
  BY <1>6, LaunchNoChildSafe
<1>7. CASE LaunchStarted
  BY <1>7, LaunchStartedSafe
<1>8. CASE LaunchUncertain
  BY <1>8, LaunchUncertainSafe
<1>9. CASE StartRecord
  BY <1>9, StartRecordSafe
<1>10. CASE ExitFinalize
  BY <1>10, ExitFinalizeSafe
<1>11. CASE ExitCommit
  BY <1>11, ExitCommitSafe
<1>12. CASE StopSignal
  BY <1>12, StopSignalSafe
<1>13. CASE StopFinalize
  BY <1>13, StopFinalizeSafe
<1>14. CASE StopMark
  BY <1>14, StopMarkSafe
<1>15. CASE StopConfirm
  BY <1>15, StopConfirmSafe
<1>16. CASE StopUncertain
  BY <1>16, StopUncertainSafe
<1>17. CASE HumanCancel
  BY <1>17, EnterStopSafe DEF HumanCancel
<1>18. CASE HumanCancelsAgain
  BY <1>18, CancelsAgainSafe DEF HumanCancelsAgain
<1>19. CASE CancelInactive
  BY <1>19, CancelInactiveSafe
<1>20. CASE Accept
  BY <1>20, AcceptSafe
<1>21. CASE OperationFails
  BY <1>21, OperationFailsSafe
<1>22. CASE HandlerFails
  BY <1>22, QuietSafe DEF HandlerFails, storeVars, procVars
<1>23. CASE Crash
  BY <1>23, ServerLostSafe DEF Crash
<1>24. CASE BootFails
  BY <1>24, ServerLostSafe DEF BootFails
<1>25. CASE BootRoutesDocker
  BY <1>25, BootRoutesDockerSafe
<1>26. CASE BootRoutesTrusted
  BY <1>26, BootRoutesTrustedSafe
<1>27. CASE BootDetect
  BY <1>27, BootDetectSafe
<1>28. CASE BootUnknown
  BY <1>28, BootUnknownSafe
<1>29. CASE BootStop
  BY <1>29, BootStopSafe
<1>30. CASE BootInterrupt
  BY <1>30, BootInterruptSafe
<1>31. CASE BootFinalize
  BY <1>31, BootFinalizeSafe
<1>32. CASE BootMark
  BY <1>32, BootMarkSafe
<1>33. ASSUME NEW class \in RejectionClasses, Reject(class)
       PROVE  SafetyInvariant'
  BY <1>33, RejectSafe
<1>34. ASSUME NEW a \in Attempts, MonitorLeaves(a)
       PROVE  SafetyInvariant'
  BY <1>34, QuietSafe DEF MonitorLeaves, Decide, storeVars, procVars
<1>35. ASSUME NEW a \in Attempts, MonitorSeesExit(a)
       PROVE  SafetyInvariant'
  BY <1>35, QuietSafe DEF MonitorSeesExit, Decide, storeVars, procVars
<1>36. ASSUME NEW a \in Attempts, MonitorSeesViolation(a)
       PROVE  SafetyInvariant'
  BY <1>36, QuietSafe DEF MonitorSeesViolation, Decide, storeVars, procVars
<1>37. ASSUME NEW a \in Attempts, MonitorUncertain(a)
       PROVE  SafetyInvariant'
  BY <1>37, QuietSafe DEF MonitorUncertain, Decide, storeVars, procVars
<1>38. ASSUME NEW a \in Attempts, ExitEnter(a)
       PROVE  SafetyInvariant'
  BY <1>38, ExitEnterSafe
<1>39. ASSUME NEW a \in Attempts, ProcessDies(a)
       PROVE  SafetyInvariant'
  BY <1>39, ProcessDiesSafe
<1>40. ASSUME NEW a \in Attempts, MonitorPolices(a)
       PROVE  SafetyInvariant'
  BY <1>40, MonitorStopsSafe DEF MonitorPolices
<1>41. ASSUME NEW a \in Attempts, MonitorIntervenes(a)
       PROVE  SafetyInvariant'
  BY <1>41, MonitorStopsSafe DEF MonitorIntervenes
<1>42. CASE UNCHANGED vars
  BY <1>42, QuietSafe DEF vars, storeVars, procVars, serverVars
<1> QED
  BY <1>1, <1>2, <1>3, <1>4, <1>5, <1>6, <1>7, <1>8, <1>9, <1>10, <1>11,
     <1>12, <1>13, <1>14, <1>15, <1>16, <1>17, <1>18, <1>19, <1>20, <1>21,
     <1>22, <1>23, <1>24, <1>25, <1>26, <1>27, <1>28, <1>29, <1>30, <1>31,
     <1>32, <1>33, <1>34, <1>35, <1>36, <1>37, <1>38, <1>39, <1>40, <1>41,
     <1>42
  DEF Next, Prepare, Start, Exit, Stop, Human, Startup, Failure, Monitor

LEMMA InitSafe == ASSUME Init PROVE TypeOK => SafetyInvariant
BY DEF Init, Attempts, SafetyInvariant, Idle, Op, Begun, PastIsOver,
       FutureUntouched, RunMatchesAttempt,
       FailedUnstopped, FinalHasSession, CommandKnows, StartupKnows,
       LiveProcessIsOwned, StoppedMeansDrained, ReviewIsBacked,
       AutoOnlyAfterRetryableFailure

THEOREM Safety == Spec => []SafetyInvariant
<1>1. TypeOK /\ Init => SafetyInvariant
  BY InitSafe
<1>2. SafetyInvariant /\ TypeOK' /\ [Next]_vars => SafetyInvariant'
  BY StepSafe
<1> QED
  BY <1>1, <1>2, TypeCorrect, PTL DEF Spec

(* No live process is left behind: one belongs to the current Attempt of a *)
(* Run that admits it may be running, so no successor starts beside it.    *)
THEOREM LiveProcessOwned == Spec => []LiveProcessIsOwned
BY Safety, PTL DEF SafetyInvariant

(* A session recorded as stopped has no process and was read to its end.   *)
THEOREM StoppedIsDrained == Spec => []StoppedMeansDrained
BY Safety, PTL DEF SafetyInvariant

(* What a person reviews is the finished output of the current Attempt.    *)
THEOREM ReviewBacked == Spec => []ReviewIsBacked
BY Safety, PTL DEF SafetyInvariant

(* The dispatcher repeats only work that failed for a retryable reason.    *)
THEOREM AutoRetriesFailures == Spec => []AutoOnlyAfterRetryableFailure
BY Safety, PTL DEF SafetyInvariant

(* RecoverStartup's command exists in every candidate's state.             *)
THEOREM RecoveryApplies == Spec => []RecoveryCommandApplies
<1>1. SafetyInvariant => RecoveryCommandApplies
  BY DEF SafetyInvariant, RecoveryCommandApplies, StartupCandidate,
         RunMatchesAttempt
<1> QED
  BY <1>1, Safety, PTL
-----------------------------------------------------------------------------
(* Which actions save the Run, and which an Attempt.                       *)
LEMMA RunSavers ==
  ASSUME [Next]_vars
  PROVE  \/ UNCHANGED <<runState, version, cur>>
         \/ PrepareRun \/ HumanRetry \/ AutoRetry
         \/ StartReserve \/ StartRecord \/ ExitCommit
         \/ \E how \in Hows : EnterStop(how)
         \/ CancelInactive \/ StopConfirm \/ StopUncertain
         \/ Accept \/ (\E class \in RejectionClasses : Reject(class))
         \/ BootDetect
<1>1. ASSUME NEW a \in Attempts, Monitor(a)
      PROVE  \/ UNCHANGED <<runState, version, cur>>
             \/ \E how \in Hows : EnterStop(how)
  BY <1>1 DEF Monitor, MonitorLeaves, MonitorSeesExit, MonitorSeesViolation,
              MonitorUncertain, Decide, ExitEnter, MonitorPolices,
              MonitorIntervenes, MonitorStops, CancelsAgain, storeVars, Hows
<1>2. CASE Human
  BY <1>2 DEF Human, HumanCancel, HumanCancelsAgain, CancelsAgain, storeVars,
              Hows
<1>3. CASE Prepare \/ Start \/ Exit
  BY <1>3 DEF Prepare, BlockAutomaticRetry, Start, LaunchNoChild,
              LaunchStarted, LaunchUncertain, Exit, ExitFinalize, storeVars
<1>4. CASE Stop \/ Failure
  BY <1>4 DEF Stop, StopSignal, StopFinalize, StopMark, Failure,
              OperationFails, HandlerFails, Crash, BootFails, ServerLost,
              storeVars
<1>5. CASE Startup
  BY <1>5 DEF Startup, BootRoutesDocker, BootRoutesTrusted, BootUnknown,
              BootStop, BootInterrupt, BootFinalize, BootMark, storeVars
<1>6. ASSUME NEW a \in Attempts, ProcessDies(a)
      PROVE  UNCHANGED <<runState, version, cur>>
  BY <1>6 DEF ProcessDies, storeVars
<1> QED
  BY <1>1, <1>2, <1>3, <1>4, <1>5, <1>6 DEF Next, vars, storeVars

LEMMA AttemptSavers ==
  ASSUME [Next]_vars
  PROVE  \/ UNCHANGED att
         \/ PrepareRun \/ HumanRetry \/ AutoRetry
         \/ StartReserve \/ StartRecord \/ ExitCommit
         \/ StopConfirm \/ BootInterrupt
<1>1. ASSUME NEW a \in Attempts, Monitor(a) \/ ProcessDies(a)
      PROVE  UNCHANGED att
  BY <1>1 DEF Monitor, MonitorLeaves, MonitorSeesExit, MonitorSeesViolation,
              MonitorUncertain, Decide, ExitEnter, MonitorPolices,
              MonitorIntervenes, MonitorStops, EnterStop, CancelsAgain,
              ProcessDies, storeVars
<1>2. CASE Human
  BY <1>2 DEF Human, HumanCancel, HumanCancelsAgain, EnterStop, CancelsAgain,
              CancelInactive, Accept, Reject, storeVars
<1>3. CASE Prepare \/ Start \/ Exit
  BY <1>3 DEF Prepare, BlockAutomaticRetry, Start, LaunchNoChild,
              LaunchStarted, LaunchUncertain, Exit, ExitFinalize, storeVars
<1>4. CASE Stop \/ Failure
  BY <1>4 DEF Stop, StopSignal, StopFinalize, StopMark, StopUncertain,
              Failure, OperationFails, HandlerFails, Crash, BootFails,
              ServerLost, storeVars
<1>5. CASE Startup
  BY <1>5 DEF Startup, BootRoutesDocker, BootRoutesTrusted, BootDetect,
              BootUnknown, BootStop, BootFinalize, BootMark, storeVars
<1> QED
  BY <1>1, <1>2, <1>3, <1>4, <1>5 DEF Next, vars, storeVars

(* The machine's instance of the table is the table.                       *)
LEMMA MachineTable ==
  /\ Machine!PrepareCommands = PrepareCommands
  /\ Machine!CommandKinds = CommandKinds
  /\ \A s, C : Machine!Targets(s, C) = Targets(s, C)
<1>1. Machine!RunTransitions = RunTransitions
  BY DEF RunTransitions, Machine!RunTransitions
<1>2. Machine!PrepareCommands = PrepareCommands
  BY DEF PrepareCommands, Machine!PrepareCommands
<1> QED
  BY <1>1, <1>2, Zenon
  DEF CommandKinds, Targets, Machine!CommandKinds, Machine!Targets

(* A saved successor by a row of the table is a step of the machine.       *)
LEMMA SavedIsStep ==
  ASSUME NEW c, c \notin PrepareCommands, NEW s,
         <<runState, c, s>> \in RunTransitions, SaveRun(s), UNCHANGED cur
  PROVE  Machine!Next
<1>1. c \in CommandKinds \ PrepareCommands
  BY CanFollow
<1>2. s \in Targets(runState, CommandKinds \ PrepareCommands)
  BY <1>1, RowTargets
<1> QED
  BY <1>2, MachineTable DEF SaveRun, Machine!Next, Machine!Advance

LEMMA InsertedIsStep ==
  ASSUME NEW c \in PrepareCommands, NEW who,
         <<runState, c, "ready">> \in RunTransitions, InsertAttempt(who)
  PROVE  Machine!Next
<1>1. "ready" \in Targets(runState, PrepareCommands)
  BY RowTargets
<1> QED
  BY <1>1, MachineTable DEF InsertAttempt, SaveRun, Machine!Next, Machine!Prepare

(* Every save of the Run, by whoever drives it, is a row of the table.     *)
LEMMA StepImplements ==
  ASSUME SafetyInvariant, [Next]_vars
  PROVE  [Machine!Next]_(Machine!machineVars)
<1> USE DEF PrepareCommands
<1>1. CASE UNCHANGED <<runState, version, cur>>
  BY <1>1 DEF Machine!machineVars
<1>2. CASE PrepareRun
  <2>1. <<runState, "prepare_run", "ready">> \in RunTransitions
    BY <1>2 DEF PrepareRun, RunTransitions
  <2> QED
    BY <1>2, <2>1, InsertedIsStep DEF PrepareRun
<1>3. CASE HumanRetry \/ AutoRetry
  <2>1. <<runState, "prepare_retry", "ready">> \in RunTransitions
    BY <1>3 DEF HumanRetry, HumanRetryReady, AutoRetry, AutoPending,
                AutoRetryable, RunTransitions
  <2>2. \E who \in {"human", "auto"} : InsertAttempt(who)
    BY <1>3 DEF HumanRetry, AutoRetry
  <2> QED
    BY <2>1, <2>2, InsertedIsStep
<1>4. CASE StartReserve
  <2>1. <<runState, "start_attempt", "running">> \in RunTransitions
    BY <1>4 DEF StartReserve, RunTransitions
  <2> QED
    BY <1>4, <2>1, SavedIsStep DEF StartReserve
<1>5. CASE StartRecord
  <2>1. runState = "running"
    BY <1>5 DEF StartRecord, SafetyInvariant, CommandKnows
  <2>2. /\ <<runState, "attempt_started", "running">> \in RunTransitions
        /\ <<runState, "start_failed", "recovery_required">>
             \in RunTransitions
    BY <2>1 DEF RunTransitions
  <2>3. /\ SaveRun("running") \/ SaveRun("recovery_required")
        /\ UNCHANGED cur
    BY <1>5 DEF StartRecord
  <2> QED
    BY <2>2, <2>3, SavedIsStep
<1>6. CASE ExitCommit
  <2>1. CASE ExitApplies(op.att)
    <3>1. /\ <<runState, "complete_no_change", "completed">>
               \in RunTransitions
          /\ <<runState, "submit_agent_report_direct_review",
               "awaiting_review">> \in RunTransitions
          /\ <<runState, "attempt_failed", "recovery_required">>
               \in RunTransitions
      BY <2>1 DEF ExitApplies, RunTransitions
    <3>2. /\ \/ SaveRun("completed") \/ SaveRun("awaiting_review")
             \/ SaveRun("recovery_required")
          /\ UNCHANGED cur
      BY <1>6, <2>1 DEF ExitCommit, Submit
    <3> QED
      BY <3>1, <3>2, SavedIsStep
  <2>2. CASE ~ExitApplies(op.att)
    BY <1>6, <2>2 DEF ExitCommit, Machine!machineVars
  <2> QED
    BY <2>1, <2>2
<1>7. ASSUME NEW how, EnterStop(how)
      PROVE  Machine!Next
  <2>1. <<runState, "request_cancel", "stopping">> \in RunTransitions
    BY <1>7 DEF EnterStop, RunTransitions
  <2> QED
    BY <1>7, <2>1, SavedIsStep DEF EnterStop
<1>8. CASE CancelInactive
  <2>1. <<runState, "cancel_inactive_run", "cancelled">> \in RunTransitions
    BY <1>8 DEF CancelInactive, RunTransitions
  <2> QED
    BY <1>8, <2>1, SavedIsStep DEF CancelInactive
<1>9. CASE StopConfirm
  <2>1. CASE Confirmed
    <3>1. /\ <<runState, "stop_confirmed_for_revision",
               "revision_required">> \in RunTransitions
          /\ <<runState, "stop_confirmed_for_cancel", "cancelled">>
               \in RunTransitions
      BY <2>1 DEF Confirmed, RunTransitions
    <3>2. /\ SaveRun("revision_required") \/ SaveRun("cancelled")
          /\ UNCHANGED cur
      BY <1>9, <2>1 DEF StopConfirm
    <3> QED
      BY <3>1, <3>2, SavedIsStep
  <2>2. CASE ~Confirmed
    BY <1>9, <2>2 DEF StopConfirm, Machine!machineVars
  <2> QED
    BY <2>1, <2>2
<1>10. CASE StopUncertain
  <2>1. CASE runState = "stopping"
    <3>1. <<runState, "stop_uncertain", "recovery_required">>
            \in RunTransitions
      BY <2>1 DEF RunTransitions
    <3> QED
      BY <1>10, <2>1, <3>1, SavedIsStep DEF StopUncertain
  <2>2. CASE runState # "stopping"
    BY <1>10, <2>2 DEF StopUncertain, Machine!machineVars
  <2> QED
    BY <2>1, <2>2
<1>11. CASE Accept
  <2>1. <<runState, "review_accept", "accepted">> \in RunTransitions
    BY <1>11 DEF Accept, RunTransitions
  <2> QED
    BY <1>11, <2>1, SavedIsStep DEF Accept
<1>12. ASSUME NEW class \in RejectionClasses, Reject(class)
       PROVE  Machine!Next
  <2>1. <<runState, "review_reject", "revision_required">>
          \in RunTransitions
    BY <1>12 DEF Reject, RunTransitions
  <2> QED
    BY <1>12, <2>1, SavedIsStep DEF Reject
<1>13. CASE BootDetect
  <2>1. CASE runState \in {"running", "stopping"} /\ SaveRun("recovery_required")
    <3>1. <<runState, "recovery_detected", "recovery_required">>
            \in RunTransitions
      BY <2>1 DEF RunTransitions
    <3> QED
      BY <1>13, <2>1, <3>1, SavedIsStep DEF BootDetect
  <2>2. CASE UNCHANGED <<runState, version>>
    BY <1>13, <2>2 DEF BootDetect, Machine!machineVars
  <2> QED
    BY <1>13, <2>1, <2>2 DEF BootDetect
<1> QED
  BY <1>1, <1>2, <1>3, <1>4, <1>5, <1>6, <1>7, <1>8, <1>9, <1>10, <1>11,
     <1>12, <1>13, RunSavers

(* Whoever drives it and whatever fails, the stored Run follows the        *)
(* domain's machine.                                                       *)
THEOREM RefinesRunMachine == Spec => ImplementsRunMachine
<1>1. Init => Machine!Init
  BY DEF Init, Machine!Init
<1>2. SafetyInvariant /\ [Next]_vars => [Machine!Next]_(Machine!machineVars)
  BY StepImplements
<1> QED
  BY <1>1, <1>2, Safety, PTL DEF Spec, ImplementsRunMachine, Machine!Spec
-----------------------------------------------------------------------------
(* A step of an Attempt that exists is a row of its table.                 *)
LEMMA StepFollowsTable ==
  ASSUME SafetyInvariant, [Next]_vars, NEW a \in Attempts, att[a] # "none",
         att'[a] # att[a]
  PROVE  <<att[a], att'[a]>> \in AttemptTransitions
<1> USE BoundsAssumption
    DEF SafetyInvariant, TypeOK, DataTypeOK, Attempts, AttemptTransitions
<1>1. CASE PrepareRun \/ HumanRetry \/ AutoRetry
  <2>1. att' = [att EXCEPT ![cur + 1] = "created"] /\ cur + 1 > cur
    BY <1>1 DEF PrepareRun, HumanRetry, AutoRetry, InsertAttempt
  <2>2. a = cur + 1
    BY <2>1
  <2> QED
    BY <2>1, <2>2 DEF FutureUntouched
<1>2. CASE StartReserve
  <2>1. att[cur] = "created" /\ att' = [att EXCEPT ![cur] = "starting"]
    BY <1>2 DEF StartReserve
  <2> QED
    BY <2>1
<1>3. CASE StartRecord
  BY <1>3 DEF StartRecord, CommandKnows
<1>4. CASE ExitCommit
  BY <1>4 DEF ExitCommit, ExitApplies, Submit
<1>5. CASE StopConfirm
  BY <1>5 DEF StopConfirm, Confirmed, StoppedAttempt
<1>6. CASE BootInterrupt
  <2>1. /\ att[cur] \in {"starting", "running"}
        /\ att' = [att EXCEPT ![cur] = "interrupted"]
    BY <1>6 DEF BootInterrupt
  <2> QED
    BY <2>1
<1> QED
  BY <1>1, <1>2, <1>3, <1>4, <1>5, <1>6, AttemptSavers

(* No stored Attempt skips a state or leaves a terminal one.               *)
THEOREM AttemptsObeyTable == Spec => AttemptsFollowTable
<1>1. SafetyInvariant /\ [Next]_vars =>
        [\A a \in Attempts : (att[a] # "none" /\ att'[a] # att[a]) =>
           <<att[a], att'[a]>> \in AttemptTransitions]_vars
  BY StepFollowsTable
<1> QED
  BY <1>1, Safety, PTL DEF Spec, AttemptsFollowTable
=============================================================================
