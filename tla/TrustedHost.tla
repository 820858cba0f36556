---------------------------- MODULE TrustedHost ----------------------------
(***************************************************************************)
(* internal/trustedhost: one native child with a process group of its own. *)
(* The launcher waits at a pipe until the record that names it is durable, *)
(* and only then becomes the target.  Whoever signals the group proves the *)
(* leader's birth first, and death is an absent group.  A process number   *)
(* is given out again as soon as nobody of the group is left.              *)
(***************************************************************************)
EXTENDS SupervisedLaunch

VARIABLES
  disk,    \* the attempt directory and the state in its manifest
  leader,  \* the direct child: the launcher, then the target
  kin,     \* other processes of its group
  ours,    \* this server is the parent and reaps it
  gate,    \* the pipe the launcher waits at
  reused,  \* the number of the group leads to other processes
  rec,     \* the process record in memory
  th,      \* where Start, Stop, waitAndReap, markTerminal and Finalize are
  term,    \* terminateAndProve and the caller who holds its lock
  hit      \* history: a signal reached other processes

hostVars == <<disk, leader, kin, ours, gate, reused, rec, th, term, hit>>

Manifests == {"prepared", "running", "uncertain", "terminal"}
NoRecord == [in |-> "none", state |-> "running", exact |-> FALSE,
             reaped |-> FALSE, saved |-> FALSE, bad |-> FALSE,
             done |-> FALSE, drained |-> FALSE]
Records == [in : {"none", "live", "recovered"},
            state : {"running", "uncertain", "terminal"}, exact : BOOLEAN,
            reaped : BOOLEAN, saved : BOOLEAN, bad : BOOLEAN,
            done : BOOLEAN, drained : BOOLEAN]
Quiet == [start |-> "idle", wait |-> "none", stop |-> "idle",
          mark |-> FALSE, remove |-> FALSE]
NoTerm == [by |-> "nobody", at |-> "idle"]

Disks == [is : Manifests \cup {"none", "bare"}, exact : BOOLEAN]
Threads == [start : {"idle", "write", "spawn", "observe", "release", "abort",
                     "terminate"},
            wait : {"none", "wait", "reaped", "prove"},
            stop : {"idle", "await"}, mark : BOOLEAN, remove : BOOLEAN]
Terminations == [by : {"nobody", "start", "stop", "stream"},
                 at : {"idle", "probed", "termed", "killed"}]

HostTypeOK ==
  /\ disk \in Disks /\ rec \in Records /\ th \in Threads
  /\ term \in Terminations
  /\ leader \in {"none", "gated", "executing", "zombie", "gone"}
  /\ kin \in BOOLEAN /\ ours \in BOOLEAN /\ reused \in BOOLEAN
  /\ hit \in BOOLEAN /\ gate \in {"open", "released", "closed"}

HostInit ==
  /\ disk = [is |-> "none", exact |-> FALSE] /\ leader = "none"
  /\ kin = FALSE /\ ours = FALSE /\ gate = "closed" /\ reused = FALSE
  /\ rec = NoRecord /\ th = Quiet /\ term = NoTerm /\ hit = FALSE
-----------------------------------------------------------------------------
(* The process, its number and the pipe.                                   *)
Present == leader \in {"gated", "executing", "zombie"}
Exited == IF ours THEN "zombie" ELSE "gone"

(* GroupAlive: any process of that group number, a zombie included.        *)
GroupAlive == Present \/ kin \/ reused

TargetExecutes == /\ leader = "gated" /\ gate = "released"
                  /\ leader' = "executing"
                  /\ UNCHANGED <<launchVars, disk, kin, ours, gate, reused,
                                 rec, th, term, hit>>

(* The gate is closed or its deadline passes, the executable has drifted,  *)
(* or the target is through.                                               *)
LeaderExits == /\ leader \in {"gated", "executing"} /\ leader' = Exited
               /\ UNCHANGED <<launchVars, disk, kin, ours, gate, reused, rec,
                              th, term, hit>>

Forks == /\ leader = "executing" /\ ~kin /\ kin' = TRUE
         /\ UNCHANGED <<launchVars, disk, leader, ours, gate, reused, rec,
                        th, term, hit>>

KinExits == /\ kin /\ kin' = FALSE
            /\ UNCHANGED <<launchVars, disk, leader, ours, gate, reused, rec,
                           th, term, hit>>

(* Other processes get the number, and leave.                              *)
NumberMoves == /\ leader = "gone" /\ ~kin /\ reused' = ~reused
               /\ UNCHANGED <<launchVars, disk, leader, kin, ours, gate, rec,
                              th, term, hit>>

(* SignalGroup: TERM may be ignored, KILL may not.                         *)
Terms == hit' = (hit \/ reused) /\ UNCHANGED <<leader, kin>>
Kills == /\ hit' = (hit \/ reused) /\ kin' = FALSE
         /\ leader' = IF leader \in {"gated", "executing"} THEN Exited
                      ELSE leader
-----------------------------------------------------------------------------
(* persist of record r: the manifest is replaced by a rename; an error     *)
(* leaves the old one, or the new one when only the last sync failed.      *)
Written(r) == [is |-> r.state, exact |-> r.exact]
Readable == disk.is \in Manifests
Persists(r) == Readable /\ disk' = Written(r) /\ UNCHANGED launchVars
PersistFails(r) ==
  /\ Fault /\ disk' \in IF Readable THEN {disk, Written(r)} ELSE {disk}
  /\ UNCHANGED <<target, server, claimed, losses>>

(* markUncertain never overrides a proof of death.                         *)
Uncertain(r) == IF r.state = "terminal" THEN r
                ELSE [r EXCEPT !.state = "uncertain"]
MarksUncertain(r) ==
  IF r.state = "terminal" THEN rec' = r /\ UNCHANGED <<launchVars, disk>>
  ELSE \/ rec' = Uncertain(r) /\ Persists(Uncertain(r))
       \/ rec' = [Uncertain(r) EXCEPT !.bad = TRUE]
          /\ PersistFails(Uncertain(r))
-----------------------------------------------------------------------------
(* Start: the directory is the claim to the token, and the prepared        *)
(* manifest comes last.                                                    *)
StartClaims ==
  /\ On("trusted_host") /\ th.start = "idle"
  /\ rec.in = "none" /\ disk.is = "none"
  /\ disk' = [is |-> "bare", exact |-> FALSE]
  /\ th' = [th EXCEPT !.start = "write"]
  /\ claimed' = FALSE
  /\ UNCHANGED <<target, server, faults, losses, leader, kin, ours, gate,
                 reused, rec, term, hit>>

StartWrites ==
  /\ On("trusted_host") /\ th.start = "write"
  /\ \/ /\ disk' = [disk EXCEPT !.is = "prepared"]
        /\ th' = [th EXCEPT !.start = "spawn"]
        /\ UNCHANGED launchVars
     \/ /\ Fault /\ disk' \in {disk, [disk EXCEPT !.is = "none"]}
        /\ th' = [th EXCEPT !.start = "idle"]
        /\ UNCHANGED <<target, server, claimed, losses>>
  /\ UNCHANGED <<leader, kin, ours, gate, reused, rec, term, hit>>

(* A drifted executable or Runtime closure, an ended request or a failed   *)
(* spawn: proven no child.                                                 *)
StartRefuses ==
  /\ On("trusted_host") /\ th.start = "spawn"
  /\ \/ disk' = [disk EXCEPT !.is = "none"] /\ UNCHANGED launchVars
     \/ /\ Fault /\ disk' \in {disk, [disk EXCEPT !.is = "bare"]}
        /\ UNCHANGED <<target, server, claimed, losses>>
  /\ th' = [th EXCEPT !.start = "idle"]
  /\ UNCHANGED <<leader, kin, ours, gate, reused, rec, term, hit>>

StartSpawns ==
  /\ On("trusted_host") /\ th.start = "spawn"
  /\ leader' = "gated" /\ gate' = "open" /\ ours' = TRUE
  /\ kin' = FALSE /\ reused' = FALSE
  /\ th' = [th EXCEPT !.start = "observe"]
  /\ UNCHANGED <<launchVars, disk, rec, term, hit>>

Identified == [NoRecord EXCEPT !.in = "live", !.exact = TRUE]

(* Mutant: the gate opens whether or not the record could be written.      *)
AfterPersistAnyway(ok) == "release"

(* Only a written record lets the gate open.                               *)
AfterPersist(ok) == IF ok THEN "release" ELSE "abort"

StartIdentifies ==
  /\ On("trusted_host") /\ th.start = "observe" /\ Present
  /\ \E ok \in BOOLEAN :
       /\ IF ok THEN Persists(Identified) ELSE PersistFails(Identified)
       /\ rec' = [Identified EXCEPT !.bad = ~ok]
       /\ th' = [th EXCEPT !.start = AfterPersist(ok)]
  /\ UNCHANGED <<leader, kin, ours, gate, reused, term, hit>>

(* containUnidentifiedChild: the child is not reaped yet, so its number    *)
(* cannot have moved.                                                      *)
Unidentified == [NoRecord EXCEPT !.in = "live", !.state = "uncertain"]
StartContains ==
  /\ On("trusted_host") /\ th.start = "observe" /\ Fault
  /\ disk' \in {disk, Written(Unidentified)} /\ rec' = Unidentified
  /\ gate' = "closed" /\ Kills
  /\ th' = [th EXCEPT !.start = "idle", !.wait = "wait"]
  /\ UNCHANGED <<target, server, claimed, losses, ours, reused, term>>

StartReleases ==
  /\ On("trusted_host") /\ th.start = "release"
  /\ \/ /\ gate' = "released" /\ th' = [th EXCEPT !.start = "idle",
                                                  !.wait = "wait"]
        /\ UNCHANGED launchVars
     \/ /\ Fault /\ gate' \in {"released", "closed"}
        /\ th' = [th EXCEPT !.start = "terminate", !.wait = "wait"]
        /\ UNCHANGED <<target, server, claimed, losses>>
  /\ UNCHANGED <<disk, leader, kin, ours, reused, rec, term, hit>>

StartAborts ==
  /\ On("trusted_host") /\ th.start = "abort"
  /\ gate' = "closed"
  /\ th' = [th EXCEPT !.start = "terminate", !.wait = "wait"]
  /\ UNCHANGED <<launchVars, disk, leader, kin, ours, reused, rec, term, hit>>
-----------------------------------------------------------------------------
(* Mutant: whoever has the number is taken for the leader.                 *)
OwnedByNumber == ~rec.reaped /\ GroupAlive

(* proveLeaderOwnershipForSignal: number and birth of the leader.          *)
Owned == ~rec.reaped /\ rec.exact /\ Present

(* terminateAndProve is entered by a failed Start, by Stop (a person's,    *)
(* the runtime limit's) and by the stream monitor after too much output.   *)
Wanted(who) ==
  CASE who = "start" -> th.start = "terminate"
    [] who = "stop" -> /\ rec.in # "none" /\ th.stop = "idle"
                       /\ rec.state # "terminal" /\ th.start = "idle"
    [] who = "stream" -> rec.in = "live" /\ rec.exact /\ ~rec.done
                         /\ th.start \in {"idle", "terminate"}

(* It returns: what its caller does with the outcome.  A recovered record  *)
(* has no waitAndReap, so its Stop records the death itself.               *)
Returns(by, proved) ==
  LET ends(r) == CASE by = "start" -> [r EXCEPT !.start = "idle"]
                   [] by = "stop" /\ proved -> [r EXCEPT !.stop = "await"]
                   [] OTHER -> r
  IN /\ term' = NoTerm
     /\ IF ~proved THEN MarksUncertain(rec) /\ th' = ends(th)
        ELSE IF by = "stop" /\ rec.in = "recovered"
                /\ rec.state # "terminal"
        THEN /\ rec' = [rec EXCEPT !.state = "terminal"]
             /\ th' = [ends(th) EXCEPT !.mark = TRUE]
             /\ UNCHANGED <<launchVars, disk>>
        ELSE th' = ends(th) /\ UNCHANGED <<launchVars, disk, rec>>

TermProbes(who) ==
  /\ On("trusted_host") /\ term = NoTerm /\ Wanted(who)
  /\ rec.state # "terminal" /\ GroupAlive
  /\ term' = [by |-> who, at |-> "probed"]
  /\ UNCHANGED <<launchVars, disk, leader, kin, ours, gate, reused, rec, th,
                 hit>>

(* Nothing to end: proven dead before, or no process of that number.       *)
TermFindsNothing(who) ==
  /\ On("trusted_host") /\ term = NoTerm /\ Wanted(who)
  /\ rec.state = "terminal" \/ ~GroupAlive
  /\ Returns(who, TRUE)
  /\ UNCHANGED <<leader, kin, ours, gate, reused, hit>>

TermSignals ==
  /\ On("trusted_host") /\ term.at = "probed"
  /\ IF Owned
     THEN /\ Terms /\ term' = [term EXCEPT !.at = "termed"]
          /\ UNCHANGED <<launchVars, disk, rec, th>>
     ELSE Returns(term.by, FALSE) /\ UNCHANGED <<leader, kin, hit>>
  /\ UNCHANGED <<ours, gate, reused>>

(* WaitGroupGone after TERM; then the birth is proven again before KILL.   *)
TermKills ==
  /\ On("trusted_host") /\ term.at = "termed"
  /\ IF Owned
     THEN /\ Kills /\ term' = [term EXCEPT !.at = "killed"]
          /\ UNCHANGED <<launchVars, disk, rec, th>>
     ELSE Returns(term.by, FALSE) /\ UNCHANGED <<leader, kin, hit>>
  /\ UNCHANGED <<ours, gate, reused>>

TermProves ==
  /\ On("trusted_host") /\ term.at \in {"termed", "killed"}
  /\ ~GroupAlive \/ rec.state = "terminal"
  /\ Returns(term.by, TRUE)
  /\ UNCHANGED <<leader, kin, ours, gate, reused, hit>>

TermGivesUp ==
  /\ On("trusted_host") /\ term.at = "killed"
  /\ Returns(term.by, FALSE)
  /\ UNCHANGED <<leader, kin, ours, gate, reused, hit>>

(* awaitTerminalPersistence, of a Stop or of a Reconcile that found the    *)
(* leader absent; it may give up at any time.                              *)
Stopped == /\ rec.state = "terminal" /\ rec.saved
           /\ rec.in = "recovered" \/ rec.reaped
StopAsks == /\ On("trusted_host") /\ rec.in # "none" /\ th.stop = "idle"
            /\ \/ rec.state = "terminal"
               \/ rec.in = "live" /\ rec.exact /\ ~Present /\ ~reused
            /\ th' = [th EXCEPT !.stop = "await"]
            /\ UNCHANGED <<launchVars, disk, leader, kin, ours, gate, reused,
                           rec, term, hit>>
StopAnswers == /\ On("trusted_host") /\ th.stop = "await"
               /\ th' = [th EXCEPT !.stop = "idle"]
               /\ \/ rec.done /\ Stopped /\ Claims
                  \/ UNCHANGED launchVars
               /\ UNCHANGED <<disk, leader, kin, ours, gate, reused, rec,
                              term, hit>>
-----------------------------------------------------------------------------
(* waitAndReap and waitUnidentified.                                       *)
WaitReaps ==
  /\ On("trusted_host") /\ th.wait = "wait" /\ leader = "zombie"
  /\ leader' = "gone" /\ th' = [th EXCEPT !.wait = "reaped"]
  /\ UNCHANGED <<launchVars, disk, kin, ours, gate, reused, rec, term, hit>>

WaitNotes ==
  /\ On("trusted_host") /\ th.wait = "reaped"
  /\ rec' = [rec EXCEPT !.reaped = TRUE]
  /\ th' = [th EXCEPT !.wait = "prove"]
  /\ UNCHANGED <<launchVars, disk, leader, kin, ours, gate, reused, term,
                 hit>>

(* Mutant: a reaped leader is taken for the death of the group.            *)
GroupGoneLeader == leader = "gone"

(* proveGroupGoneAfterReap: nobody is signalled any more.                  *)
GroupGone == ~GroupAlive

WaitProves ==
  /\ On("trusted_host") /\ th.wait = "prove" /\ GroupGone
  /\ rec' = [rec EXCEPT !.state = "terminal"]
  /\ th' = [th EXCEPT !.wait = "none", !.mark = TRUE]
  /\ UNCHANGED <<launchVars, disk, leader, kin, ours, gate, reused, term,
                 hit>>

WaitGivesUp ==
  /\ On("trusted_host") /\ th.wait = "prove" /\ GroupAlive
  /\ MarksUncertain([rec EXCEPT !.done = TRUE])
  /\ th' = [th EXCEPT !.wait = "none"]
  /\ UNCHANGED <<leader, kin, ours, gate, reused, term, hit>>

(* The rest of markTerminal: the proof is in memory before it is durable,  *)
(* and a failure to save it is not tried again.                            *)
MarkSaves ==
  /\ On("trusted_host") /\ th.mark
  /\ th' = [th EXCEPT !.mark = FALSE]
  /\ \/ Persists(rec) /\ rec' = [rec EXCEPT !.saved = TRUE, !.bad = FALSE,
                                            !.done = TRUE]
     \/ PersistFails(rec) /\ rec' = [rec EXCEPT !.bad = TRUE, !.done = TRUE]
  /\ UNCHANGED <<leader, kin, ours, gate, reused, term, hit>>
-----------------------------------------------------------------------------
(* reconcileRecord: a proof is believed, and a recovered record without    *)
(* leader and group is proven dead.                                        *)
ReconcileAnswers ==
  /\ On("trusted_host") /\ rec.in # "none" /\ rec.state = "terminal"
  /\ Claims
  /\ UNCHANGED hostVars

ReconcileProves ==
  /\ On("trusted_host") /\ rec.in = "recovered" /\ rec.exact
  /\ rec.state # "terminal" /\ ~GroupAlive
  /\ rec' = [rec EXCEPT !.state = "terminal"]
  /\ th' = [th EXCEPT !.mark = TRUE]
  /\ UNCHANGED <<launchVars, disk, leader, kin, ours, gate, reused, term,
                 hit>>

Drain == /\ On("trusted_host") /\ rec.in # "none" /\ rec.state = "terminal"
         /\ Readable
         /\ rec' = [rec EXCEPT !.drained = TRUE]
         /\ UNCHANGED <<launchVars, disk, leader, kin, ours, gate, reused,
                        th, term, hit>>

(* Finalize removes the directory, manifest and all, then the record; the  *)
(* Run's lock keeps it apart from Start.  Whoever still waits for the      *)
(* group to end finds its death proven and changes nothing.                *)
FinalizeRemoves ==
  /\ On("trusted_host") /\ th.start = "idle" /\ rec.in # "none" /\ ~th.remove
  /\ Stopped /\ ~rec.bad /\ rec.drained /\ disk.is = "terminal"
  /\ disk' = [disk EXCEPT !.is = "bare"]
  /\ th' = [th EXCEPT !.remove = TRUE]
  /\ UNCHANGED <<launchVars, leader, kin, ours, gate, reused, rec, term, hit>>

FinalizeEnds ==
  /\ On("trusted_host") /\ th.remove
  /\ \/ /\ disk' = [is |-> "none", exact |-> FALSE] /\ rec' = NoRecord
        /\ th' = [th EXCEPT !.remove = FALSE, !.stop = "idle"]
        /\ term' = NoTerm /\ UNCHANGED launchVars
     \/ /\ Fault /\ th' = [th EXCEPT !.remove = FALSE]
        /\ disk' \in {disk, [is |-> "none", exact |-> FALSE]}
        /\ UNCHANGED <<target, server, claimed, losses, rec, term>>
  /\ UNCHANGED <<leader, kin, ours, gate, reused, hit>>
-----------------------------------------------------------------------------
(* The server ends at any point: the pipe closes, init reaps the child.    *)
HostLost ==
  /\ Lost("trusted_host")
  /\ gate' = IF gate = "open" THEN "closed" ELSE gate
  /\ ours' = FALSE /\ leader' = IF leader = "zombie" THEN "gone" ELSE leader
  /\ rec' = NoRecord /\ th' = Quiet /\ term' = NoTerm
  /\ UNCHANGED <<disk, kin, reused, hit>>

FromManifest == LET dead == disk.is = "terminal"
                IN [in |-> "recovered", state |-> disk.is,
                    exact |-> disk.exact, reaped |-> dead, saved |-> dead,
                    bad |-> FALSE, done |-> dead, drained |-> FALSE]

(* Mutant: a prepared record is loaded like any other.                     *)
HostRecoversAll ==
  /\ target = "trusted_host" /\ server = "down" /\ disk.is # "bare"
  /\ server' = "up"
  /\ IF disk.is = "none" THEN UNCHANGED rec ELSE rec' = FromManifest
  /\ UNCHANGED <<target, claimed, faults, losses, disk, leader, kin, ours,
                 gate, reused, th, term, hit>>

(* loadRecords: a prepared record is removed, its launcher can only leave; *)
(* a directory without a manifest keeps the supervisor from starting.      *)
HostRecovers ==
  /\ target = "trusted_host" /\ server = "down" /\ disk.is # "bare"
  /\ server' = "up"
  /\ CASE disk.is = "none" -> UNCHANGED <<disk, leader, rec>>
       [] disk.is = "prepared" ->
            /\ disk' = [disk EXCEPT !.is = "none"]
            /\ leader' = IF leader = "gated" THEN "none" ELSE leader
            /\ UNCHANGED rec
       [] OTHER -> rec' = FromManifest /\ UNCHANGED <<disk, leader>>
  /\ UNCHANGED <<target, claimed, faults, losses, kin, ours, gate, reused,
                 th, term, hit>>

HostNext ==
  \/ TargetExecutes \/ LeaderExits \/ Forks \/ KinExits \/ NumberMoves
  \/ StartClaims \/ StartWrites \/ StartRefuses \/ StartSpawns
  \/ StartIdentifies \/ StartContains \/ StartReleases \/ StartAborts
  \/ \E who \in {"start", "stop", "stream"} :
       TermProbes(who) \/ TermFindsNothing(who)
  \/ TermSignals \/ TermKills \/ TermProves \/ TermGivesUp
  \/ StopAsks \/ StopAnswers
  \/ WaitReaps \/ WaitNotes \/ WaitProves \/ WaitGivesUp \/ MarkSaves
  \/ ReconcileAnswers \/ ReconcileProves \/ Drain
  \/ FinalizeRemoves \/ FinalizeEnds \/ HostLost \/ HostRecovers
-----------------------------------------------------------------------------
(* A process that runs the target, or that it left behind, is named by a   *)
(* durable record, so that a restarted server finds it.                    *)
HostChildIsRecorded ==
  (leader = "executing" \/ kin) =>
    disk.is \in {"running", "uncertain"} /\ disk.exact

(* Nobody of the group is alive once its death is on record or answered.   *)
HostDeathIsReal ==
  (claimed \/ disk.is = "terminal"
     \/ (rec.in # "none" /\ rec.state = "terminal")) =>
    leader \notin {"gated", "executing"} /\ ~kin

(* No signal ever reached a process that is not of the group.              *)
SignalsStayInGroup == ~hit
=============================================================================
