------------------------- MODULE SupervisorsProofs -------------------------
(***************************************************************************)
(* The safety of both supervisors and of the isolated import, for any      *)
(* number of failing calls, losses of the server, repositories and edits.  *)
(* The inductive invariant has one part per module: what the trusted host  *)
(* knows of its child, what each step of the Docker supervisor implies,    *)
(* and what the import may assume of the journal.                          *)
(***************************************************************************)
EXTENDS Supervisors, TLAPS
-----------------------------------------------------------------------------
(***************************************************************************)
(* The inductive invariant.                                                *)
(***************************************************************************)
AllDead == leader \notin {"gated", "executing"} /\ ~kin

(* A record in memory outlives no server, and its fields agree.            *)
RecordKept ==
  /\ server # "up" => rec = NoRecord /\ th = Quiet /\ term = NoTerm
  /\ rec.in = "none" =>
       /\ rec = NoRecord /\ term = NoTerm
       /\ th.wait = "none" /\ ~th.mark /\ ~th.remove
       /\ th.start \in {"idle", "write", "spawn", "observe"}
  /\ th.start \in {"write", "spawn", "observe"} => rec.in = "none"
  /\ th.start # "idle" => rec.in # "recovered"
  /\ rec.state = "terminal" => th.wait = "none"
  /\ rec.in = "recovered" => th.wait = "none"
  /\ rec.saved => rec.state = "terminal" /\ ~th.mark
  /\ th.mark => rec.state = "terminal"
  /\ th.remove => rec.saved /\ th.start = "idle"

(* What Start has done by each of its steps.                               *)
StartKnows ==
  /\ th.start = "write" => disk = [is |-> "bare", exact |-> FALSE]
  /\ th.start \in {"spawn", "observe"} =>
       disk = [is |-> "prepared", exact |-> FALSE]
  /\ th.start \in {"write", "spawn", "observe"} => ~claimed
  /\ th.start = "observe" => /\ leader \in {"gated", "zombie"} /\ ours /\ ~kin
                             /\ gate = "open"
  /\ th.start \in {"release", "abort"} =>
       rec.exact /\ rec.state = "running" /\ th.wait = "none"
  /\ th.start = "release" => disk = [is |-> "running", exact |-> TRUE]
  /\ term # NoTerm => th.start \in {"idle", "terminate"}

(* The record names whoever may run, and the number leads to nobody else   *)
(* while the leader can be told from others.                               *)
ChildIsKnown ==
  /\ leader = "gated" /\ gate = "released" =>
       disk.is \in {"running", "uncertain"} /\ disk.exact
  /\ rec.in # "none" /\ ~rec.exact => AllDead
  /\ disk.is \in {"running", "uncertain"} /\ ~disk.exact => AllDead
  /\ reused => leader = "gone" /\ ~kin
  /\ HostChildIsRecorded /\ HostDeathIsReal /\ SignalsStayInGroup

HostInv == RecordKept /\ StartKnows /\ ChildIsKnown

(* Where the import may have touched the worktrees the journal is there,   *)
(* and where it may vanish the worktrees are whole.                        *)
JournalKept ==
  /\ imp.at \in {"write", "writing", "verify", "commit", "undo", "undoing",
                 "undoVerify", "undoCommit"} => journal = "valid"
  /\ imp.at \in {"journal", "undoCommit"} => All({"before"} \cup Edited)
  /\ imp.at = "commit" => All({"after"} \cup Edited)
  /\ imp.at \in {"writing", "undoing"} => imp.n \in Repos
  /\ ImportIsAllOrNothing

(* The record of an Attempt and the steps of Start, wait and Stop.         *)
AttemptKept ==
  /\ server = "down" => att = NoAttempt /\ dk = Idle
  /\ server = "starting" => /\ att = NoAttempt /\ dk.start = "idle"
                            /\ dk.clean \in {"nobody", "recover"}
  /\ att.in = "none" => /\ dk.start \in {"idle", "root"}
                        /\ dk.clean \in {"nobody", "recover"}
  /\ att.in = "setup" => /\ dk.start \notin {"idle", "root"}
                         /\ dk.clean \in {"nobody", "setup"}
  /\ att.in = "live" => /\ dk.start = "idle"
                        /\ dk.clean \in {"nobody", "stop", "finalize"}
  /\ att.in = "recovered" => /\ dk.start = "idle" /\ dk.clean = "nobody"
                             /\ box = "none" /\ server = "up"
  /\ att.in # "live" => dk.stop = "idle" /\ dk.wait = "none"
  /\ dk.start \in {"create", "run", "exec", "reap"} => ~att.exited
  /\ dk.wait # "none" => ~att.exited
  /\ dk.stop = "clean" => att.exited
  /\ dk.wait \notin {"none", "wait"} => att.observed
  /\ dk.wait \in {"pause", "export", "prove", "collect", "collecting"} =>
       ~att.timedOut
  /\ dk.wait \in {"collect", "collecting"} => ~Alive

(* One import at a time, and only for its owner; a cleanup has removed the *)
(* container.                                                              *)
ImportIsOwned ==
  /\ dk.clean # "nobody" => box = "none" /\ imp.by = "cleanup"
  /\ dk.clean = "setup" => dk.start \in {"clean", "cleanUnsure"}
  /\ dk.clean \in {"stop", "finalize"} => att.exited
  /\ dk.clean = "recover" => server = "starting"
  /\ dk.wait = "collecting" => imp.by = "collect" /\ dk.clean = "nobody"
  /\ dk.clean = "nobody" /\ dk.wait # "collecting" => imp = Calm
  /\ imp.by = "nobody" => imp.at = "idle"
  /\ dk.start # "idle" => ~claimed
  /\ claimed => box = "none"

DockInv == AttemptKept /\ ImportIsOwned

(* The supervisor of the other target has never moved.                     *)
Inv == /\ TypeOK
       /\ target = "trusted_host" => HostInv /\ ImportInit /\ DockInit
       /\ target = "docker" => JournalKept /\ DockInv /\ HostInit
-----------------------------------------------------------------------------
(***************************************************************************)
(* What the shared operators of the trusted host do.                       *)
(***************************************************************************)
(* A manifest is replaced or left alone, and only a failure is counted.    *)
LEMMA PersistFrame ==
  ASSUME LaunchTypeOK, HostTypeOK, NEW r \in Records,
         Persists(r) \/ PersistFails(r)
  PROVE  /\ LaunchTypeOK' /\ disk' \in Disks
         /\ UNCHANGED <<target, server, claimed>>
         /\ disk' \in {disk, [is |-> r.state, exact |-> r.exact]}
         /\ disk' # disk => disk.is \in Manifests
<1>1. [is |-> r.state, exact |-> r.exact] \in Disks
  BY DEF Records, Disks, Manifests
<1>2. LaunchTypeOK' /\ UNCHANGED <<target, server, claimed>>
  BY BoundsAssumption
     DEF LaunchTypeOK, Persists, PersistFails, Fault, launchVars
<1>3. disk' \in {disk, [is |-> r.state, exact |-> r.exact]}
  BY DEF Persists, PersistFails, Written
<1>4. disk' # disk => disk.is \in Manifests
  BY DEF Persists, PersistFails, Readable
<1> QED
  BY <1>1, <1>2, <1>3, <1>4 DEF HostTypeOK

(* markUncertain leaves a proof of death alone, in memory and on disk.     *)
LEMMA UncertainFrame ==
  ASSUME LaunchTypeOK, HostTypeOK, NEW r \in Records, MarksUncertain(r)
  PROVE  /\ LaunchTypeOK' /\ disk' \in Disks /\ rec' \in Records
         /\ UNCHANGED <<target, server, claimed>>
         /\ r.state = "terminal" => rec' = r /\ disk' = disk
         /\ r.state # "terminal" => rec'.state = "uncertain"
         /\ rec'.in = r.in /\ rec'.exact = r.exact /\ rec'.saved = r.saved
         /\ disk' \in {disk, [is |-> "uncertain", exact |-> r.exact]}
<1>1. CASE r.state = "terminal"
  BY <1>1 DEF MarksUncertain, LaunchTypeOK, HostTypeOK, launchVars
<1>2. CASE r.state # "terminal"
  <2> DEFINE u == [r EXCEPT !.state = "uncertain"]
  <2>1. u \in Records /\ u.state = "uncertain" /\ u.in = r.in
        /\ u.exact = r.exact /\ u.saved = r.saved
    BY DEF Records
  <2>2. Uncertain(r) = u
    BY <1>2 DEF Uncertain
  <2>3. Persists(u) \/ PersistFails(u)
    BY <1>2, <2>2 DEF MarksUncertain
  <2>4. rec' \in {u, [u EXCEPT !.bad = TRUE]}
    BY <1>2, <2>2 DEF MarksUncertain
  <2>5. /\ rec' \in Records /\ rec'.state = "uncertain" /\ rec'.in = r.in
        /\ rec'.exact = r.exact /\ rec'.saved = r.saved
    BY <2>1, <2>4 DEF Records
  <2> HIDE DEF u
  <2> QED
    BY <1>2, <2>1, <2>3, <2>5, PersistFrame
<1> QED
  BY <1>1, <1>2

(* terminateAndProve returns: only a Stop of a recovered record that found *)
(* the group gone makes a record terminal.                                 *)
LEMMA ReturnFrame ==
  ASSUME LaunchTypeOK, HostTypeOK, NEW by, NEW proved \in BOOLEAN,
         Returns(by, proved)
  PROVE  /\ LaunchTypeOK' /\ disk' \in Disks /\ rec' \in Records
         /\ th' \in Threads /\ term' = NoTerm
         /\ UNCHANGED <<target, server, claimed>>
         /\ rec'.in = rec.in /\ rec'.exact = rec.exact
         /\ rec'.saved = rec.saved
         /\ rec.state = "terminal" => rec' = rec /\ disk' = disk
         /\ disk' \in {disk, [is |-> "uncertain", exact |-> rec.exact]}
         /\ rec'.state = "terminal" => \/ rec.state = "terminal"
                                       \/ proved /\ rec.in = "recovered"
         /\ th'.wait = th.wait /\ th'.remove = th.remove
         /\ th'.start = IF by = "start" THEN "idle" ELSE th.start
         /\ th'.mark = th.mark \/ (th'.mark /\ rec.state # "terminal"
                                   /\ rec'.state = "terminal")
<1> DEFINE ended == CASE by = "start" -> [th EXCEPT !.start = "idle"]
                      [] by = "stop" /\ proved -> [th EXCEPT !.stop = "await"]
                      [] OTHER -> th
           dead == [rec EXCEPT !.state = "terminal"]
           marked == [ended EXCEPT !.mark = TRUE]
<1>1. /\ ended \in Threads
      /\ ended.wait = th.wait /\ ended.remove = th.remove
      /\ ended.mark = th.mark
      /\ ended.start = IF by = "start" THEN "idle" ELSE th.start
  BY DEF HostTypeOK, Threads
<1>2. /\ marked \in Threads /\ marked.mark /\ marked.wait = ended.wait
      /\ marked.remove = ended.remove /\ marked.start = ended.start
  <2> HIDE DEF ended
  <2> QED
    BY <1>1 DEF Threads
<1>3. /\ dead \in Records /\ dead.state = "terminal" /\ dead.in = rec.in
      /\ dead.exact = rec.exact /\ dead.saved = rec.saved
  BY DEF HostTypeOK, Records
<1>4. term' = NoTerm
  BY DEF Returns
<1>5. CASE ~proved
  <2>1. MarksUncertain(rec) /\ th' = ended
    BY <1>5 DEF Returns
  <2> HIDE DEF ended
  <2> QED
    BY <1>1, <1>4, <2>1, UncertainFrame DEF HostTypeOK
<1>6. CASE proved
  <2>1. \/ /\ rec' = dead /\ th' = marked /\ rec.in = "recovered"
           /\ rec.state # "terminal"
           /\ UNCHANGED <<launchVars, disk>>
        \/ th' = ended /\ UNCHANGED <<launchVars, disk, rec>>
    BY <1>6 DEF Returns
  <2> HIDE DEF ended, marked, dead
  <2> QED
    BY <1>1, <1>2, <1>3, <1>4, <1>6, <2>1
       DEF HostTypeOK, LaunchTypeOK, launchVars
<1> QED
  BY <1>5, <1>6

(* Nobody terminates.                                                     *)
LEMMA NoTermTyped == NoTerm \in Terminations
  BY DEF NoTerm, Terminations

(* Every step of the trusted host keeps the types.                         *)
LEMMA HostTypesKept ==
  ASSUME LaunchTypeOK, HostTypeOK, HostNext
  PROVE  LaunchTypeOK' /\ HostTypeOK'
<1> USE DEF LaunchTypeOK, HostTypeOK, launchVars
<1>1. CASE TargetExecutes
  BY <1>1 DEF TargetExecutes
<1>2. CASE LeaderExits
  BY <1>2 DEF LeaderExits, Exited
<1>3. CASE Forks
  BY <1>3 DEF Forks
<1>4. CASE KinExits
  BY <1>4 DEF KinExits
<1>5. CASE NumberMoves
  BY <1>5 DEF NumberMoves
<1>6. CASE StartClaims
  BY <1>6 DEF StartClaims, On, Disks, Threads
<1>7. CASE StartWrites
  BY <1>7, BoundsAssumption DEF StartWrites, On, Fault, Disks, Manifests,
     Threads
<1>8. CASE StartRefuses
  BY <1>8, BoundsAssumption DEF StartRefuses, On, Fault, Disks, Threads
<1>9. CASE StartSpawns
  BY <1>9 DEF StartSpawns, On, Threads
<1>10. CASE StartIdentifies
  <2> PICK ok \in BOOLEAN :
         /\ IF ok THEN Persists(Identified) ELSE PersistFails(Identified)
         /\ rec' = [Identified EXCEPT !.bad = ~ok]
         /\ th' = [th EXCEPT !.start = AfterPersist(ok)]
    BY <1>10 DEF StartIdentifies
  <2>1. Identified \in Records /\ rec' \in Records
    BY DEF Identified, NoRecord, Records
  <2>2. Persists(Identified) \/ PersistFails(Identified)
    OBVIOUS
  <2>3. LaunchTypeOK' /\ disk' \in Disks
    BY <2>1, <2>2, PersistFrame
  <2>4. th' \in Threads
    BY DEF AfterPersist, Threads
  <2> QED
    BY <1>10, <2>1, <2>3, <2>4 DEF StartIdentifies
<1>11. CASE StartContains
  <2>1. Unidentified \in Records /\ Written(Unidentified) \in Disks
    BY DEF Unidentified, NoRecord, Records, Written, Disks, Manifests
  <2>2. LaunchTypeOK'
    BY <1>11, BoundsAssumption DEF StartContains, Fault
  <2>3. rec' \in Records /\ disk' \in Disks
    BY <1>11, <2>1 DEF StartContains
  <2>4. th' \in Threads
    BY <1>11 DEF StartContains, Threads
  <2>5. /\ leader' \in {"none", "gated", "executing", "zombie", "gone"}
        /\ kin' \in BOOLEAN /\ hit' \in BOOLEAN
    BY <1>11 DEF StartContains, Kills, Exited
  <2>6. UNCHANGED <<ours, reused, term>> /\ gate' = "closed"
    BY <1>11 DEF StartContains
  <2> QED
    BY <2>2, <2>3, <2>4, <2>5, <2>6
<1>12. CASE StartReleases
  <2>1. LaunchTypeOK'
    BY <1>12, BoundsAssumption DEF StartReleases, Fault
  <2>2. th' \in Threads
    BY <1>12 DEF StartReleases, Threads
  <2>3. /\ UNCHANGED <<disk, leader, kin, ours, reused, rec, term, hit>>
        /\ gate' \in {"released", "closed"}
    BY <1>12 DEF StartReleases
  <2> QED
    BY <2>1, <2>2, <2>3
<1>13. CASE StartAborts
  BY <1>13 DEF StartAborts, On, Threads
<1>14. ASSUME NEW who \in {"start", "stop", "stream"}, TermProbes(who)
      PROVE  LaunchTypeOK' /\ HostTypeOK'
  BY <1>14 DEF TermProbes, Terminations
<1>15. ASSUME NEW who \in {"start", "stop", "stream"}, TermFindsNothing(who)
      PROVE  LaunchTypeOK' /\ HostTypeOK'
  BY <1>15, ReturnFrame, NoTermTyped DEF TermFindsNothing
<1>16. CASE TermSignals
  <2>1. CASE Owned
    <3>1. UNCHANGED <<launchVars, disk, rec, th, ours, gate, reused>>
      BY <1>16, <2>1 DEF TermSignals
    <3>2. term' \in Terminations
      BY <1>16, <2>1 DEF TermSignals, Terminations
    <3>3. /\ leader' \in {"none", "gated", "executing", "zombie", "gone"}
          /\ kin' \in BOOLEAN /\ hit' \in BOOLEAN
      BY <1>16, <2>1 DEF TermSignals, Terms
    <3> QED
      BY <3>1, <3>2, <3>3
  <2>2. CASE ~Owned
    BY <1>16, <2>2, ReturnFrame, NoTermTyped DEF TermSignals
  <2> QED
    BY <2>1, <2>2
<1>17. CASE TermKills
  <2>1. CASE Owned
    <3>1. UNCHANGED <<launchVars, disk, rec, th, ours, gate, reused>>
      BY <1>17, <2>1 DEF TermKills
    <3>2. term' \in Terminations
      BY <1>17, <2>1 DEF TermKills, Terminations
    <3>3. /\ leader' \in {"none", "gated", "executing", "zombie", "gone"}
          /\ kin' \in BOOLEAN /\ hit' \in BOOLEAN
      BY <1>17, <2>1 DEF TermKills, Kills, Exited
    <3> QED
      BY <3>1, <3>2, <3>3
  <2>2. CASE ~Owned
    BY <1>17, <2>2, ReturnFrame, NoTermTyped DEF TermKills
  <2> QED
    BY <2>1, <2>2
<1>18. CASE TermProves
  BY <1>18, ReturnFrame, NoTermTyped DEF TermProves
<1>19. CASE TermGivesUp
  BY <1>19, ReturnFrame, NoTermTyped DEF TermGivesUp
<1>20. CASE StopAsks
  BY <1>20 DEF StopAsks, Threads
<1>21. CASE StopAnswers
  <2>1. th' \in Threads
    BY <1>21 DEF StopAnswers, Threads
  <2>2. LaunchTypeOK'
    BY <1>21 DEF StopAnswers, Claims
  <2> QED
    BY <1>21, <2>1, <2>2 DEF StopAnswers
<1>22. CASE WaitReaps
  <2>1. th' \in Threads
    BY <1>22 DEF WaitReaps, Threads
  <2> QED
    BY <1>22, <2>1 DEF WaitReaps
<1>23. CASE WaitNotes
  <2>1. th' \in Threads
    BY <1>23 DEF WaitNotes, Threads
  <2>2. rec' \in Records
    BY <1>23 DEF WaitNotes, Records
  <2> QED
    BY <1>23, <2>1, <2>2 DEF WaitNotes
<1>24. CASE WaitProves
  <2>1. th' \in Threads
    BY <1>24 DEF WaitProves, Threads
  <2>2. rec' \in Records
    BY <1>24 DEF WaitProves, Records
  <2> QED
    BY <1>24, <2>1, <2>2 DEF WaitProves
<1>25. CASE WaitGivesUp
  <2>1. [rec EXCEPT !.done = TRUE] \in Records
    BY DEF Records
  <2>2. LaunchTypeOK' /\ disk' \in Disks /\ rec' \in Records
    BY <1>25, <2>1, UncertainFrame DEF WaitGivesUp
  <2>3. th' \in Threads
    BY <1>25 DEF WaitGivesUp, Threads
  <2> QED
    BY <1>25, <2>2, <2>3 DEF WaitGivesUp
<1>26. CASE MarkSaves
  <2>1. LaunchTypeOK' /\ disk' \in Disks
    BY <1>26, PersistFrame DEF MarkSaves
  <2>2. rec' \in Records
    BY <1>26 DEF MarkSaves, Records
  <2>3. th' \in Threads
    BY <1>26 DEF MarkSaves, Threads
  <2> QED
    BY <1>26, <2>1, <2>2, <2>3 DEF MarkSaves
<1>27. CASE ReconcileAnswers
  BY <1>27 DEF ReconcileAnswers, Claims, hostVars
<1>28. CASE ReconcileProves
  <2>1. th' \in Threads
    BY <1>28 DEF ReconcileProves, Threads
  <2>2. rec' \in Records
    BY <1>28 DEF ReconcileProves, Records
  <2> QED
    BY <1>28, <2>1, <2>2 DEF ReconcileProves
<1>29. CASE Drain
  BY <1>29 DEF Drain, Records
<1>30. CASE FinalizeRemoves
  <2>1. th' \in Threads
    BY <1>30 DEF FinalizeRemoves, Threads
  <2>2. disk' \in Disks
    BY <1>30 DEF FinalizeRemoves, Disks
  <2> QED
    BY <1>30, <2>1, <2>2 DEF FinalizeRemoves
<1>31. CASE FinalizeEnds
  <2>1. NoRecord \in Records /\ [is |-> "none", exact |-> FALSE] \in Disks
    BY DEF NoRecord, Records, Disks
  <2>2. th' \in Threads
    BY <1>31 DEF FinalizeEnds, Threads
  <2>3. LaunchTypeOK'
    BY <1>31, BoundsAssumption DEF FinalizeEnds, Fault
  <2> QED
    BY <1>31, <2>1, <2>2, <2>3, NoTermTyped DEF FinalizeEnds
<1>32. CASE HostLost
  <2>1. NoRecord \in Records /\ Quiet \in Threads
    BY DEF NoRecord, Records, Quiet, Threads
  <2>2. LaunchTypeOK'
    BY <1>32, BoundsAssumption DEF HostLost, Lost
  <2> QED
    BY <1>32, <2>1, <2>2, NoTermTyped DEF HostLost
<1>33. CASE HostRecovers
  <2>1. disk.is \notin {"bare", "none", "prepared"} => FromManifest \in Records
    BY DEF FromManifest, Records, Disks, Manifests
  <2>2. rec' \in Records
    BY <1>33, <2>1 DEF HostRecovers
  <2>3. disk' \in Disks
    BY <1>33 DEF HostRecovers, Disks
  <2>4. leader' \in {"none", "gated", "executing", "zombie", "gone"}
    BY <1>33 DEF HostRecovers
  <2> QED
    BY <1>33, <2>2, <2>3, <2>4 DEF HostRecovers
<1> QED
  BY <1>1, <1>2, <1>3, <1>4, <1>5, <1>6, <1>7, <1>8, <1>9, <1>10, <1>11,
     <1>12, <1>13, <1>14, <1>15, <1>16, <1>17, <1>18, <1>19, <1>20, <1>21,
     <1>22, <1>23, <1>24, <1>25, <1>26, <1>27, <1>28, <1>29, <1>30, <1>31,
     <1>32, <1>33 DEF HostNext

(* A record in memory is kept as RecordKept says.                          *)
LEMMA HostRecordKept ==
  ASSUME LaunchTypeOK, HostTypeOK, RecordKept, StartKnows, HostNext
  PROVE  RecordKept'
<1> USE DEF RecordKept, HostTypeOK, launchVars
<1>1. CASE TargetExecutes
  BY <1>1 DEF TargetExecutes
<1>2. CASE LeaderExits
  BY <1>2 DEF LeaderExits
<1>3. CASE Forks
  BY <1>3 DEF Forks
<1>4. CASE KinExits
  BY <1>4 DEF KinExits
<1>5. CASE NumberMoves
  BY <1>5 DEF NumberMoves
<1>6. CASE StartClaims
  BY <1>6 DEF StartClaims, On, Threads, Quiet
<1>7. CASE StartWrites
  BY <1>7 DEF StartWrites, On, Fault, Threads, Quiet
<1>8. CASE StartRefuses
  BY <1>8 DEF StartRefuses, On, Fault, Threads, Quiet
<1>9. CASE StartSpawns
  BY <1>9 DEF StartSpawns, On, Threads
<1>10. CASE StartIdentifies
  <2> PICK ok \in BOOLEAN :
         /\ IF ok THEN Persists(Identified) ELSE PersistFails(Identified)
         /\ rec' = [Identified EXCEPT !.bad = ~ok]
         /\ th' = [th EXCEPT !.start = AfterPersist(ok)]
    BY <1>10 DEF StartIdentifies
  <2>1. /\ rec'.in = "live" /\ rec'.state = "running" /\ ~rec'.saved
        /\ UNCHANGED <<server, term>> /\ server = "up"
    BY <1>10 DEF StartIdentifies, On, Identified, NoRecord, Persists,
       PersistFails
  <2>2. /\ th'.start \in {"release", "abort"} /\ th'.wait = th.wait
        /\ th'.mark = th.mark /\ th'.remove = th.remove
    BY DEF AfterPersist, Threads
  <2>3. th.start = "observe"
    BY <1>10 DEF StartIdentifies
  <2> QED
    BY <2>1, <2>2, <2>3
<1>11. CASE StartContains
  <2>1. /\ rec'.in = "live" /\ rec'.state = "uncertain" /\ ~rec'.saved
        /\ UNCHANGED <<server, term>> /\ server = "up"
    BY <1>11 DEF StartContains, On, Unidentified, NoRecord
  <2>2. /\ th'.start = "idle" /\ th'.wait = "wait"
        /\ th'.mark = th.mark /\ th'.remove = th.remove
    BY <1>11 DEF StartContains, Threads
  <2>3. th.start = "observe"
    BY <1>11 DEF StartContains
  <2> QED
    BY <2>1, <2>2, <2>3
<1>12. CASE StartReleases
  <2>1. /\ server = "up" /\ UNCHANGED <<server, rec, term>>
        /\ th.start \in {"release", "abort"}
    BY <1>12 DEF StartReleases, On
  <2>2. /\ th'.start \in {"idle", "terminate"} /\ th'.wait = "wait"
        /\ th'.mark = th.mark /\ th'.remove = th.remove
    BY <1>12 DEF StartReleases, Threads
  <2>3. rec.state = "running" /\ rec.in # "recovered"
    BY <2>1 DEF StartKnows
  <2> QED
    BY <2>1, <2>2, <2>3 DEF Records
<1>13. CASE StartAborts
  <2>1. /\ server = "up" /\ UNCHANGED <<server, rec, term>>
        /\ th.start \in {"release", "abort"}
    BY <1>13 DEF StartAborts, On
  <2>2. /\ th'.start \in {"terminate"} /\ th'.wait = "wait"
        /\ th'.mark = th.mark /\ th'.remove = th.remove
    BY <1>13 DEF StartAborts, Threads
  <2>3. rec.state = "running" /\ rec.in # "recovered"
    BY <2>1 DEF StartKnows
  <2> QED
    BY <2>1, <2>2, <2>3 DEF Records
<1>14. ASSUME NEW who \in {"start", "stop", "stream"}, TermProbes(who)
      PROVE  RecordKept'
  BY <1>14 DEF TermProbes, On, Wanted
<1>15. ASSUME NEW who \in {"start", "stop", "stream"}, TermFindsNothing(who)
      PROVE  RecordKept'
  <2>1. rec.in # "none" /\ server = "up"
    BY <1>15 DEF TermFindsNothing, On, NoTerm, Wanted
  <2> QED
    BY <1>15, <2>1, ReturnFrame DEF TermFindsNothing
<1>16. CASE TermSignals
  <2>1. rec.in # "none" /\ server = "up"
    BY <1>16 DEF TermSignals, On, NoTerm
  <2>2. CASE Owned
    BY <1>16, <2>1, <2>2 DEF TermSignals
  <2>3. CASE ~Owned
    BY <1>16, <2>1, <2>3, ReturnFrame DEF TermSignals
  <2> QED
    BY <2>2, <2>3
<1>17. CASE TermKills
  <2>1. rec.in # "none" /\ server = "up"
    BY <1>17 DEF TermKills, On, NoTerm
  <2>2. CASE Owned
    BY <1>17, <2>1, <2>2 DEF TermKills
  <2>3. CASE ~Owned
    BY <1>17, <2>1, <2>3, ReturnFrame DEF TermKills
  <2> QED
    BY <2>2, <2>3
<1>18. CASE TermProves
  <2>1. rec.in # "none" /\ server = "up"
    BY <1>18 DEF TermProves, On, NoTerm
  <2> QED
    BY <1>18, <2>1, ReturnFrame DEF TermProves
<1>19. CASE TermGivesUp
  <2>1. rec.in # "none" /\ server = "up"
    BY <1>19 DEF TermGivesUp, On, NoTerm
  <2> QED
    BY <1>19, <2>1, ReturnFrame DEF TermGivesUp
<1>20. CASE StopAsks
  BY <1>20 DEF StopAsks, On, Threads
<1>21. CASE StopAnswers
  BY <1>21 DEF StopAnswers, On, Threads, Claims
<1>22. CASE WaitReaps
  BY <1>22 DEF WaitReaps, On, Threads
<1>23. CASE WaitNotes
  BY <1>23 DEF WaitNotes, On, Threads, Records
<1>24. CASE WaitProves
  BY <1>24 DEF WaitProves, On, Threads, Records
<1>25. CASE WaitGivesUp
  <2> DEFINE r == [rec EXCEPT !.done = TRUE]
  <2>1. /\ r \in Records /\ r.state = rec.state /\ r.in = rec.in
        /\ r.saved = rec.saved
    BY DEF Records
  <2>2. /\ th'.start = th.start /\ th'.wait = "none" /\ th'.mark = th.mark
        /\ th'.remove = th.remove
    BY <1>25 DEF WaitGivesUp, Threads
  <2>3. MarksUncertain(r) /\ UNCHANGED term /\ server = "up"
        /\ th.wait = "prove"
    BY <1>25 DEF WaitGivesUp, On
  <2> HIDE DEF r
  <2> QED
    BY <2>1, <2>2, <2>3, UncertainFrame
<1>26. CASE MarkSaves
  <2>1. /\ rec'.in = rec.in /\ rec'.state = rec.state
        /\ rec'.saved => rec.saved \/ rec.state = "terminal"
        /\ rec.saved => rec'.saved
    BY <1>26 DEF MarkSaves, Records
  <2>2. /\ th'.start = th.start /\ th'.wait = th.wait /\ ~th'.mark
        /\ th'.remove = th.remove
    BY <1>26 DEF MarkSaves, Threads
  <2>3. server = "up" /\ UNCHANGED <<server, term>> /\ th.mark
    BY <1>26 DEF MarkSaves, On, Persists, PersistFails
  <2> QED
    BY <2>1, <2>2, <2>3
<1>27. CASE ReconcileAnswers
  BY <1>27 DEF ReconcileAnswers, On, Claims, hostVars
<1>28. CASE ReconcileProves
  BY <1>28 DEF ReconcileProves, On, Threads, Records
<1>29. CASE Drain
  BY <1>29 DEF Drain, On, Records
<1>30. CASE FinalizeRemoves
  BY <1>30 DEF FinalizeRemoves, On, Threads, Stopped
<1>31. CASE FinalizeEnds
  <2>1. /\ th.start = "idle" /\ th.remove /\ rec.saved /\ server = "up"
        /\ UNCHANGED server
    BY <1>31 DEF FinalizeEnds, On
  <2>2. /\ th'.start = "idle" /\ th'.wait = th.wait /\ th'.mark = th.mark
        /\ ~th'.remove
    BY <1>31, <2>1 DEF FinalizeEnds, Threads
  <2>3. \/ rec' = NoRecord /\ term' = NoTerm
        \/ UNCHANGED <<rec, term>>
    BY <1>31 DEF FinalizeEnds
  <2>4. NoRecord.in = "none" /\ NoRecord.state = "running" /\ ~NoRecord.saved
    BY DEF NoRecord
  <2> QED
    BY <2>1, <2>2, <2>3, <2>4
<1>32. CASE HostLost
  <2>1. server' = "down" /\ rec' = NoRecord /\ th' = Quiet /\ term' = NoTerm
    BY <1>32 DEF HostLost, Lost
  <2>2. /\ NoRecord.in = "none" /\ NoRecord.state = "running"
        /\ ~NoRecord.saved /\ Quiet.start = "idle" /\ Quiet.wait = "none"
        /\ ~Quiet.mark /\ ~Quiet.remove
    BY DEF NoRecord, Quiet
  <2> QED
    BY <2>1, <2>2
<1>33. CASE HostRecovers
  <2>1. /\ rec = NoRecord /\ th = Quiet /\ term = NoTerm /\ server' = "up"
        /\ UNCHANGED <<th, term>> /\ rec' \in {rec, FromManifest}
    BY <1>33 DEF HostRecovers
  <2>2. /\ NoRecord.in = "none" /\ NoRecord.state = "running"
        /\ ~NoRecord.saved /\ Quiet.start = "idle" /\ Quiet.wait = "none"
        /\ ~Quiet.mark /\ ~Quiet.remove
    BY DEF NoRecord, Quiet
  <2>3. /\ FromManifest.in = "recovered"
        /\ FromManifest.saved => FromManifest.state = "terminal"
    BY DEF FromManifest
  <2> QED
    BY <2>1, <2>2, <2>3
<1> QED
  BY <1>1, <1>2, <1>3, <1>4, <1>5, <1>6, <1>7, <1>8, <1>9, <1>10, <1>11,
     <1>12, <1>13, <1>14, <1>15, <1>16, <1>17, <1>18, <1>19, <1>20, <1>21,
     <1>22, <1>23, <1>24, <1>25, <1>26, <1>27, <1>28, <1>29, <1>30, <1>31,
     <1>32, <1>33 DEF HostNext

(* Nobody disturbs what a step of Start relies on.                         *)
LEMMA HostStartKnows ==
  ASSUME LaunchTypeOK, HostTypeOK, RecordKept, StartKnows, HostNext
  PROVE  StartKnows'
<1> USE DEF RecordKept, StartKnows, HostTypeOK, launchVars
<1>1. CASE TargetExecutes
  BY <1>1 DEF TargetExecutes
<1>2. CASE LeaderExits
  BY <1>2 DEF LeaderExits, Exited
<1>3. CASE Forks
  BY <1>3 DEF Forks
<1>4. CASE KinExits
  BY <1>4 DEF KinExits
<1>5. CASE NumberMoves
  BY <1>5 DEF NumberMoves
<1>6. CASE StartClaims
  BY <1>6 DEF StartClaims, On, Threads
<1>7. CASE StartWrites
  BY <1>7 DEF StartWrites, On, Fault, Threads, Disks
<1>8. CASE StartRefuses
  BY <1>8 DEF StartRefuses, On, Fault, Threads
<1>9. CASE StartSpawns
  BY <1>9 DEF StartSpawns, On, Threads
<1>10. CASE StartIdentifies
  <2> PICK ok \in BOOLEAN :
         /\ IF ok THEN Persists(Identified) ELSE PersistFails(Identified)
         /\ rec' = [Identified EXCEPT !.bad = ~ok]
         /\ th' = [th EXCEPT !.start = AfterPersist(ok)]
    BY <1>10 DEF StartIdentifies
  <2>1. /\ rec'.exact /\ rec'.state = "running" /\ th.wait = "none"
        /\ term' = NoTerm
    BY <1>10 DEF StartIdentifies, Identified, NoRecord
  <2>2. /\ th'.start = IF ok THEN "release" ELSE "abort"
        /\ th'.wait = th.wait
    BY DEF AfterPersist, Threads
  <2>3. ok => disk' = [is |-> "running", exact |-> TRUE]
    BY DEF Persists, Written, Identified, NoRecord
  <2> QED
    BY <2>1, <2>2, <2>3
<1>11. CASE StartContains
  BY <1>11 DEF StartContains, On, Threads
<1>12. CASE StartReleases
  BY <1>12 DEF StartReleases, On, Threads
<1>13. CASE StartAborts
  BY <1>13 DEF StartAborts, On, Threads
<1>14. ASSUME NEW who \in {"start", "stop", "stream"}, TermProbes(who)
      PROVE  StartKnows'
  BY <1>14 DEF TermProbes, On, Wanted
<1>15. ASSUME NEW who \in {"start", "stop", "stream"}, TermFindsNothing(who)
      PROVE  StartKnows'
  BY <1>15, ReturnFrame DEF TermFindsNothing, On, Wanted, NoRecord
<1>16. CASE TermSignals
  <2>1. th.start \in {"idle", "terminate"}
    BY <1>16 DEF TermSignals, NoTerm
  <2>2. CASE Owned
    BY <1>16, <2>1, <2>2 DEF TermSignals
  <2>3. CASE ~Owned
    BY <1>16, <2>1, <2>3, ReturnFrame DEF TermSignals
  <2> QED
    BY <2>2, <2>3
<1>17. CASE TermKills
  <2>1. th.start \in {"idle", "terminate"}
    BY <1>17 DEF TermKills, NoTerm
  <2>2. CASE Owned
    BY <1>17, <2>1, <2>2 DEF TermKills
  <2>3. CASE ~Owned
    BY <1>17, <2>1, <2>3, ReturnFrame DEF TermKills
  <2> QED
    BY <2>2, <2>3
<1>18. CASE TermProves
  <2>1. th.start \in {"idle", "terminate"}
    BY <1>18 DEF TermProves, NoTerm
  <2> QED
    BY <1>18, <2>1, ReturnFrame DEF TermProves
<1>19. CASE TermGivesUp
  <2>1. th.start \in {"idle", "terminate"}
    BY <1>19 DEF TermGivesUp, NoTerm
  <2> QED
    BY <1>19, <2>1, ReturnFrame DEF TermGivesUp
<1>20. CASE StopAsks
  BY <1>20 DEF StopAsks, On, Threads
<1>21. CASE StopAnswers
  BY <1>21 DEF StopAnswers, On, Threads, Claims, Stopped, NoRecord
<1>22. CASE WaitReaps
  BY <1>22 DEF WaitReaps, On, Threads
<1>23. CASE WaitNotes
  BY <1>23 DEF WaitNotes, On, Threads
<1>24. CASE WaitProves
  BY <1>24 DEF WaitProves, On, Threads
<1>25. CASE WaitGivesUp
  <2>1. th'.start = th.start /\ th.wait = "prove" /\ UNCHANGED term
    BY <1>25 DEF WaitGivesUp, Threads
  <2>2. th.start \in {"idle", "terminate"}
    BY <2>1 DEF Threads
  <2> QED
    BY <2>1, <2>2
<1>26. CASE MarkSaves
  BY <1>26 DEF MarkSaves, Threads
<1>27. CASE ReconcileAnswers
  BY <1>27 DEF ReconcileAnswers, On, Claims, hostVars
<1>28. CASE ReconcileProves
  BY <1>28 DEF ReconcileProves, On, Threads
<1>29. CASE Drain
  BY <1>29 DEF Drain, On, Records
<1>30. CASE FinalizeRemoves
  BY <1>30 DEF FinalizeRemoves, On, Threads
<1>31. CASE FinalizeEnds
  BY <1>31 DEF FinalizeEnds, On, Threads
<1>32. CASE HostLost
  BY <1>32 DEF HostLost, Lost, Quiet
<1>33. CASE HostRecovers
  BY <1>33 DEF HostRecovers, Quiet
<1> QED
  BY <1>1, <1>2, <1>3, <1>4, <1>5, <1>6, <1>7, <1>8, <1>9, <1>10, <1>11,
     <1>12, <1>13, <1>14, <1>15, <1>16, <1>17, <1>18, <1>19, <1>20, <1>21,
     <1>22, <1>23, <1>24, <1>25, <1>26, <1>27, <1>28, <1>29, <1>30, <1>31,
     <1>32, <1>33 DEF HostNext

(* Whatever terminateAndProve proved, its return keeps ChildIsKnown.       *)
LEMMA ReturnKnown ==
  ASSUME LaunchTypeOK, HostTypeOK, ChildIsKnown, rec.in # "none",
         NEW by, NEW proved \in BOOLEAN, Returns(by, proved),
         UNCHANGED <<leader, kin, gate, reused, hit>>,
         proved /\ rec.state # "terminal" => ~GroupAlive
  PROVE  ChildIsKnown'
<1>1. /\ UNCHANGED claimed /\ rec'.in = rec.in /\ rec'.exact = rec.exact
      /\ disk' \in {disk, [is |-> "uncertain", exact |-> rec.exact]}
      /\ rec.state = "terminal" => rec' = rec /\ disk' = disk
      /\ rec'.state = "terminal" => rec.state = "terminal" \/ ~GroupAlive
  BY ReturnFrame
<1>2. ~GroupAlive => AllDead
  BY DEF GroupAlive, Present, AllDead
<1>3. /\ claimed => AllDead
      /\ rec.state = "terminal" => AllDead
      /\ disk.is = "terminal" => AllDead
      /\ rec'.state = "terminal" => AllDead
  BY <1>1, <1>2 DEF ChildIsKnown, HostDeathIsReal, AllDead
<1>4. HostDeathIsReal'
  BY <1>1, <1>3 DEF HostDeathIsReal, AllDead
<1>5. HostChildIsRecorded'
  BY <1>1, <1>3 DEF ChildIsKnown, HostChildIsRecorded, AllDead
<1>6. SignalsStayInGroup' /\ (reused => leader = "gone" /\ ~kin)'
  BY DEF ChildIsKnown, SignalsStayInGroup
<1>7. /\ (leader = "gated" /\ gate = "released" =>
            disk.is \in {"running", "uncertain"} /\ disk.exact)'
      /\ (rec.in # "none" /\ ~rec.exact => AllDead)'
      /\ (disk.is \in {"running", "uncertain"} /\ ~disk.exact => AllDead)'
  BY <1>1 DEF ChildIsKnown, AllDead
<1> QED
  BY <1>4, <1>5, <1>6, <1>7 DEF ChildIsKnown


(* Whoever may run is on record, its death is proven before it is said,    *)
(* and a signal is sent only while the number is the leader's.             *)
LEMMA HostChildIsKnown ==
  ASSUME LaunchTypeOK, HostTypeOK, RecordKept, StartKnows, ChildIsKnown,
         HostNext
  PROVE  ChildIsKnown'
<1> USE DEF RecordKept, StartKnows, ChildIsKnown, HostTypeOK, launchVars,
       AllDead, HostChildIsRecorded, HostDeathIsReal,
       SignalsStayInGroup, GroupAlive, Present
<1>1. CASE TargetExecutes
  BY <1>1 DEF TargetExecutes
<1>2. CASE LeaderExits
  BY <1>2 DEF LeaderExits, Exited
<1>3. CASE Forks
  BY <1>3 DEF Forks
<1>4. CASE KinExits
  BY <1>4 DEF KinExits
<1>5. CASE NumberMoves
  BY <1>5 DEF NumberMoves
<1>6. CASE StartClaims
  BY <1>6 DEF StartClaims, On
<1>7. CASE StartWrites
  BY <1>7 DEF StartWrites, On, Disks
<1>8. CASE StartRefuses
  BY <1>8 DEF StartRefuses, On, Disks
<1>9. CASE StartSpawns
  BY <1>9 DEF StartSpawns, On, NoRecord
<1>10. CASE StartIdentifies
  <2> PICK ok \in BOOLEAN :
         /\ IF ok THEN Persists(Identified) ELSE PersistFails(Identified)
         /\ rec' = [Identified EXCEPT !.bad = ~ok]
    BY <1>10 DEF StartIdentifies
  <2>1. Identified \in Records /\ Identified.state = "running"
        /\ Identified.exact
    BY DEF Identified, NoRecord, Records
  <2>2. /\ disk' \in {disk, [is |-> "running", exact |-> TRUE]}
        /\ UNCHANGED claimed
    BY <2>1, PersistFrame
  <2>3. rec'.exact /\ rec'.state = "running"
    BY DEF Identified, NoRecord
  <2>4. /\ th.start = "observe" /\ ~claimed
        /\ UNCHANGED <<leader, kin, gate, reused, hit>>
    BY <1>10 DEF StartIdentifies
  <2> QED
    BY <2>2, <2>3, <2>4
<1>11. CASE StartContains
  <2>1. /\ leader \in {"gated", "zombie"} /\ ours /\ ~kin /\ ~claimed
        /\ disk = [is |-> "prepared", exact |-> FALSE] /\ ~reused
    BY <1>11 DEF StartContains
  <2>2. leader' = "zombie" /\ ~kin' /\ hit' = hit /\ UNCHANGED reused
    BY <1>11, <2>1 DEF StartContains, Kills, Exited
  <2>3. /\ rec'.state = "uncertain" /\ UNCHANGED claimed
        /\ disk'.is \in {"prepared", "uncertain"}
    BY <1>11, <2>1 DEF StartContains, Unidentified, NoRecord, Written
  <2> QED
    BY <2>1, <2>2, <2>3
<1>12. CASE StartReleases
  BY <1>12 DEF StartReleases, On
<1>13. CASE StartAborts
  BY <1>13 DEF StartAborts, On
<1>14. ASSUME NEW who \in {"start", "stop", "stream"}, TermProbes(who)
      PROVE  ChildIsKnown'
  BY <1>14 DEF TermProbes
<1>15. ASSUME NEW who \in {"start", "stop", "stream"}, TermFindsNothing(who)
      PROVE  ChildIsKnown'
  <2>1. rec.state # "terminal" => ~GroupAlive
    BY <1>15 DEF TermFindsNothing
  <2>2. rec.in # "none"
    BY <1>15 DEF TermFindsNothing, Wanted
  <2>3. Returns(who, TRUE) /\ UNCHANGED <<leader, kin, gate, reused, hit>>
    BY <1>15 DEF TermFindsNothing
  <2> QED
    BY <2>1, <2>2, <2>3, ReturnKnown
<1>16. CASE TermSignals
  <2>1. rec.in # "none"
    BY <1>16 DEF TermSignals, NoTerm
  <2>2. CASE Owned
    BY <1>16, <2>1, <2>2 DEF TermSignals, Owned, Terms
  <2>3. CASE ~Owned
    <3>1. Returns(term.by, FALSE)
          /\ UNCHANGED <<leader, kin, gate, reused, hit>>
      BY <1>16, <2>3 DEF TermSignals
    <3> QED
      BY <2>1, <3>1, ReturnKnown
  <2> QED
    BY <2>2, <2>3
<1>17. CASE TermKills
  <2>1. rec.in # "none"
    BY <1>17 DEF TermKills, NoTerm
  <2>2. CASE Owned
    BY <1>17, <2>1, <2>2 DEF TermKills, Owned, Kills, Exited
  <2>3. CASE ~Owned
    <3>1. Returns(term.by, FALSE)
          /\ UNCHANGED <<leader, kin, gate, reused, hit>>
      BY <1>17, <2>3 DEF TermKills
    <3> QED
      BY <2>1, <3>1, ReturnKnown
  <2> QED
    BY <2>2, <2>3
<1>18. CASE TermProves
  <2>1. rec.in # "none" /\ (rec.state # "terminal" => ~GroupAlive)
    BY <1>18 DEF TermProves, NoTerm
  <2>2. Returns(term.by, TRUE) /\ UNCHANGED <<leader, kin, gate, reused, hit>>
    BY <1>18 DEF TermProves
  <2> QED
    BY <2>1, <2>2, ReturnKnown
<1>19. CASE TermGivesUp
  <2>1. rec.in # "none"
    BY <1>19 DEF TermGivesUp, NoTerm
  <2>2. Returns(term.by, FALSE) /\ UNCHANGED <<leader, kin, gate, reused, hit>>
    BY <1>19 DEF TermGivesUp
  <2> QED
    BY <2>1, <2>2, ReturnKnown
<1>20. CASE StopAsks
  BY <1>20 DEF StopAsks
<1>21. CASE StopAnswers
  BY <1>21 DEF StopAnswers, Stopped, Claims, NoRecord
<1>22. CASE WaitReaps
  BY <1>22 DEF WaitReaps
<1>23. CASE WaitNotes
  BY <1>23 DEF WaitNotes, Records
<1>24. CASE WaitProves
  BY <1>24 DEF WaitProves, GroupGone, Records
<1>25. CASE WaitGivesUp
  <2> DEFINE r == [rec EXCEPT !.done = TRUE]
  <2>1. /\ r \in Records /\ r.state = rec.state /\ r.in = rec.in
        /\ r.exact = rec.exact
    BY DEF Records
  <2>2. /\ MarksUncertain(r) /\ rec.in # "none"
        /\ UNCHANGED <<leader, kin, gate, reused, hit>>
    BY <1>25 DEF WaitGivesUp
  <2> HIDE DEF r
  <2> QED
    BY <2>1, <2>2, UncertainFrame
<1>26. CASE MarkSaves
  <2>1. /\ rec'.in = rec.in /\ rec'.state = rec.state
        /\ rec'.exact = rec.exact
    BY <1>26 DEF MarkSaves, Records
  <2>2. /\ rec.state = "terminal" /\ rec.in # "none" /\ AllDead
        /\ UNCHANGED <<leader, kin, gate, reused, hit>>
    BY <1>26 DEF MarkSaves
  <2>3. Persists(rec) \/ PersistFails(rec)
    BY <1>26 DEF MarkSaves
  <2> QED
    BY <2>1, <2>2, <2>3, PersistFrame
<1>27. CASE ReconcileAnswers
  BY <1>27 DEF ReconcileAnswers, Claims, hostVars
<1>28. CASE ReconcileProves
  BY <1>28 DEF ReconcileProves, Records
<1>29. CASE Drain
  BY <1>29 DEF Drain, Records
<1>30. CASE FinalizeRemoves
  BY <1>30 DEF FinalizeRemoves, Disks
<1>31. CASE FinalizeEnds
  <2>1. rec.state = "terminal" /\ rec.in # "none" /\ AllDead
    BY <1>31 DEF FinalizeEnds
  <2>2. /\ UNCHANGED <<claimed, leader, kin, gate, reused, hit>>
        /\ rec' \in {rec, NoRecord}
        /\ disk' \in {disk, [is |-> "none", exact |-> FALSE]}
    BY <1>31 DEF FinalizeEnds
  <2> QED
    BY <2>1, <2>2 DEF NoRecord
<1>32. CASE HostLost
  BY <1>32 DEF HostLost, Lost, NoRecord
<1>33. CASE HostRecovers
  <2>1. CASE disk.is \in {"none", "prepared"}
    BY <1>33, <2>1 DEF HostRecovers, Disks, NoRecord
  <2>2. CASE disk.is \notin {"none", "prepared"}
    <3>1. disk.is \in {"running", "uncertain", "terminal"}
      BY <1>33, <2>2 DEF HostRecovers, Disks, Manifests
    <3>2. rec' = FromManifest
          /\ UNCHANGED <<disk, claimed, leader, kin, gate, reused, hit>>
      BY <1>33, <2>2 DEF HostRecovers
    <3>3. FromManifest.state = disk.is /\ FromManifest.exact = disk.exact
      BY DEF FromManifest
    <3> QED
      BY <3>1, <3>2, <3>3
  <2> QED
    BY <2>1, <2>2
<1> QED
  BY <1>1, <1>2, <1>3, <1>4, <1>5, <1>6, <1>7, <1>8, <1>9, <1>10, <1>11,
     <1>12, <1>13, <1>14, <1>15, <1>16, <1>17, <1>18, <1>19, <1>20, <1>21,
     <1>22, <1>23, <1>24, <1>25, <1>26, <1>27, <1>28, <1>29, <1>30, <1>31,
     <1>32, <1>33 DEF HostNext

(* One step of the import: where it goes, and what it costs.               *)
LEMMA GoesTyped ==
  ASSUME ImportTypeOK, NEW step, Goes(step),
         step \in {"idle", "check", "journal", "write", "writing", "verify",
                   "commit", "undoCheck", "undo", "undoing", "undoVerify",
                   "undoCommit", "good", "bad"}
  PROVE  /\ imp' \in Imports /\ imp'.at = step /\ imp'.by = imp.by
         /\ imp'.n = 1
<1>1. 1 \in 1..RepoCount + 1
  BY ImportAssumption
<1>2. imp' = [imp EXCEPT !.at = step, !.n = 1]
  BY DEF Goes
<1> QED
  BY <1>1, <1>2 DEF ImportTypeOK, Imports

(* A failure is counted and leads where the caller says.                   *)
LEMMA FailTyped ==
  ASSUME LaunchTypeOK, NEW step, FailsTo(step)
  PROVE  /\ LaunchTypeOK' /\ Goes(step)
         /\ UNCHANGED <<target, server, claimed, losses>>
  BY BoundsAssumption DEF LaunchTypeOK, FailsTo, Fault

(* The next repository.                                                    *)
LEMMA ReplacesTyped ==
  ASSUME ImportTypeOK, imp.n \in Repos, imp.at \in {"writing", "undoing"},
         NEW value \in Trees, Replaces(value)
  PROVE  /\ tree' \in [Repos -> Trees] /\ imp' \in Imports
         /\ imp'.by = imp.by
         /\ imp'.at = IF imp.at = "writing" THEN "write" ELSE "undo"
<1>1. imp.n \in 1..RepoCount /\ imp.n + 1 \in 1..RepoCount + 1
  BY ImportAssumption DEF Repos
<1>2. imp' = [imp EXCEPT !.n = imp.n + 1,
                !.at = IF imp.at = "writing" THEN "write" ELSE "undo"]
  BY DEF Replaces
<1> QED
  BY <1>1, <1>2 DEF ImportTypeOK, Imports, Replaces

(* Every step of the import keeps the types.                               *)
LEMMA ImportTypesKept ==
  ASSUME LaunchTypeOK, ImportTypeOK, JournalKept, ImportNext
  PROVE  LaunchTypeOK' /\ ImportTypeOK'
<1> USE DEF LaunchTypeOK, ImportTypeOK, launchVars
<1>1. ASSUME NEW r \in Repos, Edits(r)
      PROVE  LaunchTypeOK' /\ ImportTypeOK'
  <2>1. LaunchTypeOK' /\ UNCHANGED <<journal, imp>>
    BY <1>1 DEF Edits
  <2>2. tree' \in [Repos -> Trees] /\ edits' \in 0..MaxEdits
    BY <1>1, ImportAssumption DEF Edits, Edited, Trees
  <2> QED
    BY <2>1, <2>2
<1>2. CASE ImportChecks
  BY <1>2, GoesTyped DEF ImportChecks
<1>3. CASE ImportJournals
  BY <1>3, GoesTyped, FailTyped DEF ImportJournals
<1>4. CASE ImportWrites
  <2>1. imp' \in Imports
    BY <1>4 DEF ImportWrites, Imports
  <2>2. tree' \in [Repos -> Trees]
    BY <1>4 DEF ImportWrites, Replacing, Trees
  <2> QED
    BY <1>4, <2>1, <2>2 DEF ImportWrites
<1>5. CASE ImportWrote
  <2>1. CASE Replaces("after") /\ UNCHANGED launchVars
    <3>1. "after" \in Trees /\ imp.n \in Repos
      BY <1>5 DEF ImportWrote, At, Trees, JournalKept
    <3>2. tree' \in [Repos -> Trees] /\ imp' \in Imports
      BY <1>5, <2>1, <3>1, ReplacesTyped DEF ImportWrote, At
    <3> QED
      BY <1>5, <2>1, <3>2 DEF ImportWrote
  <2>2. CASE FailsTo("undoCheck") /\ UNCHANGED tree
    <3>1. LaunchTypeOK' /\ Goes("undoCheck")
      BY <2>2, FailTyped
    <3>2. imp' \in Imports
      BY <3>1, GoesTyped
    <3> QED
      BY <1>5, <2>2, <3>1, <3>2 DEF ImportWrote
  <2> QED
    BY <1>5, <2>1, <2>2 DEF ImportWrote
<1>6. CASE ImportVerifies
  BY <1>6, GoesTyped DEF ImportVerifies
<1>7. CASE ImportCommits
  BY <1>7, GoesTyped, FailTyped DEF ImportCommits
<1>8. CASE UndoChecks
  BY <1>8, GoesTyped DEF UndoChecks
<1>9. CASE UndoWrites
  <2>1. imp' \in Imports
    BY <1>9 DEF UndoWrites, Imports
  <2>2. tree' \in [Repos -> Trees]
    BY <1>9 DEF UndoWrites, Replacing, Trees
  <2> QED
    BY <1>9, <2>1, <2>2 DEF UndoWrites
<1>10. CASE UndoWrote
  <2>1. CASE Replaces("before") /\ UNCHANGED launchVars
    <3>1. "before" \in Trees /\ imp.n \in Repos
      BY <1>10 DEF UndoWrote, At, Trees, JournalKept
    <3>2. tree' \in [Repos -> Trees] /\ imp' \in Imports
      BY <1>10, <2>1, <3>1, ReplacesTyped DEF UndoWrote, At
    <3> QED
      BY <1>10, <2>1, <3>2 DEF UndoWrote
  <2>2. CASE FailsTo("bad") /\ UNCHANGED tree
    <3>1. LaunchTypeOK' /\ Goes("bad")
      BY <2>2, FailTyped
    <3>2. imp' \in Imports
      BY <3>1, GoesTyped
    <3> QED
      BY <1>10, <2>2, <3>1, <3>2 DEF UndoWrote
  <2> QED
    BY <1>10, <2>1, <2>2 DEF UndoWrote
<1>11. CASE UndoVerifies
  BY <1>11, GoesTyped DEF UndoVerifies
<1>12. CASE UndoCommits
  BY <1>12, GoesTyped, FailTyped DEF UndoCommits
<1> QED
  BY <1>1, <1>2, <1>3, <1>4, <1>5, <1>6, <1>7, <1>8, <1>9, <1>10, <1>11,
     <1>12 DEF ImportNext

(* The journal covers every write, and outlives what it covers.            *)
LEMMA ImportJournalKept ==
  ASSUME LaunchTypeOK, ImportTypeOK, JournalKept, ImportNext
  PROVE  JournalKept'
<1> USE DEF JournalKept, ImportIsAllOrNothing
<1>1. ASSUME NEW r \in Repos, Edits(r)
      PROVE  JournalKept'
  <2>1. UNCHANGED <<journal, imp>>
    BY <1>1 DEF Edits
  <2>2. ASSUME NEW kinds, Edited \subseteq kinds, All(kinds)
        PROVE  All(kinds)'
    <3> PICK t \in Edited : tree' = [tree EXCEPT ![r] = t]
      BY <1>1 DEF Edits
    <3> QED
      BY <2>2 DEF All, ImportTypeOK
  <2>3. All({"before"} \cup Edited) => All({"before"} \cup Edited)'
    BY <2>2
  <2>4. All({"after"} \cup Edited) => All({"after"} \cup Edited)'
    BY <2>2
  <2> QED
    BY <2>1, <2>3, <2>4
<1>2. CASE ImportChecks
  <2>1. imp'.at \in {"journal", "bad"} /\ UNCHANGED <<tree, journal>>
    BY <1>2, GoesTyped DEF ImportChecks
  <2>2. imp'.at = "journal" => All({"before"} \cup Edited)'
    BY <1>2, GoesTyped DEF ImportChecks, All, Before, Edited
  <2> QED
    BY <2>1, <2>2 DEF All
<1>3. CASE ImportJournals
  <2>1. All({"before"} \cup Edited)' /\ imp'.at \in {"write", "bad"}
        /\ (imp'.at = "write" => journal' = "valid")
    BY <1>3, GoesTyped, FailTyped DEF ImportJournals, At, All
  <2> QED
    BY <2>1
<1>4. CASE ImportWrites
  <2>1. imp'.at = "writing" /\ imp'.n \in Repos /\ journal' = "valid"
    BY <1>4 DEF ImportWrites, At, Imports
  <2> QED
    BY <2>1
<1>5. CASE ImportWrote
  <2>1. journal' = "valid" /\ imp.n \in Repos
    BY <1>5 DEF ImportWrote, At
  <2>2. "after" \in Trees
    BY DEF Trees
  <2>3. imp'.at \in {"write", "undo", "undoCheck"}
    BY <1>5, <2>1, <2>2, GoesTyped, FailTyped, ReplacesTyped
       DEF ImportWrote, At
  <2> QED
    BY <2>1, <2>3
<1>6. CASE ImportVerifies
  <2>1. journal' = "valid" /\ imp'.at \in {"verify", "commit", "bad"}
    BY <1>6, GoesTyped DEF ImportVerifies, At
  <2>2. imp'.at = "commit" => All({"after"} \cup Edited)'
    BY <1>6, GoesTyped DEF ImportVerifies, All
  <2> QED
    BY <2>1, <2>2
<1>7. CASE ImportCommits
  <2>1. All({"after"} \cup Edited)' /\ imp'.at \in {"good", "bad"}
    BY <1>7, GoesTyped, FailTyped DEF ImportCommits, At, All
  <2> QED
    BY <2>1
<1>8. CASE UndoChecks
  <2>1. /\ imp'.at \in {"good", "bad", "undo"} /\ UNCHANGED <<tree, journal>>
        /\ imp'.at = "undo" => journal = "valid"
    BY <1>8, GoesTyped DEF UndoChecks
  <2> QED
    BY <2>1 DEF All
<1>9. CASE UndoWrites
  <2>1. imp'.at = "undoing" /\ imp'.n \in Repos /\ journal' = "valid"
    BY <1>9 DEF UndoWrites, At, Imports
  <2> QED
    BY <2>1
<1>10. CASE UndoWrote
  <2>1. journal' = "valid" /\ imp.n \in Repos
    BY <1>10 DEF UndoWrote, At
  <2>2. "before" \in Trees
    BY DEF Trees
  <2>3. imp'.at \in {"write", "undo", "bad"}
    BY <1>10, <2>1, <2>2, GoesTyped, FailTyped, ReplacesTyped
       DEF UndoWrote, At
  <2> QED
    BY <2>1, <2>3
<1>11. CASE UndoVerifies
  <2>1. journal' = "valid" /\ imp'.at \in {"undoVerify", "undoCommit", "bad"}
    BY <1>11, GoesTyped DEF UndoVerifies, At
  <2>2. imp'.at = "undoCommit" => All({"before"} \cup Edited)'
    BY <1>11, GoesTyped DEF UndoVerifies, All, Before, Edited
  <2> QED
    BY <2>1, <2>2
<1>12. CASE UndoCommits
  <2>1. All({"before"} \cup Edited)' /\ imp'.at \in {"good", "bad"}
    BY <1>12, GoesTyped, FailTyped DEF UndoCommits, At, All
  <2> QED
    BY <2>1
<1> QED
  BY <1>1, <1>2, <1>3, <1>4, <1>5, <1>6, <1>7, <1>8, <1>9, <1>10, <1>11,
     <1>12 DEF ImportNext

(***************************************************************************)
(* The Docker supervisor.                                                  *)
(***************************************************************************)
(* No import, and the first step of each kind of one.                      *)
LEMMA CalmTyped ==
  /\ Calm \in Imports /\ Calm.by = "nobody" /\ Calm.at = "idle"
  /\ [by |-> "collect", at |-> "check", n |-> 1] \in Imports
  /\ [by |-> "cleanup", at |-> "undoCheck", n |-> 1] \in Imports
<1>1. 1 \in 1..RepoCount + 1
  BY ImportAssumption
<1> QED
  BY <1>1 DEF Calm, Imports

(* No record, a recovered one, and no steps under way.                     *)
LEMMA NoAttemptTyped ==
  /\ NoAttempt \in Attempts /\ NoAttempt.in = "none" /\ ~NoAttempt.exited
  /\ Recovered \in Attempts /\ Recovered.in = "recovered"
  /\ Idle \in Tasks /\ Idle.start = "idle" /\ Idle.stop = "idle"
  /\ Idle.wait = "none" /\ Idle.clean = "nobody"
  BY DEF NoAttempt, Recovered, Attempts, Idle, Tasks

(* A cleanup answers; its own part of the steps is over.                   *)
LEMMA CleanedTyped ==
  ASSUME LaunchTypeOK, ImportTypeOK, DockTypeOK, NEW who \in Cleaners,
         NEW ok \in BOOLEAN, Cleaned(who, ok)
  PROVE  /\ imp' = Calm /\ imp' \in Imports
         /\ dk' \in Tasks /\ att' \in Attempts
         /\ server' \in {"up", "down", "starting"} /\ claimed' \in BOOLEAN
         /\ UNCHANGED <<target, losses, tree, journal, edits, cli>>
<1>1. /\ [dk EXCEPT !.clean = "nobody", !.start = "idle"] \in Tasks
      /\ [dk EXCEPT !.clean = "nobody", !.stop = "idle"] \in Tasks
      /\ [dk EXCEPT !.clean = "nobody"] \in Tasks
  BY DEF DockTypeOK, Tasks
<1>2. [att EXCEPT !.in = "live"] \in Attempts
  BY DEF DockTypeOK, Attempts
<1>3. imp' = Calm /\ UNCHANGED <<target, losses, tree, journal, edits, cli>>
  BY DEF Cleaned
<1>4. dk' \in Tasks /\ att' \in Attempts
  BY <1>1, <1>2, NoAttemptTyped DEF Cleaned, Cleaners, DockTypeOK
<1>5. server' \in {"up", "down", "starting"} /\ claimed' \in BOOLEAN
  BY DEF Cleaned, Cleaners, LaunchTypeOK
<1> QED
  BY <1>3, <1>4, <1>5, CalmTyped

(* Every step of the Docker supervisor keeps the types.                    *)
LEMMA DockTypesKept ==
  ASSUME LaunchTypeOK, ImportTypeOK, DockTypeOK, JournalKept, DockNext
  PROVE  LaunchTypeOK' /\ ImportTypeOK' /\ DockTypeOK'
<1> USE DEF LaunchTypeOK, ImportTypeOK, DockTypeOK, launchVars, importVars,
       dockVars
<1>1. CASE ExecEnds
  BY <1>1 DEF ExecEnds
<1>2. CASE BoxClaims
  BY <1>2 DEF BoxClaims, Tasks
<1>3. CASE BoxPrepares
  <2>1. LaunchTypeOK'
    BY <1>3, BoundsAssumption DEF BoxPrepares, Fails, Fault
  <2>2. /\ NoAttempt \in Attempts
        /\ [NoAttempt EXCEPT !.in = "setup"] \in Attempts
    BY DEF NoAttempt, Attempts
  <2>3. att' \in Attempts /\ root' \in {"none", "bare", "owned"}
    BY <1>3, <2>2 DEF BoxPrepares
  <2>4. dk' \in Tasks
    BY <1>3 DEF BoxPrepares, Tasks
  <2>5. tree' \in [Repos -> Trees]
    BY <1>3 DEF BoxPrepares, Prepares, Trees
  <2>6. /\ journal' \in {"none", "torn", "valid"}
        /\ UNCHANGED <<imp, edits, box, cli>>
    BY <1>3 DEF BoxPrepares, Prepares
  <2> QED
    BY <2>1, <2>3, <2>4, <2>5, <2>6
<1>4. CASE BoxCreates
  <2>1. LaunchTypeOK'
    BY <1>4, BoundsAssumption DEF BoxCreates, SetsUp, Fails, Fault
  <2>2. dk' \in Tasks
    BY <1>4 DEF BoxCreates, SetsUp, Tasks
  <2>3. /\ box' \in {"none", "created", "running", "paused", "dead"}
        /\ UNCHANGED <<importVars, cli, root, att>>
    BY <1>4 DEF BoxCreates, SetsUp
  <2> QED
    BY <2>1, <2>2, <2>3
<1>5. CASE BoxRuns
  <2>1. LaunchTypeOK'
    BY <1>5, BoundsAssumption DEF BoxRuns, SetsUp, Fails, Fault
  <2>2. dk' \in Tasks
    BY <1>5 DEF BoxRuns, SetsUp, Tasks
  <2>3. /\ box' \in {"none", "created", "running", "paused", "dead"}
        /\ UNCHANGED <<importVars, cli, root, att>>
    BY <1>5 DEF BoxRuns, SetsUp
  <2> QED
    BY <2>1, <2>2, <2>3
<1>6. CASE BoxExecs
  <2>1. LaunchTypeOK'
    BY <1>6, BoundsAssumption DEF BoxExecs, Fails, Fault
  <2>2. dk' \in Tasks
    <3>1. /\ [dk EXCEPT !.start = "idle", !.wait = "wait"] \in Tasks
          /\ [dk EXCEPT !.start = "clean"] \in Tasks
          /\ [dk EXCEPT !.start = "cleanUnsure"] \in Tasks
          /\ [dk EXCEPT !.start = "reap"] \in Tasks
      BY DEF Tasks
    <3> QED
      BY <1>6, <3>1 DEF BoxExecs
  <2>3. att' \in Attempts
    BY <1>6 DEF BoxExecs, Attempts
  <2>4. cli' \in {"none", "running", "zero", "nonzero"}
        /\ UNCHANGED <<importVars, box, root>>
    BY <1>6 DEF BoxExecs
  <2> QED
    BY <2>1, <2>2, <2>3, <2>4
<1>7. CASE BoxReaps
  <2>1. dk' \in Tasks
    BY <1>7 DEF BoxReaps, Tasks
  <2>2. att' \in Attempts
    BY <1>7 DEF BoxReaps, Attempts
  <2>3. cli' \in {"none", "running", "zero", "nonzero"}
        /\ UNCHANGED <<launchVars, importVars, box, root>>
    BY <1>7 DEF BoxReaps
  <2> QED
    BY <2>1, <2>2, <2>3
<1>8. CASE BoxReapsLate
  BY <1>8 DEF BoxReapsLate, Attempts
<1>9. CASE ExecReaped
  BY <1>9 DEF ExecReaped, Waits, WaitTo, Attempts, Tasks
<1>10. CASE Classifies
  BY <1>10 DEF Classifies, Waits, WaitTo, Tasks
<1>11. CASE Terminates
  <2>1. LaunchTypeOK'
    <3>1. UNCHANGED launchVars \/ Fails
      BY <1>11 DEF Terminates
    <3> QED
      BY <3>1, BoundsAssumption DEF Fails, Fault
  <2>2. dk' \in Tasks
    BY <1>11 DEF Terminates, WaitTo, Tasks
  <2>3. /\ box' \in {"none", "created", "running", "paused", "dead"}
        /\ UNCHANGED <<importVars, cli, root, att>>
    BY <1>11 DEF Terminates, Killed
  <2> QED
    BY <2>1, <2>2, <2>3
<1>12. CASE Pauses
  <2>1. LaunchTypeOK'
    <3>1. UNCHANGED launchVars \/ Fails
      BY <1>12 DEF Pauses
    <3> QED
      BY <3>1, BoundsAssumption DEF Fails, Fault
  <2>2. dk' \in Tasks
    BY <1>12 DEF Pauses, WaitTo, Tasks
  <2>3. /\ box' \in {"none", "created", "running", "paused", "dead"}
        /\ UNCHANGED <<importVars, cli, root, att>>
    BY <1>12 DEF Pauses, Killed
  <2> QED
    BY <2>1, <2>2, <2>3
<1>13. CASE Exports
  <2>1. LaunchTypeOK'
    <3>1. UNCHANGED launchVars \/ Fails
      BY <1>13 DEF Exports
    <3> QED
      BY <3>1, BoundsAssumption DEF Fails, Fault
  <2>2. dk' \in Tasks
    BY <1>13 DEF Exports, WaitTo, Tasks
  <2>3. /\ box' \in {"none", "created", "running", "paused", "dead"}
        /\ UNCHANGED <<importVars, cli, root, att>>
    BY <1>13 DEF Exports, Killed
  <2> QED
    BY <2>1, <2>2, <2>3
<1>14. CASE ProvesDead
  <2>1. LaunchTypeOK'
    <3>1. UNCHANGED launchVars \/ Fails
      BY <1>14 DEF ProvesDead
    <3> QED
      BY <3>1, BoundsAssumption DEF Fails, Fault
  <2>2. dk' \in Tasks
    BY <1>14 DEF ProvesDead, WaitTo, Tasks, AfterDeathProof
  <2>3. /\ box' \in {"none", "created", "running", "paused", "dead"}
        /\ UNCHANGED <<importVars, cli, root, att>>
    BY <1>14 DEF ProvesDead, Killed
  <2> QED
    BY <2>1, <2>2, <2>3
<1>15. CASE Collects
  <2>1. imp' \in Imports
    BY <1>15, CalmTyped DEF Collects
  <2>2. dk' \in Tasks
    BY <1>15 DEF Collects, WaitTo, Tasks
  <2> QED
    BY <1>15, <2>1, <2>2 DEF Collects
<1>16. CASE Collected
  <2>1. dk' \in Tasks
    BY <1>16 DEF Collected, WaitTo, Tasks
  <2> QED
    BY <1>16, <2>1, CalmTyped DEF Collected
<1>17. CASE WaitEnds
  <2>1. dk' \in Tasks
    BY <1>17 DEF WaitEnds, WaitTo, Tasks
  <2>2. att' \in Attempts
    BY <1>17 DEF WaitEnds, Attempts
  <2> QED
    BY <1>17, <2>1, <2>2 DEF WaitEnds
<1>18. CASE Expires
  BY <1>18 DEF Expires, Attempts
<1>19. CASE BoxStops
  <2>1. dk' \in Tasks
    BY <1>19 DEF BoxStops, Tasks
  <2>2. att' \in Attempts
    BY <1>19 DEF BoxStops, Attempts
  <2> QED
    BY <1>19, <2>1, <2>2 DEF BoxStops
<1>20. CASE BoxForces
  <2>1. LaunchTypeOK'
    BY <1>20, BoundsAssumption DEF BoxForces, Fails, Fault
  <2>2. dk' \in Tasks
    BY <1>20 DEF BoxForces, Tasks
  <2>3. /\ box' \in {"none", "created", "running", "paused", "dead"}
        /\ cli' \in {"none", "running", "zero", "nonzero"}
        /\ UNCHANGED <<importVars, root, att>>
    BY <1>20 DEF BoxForces
  <2> QED
    BY <2>1, <2>2, <2>3
<1>21. CASE StopSees
  BY <1>21 DEF StopSees, Tasks
<1>22. CASE BoxAnswers
  BY <1>22 DEF BoxAnswers, Claims
<1>23. CASE BoxDrains
  BY <1>23 DEF BoxDrains, Attempts
<1>24. ASSUME NEW who \in Cleaners, CleanRemoves(who)
      PROVE  LaunchTypeOK' /\ ImportTypeOK' /\ DockTypeOK'
  <2> PICK ok \in BOOLEAN :
         /\ box' \in IF ok THEN {"none"} ELSE {box, "none"}
         /\ faults' = IF ok THEN faults ELSE faults + 1
         /\ faults' <= MaxFaults
         /\ \/ /\ imp' = [by |-> "cleanup", at |-> "undoCheck", n |-> 1]
               /\ dk' = [dk EXCEPT !.clean = who]
               /\ UNCHANGED <<target, server, claimed, losses, tree, journal,
                              edits, cli, att>>
            \/ Cleaned(who, FALSE)
    BY <1>24 DEF CleanRemoves
  <2>1. faults' \in 0..MaxFaults
    BY BoundsAssumption
  <2>2. [dk EXCEPT !.clean = who] \in Tasks
    BY DEF Tasks
  <2>3. UNCHANGED root
    BY <1>24 DEF CleanRemoves
  <2> QED
    BY <2>1, <2>2, <2>3, CalmTyped, CleanedTyped
<1>25. CASE CleanEnds
  <2> PICK ok \in BOOLEAN : Cleaned(dk.clean, ok)
    BY <1>25 DEF CleanEnds
  <2>1. dk.clean \in Cleaners
    BY <1>25 DEF CleanEnds, Tasks
  <2>2. faults' \in 0..MaxFaults
    <3>1. faults' = faults \/ Fault
      BY <1>25 DEF CleanEnds
    <3> QED
      BY <3>1, BoundsAssumption DEF Fault
  <2>3. root' \in {"none", "bare", "owned"} /\ UNCHANGED box
    BY <1>25 DEF CleanEnds
  <2> QED
    BY <2>1, <2>2, <2>3, CleanedTyped
<1>26. CASE FinalizesRecovered
  BY <1>26, NoAttemptTyped DEF FinalizesRecovered
<1>27. CASE DockerLost
  <2>1. LaunchTypeOK'
    BY <1>27, BoundsAssumption DEF DockerLost, Lost
  <2>2. journal' \in {"none", "torn", "valid"} /\ imp' = Calm
        /\ UNCHANGED <<tree, edits>>
    BY <1>27 DEF DockerLost, ImportLost
  <2> QED
    BY <1>27, <2>1, <2>2, CalmTyped, NoAttemptTyped DEF DockerLost
<1>28. CASE DockerStarts
  BY <1>28 DEF DockerStarts
<1>29. CASE ImportNext /\ UNCHANGED dockVars
  BY <1>29, ImportTypesKept
<1> QED
  BY <1>1, <1>2, <1>3, <1>4, <1>5, <1>6, <1>7, <1>8, <1>9, <1>10, <1>11,
     <1>12, <1>13, <1>14, <1>15, <1>16, <1>17, <1>18, <1>19, <1>20, <1>21,
     <1>22, <1>23, <1>24, <1>25, <1>26, <1>27, <1>28, <1>29 DEF DockNext

(* The import neither begins nor ends by itself.                           *)
LEMMA ImportFrame ==
  ASSUME LaunchTypeOK, ImportTypeOK, JournalKept, ImportNext
  PROVE  /\ imp'.by = imp.by /\ (imp.at = "idle" => imp' = imp)
         /\ UNCHANGED <<target, server, claimed>>
<1> USE DEF launchVars
<1>1. ASSUME NEW r \in Repos, Edits(r)
      PROVE  UNCHANGED <<launchVars, imp>>
  BY <1>1 DEF Edits
<1>2. CASE ImportChecks
  BY <1>2, GoesTyped, FailTyped DEF ImportChecks, At
<1>3. CASE ImportJournals
  BY <1>3, GoesTyped, FailTyped DEF ImportJournals, At
<1>4. CASE ImportWrites
  BY <1>4 DEF ImportWrites, At, ImportTypeOK, Imports
<1>5. CASE ImportWrote
  BY <1>5, GoesTyped, FailTyped, ReplacesTyped
     DEF ImportWrote, At, JournalKept, Trees
<1>6. CASE ImportVerifies
  BY <1>6, GoesTyped, FailTyped DEF ImportVerifies, At
<1>7. CASE ImportCommits
  BY <1>7, GoesTyped, FailTyped DEF ImportCommits, At
<1>8. CASE UndoChecks
  BY <1>8, GoesTyped, FailTyped DEF UndoChecks, At
<1>9. CASE UndoWrites
  BY <1>9 DEF UndoWrites, At, ImportTypeOK, Imports
<1>10. CASE UndoWrote
  BY <1>10, GoesTyped, FailTyped, ReplacesTyped
     DEF UndoWrote, At, JournalKept, Trees
<1>11. CASE UndoVerifies
  BY <1>11, GoesTyped, FailTyped DEF UndoVerifies, At
<1>12. CASE UndoCommits
  BY <1>12, GoesTyped, FailTyped DEF UndoCommits, At
<1> QED
  BY <1>1, <1>2, <1>3, <1>4, <1>5, <1>6, <1>7, <1>8, <1>9, <1>10, <1>11,
     <1>12 DEF ImportNext

(* A cleanup answers, whoever asked: the record and the steps still agree. *)
LEMMA CleanedKept ==
  ASSUME LaunchTypeOK, DockTypeOK, AttemptKept, NEW who \in Cleaners,
         NEW ok \in BOOLEAN, Cleaned(who, ok), box' \in {box, "none"},
         ok => box' = "none",
         dk.clean \in {"nobody", who},
         who = "setup" => dk.start \in {"clean", "cleanUnsure"},
         who \in {"stop", "finalize"} => att.in = "live" /\ server = "up",
         who = "recover" => server = "starting"
  PROVE  AttemptKept'
<1> USE DEF AttemptKept, DockTypeOK, Alive
<1>1. CASE who = "setup"
  <2>1. /\ dk'.start = "idle" /\ dk'.clean = "nobody" /\ dk'.stop = dk.stop
        /\ dk'.wait = dk.wait /\ UNCHANGED server
    BY <1>1 DEF Cleaned, Tasks
  <2>2. att.in = "setup" /\ server = "up"
    BY <1>1, NoAttemptTyped DEF LaunchTypeOK, Attempts
  <2>3. att' = NoAttempt \/ att' = [att EXCEPT !.in = "live"]
    BY <1>1 DEF Cleaned
  <2> QED
    BY <2>1, <2>2, <2>3, NoAttemptTyped DEF Attempts
<1>2. CASE who = "stop"
  <2>1. /\ dk'.start = dk.start /\ dk'.clean = "nobody" /\ dk'.stop = "idle"
        /\ dk'.wait = dk.wait /\ UNCHANGED <<server, att>>
    BY <1>2 DEF Cleaned, Tasks
  <2> QED
    BY <1>2, <2>1
<1>3. CASE who = "finalize"
  <2>1. CASE ok
    BY <1>3, <2>1, NoAttemptTyped DEF Cleaned
  <2>2. CASE ~ok
    <3>1. /\ dk'.start = dk.start /\ dk'.clean = "nobody"
          /\ dk'.stop = dk.stop /\ dk'.wait = dk.wait
          /\ UNCHANGED <<server, att>>
      BY <1>3, <2>2 DEF Cleaned, Tasks
    <3> QED
      BY <1>3, <3>1
  <2> QED
    BY <2>1, <2>2
<1>4. CASE who = "recover"
  <2>1. /\ dk' = Idle /\ server' = IF ok THEN "up" ELSE "down"
        /\ att' \in IF ok THEN {NoAttempt, Recovered} ELSE {att}
    BY <1>4 DEF Cleaned
  <2>2. att = NoAttempt
    BY <1>4
  <2> QED
    BY <2>1, <2>2, NoAttemptTyped
<1> QED
  BY <1>1, <1>2, <1>3, <1>4 DEF Cleaners

(* The record and the steps of Start, wait and Stop agree.                 *)
LEMMA DockAttemptKept ==
  ASSUME LaunchTypeOK, ImportTypeOK, DockTypeOK, JournalKept, AttemptKept,
         ImportIsOwned, DockNext
  PROVE  AttemptKept'
<1> USE DEF AttemptKept, DockTypeOK, launchVars, importVars, dockVars, Alive
<1>1. CASE ExecEnds
  BY <1>1 DEF ExecEnds
<1>2. CASE BoxClaims
  BY <1>2 DEF BoxClaims, Up, On, Tasks
<1>3. CASE BoxPrepares
  <2>1. /\ dk.start = "root" /\ server = "up" /\ UNCHANGED <<server, box>>
        /\ dk'.start \in {"idle", "create"} /\ dk'.stop = dk.stop
        /\ dk'.wait = dk.wait /\ dk'.clean = dk.clean
    BY <1>3 DEF BoxPrepares, Up, On, Fails, Tasks
  <2>2. att.in = "none" /\ dk.clean = "nobody"
    BY <2>1 DEF Attempts, ImportIsOwned
  <2>3. \/ att' = att /\ dk'.start = "idle"
        \/ att' = [NoAttempt EXCEPT !.in = "setup"] /\ dk'.start = "create"
    BY <1>3 DEF BoxPrepares, Tasks
  <2>4. LET made == [NoAttempt EXCEPT !.in = "setup"]
        IN  made.in = "setup" /\ ~made.exited
    BY DEF NoAttempt
  <2> QED
    BY <2>1, <2>2, <2>3, <2>4
<1>4. CASE BoxCreates
  BY <1>4 DEF BoxCreates, SetsUp, Up, On, Fails, Tasks
<1>5. CASE BoxRuns
  BY <1>5 DEF BoxRuns, SetsUp, Up, On, Fails, Tasks
<1>6. CASE BoxExecs
  <2>1. /\ dk.start = "exec" /\ server = "up" /\ UNCHANGED <<server, box>>
        /\ att.in = "setup" /\ ~att.exited /\ dk.clean = "nobody"
        /\ dk.stop = "idle" /\ dk.wait = "none"
    BY <1>6 DEF BoxExecs, Up, On, Fails, Attempts, ImportIsOwned
  <2>2. \/ /\ att' = [att EXCEPT !.in = "live", !.proc = TRUE]
           /\ dk' = [dk EXCEPT !.start = "idle", !.wait = "wait"]
        \/ att' = att /\ dk' = [dk EXCEPT !.start = "clean"]
        \/ att' = att /\ dk' = [dk EXCEPT !.start = "cleanUnsure"]
        \/ /\ att' = [att EXCEPT !.proc = TRUE, !.stop = TRUE]
           /\ dk' = [dk EXCEPT !.start = "reap"]
    BY <1>6 DEF BoxExecs
  <2>3. CASE /\ att' = [att EXCEPT !.in = "live", !.proc = TRUE]
             /\ dk' = [dk EXCEPT !.start = "idle", !.wait = "wait"]
    <3>1. att'.in = "live" /\ ~att'.exited
      BY <2>1, <2>3 DEF Attempts
    <3>2. /\ dk'.start = "idle" /\ dk'.wait = "wait" /\ dk'.stop = "idle"
          /\ dk'.clean = "nobody"
      BY <2>1, <2>3 DEF Tasks
    <3> QED
      BY <2>1, <3>1, <3>2
  <2>4. CASE ~(/\ att' = [att EXCEPT !.in = "live", !.proc = TRUE]
               /\ dk' = [dk EXCEPT !.start = "idle", !.wait = "wait"])
    <3>1. att'.in = "setup" /\ ~att'.exited
      BY <2>1, <2>2, <2>4 DEF Attempts
    <3>2. /\ dk'.start \in {"clean", "cleanUnsure", "reap"}
          /\ dk'.wait = "none" /\ dk'.stop = "idle" /\ dk'.clean = "nobody"
      BY <2>1, <2>2, <2>4 DEF Tasks
    <3> QED
      BY <2>1, <3>1, <3>2
  <2> QED
    BY <2>3, <2>4
<1>7. CASE BoxReaps
  <2>1. /\ dk.start = "reap" /\ server = "up" /\ UNCHANGED <<server, box>>
        /\ att.in = "setup" /\ dk.clean = "nobody"
        /\ dk.stop = "idle" /\ dk.wait = "none"
    BY <1>7 DEF BoxReaps, Up, On, Attempts, ImportIsOwned
  <2>2. \/ /\ att' = [att EXCEPT !.exited = TRUE]
           /\ dk' = [dk EXCEPT !.start = "clean"]
        \/ /\ att' = [att EXCEPT !.in = "live"]
           /\ dk' = [dk EXCEPT !.start = "idle"]
    BY <1>7 DEF BoxReaps
  <2>3. /\ dk'.wait = "none" /\ dk'.stop = "idle" /\ dk'.clean = "nobody"
        /\ \/ dk'.start = "clean" /\ att'.in = "setup"
           \/ dk'.start = "idle" /\ att'.in = "live"
    BY <2>1, <2>2 DEF Attempts, Tasks
  <2> QED
    BY <2>1, <2>3
<1>8. CASE BoxReapsLate
  BY <1>8 DEF BoxReapsLate, Up, On, Attempts
<1>9. CASE ExecReaped
  BY <1>9 DEF ExecReaped, Waits, WaitTo, Up, On, Tasks, Attempts
<1>10. CASE Classifies
  BY <1>10 DEF Classifies, Waits, WaitTo, Up, On, Tasks, StopsImport
<1>11. CASE Terminates
  BY <1>11 DEF Terminates, Waits, WaitTo, Up, On, Tasks, Fails
<1>12. CASE Pauses
  BY <1>12 DEF Pauses, Waits, WaitTo, Up, On, Tasks, Fails
<1>13. CASE Exports
  BY <1>13 DEF Exports, Waits, WaitTo, Up, On, Tasks, Fails
<1>14. CASE ProvesDead
  BY <1>14 DEF ProvesDead, Waits, WaitTo, Up, On, Tasks, Fails,
     AfterDeathProof, Alive
<1>15. CASE Collects
  BY <1>15 DEF Collects, Waits, WaitTo, Up, On, Tasks, Alive
<1>16. CASE Collected
  BY <1>16 DEF Collected, Waits, WaitTo, Up, On, Tasks
<1>17. CASE WaitEnds
  BY <1>17 DEF WaitEnds, Waits, WaitTo, Up, On, Tasks, Attempts
<1>18. CASE Expires
  BY <1>18 DEF Expires, Up, On, Attempts
<1>19. CASE BoxStops
  BY <1>19 DEF BoxStops, Up, On, Tasks, Attempts
<1>20. CASE BoxForces
  BY <1>20 DEF BoxForces, Up, On, Tasks, Fails, Alive
<1>21. CASE StopSees
  BY <1>21 DEF StopSees, Up, On, Tasks
<1>22. CASE BoxAnswers
  BY <1>22 DEF BoxAnswers, Up, On, Claims
<1>23. CASE BoxDrains
  BY <1>23 DEF BoxDrains, Up, On, Attempts
<1>24. ASSUME NEW who \in Cleaners, CleanRemoves(who)
      PROVE  AttemptKept'
  <2>1. MayClean(who) /\ dk.clean = "nobody" /\ box' \in {box, "none"}
    BY <1>24 DEF CleanRemoves
  <2>2. \/ /\ dk' = [dk EXCEPT !.clean = who]
           /\ UNCHANGED <<server, claimed, att>>
        \/ Cleaned(who, FALSE)
    BY <1>24 DEF CleanRemoves
  <2>3. CASE /\ dk' = [dk EXCEPT !.clean = who]
             /\ UNCHANGED <<server, claimed, att>>
    <3>1. /\ dk'.clean = who /\ dk'.start = dk.start
          /\ dk'.stop = dk.stop /\ dk'.wait = dk.wait
      BY <2>3 DEF Tasks
    <3>2. /\ who = "setup" => att.in = "setup"
          /\ who \in {"stop", "finalize"} => att.in = "live"
          /\ who = "recover" => server = "starting"
      BY <2>1, NoAttemptTyped DEF MayClean, Cleaners, Up, On, Attempts
    <3>3. who \in {"setup", "stop", "finalize", "recover"}
      BY DEF Cleaners
    <3>4. /\ server' = server /\ att' = att
          /\ box = "none" => box' = "none"
          /\ ~Alive => ~Alive'
      BY <2>1, <2>3
    <3> HIDE DEF DockTypeOK, Alive
    <3>5. CASE who = "setup"
      BY <3>1, <3>2, <3>4, <3>5, NoAttemptTyped
    <3>6. CASE who \in {"stop", "finalize"}
      BY <3>1, <3>2, <3>4, <3>6, NoAttemptTyped
    <3>7. CASE who = "recover"
      BY <3>1, <3>2, <3>4, <3>7, NoAttemptTyped
    <3> QED
      BY <3>3, <3>5, <3>6, <3>7
  <2>4. CASE Cleaned(who, FALSE)
    BY <2>1, <2>4, CleanedKept DEF MayClean, Cleaners, Up, On
  <2> QED
    BY <2>2, <2>3, <2>4
<1>25. CASE CleanEnds
  <2> PICK ok \in BOOLEAN : Cleaned(dk.clean, ok)
    BY <1>25 DEF CleanEnds
  <2>1. dk.clean \in Cleaners /\ UNCHANGED box /\ box = "none"
    BY <1>25 DEF CleanEnds, Tasks, ImportIsOwned
  <2>2. /\ dk.clean = "setup" => dk.start \in {"clean", "cleanUnsure"}
        /\ dk.clean \in {"stop", "finalize"} =>
             att.in = "live" /\ server = "up"
        /\ dk.clean = "recover" => server = "starting"
    <3>1. dk.clean = "setup" => dk.start \in {"clean", "cleanUnsure"}
      BY DEF ImportIsOwned
    <3>2. dk.clean \in {"stop", "finalize"} => att.in = "live"
      BY DEF Attempts
    <3>3. att.in = "live" => server = "up"
      BY NoAttemptTyped DEF LaunchTypeOK
    <3> QED
      BY <3>1, <3>2, <3>3 DEF ImportIsOwned
  <2> QED
    BY <2>1, <2>2, CleanedKept
<1>26. CASE FinalizesRecovered
  BY <1>26, NoAttemptTyped DEF FinalizesRecovered, Up, On
<1>27. CASE DockerLost
  BY <1>27, NoAttemptTyped DEF DockerLost, Lost
<1>28. CASE DockerStarts
  BY <1>28, NoAttemptTyped DEF DockerStarts
<1>29. CASE ImportNext /\ UNCHANGED dockVars
  BY <1>29, ImportFrame DEF Alive
<1> QED
  BY <1>1, <1>2, <1>3, <1>4, <1>5, <1>6, <1>7, <1>8, <1>9, <1>10, <1>11,
     <1>12, <1>13, <1>14, <1>15, <1>16, <1>17, <1>18, <1>19, <1>20, <1>21,
     <1>22, <1>23, <1>24, <1>25, <1>26, <1>27, <1>28, <1>29 DEF DockNext

(* A cleanup answers: the import is over, and "dead" means no container.   *)
LEMMA CleanedOwned ==
  ASSUME DockTypeOK, AttemptKept, ImportIsOwned, NEW who \in Cleaners,
         NEW ok \in BOOLEAN, Cleaned(who, ok), box' \in {box, "none"},
         ok => box' = "none", dk.wait # "collecting",
         who \in {"stop", "finalize"} => att.in = "live",
         who = "recover" => server = "starting"
  PROVE  ImportIsOwned'
<1>1. /\ dk'.clean = "nobody" /\ dk'.start = "idle"
      /\ dk'.wait \in {dk.wait, "none"}
  <2>1. CASE who \in {"setup", "recover"}
    BY <2>1, NoAttemptTyped DEF Cleaned, DockTypeOK, Tasks
  <2>2. CASE who \in {"stop", "finalize"}
    <3>1. dk.start = "idle"
      BY <2>2 DEF AttemptKept
    <3> QED
      BY <2>2, <3>1, NoAttemptTyped DEF Cleaned, DockTypeOK, Tasks
  <2> QED
    BY <2>1, <2>2 DEF Cleaners
<1>2. claimed' => claimed \/ ok
  <2>1. CASE who = "setup"
    BY <2>1 DEF Cleaned
  <2>2. CASE who \in {"stop", "finalize"}
    BY <2>2 DEF Cleaned
  <2>3. CASE who = "recover"
    BY <2>3 DEF Cleaned
  <2> QED
    BY <2>1, <2>2, <2>3 DEF Cleaners
<1>3. imp' = Calm
  BY DEF Cleaned
<1>4. (claimed => box = "none")'
  BY <1>2 DEF ImportIsOwned
<1> QED
  BY <1>1, <1>3, <1>4, CalmTyped DEF ImportIsOwned

(* One import at a time, and only while its owner waits for it.            *)
LEMMA DockOwnedKept ==
  ASSUME LaunchTypeOK, ImportTypeOK, DockTypeOK, JournalKept, AttemptKept,
         ImportIsOwned, DockNext
  PROVE  ImportIsOwned'
<1> USE DEF ImportIsOwned, DockTypeOK, launchVars, importVars, dockVars
<1>1. CASE ExecEnds
  BY <1>1 DEF ExecEnds
<1>2. CASE BoxClaims
  BY <1>2 DEF BoxClaims, Tasks
<1>3. CASE BoxPrepares
  <2>1. /\ dk.start = "root" /\ server = "up" /\ UNCHANGED <<imp, box, server>>
        /\ UNCHANGED claimed /\ dk'.wait = dk.wait /\ dk'.clean = dk.clean
    BY <1>3 DEF BoxPrepares, Prepares, Up, On, Fails, Tasks
  <2>2. ~claimed /\ dk.clean \in {"nobody", "recover"}
    BY <2>1, NoAttemptTyped DEF Attempts, AttemptKept
  <2> QED
    BY <2>1, <2>2
<1>4. CASE BoxCreates
  <2>1. /\ dk.start = "create" /\ UNCHANGED <<imp, att, server, claimed>>
        /\ dk'.wait = dk.wait /\ dk'.clean = dk.clean
    BY <1>4 DEF BoxCreates, SetsUp, Fails, Tasks
  <2>2. ~claimed /\ dk.clean = "nobody"
    BY <2>1 DEF Attempts, AttemptKept, Tasks, Cleaners
  <2> QED
    BY <2>1, <2>2
<1>5. CASE BoxRuns
  <2>1. /\ dk.start = "run" /\ UNCHANGED <<imp, att, server, claimed>>
        /\ dk'.wait = dk.wait /\ dk'.clean = dk.clean
    BY <1>5 DEF BoxRuns, SetsUp, Fails, Tasks
  <2>2. ~claimed /\ dk.clean = "nobody"
    BY <2>1 DEF Attempts, AttemptKept, Tasks, Cleaners
  <2> QED
    BY <2>1, <2>2
<1>6. CASE BoxExecs
  <2>1. /\ dk.start = "exec" /\ UNCHANGED <<imp, box, server, claimed>>
        /\ dk'.clean = dk.clean /\ dk'.wait \in {dk.wait, "wait"}
    BY <1>6 DEF BoxExecs, Fails, Tasks
  <2>2. ~claimed /\ dk.clean = "nobody" /\ dk.wait = "none"
    BY <2>1 DEF Attempts, AttemptKept, Tasks, Cleaners
  <2> QED
    BY <2>1, <2>2
<1>7. CASE BoxReaps
  <2>1. /\ dk.start = "reap" /\ UNCHANGED <<imp, box, server, claimed>>
        /\ dk'.clean = dk.clean /\ dk'.wait = dk.wait
    BY <1>7 DEF BoxReaps, Tasks
  <2>2. ~claimed /\ dk.clean = "nobody"
    BY <2>1 DEF Attempts, AttemptKept, Tasks, Cleaners
  <2> QED
    BY <2>1, <2>2
<1>8. CASE BoxReapsLate
  BY <1>8 DEF BoxReapsLate, Attempts
<1>9. CASE ExecReaped
  <2>1. /\ dk'.wait \notin {"none", "collecting"}
        /\ dk.wait \notin {"none", "collecting"}
        /\ dk'.clean = dk.clean /\ dk'.start = dk.start
        /\ UNCHANGED <<imp, server, claimed>>
    BY <1>9 DEF ExecReaped, Waits, WaitTo, Tasks, Fails
  <2>2. att'.exited = att.exited /\ (box = "none" => box' = "none")
    BY <1>9 DEF ExecReaped, Attempts
  <2> QED
    BY <2>1, <2>2
<1>10. CASE Classifies
  <2>1. /\ dk'.wait \notin {"none", "collecting"}
        /\ dk.wait \notin {"none", "collecting"}
        /\ dk'.clean = dk.clean /\ dk'.start = dk.start
        /\ UNCHANGED <<imp, server, claimed>>
    BY <1>10 DEF Classifies, Waits, WaitTo, Tasks, Fails, StopsImport
  <2>2. att'.exited = att.exited /\ (box = "none" => box' = "none")
    BY <1>10 DEF Classifies, Attempts
  <2> QED
    BY <2>1, <2>2
<1>11. CASE Terminates
  <2>1. /\ dk'.wait \notin {"none", "collecting"}
        /\ dk.wait \notin {"none", "collecting"}
        /\ dk'.clean = dk.clean /\ dk'.start = dk.start
        /\ UNCHANGED <<imp, server, claimed>>
    BY <1>11 DEF Terminates, Waits, WaitTo, Tasks, Fails
  <2>2. att'.exited = att.exited /\ (box = "none" => box' = "none")
    BY <1>11 DEF Terminates, Attempts, Killed, Alive
  <2> QED
    BY <2>1, <2>2
<1>12. CASE Pauses
  <2>1. /\ dk'.wait \notin {"none", "collecting"}
        /\ dk.wait \notin {"none", "collecting"}
        /\ dk'.clean = dk.clean /\ dk'.start = dk.start
        /\ UNCHANGED <<imp, server, claimed>>
    BY <1>12 DEF Pauses, Waits, WaitTo, Tasks, Fails
  <2>2. att'.exited = att.exited /\ (box = "none" => box' = "none")
    BY <1>12 DEF Pauses, Attempts
  <2> QED
    BY <2>1, <2>2
<1>13. CASE Exports
  <2>1. /\ dk'.wait \notin {"none", "collecting"}
        /\ dk.wait \notin {"none", "collecting"}
        /\ dk'.clean = dk.clean /\ dk'.start = dk.start
        /\ UNCHANGED <<imp, server, claimed>>
    BY <1>13 DEF Exports, Waits, WaitTo, Tasks, Fails
  <2>2. att'.exited = att.exited /\ (box = "none" => box' = "none")
    BY <1>13 DEF Exports, Attempts
  <2> QED
    BY <2>1, <2>2
<1>14. CASE ProvesDead
  <2>1. /\ dk'.wait \notin {"none", "collecting"}
        /\ dk.wait \notin {"none", "collecting"}
        /\ dk'.clean = dk.clean /\ dk'.start = dk.start
        /\ UNCHANGED <<imp, server, claimed>>
    BY <1>14 DEF ProvesDead, Waits, WaitTo, Tasks, Fails, AfterDeathProof
  <2>2. att'.exited = att.exited /\ (box = "none" => box' = "none")
    BY <1>14 DEF ProvesDead, Attempts, Killed, Alive
  <2> QED
    BY <2>1, <2>2
<1>15. CASE Collects
  <2>1. /\ imp = Calm /\ imp' = [by |-> "collect", at |-> "check", n |-> 1]
        /\ dk'.wait = "collecting" /\ dk'.clean = dk.clean
        /\ dk'.start = dk.start /\ UNCHANGED <<box, att, server, claimed>>
    BY <1>15 DEF Collects, WaitTo, Tasks
  <2>2. dk.clean = "nobody"
    BY <2>1, CalmTyped
  <2> QED
    BY <2>1, <2>2
<1>16. CASE Collected
  <2>1. /\ dk.wait = "collecting" /\ imp' = Calm /\ dk'.wait = "end"
        /\ dk'.clean = dk.clean /\ dk'.start = dk.start
        /\ UNCHANGED <<box, att, server, claimed>>
    BY <1>16 DEF Collected, Waits, WaitTo, Tasks
  <2> QED
    BY <2>1, CalmTyped
<1>17. CASE WaitEnds
  <2>1. /\ dk.wait = "end" /\ dk'.wait = "none"
        /\ dk'.clean = dk.clean /\ dk'.start = dk.start /\ att'.exited
        /\ UNCHANGED <<imp, box, server, claimed>>
    BY <1>17 DEF WaitEnds, Waits, WaitTo, Tasks, Attempts
  <2> QED
    BY <2>1
<1>18. CASE Expires
  BY <1>18 DEF Expires, Attempts
<1>19. CASE BoxStops
  BY <1>19 DEF BoxStops, Tasks, Attempts
<1>20. CASE BoxForces
  BY <1>20 DEF BoxForces, Tasks, Fails
<1>21. CASE StopSees
  BY <1>21 DEF StopSees, Tasks
<1>22. CASE BoxAnswers
  <2>1. /\ att.in = "recovered" /\ claimed'
        /\ UNCHANGED <<server, imp, box, att, dk>>
    BY <1>22 DEF BoxAnswers, Claims
  <2>2. box = "none" /\ dk.start = "idle"
    BY <2>1 DEF AttemptKept
  <2> QED
    BY <2>1, <2>2
<1>23. CASE BoxDrains
  BY <1>23 DEF BoxDrains, Attempts
<1>24. ASSUME NEW who \in Cleaners, CleanRemoves(who)
      PROVE  ImportIsOwned'
  <2> PICK ok \in BOOLEAN :
         /\ box' \in IF ok THEN {"none"} ELSE {box, "none"}
         /\ \/ /\ ok /\ dk' = [dk EXCEPT !.clean = who]
               /\ imp' = [by |-> "cleanup", at |-> "undoCheck", n |-> 1]
               /\ UNCHANGED <<server, claimed, att>>
            \/ Cleaned(who, FALSE)
    BY <1>24 DEF CleanRemoves, Gone
  <2>1. MayClean(who) /\ dk.clean = "nobody" /\ imp = Calm
    BY <1>24 DEF CleanRemoves
  <2>2. dk.wait # "collecting" /\ box' \in {box, "none"}
    BY <2>1, CalmTyped
  <2>3. /\ who = "setup" => dk.start \in {"clean", "cleanUnsure"}
        /\ who \in {"stop", "finalize"} => att.in = "live" /\ att.exited
        /\ who = "recover" => server = "starting" /\ dk.start = "idle"
    BY <2>1 DEF MayClean, Cleaners, AttemptKept
  <2>4. CASE Cleaned(who, FALSE)
    BY <2>1, <2>2, <2>3, <2>4, CleanedOwned
  <2>5. CASE /\ ok /\ dk' = [dk EXCEPT !.clean = who]
             /\ imp' = [by |-> "cleanup", at |-> "undoCheck", n |-> 1]
             /\ UNCHANGED <<server, claimed, att>>
    <3>1. /\ dk'.clean = who /\ dk'.wait = dk.wait /\ dk'.start = dk.start
          /\ box' = "none"
      BY <2>5 DEF Tasks
    <3> QED
      BY <2>2, <2>3, <2>5, <3>1 DEF Cleaners
  <2> QED
    BY <2>4, <2>5
<1>25. CASE CleanEnds
  <2> PICK ok \in BOOLEAN : Cleaned(dk.clean, ok)
    BY <1>25 DEF CleanEnds
  <2>1. dk.clean \in Cleaners /\ UNCHANGED box /\ box = "none"
    BY <1>25 DEF CleanEnds, Tasks
  <2>2. dk.wait # "collecting"
    BY <2>1 DEF Cleaners
  <2>3. dk.clean \in {"stop", "finalize"} => att.in = "live"
    BY DEF AttemptKept, Attempts
  <2> QED
    BY <2>1, <2>2, <2>3, CleanedOwned
<1>26. CASE FinalizesRecovered
  <2>1. att.in = "recovered" /\ UNCHANGED <<server, claimed, imp, box, dk>>
    BY <1>26 DEF FinalizesRecovered
  <2>2. dk.clean = "nobody"
    BY <2>1 DEF AttemptKept
  <2> QED
    BY <2>1, <2>2
<1>27. CASE DockerLost
  BY <1>27, NoAttemptTyped, CalmTyped DEF DockerLost, Lost, ImportLost
<1>28. CASE DockerStarts
  <2>1. server = "down" /\ UNCHANGED <<claimed, imp, box, att, dk>>
    BY <1>28 DEF DockerStarts
  <2>2. dk.clean = "nobody" /\ dk.wait = "none"
    BY <2>1, NoAttemptTyped DEF AttemptKept
  <2> QED
    BY <2>1, <2>2
<1>29. CASE ImportNext /\ UNCHANGED dockVars
  <2>1. UNCHANGED <<server, claimed, box, att, dk>>
    BY <1>29, ImportFrame
  <2>2. imp'.by = imp.by /\ (imp.at = "idle" => imp' = imp)
    BY <1>29, ImportFrame
  <2> QED
    BY <2>1, <2>2, CalmTyped
<1> QED
  BY <1>1, <1>2, <1>3, <1>4, <1>5, <1>6, <1>7, <1>8, <1>9, <1>10, <1>11,
     <1>12, <1>13, <1>14, <1>15, <1>16, <1>17, <1>18, <1>19, <1>20, <1>21,
     <1>22, <1>23, <1>24, <1>25, <1>26, <1>27, <1>28, <1>29 DEF DockNext


(* While nobody imports, worktrees and journal are as they were left.      *)
LEMMA JournalSame ==
  ASSUME JournalKept, UNCHANGED <<tree, journal>>,
         \/ imp' = imp
         \/ imp'.at \in {"idle", "check", "undoCheck", "good", "bad"}
  PROVE  JournalKept'
<1>1. ASSUME NEW kinds PROVE All(kinds)' <=> All(kinds)
  BY DEF All
<1>2. ImportIsAllOrNothing'
  BY <1>1 DEF JournalKept, ImportIsAllOrNothing
<1> QED
  BY <1>1, <1>2 DEF JournalKept

(* The Docker supervisor starts and drops imports only where the journal   *)
(* allows it.                                                              *)
LEMMA DockJournalKept ==
  ASSUME LaunchTypeOK, ImportTypeOK, DockTypeOK, JournalKept, AttemptKept,
         ImportIsOwned, DockNext
  PROVE  JournalKept'
<1>1. CASE ExecEnds
  <2>1. UNCHANGED <<tree, journal, imp>>
    BY <1>1 DEF ExecEnds, importVars
  <2> QED
    BY <2>1, JournalSame
<1>2. CASE BoxClaims
  <2>1. UNCHANGED <<tree, journal, imp>>
    BY <1>2 DEF BoxClaims, importVars
  <2> QED
    BY <2>1, JournalSame
<1>3. CASE BoxPrepares
  <2>1. CASE UNCHANGED importVars
    BY <2>1, JournalSame DEF importVars
  <2>2. CASE Prepares
    <3>1. dk.start = "root" /\ server = "up"
      BY <1>3 DEF BoxPrepares, Up, On
    <3>2. dk.clean \in {"nobody", "recover"} /\ dk.wait = "none"
      BY <3>1 DEF AttemptKept, DockTypeOK, Attempts
    <3>3. imp = Calm
      BY <3>1, <3>2 DEF ImportIsOwned
    <3>4. tree' = [r \in Repos |-> "before"] /\ imp' = imp
      BY <2>2 DEF Prepares
    <3>5. All({"before"} \cup Edited)'
      BY <3>4 DEF All
    <3> QED
      BY <3>3, <3>4, <3>5, CalmTyped DEF JournalKept, ImportIsAllOrNothing
  <2> QED
    BY <1>3, <2>1, <2>2 DEF BoxPrepares
<1>4. CASE BoxCreates
  <2>1. UNCHANGED <<tree, journal, imp>>
    BY <1>4 DEF BoxCreates, SetsUp, importVars
  <2> QED
    BY <2>1, JournalSame
<1>5. CASE BoxRuns
  <2>1. UNCHANGED <<tree, journal, imp>>
    BY <1>5 DEF BoxRuns, SetsUp, importVars
  <2> QED
    BY <2>1, JournalSame
<1>6. CASE BoxExecs
  <2>1. UNCHANGED <<tree, journal, imp>>
    BY <1>6 DEF BoxExecs, importVars
  <2> QED
    BY <2>1, JournalSame
<1>7. CASE BoxReaps
  <2>1. UNCHANGED <<tree, journal, imp>>
    BY <1>7 DEF BoxReaps, importVars
  <2> QED
    BY <2>1, JournalSame
<1>8. CASE BoxReapsLate
  <2>1. UNCHANGED <<tree, journal, imp>>
    BY <1>8 DEF BoxReapsLate, importVars
  <2> QED
    BY <2>1, JournalSame
<1>9. CASE ExecReaped
  <2>1. UNCHANGED <<tree, journal, imp>>
    BY <1>9 DEF ExecReaped, importVars
  <2> QED
    BY <2>1, JournalSame
<1>10. CASE Classifies
  <2>1. UNCHANGED <<tree, journal, imp>>
    BY <1>10 DEF Classifies, importVars
  <2> QED
    BY <2>1, JournalSame
<1>11. CASE Terminates
  <2>1. UNCHANGED <<tree, journal, imp>>
    BY <1>11 DEF Terminates, importVars
  <2> QED
    BY <2>1, JournalSame
<1>12. CASE Pauses
  <2>1. UNCHANGED <<tree, journal, imp>>
    BY <1>12 DEF Pauses, importVars
  <2> QED
    BY <2>1, JournalSame
<1>13. CASE Exports
  <2>1. UNCHANGED <<tree, journal, imp>>
    BY <1>13 DEF Exports, importVars
  <2> QED
    BY <2>1, JournalSame
<1>14. CASE ProvesDead
  <2>1. UNCHANGED <<tree, journal, imp>>
    BY <1>14 DEF ProvesDead, importVars
  <2> QED
    BY <2>1, JournalSame
<1>15. CASE Collects
  <2>1. imp'.at = "check" /\ UNCHANGED <<tree, journal>>
    BY <1>15 DEF Collects
  <2> QED
    BY <2>1, JournalSame
<1>16. CASE Collected
  <2>1. imp' = Calm /\ UNCHANGED <<tree, journal>>
    BY <1>16 DEF Collected
  <2> QED
    BY <2>1, CalmTyped, JournalSame
<1>17. CASE WaitEnds
  <2>1. UNCHANGED <<tree, journal, imp>>
    BY <1>17 DEF WaitEnds, importVars
  <2> QED
    BY <2>1, JournalSame
<1>18. CASE Expires
  <2>1. UNCHANGED <<tree, journal, imp>>
    BY <1>18 DEF Expires, importVars
  <2> QED
    BY <2>1, JournalSame
<1>19. CASE BoxStops
  <2>1. UNCHANGED <<tree, journal, imp>>
    BY <1>19 DEF BoxStops, importVars
  <2> QED
    BY <2>1, JournalSame
<1>20. CASE BoxForces
  <2>1. UNCHANGED <<tree, journal, imp>>
    BY <1>20 DEF BoxForces, importVars
  <2> QED
    BY <2>1, JournalSame
<1>21. CASE StopSees
  <2>1. UNCHANGED <<tree, journal, imp>>
    BY <1>21 DEF StopSees, importVars
  <2> QED
    BY <2>1, JournalSame
<1>22. CASE BoxAnswers
  <2>1. UNCHANGED <<tree, journal, imp>>
    BY <1>22 DEF BoxAnswers, importVars
  <2> QED
    BY <2>1, JournalSame
<1>23. CASE BoxDrains
  <2>1. UNCHANGED <<tree, journal, imp>>
    BY <1>23 DEF BoxDrains, importVars
  <2> QED
    BY <2>1, JournalSame
<1>24. ASSUME NEW who \in Cleaners, CleanRemoves(who)
      PROVE  JournalKept'
  <2>1. /\ imp' \in {[by |-> "cleanup", at |-> "undoCheck", n |-> 1], Calm}
        /\ UNCHANGED <<tree, journal>>
    BY <1>24 DEF CleanRemoves, Cleaned
  <2> QED
    BY <2>1, CalmTyped, JournalSame
<1>25. CASE CleanEnds
  <2>1. imp' = Calm /\ UNCHANGED <<tree, journal>>
    BY <1>25 DEF CleanEnds, Cleaned
  <2> QED
    BY <2>1, CalmTyped, JournalSame
<1>26. CASE FinalizesRecovered
  <2>1. UNCHANGED <<tree, journal, imp>>
    BY <1>26 DEF FinalizesRecovered, importVars
  <2> QED
    BY <2>1, JournalSame
<1>27. CASE DockerLost
  <2>1. imp' = Calm /\ tree' = tree
    BY <1>27 DEF DockerLost, ImportLost
  <2>2. CASE imp.at = "journal"
    <3>1. All({"before"} \cup Edited)'
      BY <2>1, <2>2 DEF JournalKept, All
    <3> QED
      BY <2>1, <3>1, CalmTyped DEF JournalKept, ImportIsAllOrNothing
  <2>3. CASE imp.at # "journal"
    <3>1. journal' = journal
      BY <1>27, <2>3 DEF DockerLost, ImportLost
    <3> QED
      BY <2>1, <3>1, CalmTyped, JournalSame
  <2> QED
    BY <2>2, <2>3
<1>28. CASE DockerStarts
  <2>1. UNCHANGED <<tree, journal, imp>>
    BY <1>28 DEF DockerStarts, importVars
  <2> QED
    BY <2>1, JournalSame
<1>29. CASE ImportNext /\ UNCHANGED dockVars
  BY <1>29, ImportJournalKept
<1> QED
  BY <1>1, <1>2, <1>3, <1>4, <1>5, <1>6, <1>7, <1>8, <1>9, <1>10, <1>11,
     <1>12, <1>13, <1>14, <1>15, <1>16, <1>17, <1>18, <1>19, <1>20, <1>21,
     <1>22, <1>23, <1>24, <1>25, <1>26, <1>27, <1>28, <1>29 DEF DockNext

(***************************************************************************)
(* Both supervisors together.                                              *)
(***************************************************************************)
(* The target of an Attempt is frozen.                                     *)
LEMMA HostTargetKept ==
  ASSUME HostNext
  PROVE  target' = target
<1> USE DEF launchVars
<1>1. CASE TargetExecutes
  BY <1>1 DEF TargetExecutes
<1>2. CASE LeaderExits
  BY <1>2 DEF LeaderExits
<1>3. CASE Forks
  BY <1>3 DEF Forks
<1>4. CASE KinExits
  BY <1>4 DEF KinExits
<1>5. CASE NumberMoves
  BY <1>5 DEF NumberMoves
<1>6. CASE StartClaims
  BY <1>6 DEF StartClaims
<1>7. CASE StartWrites
  BY <1>7 DEF StartWrites
<1>8. CASE StartRefuses
  BY <1>8 DEF StartRefuses
<1>9. CASE StartSpawns
  BY <1>9 DEF StartSpawns
<1>10. CASE StartIdentifies
  BY <1>10 DEF StartIdentifies, Persists, PersistFails
<1>11. CASE StartContains
  BY <1>11 DEF StartContains
<1>12. CASE StartReleases
  BY <1>12 DEF StartReleases
<1>13. CASE StartAborts
  BY <1>13 DEF StartAborts
<1>14. ASSUME NEW who \in {"start", "stop", "stream"}, TermProbes(who)
      PROVE  target' = target
  BY <1>14 DEF TermProbes
<1>15. ASSUME NEW who \in {"start", "stop", "stream"}, TermFindsNothing(who)
      PROVE  target' = target
  BY <1>15 DEF TermFindsNothing, Returns, MarksUncertain, Persists,
     PersistFails
<1>16. CASE TermSignals
  BY <1>16 DEF TermSignals, Returns, MarksUncertain, Persists, PersistFails
<1>17. CASE TermKills
  BY <1>17 DEF TermKills, Returns, MarksUncertain, Persists, PersistFails
<1>18. CASE TermProves
  BY <1>18 DEF TermProves, Returns, MarksUncertain, Persists, PersistFails
<1>19. CASE TermGivesUp
  BY <1>19 DEF TermGivesUp, Returns, MarksUncertain, Persists, PersistFails
<1>20. CASE StopAsks
  BY <1>20 DEF StopAsks
<1>21. CASE StopAnswers
  BY <1>21 DEF StopAnswers, Claims
<1>22. CASE WaitReaps
  BY <1>22 DEF WaitReaps
<1>23. CASE WaitNotes
  BY <1>23 DEF WaitNotes
<1>24. CASE WaitProves
  BY <1>24 DEF WaitProves
<1>25. CASE WaitGivesUp
  BY <1>25 DEF WaitGivesUp, MarksUncertain, Persists, PersistFails
<1>26. CASE MarkSaves
  BY <1>26 DEF MarkSaves, Persists, PersistFails
<1>27. CASE ReconcileAnswers
  BY <1>27 DEF ReconcileAnswers, Claims
<1>28. CASE ReconcileProves
  BY <1>28 DEF ReconcileProves
<1>29. CASE Drain
  BY <1>29 DEF Drain
<1>30. CASE FinalizeRemoves
  BY <1>30 DEF FinalizeRemoves
<1>31. CASE FinalizeEnds
  BY <1>31 DEF FinalizeEnds
<1>32. CASE HostLost
  BY <1>32 DEF HostLost, Lost
<1>33. CASE HostRecovers
  BY <1>33 DEF HostRecovers
<1> QED
  BY <1>1, <1>2, <1>3, <1>4, <1>5, <1>6, <1>7, <1>8, <1>9, <1>10, <1>11,
     <1>12, <1>13, <1>14, <1>15, <1>16, <1>17, <1>18, <1>19, <1>20, <1>21,
     <1>22, <1>23, <1>24, <1>25, <1>26, <1>27, <1>28, <1>29, <1>30, <1>31,
     <1>32, <1>33 DEF HostNext

(* The target of an Attempt is frozen.                                     *)
LEMMA DockTargetKept ==
  ASSUME LaunchTypeOK, ImportTypeOK, JournalKept, DockNext
  PROVE  target' = target
<1> USE DEF launchVars
<1>1. CASE ExecEnds
  BY <1>1 DEF ExecEnds
<1>2. CASE BoxClaims
  BY <1>2 DEF BoxClaims
<1>3. CASE BoxPrepares
  BY <1>3 DEF BoxPrepares, Fails
<1>4. CASE BoxCreates
  BY <1>4 DEF BoxCreates, SetsUp, Fails
<1>5. CASE BoxRuns
  BY <1>5 DEF BoxRuns, SetsUp, Fails
<1>6. CASE BoxExecs
  BY <1>6 DEF BoxExecs, Fails
<1>7. CASE BoxReaps
  BY <1>7 DEF BoxReaps
<1>8. CASE BoxReapsLate
  BY <1>8 DEF BoxReapsLate
<1>9. CASE ExecReaped
  BY <1>9 DEF ExecReaped
<1>10. CASE Classifies
  BY <1>10 DEF Classifies
<1>11. CASE Terminates
  BY <1>11 DEF Terminates, Fails
<1>12. CASE Pauses
  BY <1>12 DEF Pauses, Fails
<1>13. CASE Exports
  BY <1>13 DEF Exports, Fails
<1>14. CASE ProvesDead
  BY <1>14 DEF ProvesDead, Fails
<1>15. CASE Collects
  BY <1>15 DEF Collects
<1>16. CASE Collected
  BY <1>16 DEF Collected
<1>17. CASE WaitEnds
  BY <1>17 DEF WaitEnds
<1>18. CASE Expires
  BY <1>18 DEF Expires
<1>19. CASE BoxStops
  BY <1>19 DEF BoxStops
<1>20. CASE BoxForces
  BY <1>20 DEF BoxForces, Fails
<1>21. CASE StopSees
  BY <1>21 DEF StopSees
<1>22. CASE BoxAnswers
  BY <1>22 DEF BoxAnswers, Claims
<1>23. CASE BoxDrains
  BY <1>23 DEF BoxDrains
<1>24. ASSUME NEW who \in Cleaners, CleanRemoves(who)
      PROVE  target' = target
  BY <1>24 DEF CleanRemoves, Cleaned
<1>25. CASE CleanEnds
  BY <1>25 DEF CleanEnds, Cleaned
<1>26. CASE FinalizesRecovered
  BY <1>26 DEF FinalizesRecovered
<1>27. CASE DockerLost
  BY <1>27 DEF DockerLost, Lost
<1>28. CASE DockerStarts
  BY <1>28 DEF DockerStarts
<1>29. CASE ImportNext /\ UNCHANGED dockVars
  BY <1>29, ImportFrame
<1> QED
  BY <1>1, <1>2, <1>3, <1>4, <1>5, <1>6, <1>7, <1>8, <1>9, <1>10, <1>11,
     <1>12, <1>13, <1>14, <1>15, <1>16, <1>17, <1>18, <1>19, <1>20, <1>21,
     <1>22, <1>23, <1>24, <1>25, <1>26, <1>27, <1>28, <1>29 DEF DockNext

(* The initial states satisfy the invariant.                               *)
LEMMA HostBegins == HostInit => HostTypeOK /\ HostInv
<1> SUFFICES ASSUME HostInit PROVE HostTypeOK /\ HostInv
  OBVIOUS
<1>1. /\ NoRecord \in Records /\ Quiet \in Threads /\ NoTerm \in Terminations
      /\ [is |-> "none", exact |-> FALSE] \in Disks
  BY DEF NoRecord, Records, Quiet, Threads, NoTerm, Terminations, Disks
<1>2. HostTypeOK
  BY <1>1 DEF HostInit, HostTypeOK
<1>3. /\ NoRecord.in = "none" /\ ~NoRecord.saved /\ Quiet.start = "idle"
      /\ Quiet.wait = "none" /\ ~Quiet.mark /\ ~Quiet.remove
      /\ NoRecord.state = "running"
  BY DEF NoRecord, Quiet
<1>4. /\ rec = NoRecord /\ th = Quiet /\ term = NoTerm /\ leader = "none"
      /\ ~kin /\ ~reused /\ ~hit /\ disk.is = "none"
  BY DEF HostInit
<1> QED
  BY <1>2, <1>3, <1>4
     DEF HostInv, RecordKept, StartKnows, ChildIsKnown, HostChildIsRecorded,
         HostDeathIsReal, SignalsStayInGroup

(* No import, no journal, untouched worktrees.                             *)
LEMMA ImportBegins == ImportInit => ImportTypeOK /\ JournalKept
<1> SUFFICES ASSUME ImportInit PROVE ImportTypeOK /\ JournalKept
  OBVIOUS
<1>1. /\ tree = [r \in Repos |-> "before"] /\ journal = "none" /\ imp = Calm
      /\ edits = 0
  BY DEF ImportInit
<1>2. ImportTypeOK
  BY <1>1, CalmTyped, ImportAssumption DEF ImportTypeOK, Trees
<1>3. All({"before"} \cup Edited)
  BY <1>1 DEF All
<1> QED
  BY <1>1, <1>2, <1>3, CalmTyped DEF JournalKept, ImportIsAllOrNothing

(* No container and no Attempt.                                            *)
LEMMA DockBegins ==
  ASSUME LaunchInit, DockInit, imp = Calm
  PROVE  DockTypeOK /\ DockInv
<1>1. /\ box = "none" /\ cli = "none" /\ root = "none" /\ att = NoAttempt
      /\ dk = Idle /\ server = "up" /\ ~claimed
  BY DEF LaunchInit, DockInit
<1>2. DockTypeOK
  BY <1>1, NoAttemptTyped DEF DockTypeOK
<1>3. AttemptKept
  BY <1>1, NoAttemptTyped DEF AttemptKept
<1>4. ImportIsOwned
  BY <1>1, NoAttemptTyped, CalmTyped DEF ImportIsOwned
<1> QED
  BY <1>2, <1>3, <1>4 DEF DockInv

(* Both supervisors before the first start.                                *)
LEMMA Begins == Init => Inv
<1> SUFFICES ASSUME Init PROVE Inv
  OBVIOUS
<1>1. LaunchInit /\ HostInit /\ ImportInit /\ DockInit
  BY DEF Init
<1>2. imp = Calm
  BY <1>1 DEF ImportInit
<1>3. LaunchTypeOK
  <2>1. 0 \in 0..MaxFaults /\ 0 \in 0..MaxLosses
    BY BoundsAssumption
  <2> QED
    BY <1>1, <2>1 DEF LaunchInit, LaunchTypeOK
<1>4. HostTypeOK /\ HostInv /\ ImportTypeOK /\ JournalKept
  BY <1>1, HostBegins, ImportBegins
<1>5. DockTypeOK /\ DockInv
  BY <1>1, <1>2, DockBegins
<1> QED
  BY <1>1, <1>3, <1>4, <1>5 DEF Inv, TypeOK

(* A step of the native supervisor leaves the other one where it began.    *)
LEMMA HostKeepsInv == Inv /\ OnHost => Inv'
<1> SUFFICES ASSUME Inv, OnHost PROVE Inv'
  OBVIOUS
<1>1. /\ target = "trusted_host" /\ HostNext
      /\ UNCHANGED <<importVars, dockVars>>
  BY DEF OnHost
<1>2. /\ LaunchTypeOK /\ HostTypeOK /\ ImportTypeOK /\ DockTypeOK
      /\ RecordKept /\ StartKnows /\ ChildIsKnown /\ ImportInit /\ DockInit
  BY <1>1 DEF Inv, TypeOK, HostInv
<1>3. target' = "trusted_host"
  BY <1>1, HostTargetKept
<1>4. LaunchTypeOK' /\ HostTypeOK'
  BY <1>1, <1>2, HostTypesKept
<1>5. HostInv'
  BY <1>1, <1>2, HostRecordKept, HostStartKnows, HostChildIsKnown DEF HostInv
<1>6. ImportTypeOK' /\ ImportInit'
  BY <1>1, <1>2 DEF importVars, ImportTypeOK, ImportInit
<1>7. DockTypeOK' /\ DockInit'
  BY <1>1, <1>2 DEF dockVars, DockTypeOK, DockInit
<1> QED
  BY <1>3, <1>4, <1>5, <1>6, <1>7 DEF Inv, TypeOK

(* And the other way round.                                                *)
LEMMA DockKeepsInv == Inv /\ InDocker => Inv'
<1> SUFFICES ASSUME Inv, InDocker PROVE Inv'
  OBVIOUS
<1>1. target = "docker" /\ DockNext /\ UNCHANGED hostVars
  BY DEF InDocker
<1>2. /\ LaunchTypeOK /\ HostTypeOK /\ ImportTypeOK /\ DockTypeOK
      /\ JournalKept /\ AttemptKept /\ ImportIsOwned /\ HostInit
  BY <1>1 DEF Inv, TypeOK, DockInv
<1>3. target' = "docker"
  BY <1>1, <1>2, DockTargetKept
<1>4. LaunchTypeOK' /\ ImportTypeOK' /\ DockTypeOK'
  BY <1>1, <1>2, DockTypesKept
<1>5. JournalKept' /\ DockInv'
  BY <1>1, <1>2, DockJournalKept, DockAttemptKept, DockOwnedKept DEF DockInv
<1>6. HostTypeOK' /\ HostInit'
  BY <1>1, <1>2 DEF hostVars, HostTypeOK, HostInit
<1> QED
  BY <1>3, <1>4, <1>5, <1>6 DEF Inv, TypeOK

(* A step of neither supervisor.                                           *)
LEMMA StutterKeepsInv == Inv /\ UNCHANGED vars => Inv'
<1> SUFFICES ASSUME Inv, UNCHANGED vars PROVE Inv'
  OBVIOUS
<1> USE DEF vars, launchVars, hostVars, importVars, dockVars
<1>1. TypeOK'
  BY DEF Inv, TypeOK, LaunchTypeOK, HostTypeOK, ImportTypeOK, DockTypeOK
<1>2. ASSUME target = "trusted_host"
      PROVE  HostInv' /\ ImportInit' /\ DockInit'
  <2>1. HostInv'
    BY <1>2 DEF Inv, HostInv, RecordKept, StartKnows, ChildIsKnown, AllDead,
                HostChildIsRecorded, HostDeathIsReal, SignalsStayInGroup
  <2> QED
    BY <1>2, <2>1 DEF Inv, ImportInit, DockInit
<1>3. ASSUME target = "docker"
      PROVE  JournalKept' /\ DockInv' /\ HostInit'
  <2>1. JournalKept'
    BY <1>3, JournalSame DEF Inv
  <2>2. DockInv'
    BY <1>3 DEF Inv, DockInv, AttemptKept, ImportIsOwned, Alive
  <2> QED
    BY <1>3, <2>1, <2>2 DEF Inv, HostInit
<1> QED
  BY <1>1, <1>2, <1>3 DEF Inv

(* What the invariant says of the properties the runs check.               *)
LEMMA InvImplies ==
  Inv => TypeOK /\ DeathIsReal /\ ChildIsOwned /\ ImportIsWhole
<1> SUFFICES ASSUME Inv
             PROVE  TypeOK /\ DeathIsReal /\ ChildIsOwned /\ ImportIsWhole
  OBVIOUS
<1>1. TypeOK /\ target \in {"trusted_host", "docker"}
  BY TargetsAssumption DEF Inv, TypeOK, LaunchTypeOK
<1>2. CASE target = "trusted_host"
  <2>1. /\ HostDeathIsReal /\ HostChildIsRecorded /\ SignalsStayInGroup
        /\ ImportInit /\ DockInit
    BY <1>2 DEF Inv, HostInv, ChildIsKnown
  <2>2. BoxDeathIsReal
    BY <2>1 DEF DockInit, BoxDeathIsReal
  <2>3. ImportsTheDead
    BY <2>1, CalmTyped DEF ImportInit, ImportsTheDead
  <2>4. ImportIsAllOrNothing
    BY <2>1, ImportBegins DEF JournalKept
  <2> QED
    BY <1>1, <2>1, <2>2, <2>3, <2>4
       DEF DeathIsReal, ChildIsOwned, ImportIsWhole
<1>3. CASE target = "docker"
  <2>1. JournalKept /\ AttemptKept /\ ImportIsOwned /\ HostInit
    BY <1>3 DEF Inv, DockInv
  <2>2. HostDeathIsReal /\ HostChildIsRecorded /\ SignalsStayInGroup
    BY <2>1
       DEF HostInit, HostDeathIsReal, HostChildIsRecorded, SignalsStayInGroup
  <2>3. BoxDeathIsReal
    BY <2>1 DEF AttemptKept, ImportIsOwned, BoxDeathIsReal
  <2>4. ImportsTheDead
    <3> SUFFICES ASSUME imp.by = "collect", imp # Calm
                 PROVE  ~Alive /\ ~att.timedOut
      BY DEF ImportsTheDead
    <3>1. dk.wait = "collecting"
      BY <2>1 DEF ImportIsOwned
    <3> QED
      BY <2>1, <3>1 DEF AttemptKept
  <2> QED
    BY <1>1, <2>1, <2>2, <2>3, <2>4
       DEF DeathIsReal, ChildIsOwned, ImportIsWhole, JournalKept
<1> QED
  BY <1>1, <1>2, <1>3

(* The invariant holds whatever fails, is lost or is edited, however       *)
(* often.                                                                  *)
THEOREM Safety == Spec => []Inv
<1>1. Inv /\ [Next]_vars => Inv'
  BY HostKeepsInv, DockKeepsInv, StutterKeepsInv DEF Next
<1> QED
  BY <1>1, Begins, PTL DEF Spec

(* Every variable of both supervisors keeps its type: a record in memory   *)
(* is never in a state that only a manifest can be in.                     *)
THEOREM TypeCorrect == Spec => []TypeOK
BY Safety, InvImplies, PTL

(* StopConfirmed, ReconcileDead, a terminal manifest and "no child" are    *)
(* given only when no process or container of the Attempt is left.         *)
THEOREM DeathsAreReal == Spec => []DeathIsReal
BY Safety, InvImplies, PTL

(* A native child that runs the target is on record for a restarted        *)
(* server, and no signal reaches whoever was given its number.             *)
THEOREM ChildrenAreOwned == Spec => []ChildIsOwned
BY Safety, InvImplies, PTL

(* Without a journal the worktrees of a Task hold all of an isolated       *)
(* result or none of it, and only a dead, untimed Attempt is imported.     *)
THEOREM ImportsAreWhole == Spec => []ImportIsWhole
BY Safety, InvImplies, PTL
-----------------------------------------------------------------------------
(***************************************************************************)
(* The refinement of SupervisedProcess.  Beyond Inv it needs that nothing  *)
(* is left where a launch may be claimed: a gated launcher keeps its       *)
(* manifest, and a container keeps its runtime root.                       *)
(***************************************************************************)
GateKept == leader = "gated" => /\ disk.is \in {"prepared", "running", "uncertain"}
                                /\ th.start \notin {"write", "spawn"}

RootKept == /\ root # "owned" => box = "none"
            /\ dk.start = "root" => root = "bare"
            /\ dk.start = "create" => box = "none"
            /\ dk.start \in {"create", "run"} => root = "owned"

LaunchKept == GateKept /\ RootKept

(* The steps of the contract, told by what may be made, lives and is       *)
(* answered before and after.                                              *)
Moves ==
  \/ /\ ~Launching /\ ~Living /\ Launching' /\ ~Living' /\ ~claimed'
  \/ /\ Launching /\ ~Launching' /\ (Living => Living') /\ claimed' = claimed
  \/ /\ Living /\ ~Living' /\ (Launching <=> Launching') /\ claimed' = claimed
  \/ ~Launching /\ ~Living /\ ~Launching' /\ ~Living' /\ claimed'
  \/ /\ (Launching <=> Launching') /\ (Living <=> Living')
     /\ claimed' = claimed

(* Each of them is a step of the contract.                                 *)
LEMMA MovesRefine == Moves => [Process!Next]_(Process!processVars)
<1> SUFFICES ASSUME Moves PROVE [Process!Next]_(Process!processVars)
  OBVIOUS
<1> DEFINE st == If(Launching)  al == If(Living)  pr == If(claimed)
<1>1. /\ st = (IF Launching THEN {"token"} ELSE {})
      /\ st' = (IF Launching' THEN {"token"} ELSE {})
      /\ al = (IF Living THEN {"token"} ELSE {})
      /\ al' = (IF Living' THEN {"token"} ELSE {})
      /\ pr = (IF claimed THEN {"token"} ELSE {})
      /\ pr' = (IF claimed' THEN {"token"} ELSE {})
  BY DEF If
<1> USE DEF Process!Next, Process!processVars
<1> SUFFICES \/ Process!Claim("token") \/ Process!Launch("token")
             \/ Process!Die("token") \/ Process!Prove("token")
             \/ UNCHANGED Process!processVars
  OBVIOUS
<1> HIDE DEF st, al, pr
<1>2. CASE /\ ~Launching /\ ~Living /\ Launching' /\ ~Living' /\ ~claimed'
  <2>1. st = {} /\ al = {} /\ st' = {"token"} /\ al' = al
        /\ pr' = pr \ {"token"}
    BY <1>1, <1>2
  <2> QED
    BY <2>1 DEF Process!Claim, st, al, pr
<1>3. CASE /\ Launching /\ ~Launching' /\ (Living => Living')
           /\ claimed' = claimed
  <2>1. "token" \in st /\ st' = st \ {"token"} /\ pr' = pr
        /\ al' \in {al, al \cup {"token"}}
    BY <1>1, <1>3
  <2> QED
    BY <2>1 DEF Process!Launch, st, al, pr
<1>4. CASE /\ Living /\ ~Living' /\ (Launching <=> Launching')
           /\ claimed' = claimed
  <2>1. "token" \in al /\ al' = al \ {"token"} /\ st' = st /\ pr' = pr
    BY <1>1, <1>4
  <2> QED
    BY <2>1 DEF Process!Die, st, al, pr
<1>5. CASE ~Launching /\ ~Living /\ ~Launching' /\ ~Living' /\ claimed'
  <2>1. "token" \notin st \cup al /\ st' = st /\ al' = al
        /\ pr' = pr \cup {"token"}
    BY <1>1, <1>5
  <2> QED
    BY <2>1 DEF Process!Prove, st, al, pr
<1>6. CASE /\ (Launching <=> Launching') /\ (Living <=> Living')
           /\ claimed' = claimed
  <2>1. st' = st /\ al' = al /\ pr' = pr
    BY <1>1, <1>6
  <2> QED
    BY <2>1 DEF st, al, pr
<1> QED
  BY <1>2, <1>3, <1>4, <1>5, <1>6 DEF Moves

(* What terminateAndProve's return leaves as it was.                       *)
LEMMA ReturnMoves ==
  ASSUME LaunchTypeOK, HostTypeOK, NEW by, NEW proved \in BOOLEAN,
         Returns(by, proved)
  PROVE  /\ disk' = disk \/ disk'.is = "uncertain"
         /\ th'.start \in {"idle", th.start} /\ UNCHANGED claimed
<1>1. disk' \in {disk, [is |-> "uncertain", exact |-> rec.exact]}
  BY ReturnFrame
<1>2. th'.start = IF by = "start" THEN "idle" ELSE th.start
  BY ReturnFrame
<1>3. UNCHANGED claimed
  BY ReturnFrame
<1> QED
  BY <1>1, <1>2, <1>3

(* Nothing but Start makes a process of the host, and only its claim may   *)
(* take back what was answered.                                            *)
LEMMA HostMoves ==
  ASSUME LaunchTypeOK, HostTypeOK, RecordKept, StartKnows, ChildIsKnown,
         GateKept, DockInit, DockInit', HostNext
  PROVE  GateKept' /\ Moves
<1> DEFINE Spawning == th.start \in {"write", "spawn"}
           Running == leader \in {"gated", "executing"} \/ kin
<1>a. /\ Launching <=> Spawning
      /\ (Launching <=> Spawning)'
      /\ Living <=> Running
      /\ (Living <=> Running)'
  BY DEF Launching, Living, Alive, DockInit, Idle
<1>b. /\ Spawning => rec.in = "none" /\ ~claimed
      /\ disk.is \in {"none", "bare", "terminal"} => leader # "gated"
      /\ disk.is \notin {"running", "uncertain"} =>
           leader # "executing" /\ ~kin
      /\ claimed \/ (rec.in # "none" /\ rec.state = "terminal") => ~Running
      /\ rec.in = "none" => rec = NoRecord /\ term = NoTerm /\ ~th.mark
  BY DEF RecordKept, StartKnows, ChildIsKnown, GateKept, HostChildIsRecorded,
         HostDeathIsReal, HostTypeOK
<1>c. ASSUME Spawning <=> Spawning', UNCHANGED <<leader, kin, claimed>>
      PROVE  Moves
  BY <1>a, <1>c DEF Moves
<1>d. ASSUME ~Spawning, ~Spawning', UNCHANGED claimed, Running' => Running
      PROVE  Moves
  BY <1>a, <1>d DEF Moves
<1> USE DEF GateKept, HostTypeOK, launchVars
<1> HIDE DEF Running
<1>1. CASE TargetExecutes
  BY <1>1, <1>a, <1>b DEF TargetExecutes, Moves, Running, StartKnows
<1>2. CASE LeaderExits
  BY <1>2, <1>a, <1>b DEF LeaderExits, Moves, Running, Exited, StartKnows
<1>3. CASE Forks
  BY <1>3, <1>a, <1>b DEF Forks, Moves, Running, StartKnows
<1>4. CASE KinExits
  BY <1>4, <1>a, <1>b DEF KinExits, Moves, Running, StartKnows
<1>5. CASE NumberMoves
  BY <1>5, <1>b, <1>c DEF NumberMoves, On, Threads, Disks
<1>6. CASE StartClaims
  <2>1. ~Running /\ ~Spawning /\ leader # "gated"
    BY <1>6, <1>b DEF StartClaims, Running
  <2>2. /\ Spawning' /\ ~claimed' /\ UNCHANGED <<leader, kin>>
    BY <1>6 DEF StartClaims, Threads
  <2>3. ~Running'
    BY <2>1, <2>2 DEF Running
  <2> QED
    BY <1>a, <2>1, <2>2, <2>3 DEF Moves
<1>7. CASE StartWrites
  <2>1. /\ Spawning /\ leader # "gated" /\ UNCHANGED <<leader, kin, claimed>>
        /\ th'.start \in {"spawn", "idle"}
    BY <1>7, <1>b DEF StartWrites, Threads, StartKnows
  <2>2. Running <=> Running'
    BY <2>1 DEF Running
  <2> QED
    BY <1>a, <2>1, <2>2 DEF Moves
<1>8. CASE StartRefuses
  <2>1. /\ Spawning /\ leader # "gated" /\ UNCHANGED <<leader, kin, claimed>>
        /\ th'.start = "idle"
    BY <1>8, <1>b DEF StartRefuses, Threads
  <2>2. Running <=> Running'
    BY <2>1 DEF Running
  <2> QED
    BY <1>a, <2>1, <2>2 DEF Moves
<1>9. CASE StartSpawns
  <2>1. /\ Spawning /\ leader' = "gated" /\ disk' = disk /\ UNCHANGED claimed
        /\ th'.start = "observe" /\ disk.is = "prepared"
    BY <1>9 DEF StartSpawns, Threads, StartKnows
  <2>2. Running'
    BY <2>1 DEF Running
  <2> QED
    BY <1>a, <2>1, <2>2 DEF Moves
<1>10. CASE StartIdentifies
  <2> PICK ok \in BOOLEAN :
         /\ IF ok THEN Persists(Identified) ELSE PersistFails(Identified)
         /\ th' = [th EXCEPT !.start = AfterPersist(ok)]
    BY <1>10 DEF StartIdentifies
  <2>1. Identified \in Records /\ Identified.state = "running"
    BY DEF Identified, NoRecord, Records
  <2>2. /\ th.start = "observe" /\ th'.start \in {"release", "abort"}
        /\ disk.is = "prepared" /\ UNCHANGED <<leader, kin>>
    BY <1>10 DEF StartIdentifies, AfterPersist, Threads, StartKnows
  <2>3. disk'.is \in {"prepared", "running"} /\ UNCHANGED claimed
    BY <2>1, <2>2, PersistFrame
  <2> QED
    BY <1>c, <2>2, <2>3
<1>11. CASE StartContains
  <2>1. /\ ~Spawning /\ th'.start = "idle" /\ UNCHANGED claimed
    BY <1>11 DEF StartContains, Threads
  <2>2. leader' = "zombie" /\ ~kin'
    BY <1>11 DEF StartContains, Kills, Exited, StartKnows
  <2>3. ~Running'
    BY <2>2 DEF Running
  <2> QED
    BY <1>d, <2>1, <2>2, <2>3
<1>12. CASE StartReleases
  BY <1>12, <1>b, <1>c DEF StartReleases, On, Threads
<1>13. CASE StartAborts
  BY <1>13, <1>b, <1>c DEF StartAborts, On, Threads
<1>14. ASSUME NEW who \in {"start", "stop", "stream"}, TermProbes(who)
      PROVE  GateKept' /\ Moves
  BY <1>14, <1>b, <1>c DEF TermProbes
<1>15. ASSUME NEW who \in {"start", "stop", "stream"}, TermFindsNothing(who)
      PROVE  GateKept' /\ Moves
  <2>1. Returns(who, TRUE) /\ UNCHANGED <<leader, kin>> /\ ~Spawning
    BY <1>15, <1>b DEF TermFindsNothing, Wanted
  <2>2. /\ disk' = disk \/ disk'.is = "uncertain"
        /\ th'.start \in {"idle", th.start} /\ UNCHANGED claimed
    BY <2>1, ReturnMoves
  <2> QED
    BY <1>c, <2>1, <2>2
<1>16. CASE TermSignals
  <2>1. ~Spawning
    BY <1>16, <1>b DEF TermSignals, NoTerm
  <2>2. CASE Owned
    BY <1>16, <1>d, <2>1, <2>2 DEF TermSignals, Terms, Running
  <2>3. CASE ~Owned
    <3>1. Returns(term.by, FALSE) /\ UNCHANGED <<leader, kin>>
      BY <1>16, <2>3 DEF TermSignals
    <3>2. /\ disk' = disk \/ disk'.is = "uncertain"
          /\ th'.start \in {"idle", th.start} /\ UNCHANGED claimed
      BY <3>1, ReturnMoves
    <3> QED
      BY <1>c, <2>1, <3>1, <3>2
  <2> QED
    BY <2>2, <2>3
<1>17. CASE TermKills
  <2>1. ~Spawning
    BY <1>17, <1>b DEF TermKills, NoTerm
  <2>2. CASE Owned
    BY <1>17, <1>d, <2>1, <2>2 DEF TermKills, Kills, Exited, Running
  <2>3. CASE ~Owned
    <3>1. Returns(term.by, FALSE) /\ UNCHANGED <<leader, kin>>
      BY <1>17, <2>3 DEF TermKills
    <3>2. /\ disk' = disk \/ disk'.is = "uncertain"
          /\ th'.start \in {"idle", th.start} /\ UNCHANGED claimed
      BY <3>1, ReturnMoves
    <3> QED
      BY <1>c, <2>1, <3>1, <3>2
  <2> QED
    BY <2>2, <2>3
<1>18. CASE TermProves
  <2>1. Returns(term.by, TRUE) /\ UNCHANGED <<leader, kin>>
    BY <1>18 DEF TermProves
  <2>2. ~Spawning
    BY <1>18, <1>b DEF TermProves, NoTerm
  <2>3. /\ disk' = disk \/ disk'.is = "uncertain"
        /\ th'.start \in {"idle", th.start} /\ UNCHANGED claimed
    BY <2>1, ReturnMoves
  <2> QED
    BY <1>c, <2>1, <2>2, <2>3
<1>19. CASE TermGivesUp
  <2>1. Returns(term.by, FALSE) /\ UNCHANGED <<leader, kin>>
    BY <1>19 DEF TermGivesUp
  <2>2. ~Spawning
    BY <1>19, <1>b DEF TermGivesUp, NoTerm
  <2>3. /\ disk' = disk \/ disk'.is = "uncertain"
        /\ th'.start \in {"idle", th.start} /\ UNCHANGED claimed
    BY <2>1, ReturnMoves
  <2> QED
    BY <1>c, <2>1, <2>2, <2>3
<1>20. CASE StopAsks
  BY <1>20, <1>b, <1>c DEF StopAsks, On, Threads, Disks
<1>21. CASE StopAnswers
  <2>1. UNCHANGED <<leader, kin, disk>> /\ th'.start = th.start
    BY <1>21 DEF StopAnswers, Threads
  <2>2. CASE UNCHANGED claimed
    BY <1>c, <2>1, <2>2
  <2>3. CASE claimed' /\ Stopped
    <3>1. ~Spawning /\ ~Running
      BY <1>b, <2>3 DEF Stopped, NoRecord
    <3>2. ~Running'
      BY <2>1, <3>1 DEF Running
    <3> QED
      BY <1>a, <2>1, <2>3, <3>1, <3>2 DEF Moves
  <2> QED
    BY <1>21, <2>2, <2>3 DEF StopAnswers, Claims
<1>22. CASE WaitReaps
  BY <1>22, <1>a, <1>b DEF WaitReaps, Moves, Running, Threads, StartKnows
<1>23. CASE WaitNotes
  BY <1>23, <1>b, <1>c DEF WaitNotes, On, Threads, Disks
<1>24. CASE WaitProves
  BY <1>24, <1>b, <1>c DEF WaitProves, On, Threads, Disks
<1>25. CASE WaitGivesUp
  <2> DEFINE r == [rec EXCEPT !.done = TRUE]
  <2>1. r \in Records /\ MarksUncertain(r) /\ th'.start = th.start
        /\ UNCHANGED <<leader, kin>>
    BY <1>25 DEF WaitGivesUp, Records, Threads
  <2>2. ~Spawning
    BY <1>25, <1>b DEF WaitGivesUp, RecordKept
  <2> HIDE DEF r
  <2>3. UNCHANGED claimed /\ (disk' # disk => disk'.is = "uncertain")
    BY <2>1, UncertainFrame
  <2> QED
    BY <1>c, <2>1, <2>2, <2>3
<1>26. CASE MarkSaves
  <2>1. /\ th'.start = th.start /\ UNCHANGED <<leader, kin>>
        /\ rec.state = "terminal" /\ rec.in # "none"
    BY <1>26, <1>b DEF MarkSaves, Threads, RecordKept
  <2>2. Persists(rec) \/ PersistFails(rec)
    BY <1>26 DEF MarkSaves
  <2>3. UNCHANGED claimed
    BY <2>2, PersistFrame
  <2>4. leader # "gated"
    BY <1>b, <2>1 DEF Running
  <2> QED
    BY <1>c, <2>1, <2>3, <2>4
<1>27. CASE ReconcileAnswers
  <2>1. /\ UNCHANGED <<leader, kin, disk, th>> /\ claimed'
        /\ ~Spawning /\ ~Running
    BY <1>27, <1>b DEF ReconcileAnswers, Claims, hostVars
  <2>2. ~Running'
    BY <2>1 DEF Running
  <2> QED
    BY <1>a, <2>1, <2>2 DEF Moves
<1>28. CASE ReconcileProves
  BY <1>28, <1>b, <1>c DEF ReconcileProves, On, Threads, Disks
<1>29. CASE Drain
  BY <1>29, <1>b, <1>c DEF Drain, On, Threads, Disks
<1>30. CASE FinalizeRemoves
  BY <1>30, <1>b, <1>c DEF FinalizeRemoves, On, Threads, Disks
<1>31. CASE FinalizeEnds
  <2>1. rec.in # "none" /\ rec.state = "terminal"
    BY <1>31, <1>b DEF FinalizeEnds, RecordKept
  <2>2. /\ UNCHANGED <<leader, kin, claimed>> /\ th'.start = th.start
        /\ leader # "gated"
    BY <1>31, <1>b, <2>1 DEF FinalizeEnds, Threads, Running
  <2> QED
    BY <1>c, <2>2
<1>32. CASE HostLost
  <2>1. /\ th'.start = "idle" /\ UNCHANGED <<kin, claimed, disk>>
        /\ leader' = IF leader = "zombie" THEN "gone" ELSE leader
    BY <1>32 DEF HostLost, Lost, Quiet
  <2>2. Running <=> Running'
    BY <2>1 DEF Running
  <2>3. leader' = "gated" => leader = "gated"
    BY <2>1
  <2> QED
    BY <1>a, <2>1, <2>2, <2>3 DEF Moves
<1>33. CASE HostRecovers
  <2>1. th = Quiet /\ th' = th /\ UNCHANGED <<kin, claimed>>
    BY <1>33 DEF HostRecovers, RecordKept
  <2>2. ~Spawning /\ ~Spawning'
    BY <2>1 DEF Quiet
  <2>3. CASE disk.is = "prepared"
    <3>1. leader' # "gated" /\ leader' \in {leader, "none"}
      BY <1>33, <2>3 DEF HostRecovers
    <3> QED
      BY <1>d, <2>1, <2>2, <3>1 DEF Running
  <2>4. CASE disk.is # "prepared"
    <3>1. UNCHANGED <<disk, leader>>
      BY <1>33, <2>4 DEF HostRecovers
    <3> QED
      BY <1>c, <2>1, <2>2, <3>1
  <2> QED
    BY <2>3, <2>4
<1> QED
  BY <1>1, <1>2, <1>3, <1>4, <1>5, <1>6, <1>7, <1>8, <1>9, <1>10, <1>11,
     <1>12, <1>13, <1>14, <1>15, <1>16, <1>17, <1>18, <1>19, <1>20,
     <1>21, <1>22, <1>23, <1>24, <1>25, <1>26, <1>27, <1>28, <1>29,
     <1>30, <1>31, <1>32, <1>33 DEF HostNext

(* Every caller of cleanupAttempt is done with its launch by then.         *)
LEMMA CleanedMoves ==
  ASSUME DockTypeOK, claimed \in BOOLEAN, NEW who \in Cleaners,
         NEW ok \in BOOLEAN, Cleaned(who, ok)
  PROVE  /\ dk'.start \in {"idle", dk.start}
         /\ claimed' = claimed \/ (ok /\ claimed' = TRUE)
<1> USE DEF Cleaned, DockTypeOK, Tasks
<1>1. CASE who = "setup"
  BY <1>1
<1>2. CASE who = "stop"
  BY <1>2
<1>3. CASE who = "finalize"
  BY <1>3 DEF Idle
<1>4. CASE who = "recover"
  BY <1>4 DEF Idle
<1> QED
  BY <1>1, <1>2, <1>3, <1>4 DEF Cleaners

(* A container comes only out of its set-up, with its runtime root, and is *)
(* said to be gone only when it is.                                        *)
LEMMA DockMoves ==
  ASSUME DockTypeOK, claimed \in BOOLEAN, AttemptKept, ImportIsOwned, RootKept,
         HostInit, HostInit', DockNext
  PROVE  RootKept' /\ Moves
<1> DEFINE Making == dk.start \in {"root", "create", "run"}
<1>a. /\ Launching <=> Making
      /\ (Launching <=> Making)'
      /\ Living <=> Alive
      /\ (Living <=> Alive)'
  BY DEF Launching, Living, HostInit, Quiet
<1>b. /\ box = "none" => ~Alive
      /\ Making => ~claimed
      /\ dk.clean # "nobody" => box = "none"
      /\ att.in \in {"live", "recovered"} => dk.start = "idle"
      /\ dk.wait # "none" \/ dk.stop # "idle" => dk.start = "idle"
  BY DEF AttemptKept, ImportIsOwned, Alive
<1>c. ASSUME Making <=> Making', UNCHANGED <<box, claimed>>
      PROVE  Moves
  BY <1>a, <1>c DEF Moves, Alive
<1>d. ASSUME ~Making, ~Making', UNCHANGED claimed, Alive' => Alive
      PROVE  Moves
  BY <1>a, <1>d DEF Moves
<1>e. ASSUME Making, ~Making', UNCHANGED claimed, Alive => Alive'
      PROVE  Moves
  BY <1>a, <1>e DEF Moves
<1> USE DEF RootKept, DockTypeOK, launchVars
<1>1. CASE ExecEnds
  BY <1>1, <1>b, <1>c DEF ExecEnds
<1>2. CASE BoxClaims
  <2>1. /\ ~Making /\ Making' /\ ~claimed' /\ UNCHANGED box
        /\ box = "none" /\ root' = "bare" /\ dk'.start = "root"
    BY <1>2 DEF BoxClaims, Tasks
  <2> QED
    BY <1>a, <2>1 DEF Moves, Alive
<1>3. CASE BoxPrepares
  <2>1. /\ dk.start = "root" /\ box = "none" /\ UNCHANGED <<box, claimed>>
    BY <1>3 DEF BoxPrepares, Fails
  <2>2. \/ dk'.start = "create" /\ root' = "owned"
        \/ dk'.start = "idle"
    BY <1>3 DEF BoxPrepares, Tasks
  <2>3. CASE dk'.start = "create" /\ root' = "owned"
    BY <1>c, <2>1, <2>3
  <2>4. CASE dk'.start = "idle"
    BY <1>e, <2>1, <2>4 DEF Alive
  <2> QED
    BY <2>2, <2>3, <2>4
<1>4. CASE BoxCreates
  <2>1. /\ dk.start = "create" /\ ~Alive /\ root = "owned"
        /\ box' \in {"none", "created"} /\ UNCHANGED <<root, claimed>>
        /\ dk'.start \in {"run", "clean"}
    BY <1>4, <1>b DEF BoxCreates, SetsUp, Fails, Tasks
  <2>2. ~Alive'
    BY <2>1 DEF Alive
  <2> QED
    BY <1>a, <2>1, <2>2 DEF Moves
<1>5. CASE BoxRuns
  <2>1. /\ dk.start = "run" /\ root = "owned" /\ UNCHANGED <<root, claimed>>
        /\ box' \in {box, "running"} /\ dk'.start \in {"exec", "clean"}
    BY <1>5 DEF BoxRuns, SetsUp, Fails, Tasks
  <2>2. Alive => Alive'
    BY <2>1 DEF Alive
  <2> QED
    BY <1>e, <2>1, <2>2
<1>6. CASE BoxExecs
  BY <1>6, <1>b, <1>c DEF BoxExecs, Fails, Tasks
<1>7. CASE BoxReaps
  BY <1>7, <1>b, <1>c DEF BoxReaps, Fails, Tasks
<1>8. CASE BoxReapsLate
  BY <1>8, <1>b, <1>c DEF BoxReapsLate
<1>9. CASE ExecReaped
  BY <1>9, <1>b, <1>c DEF ExecReaped, Waits, WaitTo, Fails, Fault, Tasks
<1>10. CASE Classifies
  BY <1>10, <1>b, <1>c DEF Classifies, Waits, WaitTo, Fails, Fault, Tasks
<1>11. CASE Terminates
  <2>1. /\ dk.wait # "none" /\ UNCHANGED <<root, claimed>>
        /\ dk'.start = dk.start
    BY <1>11 DEF Terminates, Waits, WaitTo, Fails, Tasks
  <2>2. /\ box' \in {box, "dead", "paused"} /\ (box = "none" => box' = "none")
        /\ (Alive' => Alive)
    BY <1>11 DEF Terminates, Killed, Alive
  <2> QED
    BY <1>b, <1>d, <2>1, <2>2
<1>12. CASE Pauses
  <2>1. /\ dk.wait # "none" /\ UNCHANGED <<root, claimed>>
        /\ dk'.start = dk.start
    BY <1>12 DEF Pauses, Waits, WaitTo, Fails, Tasks
  <2>2. /\ box' \in {box, "dead", "paused"} /\ (box = "none" => box' = "none")
        /\ (Alive' => Alive)
    BY <1>12 DEF Pauses, Alive
  <2> QED
    BY <1>b, <1>d, <2>1, <2>2
<1>13. CASE Exports
  BY <1>13, <1>b, <1>c DEF Exports, Waits, WaitTo, Fails, Fault, Tasks
<1>14. CASE ProvesDead
  <2>1. /\ dk.wait # "none" /\ UNCHANGED <<root, claimed>>
        /\ dk'.start = dk.start
    BY <1>14 DEF ProvesDead, Waits, WaitTo, Fails, Tasks
  <2>2. /\ box' \in {box, "dead", "paused"} /\ (box = "none" => box' = "none")
        /\ (Alive' => Alive)
    BY <1>14 DEF ProvesDead, Killed, Alive
  <2> QED
    BY <1>b, <1>d, <2>1, <2>2
<1>15. CASE Collects
  BY <1>15, <1>b, <1>c DEF Collects, Waits, WaitTo, Fails, Fault, Tasks
<1>16. CASE Collected
  BY <1>16, <1>b, <1>c DEF Collected, Waits, WaitTo, Fails, Fault, Tasks
<1>17. CASE WaitEnds
  BY <1>17, <1>b, <1>c DEF WaitEnds, Waits, WaitTo, Fails, Fault, Tasks
<1>18. CASE Expires
  BY <1>18, <1>b, <1>c DEF Expires
<1>19. CASE BoxStops
  BY <1>19, <1>b, <1>c DEF BoxStops, Waits, WaitTo, Fails, Fault, Tasks
<1>20. CASE BoxForces
  <2>1. /\ dk.stop = "asked" /\ UNCHANGED <<root, claimed>>
        /\ dk'.start = dk.start /\ box' \in {box, "none"}
    BY <1>20 DEF BoxForces, Fails, Tasks
  <2>2. Alive' => Alive
    BY <2>1 DEF Alive
  <2> QED
    BY <1>b, <1>d, <2>1, <2>2
<1>21. CASE StopSees
  BY <1>21, <1>b, <1>c DEF StopSees, Waits, WaitTo, Fails, Fault, Tasks
<1>22. CASE BoxAnswers
  <2>1. /\ box = "none" /\ ~Making /\ claimed' /\ UNCHANGED <<box, root, dk>>
    BY <1>22, <1>b DEF BoxAnswers, Claims, dockVars, AttemptKept
  <2> QED
    BY <1>a, <2>1 DEF Moves, Alive
<1>23. CASE BoxDrains
  BY <1>23, <1>b, <1>c DEF BoxDrains
<1>24. ASSUME NEW who \in Cleaners, CleanRemoves(who)
       PROVE  RootKept' /\ Moves
  <2> PICK ok \in BOOLEAN :
         /\ box' \in IF ok THEN {"none"} ELSE {box, "none"}
         /\ \/ dk' = [dk EXCEPT !.clean = who] /\ UNCHANGED claimed
            \/ Cleaned(who, FALSE)
    BY <1>24 DEF CleanRemoves, Gone
  <2>1. /\ MayClean(who) /\ UNCHANGED root /\ box' \in {box, "none"}
    BY <1>24 DEF CleanRemoves
  <2>2. ~Making
    BY <2>1 DEF MayClean, AttemptKept, Cleaners
  <2>3. UNCHANGED claimed /\ dk'.start \in {"idle", dk.start}
    BY CleanedMoves DEF Tasks
  <2>4. Alive' => Alive
    BY <2>1 DEF Alive
  <2> QED
    BY <1>d, <2>1, <2>2, <2>3, <2>4
<1>25. CASE CleanEnds
  <2> PICK ok \in BOOLEAN : Cleaned(dk.clean, ok)
    BY <1>25 DEF CleanEnds
  <2>1. /\ box = "none" /\ UNCHANGED box /\ dk.clean \in Cleaners
    BY <1>25, <1>b DEF CleanEnds, Tasks
  <2>2. dk.start \notin {"root", "create", "run"}
    BY <2>1 DEF AttemptKept, ImportIsOwned, Attempts, Cleaners
  <2>3. /\ dk'.start \in {"idle", dk.start}
        /\ claimed' = claimed \/ claimed' = TRUE
    BY <2>1, CleanedMoves
  <2>4. ~Making' /\ ~Alive /\ ~Alive'
    BY <2>1, <2>2, <2>3 DEF Alive
  <2>5. CASE claimed' = claimed
    BY <1>d, <2>1, <2>2, <2>3, <2>4, <2>5
  <2>6. CASE claimed' = TRUE
    BY <1>a, <2>1, <2>2, <2>3, <2>4, <2>6 DEF Moves
  <2> QED
    BY <2>3, <2>5, <2>6
<1>26. CASE FinalizesRecovered
  BY <1>26, <1>b, <1>c DEF FinalizesRecovered
<1>27. CASE DockerLost
  <2>1. /\ dk'.start = "idle" /\ UNCHANGED <<box, root, claimed>>
    BY <1>27 DEF DockerLost, Lost, Idle
  <2>2. CASE Making
    BY <1>e, <2>1, <2>2 DEF Alive
  <2>3. CASE ~Making
    BY <1>d, <2>1, <2>3 DEF Alive
  <2> QED
    BY <2>2, <2>3
<1>28. CASE DockerStarts
  BY <1>28, <1>b, <1>c DEF DockerStarts, dockVars
<1>29. CASE ImportNext /\ UNCHANGED dockVars
  <2>1. UNCHANGED <<box, root, dk>>
    BY <1>29 DEF dockVars
  <2>2. UNCHANGED claimed
    BY <1>29 DEF ImportNext, Edits, ImportChecks, ImportJournals, ImportWrites,
       ImportWrote, ImportVerifies, ImportCommits, UndoChecks, UndoWrites,
       UndoWrote, UndoVerifies, UndoCommits, FailsTo
  <2> QED
    BY <1>c, <2>1, <2>2
<1> QED
  BY <1>1, <1>2, <1>3, <1>4, <1>5, <1>6, <1>7, <1>8, <1>9, <1>10, <1>11,
     <1>12, <1>13, <1>14, <1>15, <1>16, <1>17, <1>18, <1>19, <1>20,
     <1>21, <1>22, <1>23, <1>24, <1>25, <1>26, <1>27, <1>28, <1>29 DEF DockNext

(* Before the first start there is no launch, process or answer.           *)
LEMMA LaunchBegins == Init => LaunchKept
BY DEF Init, LaunchInit, HostInit, DockInit, Idle, LaunchKept, GateKept,
       RootKept

(* Every step of either supervisor is one of the contract or none.         *)
LEMMA Implements ==
  Inv /\ LaunchKept /\ [Next]_vars =>
    LaunchKept' /\ [Process!Next]_(Process!processVars)
<1> SUFFICES ASSUME Inv, LaunchKept, [Next]_vars
             PROVE  LaunchKept' /\ Moves
  BY MovesRefine
<1>1. LaunchTypeOK /\ HostTypeOK /\ DockTypeOK /\ claimed \in BOOLEAN
  BY DEF Inv, TypeOK, LaunchTypeOK
<1>2. CASE OnHost
  <2>1. /\ RecordKept /\ StartKnows /\ ChildIsKnown /\ DockInit
        /\ HostNext /\ UNCHANGED dockVars
    BY <1>2 DEF Inv, HostInv, OnHost
  <2>2. DockInit'
    BY <2>1 DEF DockInit, dockVars
  <2>3. GateKept' /\ Moves
    BY <1>1, <2>1, <2>2, HostMoves DEF LaunchKept
  <2>4. RootKept'
    BY <2>2 DEF DockInit, RootKept, Idle
  <2> QED
    BY <2>3, <2>4 DEF LaunchKept
<1>3. CASE InDocker
  <2>1. /\ AttemptKept /\ ImportIsOwned /\ HostInit
        /\ DockNext /\ UNCHANGED hostVars
    BY <1>3 DEF Inv, DockInv, InDocker
  <2>2. HostInit'
    BY <2>1 DEF HostInit, hostVars
  <2>3. RootKept' /\ Moves
    BY <1>1, <2>1, <2>2, DockMoves DEF LaunchKept
  <2>4. GateKept'
    BY <2>2 DEF HostInit, GateKept
  <2> QED
    BY <2>3, <2>4 DEF LaunchKept
<1>4. CASE UNCHANGED vars
  BY <1>4 DEF vars, launchVars, hostVars, dockVars, LaunchKept, GateKept,
              RootKept, Moves, Launching, Living, Alive
<1> QED
  BY <1>2, <1>3, <1>4 DEF Next

(* Both supervisors keep the contract the Run lifecycle relies on: one     *)
(* claimed launch at a time, beside no living process, a process only out  *)
(* of its launch, and no process behind an answer that there is none.      *)
THEOREM SupervisorsKeepContract == Spec => ImplementsSupervisedProcess
<1>1. Init => Process!Init
  BY DEF Init, LaunchInit, HostInit, DockInit, Idle, Quiet, Process!Init, If,
         Launching, Living, Alive
<1> QED
  BY <1>1, Safety, LaunchBegins, Implements, PTL
     DEF Spec, ImplementsSupervisedProcess, Process!Spec
=============================================================================
