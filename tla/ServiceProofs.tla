--------------------------- MODULE ServiceProofs ----------------------------
(***************************************************************************)
(* Theorems about what the server does besides the devices: the snapshots  *)
(* on the NAS, which stay worth something (Backup) and are restored as a   *)
(* whole or not at all (Restore), the advisor's suggestions                *)
(* (AdvisorActions), the conversations with the assistant (AssistantChat), *)
(* the calendar of planned loads (PlannedLoad), the EcoFlow session        *)
(* (EcoflowSession), the choice of the Siseli sample (SiseliFeed) and its  *)
(* publication (SiseliPublish).                                            *)
(***************************************************************************)
EXTENDS Backup, Restore, AdvisorActions, AssistantChat, PlannedLoad, EcoflowSession, SiseliFeed,
        SiseliPublish, SumLemmas

-----------------------------------------------------------------------------
(* Runs and retention.  The directories that a run may still change are    *)
(* its own, until it is verified, and those it is about to remove.  A      *)
(* snapshot is safe when it has all its files and no run may change it;    *)
(* what a run has verified stays safe, because a run that has not been     *)
(* overtaken by KeepCount others is among the newest directories of any    *)
(* listing.                                                                *)

Working(w) == w.pc \in {"mkdir", "upload", "verify"}
Verified(w) == w.pc \in {"list", "prune"} \/ (w.pc = "record" /\ w.ok)
Touches(w) ==
  IF Working(w) THEN {w.stamp} ELSE IF w.pc = "prune" THEN w.drop ELSE {}
Active(r) == run[r] # NoRun

Runs ==
  {NoRun} \cup [pc : {"mkdir", "upload", "verify", "list"}, stamp : Stamps]
          \cup [pc : {"record"}, stamp : Stamps, ok : BOOLEAN]
          \cup [pc : {"prune"}, stamp : Stamps, drop : SUBSET Stamps]

BackupTypeOK ==
  /\ transport \in Transports
  /\ remote \in [Stamps -> Grades]
  /\ nextStamp \in Nat \ {0}
  /\ run \in [Threads -> Runs]
  /\ lastOk \in Nat
  /\ overtaken \in BOOLEAN

\* Stamps are given out once, and nothing is on the NAS ahead of its stamp.
Begun ==
  /\ \A s \in Stamps : remote[s] # "none" => s < nextStamp
  /\ \A r \in Threads : Active(r) => run[r].stamp < nextStamp
  /\ \A r \in Threads : \A s \in Touches(run[r]) : s < nextStamp
  /\ \A q, r \in Threads : q # r /\ Active(q) /\ Active(r) => run[q].stamp # run[r].stamp
  /\ \A r \in Threads : run[r].pc \in {"list", "prune"} => KeepCount > 0

Safe(s) ==
  /\ remote[s] \in SizesMatch
  /\ \A r \in Threads : s \notin Touches(run[r])

\* No run is about to remove what another, or itself, has uploaded.
InTime ==
  KeepCount > 0 => \A r \in Threads : Active(r) => nextStamp - run[r].stamp <= KeepCount
Spared ==
  \A q, r \in Threads :
    Active(q) /\ (q # r \/ ~Working(run[q])) => run[q].stamp \notin Touches(run[r])
\* rsync has compared what it transferred.
Compared ==
  \A r \in Threads :
    run[r].pc = "verify" /\ transport # "smb" => remote[run[r].stamp] = "good"
Sound ==
  /\ \A r \in Threads : Verified(run[r]) => Safe(run[r].stamp)
  /\ lastOk > 0 => \E s \in Stamps : Safe(s)

BackupInv ==
  /\ BackupTypeOK /\ Begun
  /\ ~overtaken => InTime /\ Spared /\ Compared /\ Sound

LEMMA RunShape ==
  ASSUME NEW w \in Runs
  PROVE  /\ w # NoRun => w.pc # "idle" /\ w.stamp \in Stamps
         /\ Touches(w) \subseteq Stamps
         /\ w = NoRun => Touches(w) = {} /\ ~Working(w) /\ ~Verified(w) /\ w.pc = "idle"
<1>1. CASE w = NoRun
  BY <1>1 DEF NoRun, Touches, Working, Verified
<1>2. CASE w \in [pc : {"mkdir", "upload", "verify", "list"}, stamp : Stamps]
  BY <1>2 DEF NoRun, Touches, Working
<1>3. CASE w \in [pc : {"record"}, stamp : Stamps, ok : BOOLEAN]
  BY <1>3 DEF NoRun, Touches, Working
<1>4. CASE w \in [pc : {"prune"}, stamp : Stamps, drop : SUBSET Stamps]
  BY <1>4 DEF NoRun, Touches, Working
<1> QED
  BY <1>1, <1>2, <1>3, <1>4 DEF Runs

\* A step of one run that touches no more than it might.
LEMMA RunStep ==
  ASSUME BackupInv, NEW r \in Threads, Active(r), NEW w \in Runs,
         run' = [run EXCEPT ![r] = w],
         w # NoRun => w.stamp = run[r].stamp,
         Touches(w) \subseteq Touches(run[r]),
         Working(w) => Working(run[r]),
         ~overtaken /\ w # NoRun /\ ~Working(w) => run[r].stamp \notin Touches(w),
         w.pc \in {"list", "prune"} => KeepCount > 0,
         remote' \in [Stamps -> Grades],
         \A s \in Stamps \ Touches(run[r]) : remote'[s] = remote[s],
         ~overtaken =>
           /\ Verified(w) => remote'[run[r].stamp] \in SizesMatch
           /\ w.pc = "verify" /\ transport # "smb" => remote'[run[r].stamp] = "good",
         UNCHANGED <<transport, nextStamp, overtaken>>,
         \/ lastOk' = lastOk
         \/ lastOk' = run[r].stamp /\ Verified(run[r])
  PROVE  BackupInv'
<1>1. BackupTypeOK /\ Begun /\ run[r] \in Runs /\ run[r].stamp \in Stamps
  BY RunShape DEF BackupInv, BackupTypeOK, Active
<1>2. \A q \in Threads : run'[q] = IF q = r THEN w ELSE run[q]
  BY <1>1 DEF BackupTypeOK
<1>3. BackupTypeOK'
  BY <1>1 DEF BackupTypeOK, Stamps
<1>4. \A q \in Threads : Touches(run'[q]) \subseteq Touches(run[q])
  BY <1>2
<1>5. \A q \in Threads : (run'[q] # NoRun) => Active(q) /\ run'[q].stamp = run[q].stamp
  BY <1>2 DEF Active
<1>6. \A s \in Touches(run[r]) : s < nextStamp
  BY <1>1 DEF Begun
<1>7. Begun'
  <2>1. \A s \in Stamps : remote'[s] # "none" => s < nextStamp
    BY <1>1, <1>6 DEF Begun
  <2>2. \A q \in Threads : run'[q].pc \in {"list", "prune"} => KeepCount > 0
    BY <1>1, <1>2 DEF Begun
  <2> QED
    BY <1>1, <1>4, <1>5, <2>1, <2>2 DEF Begun, Active
<1>8. ASSUME ~overtaken' PROVE InTime' /\ Spared' /\ Compared' /\ Sound'
  <2>1. ~overtaken /\ InTime /\ Spared /\ Compared /\ Sound
    BY <1>8 DEF BackupInv
  <2>2. InTime'
    BY <1>5, <2>1 DEF InTime, Active
  <2>3. ASSUME NEW p \in Threads, NEW q \in Threads, run'[p] # NoRun,
               p # q \/ ~Working(run'[p])
        PROVE  run'[p].stamp \notin Touches(run'[q])
    <3>1. CASE p # q
      BY <1>4, <1>5, <2>1, <2>3, <3>1 DEF Spared
    <3>2. CASE p = q /\ p # r
      BY <1>2, <1>4, <1>5, <2>1, <2>3, <3>2 DEF Spared
    <3>3. CASE p = q /\ p = r
      BY <1>2, <2>1, <2>3, <3>3
    <3> QED
      BY <3>1, <3>2, <3>3
  <2>4. Spared'
    BY <2>3 DEF Spared, Active
  \* What another run has uploaded is not touched.
  <2>5. \A q \in Threads : q # r /\ Active(q) => remote'[run[q].stamp] = remote[run[q].stamp]
    BY <1>1, <2>1, RunShape DEF Spared, BackupTypeOK, Active
  <2>6. Compared'
    <3>1. ASSUME NEW q \in Threads, run'[q].pc = "verify", transport # "smb"
          PROVE  remote'[run'[q].stamp] = "good"
      <4>1. run'[q] # NoRun
        BY <3>1 DEF NoRun
      <4>2. CASE q = r
        BY <1>2, <2>1, <3>1, <4>1, <4>2
      <4>3. CASE q # r
        BY <1>2, <1>5, <2>1, <2>5, <3>1, <4>1, <4>3 DEF Compared
      <4> QED
        BY <4>2, <4>3
    <3> QED
      BY <3>1 DEF Compared
  <2>7. \A s \in Stamps : Safe(s) => Safe(s)'
    BY <1>4 DEF Safe
  <2>8. ASSUME NEW q \in Threads, Verified(run'[q])
        PROVE  /\ remote'[run'[q].stamp] \in SizesMatch
               /\ \A t \in Threads : run'[q].stamp \notin Touches(run'[t])
    <3>1. run'[q] # NoRun /\ run'[q] \in Runs /\ ~Working(run'[q]) /\ run'[q].stamp \in Stamps
      BY <1>3, <2>8, RunShape DEF BackupTypeOK, Verified, NoRun, Working
    <3>2. CASE q # r
      <4>1. Safe(run[q].stamp) /\ run'[q] = run[q]
        BY <1>2, <2>1, <2>8, <3>2 DEF Sound
      <4>2. Safe(run[q].stamp)'
        BY <2>7, <3>1, <4>1
      <4> QED
        BY <4>1, <4>2 DEF Safe
    <3>3. CASE q = r
      <4>1. remote'[run'[q].stamp] \in SizesMatch
        BY <1>2, <2>1, <2>8, <3>1, <3>3
      <4> QED
        BY <2>3, <3>1, <4>1
    <3> QED
      BY <3>2, <3>3
  <2>9. lastOk' > 0 => \E s \in Stamps : Safe(s)'
    <3>1. CASE lastOk' = lastOk
      BY <2>1, <2>7, <3>1 DEF Sound
    <3>2. CASE lastOk' = run[r].stamp /\ Verified(run[r])
      BY <1>1, <2>1, <2>7, <3>2 DEF Sound
    <3> QED
      BY <3>1, <3>2
  <2>10. Sound'
    BY <2>8, <2>9 DEF Sound, Safe
  <2> QED
    BY <2>2, <2>4, <2>6, <2>10
<1> QED
  BY <1>3, <1>7, <1>8 DEF BackupInv

LEMMA BackupInit1 == ASSUME BackupInit PROVE BackupInv
<1>1. BackupTypeOK
  <2>1. NoRun \in Runs /\ "none" \in Grades
    BY DEF Runs, Grades
  <2>2. 1 \in Nat \ {0} /\ 0 \in Nat /\ FALSE \in BOOLEAN
    OBVIOUS
  <2> QED
    BY <2>1, <2>2, Zenon DEF BackupInit, BackupTypeOK
<1>2. \A r \in Threads : run[r] = NoRun
  BY DEF BackupInit
<1>3. \A r \in Threads : Touches(run[r]) = {} /\ ~Active(r) /\ run[r].pc = "idle" /\ ~Verified(run[r])
  BY <1>2 DEF Touches, Working, NoRun, Active, Verified
<1>4. \A s \in Stamps : remote[s] = "none"
  BY DEF BackupInit
<1>5. lastOk = 0
  BY DEF BackupInit
<1> QED
  <2>1. Begun
    BY <1>3, <1>4 DEF Begun
  <2>2. InTime /\ Spared /\ Compared
    BY <1>3 DEF InTime, Spared, Compared
  <2>3. Sound
    BY <1>3, <1>5 DEF Sound
  <2> QED
    BY <1>1, <2>1, <2>2, <2>3 DEF BackupInv

LEMMA RunStartStep ==
  ASSUME BackupAssumption, BackupInv, NEW r \in Threads, RunStart(r) PROVE BackupInv'
<1>1. BackupTypeOK /\ Begun /\ ~Active(r) /\ nextStamp \in Stamps /\ KeepCount \in Nat
      /\ nextStamp' = nextStamp + 1 /\ UNCHANGED <<transport, remote, lastOk>>
  BY DEF BackupInv, BackupTypeOK, RunStart, Active, Stamps, BackupAssumption
<1>2. PICK w \in {[pc |-> "mkdir", stamp |-> nextStamp], Recording(nextStamp, FALSE)} :
        run' = [run EXCEPT ![r] = w]
  BY Zenon DEF RunStart
<1>3. /\ w \in Runs /\ w # NoRun /\ w.stamp = nextStamp /\ ~Verified(w)
      /\ w.pc \notin {"verify", "list", "prune"} /\ Touches(w) \subseteq {nextStamp}
      /\ Working(w) \/ Touches(w) = {}
  <2>1. CASE w = [pc |-> "mkdir", stamp |-> nextStamp]
    BY <1>1, <2>1 DEF Runs, NoRun, Touches, Working, Verified
  <2>2. CASE w = Recording(nextStamp, FALSE)
    BY <1>1, <2>2 DEF Runs, NoRun, Recording, Touches, Working, Verified
  <2> QED
    BY <1>2, <2>1, <2>2
<1>4. \A q \in Threads : run'[q] = IF q = r THEN w ELSE run[q]
  BY <1>1, <1>2 DEF BackupTypeOK
<1>5. overtaken' = (overtaken \/ \E q \in Threads :
                     run[q] # NoRun /\ nextStamp - run[q].stamp >= KeepCount)
  BY DEF RunStart
<1>6. BackupTypeOK'
  BY <1>1, <1>2, <1>3, <1>5 DEF BackupTypeOK
<1>7. nextStamp \in Nat /\ \A q \in Threads : Active(q) => run[q].stamp \in Nat /\ run[q].stamp < nextStamp
  BY <1>1, RunShape DEF BackupTypeOK, Begun, Active, Stamps
<1>8. \A q \in Threads : \A s \in Touches(run[q]) : s \in Nat /\ s < nextStamp
  BY <1>1, RunShape DEF BackupTypeOK, Begun, Stamps
<1>9. Begun'
  <2>1. \A s \in Stamps : remote'[s] # "none" => s < nextStamp + 1
    BY <1>1, <1>7 DEF Begun, Stamps
  <2>2. \A q \in Threads : run'[q] # NoRun => run'[q].stamp < nextStamp + 1
    BY <1>3, <1>4, <1>7 DEF Active
  <2>3. \A q \in Threads : \A s \in Touches(run'[q]) : s < nextStamp + 1
    BY <1>3, <1>4, <1>7, <1>8
  <2>4. \A p, q \in Threads : p # q /\ run'[p] # NoRun /\ run'[q] # NoRun => run'[p].stamp # run'[q].stamp
    BY <1>1, <1>3, <1>4, <1>7 DEF Begun, Active
  <2>5. \A q \in Threads : run'[q].pc \in {"list", "prune"} => KeepCount > 0
    BY <1>1, <1>3, <1>4 DEF Begun
  <2> QED
    BY <1>1, <2>1, <2>2, <2>3, <2>4, <2>5 DEF Begun, Active
<1>10. ASSUME ~overtaken' PROVE InTime' /\ Spared' /\ Compared' /\ Sound'
  <2>1. ~overtaken /\ InTime /\ Spared /\ Compared /\ Sound
        /\ \A q \in Threads : Active(q) => ~(nextStamp - run[q].stamp >= KeepCount)
    BY <1>5, <1>10 DEF BackupInv, Active
  <2>2. InTime'
    <3>1. ASSUME KeepCount > 0, NEW q \in Threads, run'[q] # NoRun
          PROVE  nextStamp' - run'[q].stamp <= KeepCount
      <4>1. CASE q = r
        BY <1>1, <1>3, <1>4, <1>7, <3>1, <4>1
      <4>2. CASE q # r
        BY <1>1, <1>4, <1>7, <2>1, <3>1, <4>2 DEF Active
      <4> QED
        BY <4>1, <4>2
    <3> QED
      BY <1>1, <3>1, Zenon DEF InTime, Active
  <2>3. Spared'
    <3>1. ASSUME NEW p \in Threads, NEW q \in Threads, run'[p] # NoRun,
                 p # q \/ ~Working(run'[p])
          PROVE  run'[p].stamp \notin Touches(run'[q])
      <4>1. CASE p = r /\ q = r
        BY <1>3, <1>4, <3>1, <4>1
      <4>2. CASE p = r /\ q # r
        BY <1>3, <1>4, <1>7, <1>8, <3>1, <4>2
      <4>3. CASE p # r /\ q = r
        BY <1>3, <1>4, <1>7, <3>1, <4>3 DEF Active
      <4>4. CASE p # r /\ q # r
        BY <1>4, <2>1, <3>1, <4>4 DEF Spared, Active
      <4> QED
        BY <4>1, <4>2, <4>3, <4>4
    <3> QED
      BY <3>1 DEF Spared, Active
  <2>4. Compared'
    BY <1>1, <1>3, <1>4, <2>1 DEF Compared
  <2>5. \A s \in Stamps : Safe(s) => Safe(s)'
    <3>1. \A s \in Stamps : Safe(s) => s < nextStamp
      BY <1>1 DEF Safe, Begun, SizesMatch
    <3> QED
      BY <1>1, <1>3, <1>4, <1>7, <3>1 DEF Safe
  <2>6. \A q \in Threads : Verified(run'[q]) => q # r /\ run'[q].stamp \in Stamps /\ Safe(run'[q].stamp)
    BY <1>1, <1>3, <1>4, <2>1, RunShape DEF Sound, BackupTypeOK
  <2>7. Sound'
    BY <1>1, <2>1, <2>5, <2>6 DEF Sound
  <2> QED
    BY <2>2, <2>3, <2>4, <2>7
<1> QED
  BY <1>6, <1>9, <1>10 DEF BackupInv

\* The steps before the snapshot is verified change its own directory.
LEMMA UploadStep ==
  ASSUME BackupInv, NEW r \in Threads, MakeDir(r) \/ UploadEnds(r) \/ UploadFails(r)
  PROVE  BackupInv'
<1>1. BackupTypeOK /\ run[r] \in Runs /\ Working(run[r]) /\ run[r].pc \in {"mkdir", "upload"}
  BY DEF BackupInv, BackupTypeOK, MakeDir, UploadEnds, UploadFails, Working
<1>2. Active(r) /\ run[r].stamp \in Stamps /\ Touches(run[r]) = {run[r].stamp}
      /\ run[r] \in [pc : {"mkdir", "upload", "verify", "list"}, stamp : Stamps]
  BY <1>1, RunShape DEF Active, Touches, Runs, NoRun
<1>3. /\ UNCHANGED <<transport, nextStamp, overtaken, lastOk>>
      /\ \E g \in Grades : remote' = [remote EXCEPT ![run[r].stamp] = g]
  <2>1. remote[run[r].stamp] \in Grades
    BY <1>1, <1>2 DEF BackupTypeOK
  <2> QED
    BY <2>1, Zenon DEF MakeDir, UploadEnds, UploadFails, Grades
<1>4. /\ remote' \in [Stamps -> Grades]
      /\ \A s \in Stamps \ Touches(run[r]) : remote'[s] = remote[s]
  BY <1>1, <1>2, <1>3 DEF BackupTypeOK
<1>5. PICK w \in {[run[r] EXCEPT !.pc = "upload"], [run[r] EXCEPT !.pc = "verify"],
                  Recording(run[r].stamp, FALSE)} :
        /\ run' = [run EXCEPT ![r] = w]
        /\ w.pc = "verify" => UploadEnds(r)
  <2>1. CASE MakeDir(r)
    BY <1>1, <1>2, <2>1 DEF MakeDir, BackupTypeOK
  <2>2. CASE UploadEnds(r)
    BY <1>1, <1>2, <2>2 DEF UploadEnds, BackupTypeOK
  <2>3. CASE UploadFails(r)
    BY <1>1, <1>2, <2>3 DEF UploadFails, BackupTypeOK, Recording
  <2> QED
    BY <2>1, <2>2, <2>3
<1>6. /\ w \in Runs /\ w # NoRun /\ w.stamp = run[r].stamp /\ ~Verified(w)
      /\ w.pc \notin {"list", "prune"} /\ Touches(w) \subseteq Touches(run[r])
      /\ Working(w) \/ Touches(w) = {}
  <2>1. CASE w \in {[run[r] EXCEPT !.pc = "upload"], [run[r] EXCEPT !.pc = "verify"]}
    BY <1>2, <2>1 DEF Runs, NoRun, Touches, Working, Verified
  <2>2. CASE w = Recording(run[r].stamp, FALSE)
    BY <1>2, <2>2 DEF Runs, NoRun, Recording, Touches, Working, Verified
  <2> QED
    BY <1>5, <2>1, <2>2
<1>7. w.pc = "verify" /\ transport # "smb" => remote'[run[r].stamp] = "good"
  BY <1>1, <1>2, <1>5 DEF UploadEnds, BackupTypeOK
<1> QED
  BY <1>1, <1>2, <1>3, <1>4, <1>5, <1>6, <1>7, RunStep

\* What passes the check has all its files: over rsync also unlisted.
LEMMA VerifyStep ==
  ASSUME BackupAssumption, BackupInv, NEW r \in Threads, VerifySizes(r) PROVE BackupInv'
<1>1. BackupTypeOK /\ run[r] \in Runs /\ Working(run[r]) /\ run[r].pc = "verify"
      /\ KeepCount \in Nat
  BY DEF BackupInv, BackupTypeOK, VerifySizes, Working, BackupAssumption
<1>2. Active(r) /\ run[r].stamp \in Stamps /\ Touches(run[r]) = {run[r].stamp}
  BY <1>1, RunShape DEF Active, Touches, NoRun
<1>3. /\ UNCHANGED <<transport, nextStamp, overtaken, lastOk>>
      /\ \E g \in Grades : remote' = [remote EXCEPT ![run[r].stamp] = g]
  <2>1. remote[run[r].stamp] \in Grades
        /\ RemovalLeaves(remote[run[r].stamp]) \subseteq Grades
    BY <1>1, <1>2 DEF BackupTypeOK, RemovalLeaves, Grades
  <2>2. remote = [remote EXCEPT ![run[r].stamp] = remote[run[r].stamp]]
    BY <1>1, <1>2 DEF BackupTypeOK
  <2>3. \/ remote' = remote
        \/ \E g \in RemovalLeaves(remote[run[r].stamp]) :
             remote' = [remote EXCEPT ![run[r].stamp] = g]
    BY Zenon DEF VerifySizes
  <2> QED
    BY <2>1, <2>2, <2>3, Zenon DEF VerifySizes
<1>4. /\ remote' \in [Stamps -> Grades]
      /\ \A s \in Stamps \ Touches(run[r]) : remote'[s] = remote[s]
  BY <1>1, <1>2, <1>3 DEF BackupTypeOK
<1>5. \/ /\ run' = [run EXCEPT ![r] = Recording(run[r].stamp, FALSE)]
      \/ /\ run' = [run EXCEPT ![r] = IF KeepCount > 0 THEN [pc |-> "list", stamp |-> run[r].stamp]
                                      ELSE Recording(run[r].stamp, TRUE)]
         /\ remote' = remote
         /\ remote[run[r].stamp] \in SizesMatch \/ transport # "smb"
  BY DEF VerifySizes, SizeCheckPasses
<1>6. PICK w \in {[pc |-> "list", stamp |-> run[r].stamp], Recording(run[r].stamp, TRUE),
                  Recording(run[r].stamp, FALSE)} :
        /\ run' = [run EXCEPT ![r] = w]
        /\ w.pc = "list" => KeepCount > 0
        /\ Verified(w) => /\ remote' = remote
                          /\ remote[run[r].stamp] \in SizesMatch \/ transport # "smb"
  <2>1. ~Verified(Recording(run[r].stamp, FALSE)) /\ Recording(run[r].stamp, FALSE).pc # "list"
        /\ Recording(run[r].stamp, TRUE).pc # "list"
    BY DEF Verified, Recording
  <2> QED
    BY <1>5, <2>1, Zenon
<1>7. /\ w \in Runs /\ w # NoRun /\ w.stamp = run[r].stamp /\ w.pc \notin {"verify", "prune"}
      /\ Touches(w) = {} /\ ~Working(w)
  <2>1. CASE w = [pc |-> "list", stamp |-> run[r].stamp]
    BY <1>2, <2>1 DEF Runs, NoRun, Touches, Working
  <2>2. CASE w = Recording(run[r].stamp, TRUE)
    BY <1>2, <2>2 DEF Runs, NoRun, Recording, Touches, Working
  <2>3. CASE w = Recording(run[r].stamp, FALSE)
    BY <1>2, <2>3 DEF Runs, NoRun, Recording, Touches, Working
  <2> QED
    BY <1>6, <2>1, <2>2, <2>3
<1>8. ~overtaken /\ Verified(w) => remote'[run[r].stamp] \in SizesMatch
  BY <1>1, <1>6 DEF BackupInv, Compared, SizesMatch
<1> QED
  BY <1>1, <1>2, <1>3, <1>4, <1>6, <1>7, <1>8, RunStep

LEMMA PruneStep ==
  ASSUME BackupInv, NEW r \in Threads, PruneOne(r) \/ PruneEnds(r) PROVE BackupInv'
<1>1. BackupTypeOK /\ run[r] \in Runs /\ run[r].pc = "prune"
  BY DEF BackupInv, BackupTypeOK, PruneOne, PruneEnds
<1>2. run[r] \in [pc : {"prune"}, stamp : Stamps, drop : SUBSET Stamps]
  BY <1>1 DEF Runs, NoRun
<1>3. Active(r) /\ run[r].stamp \in Stamps /\ Touches(run[r]) = run[r].drop
      /\ Verified(run[r]) /\ ~Working(run[r]) /\ KeepCount > 0
  BY <1>1, <1>2 DEF Active, Touches, NoRun, Verified, Working, BackupInv, Begun
<1>4. ~overtaken => remote[run[r].stamp] \in SizesMatch /\ run[r].stamp \notin run[r].drop
  BY <1>3 DEF BackupInv, Sound, Safe
<1>5. CASE PruneOne(r)
  <2>1. PICK s \in run[r].drop, g \in Grades :
          /\ remote' = [remote EXCEPT ![s] = g]
          /\ run' = [run EXCEPT ![r].drop = @ \ {s}]
          /\ UNCHANGED <<transport, nextStamp, lastOk, overtaken>>
    BY <1>5, Zenon DEF PruneOne
  <2> DEFINE w == [run[r] EXCEPT !.drop = @ \ {s}]
  <2>2. run' = [run EXCEPT ![r] = w]
    BY <2>1
  <2>3. /\ w \in [pc : {"prune"}, stamp : Stamps, drop : SUBSET Stamps]
        /\ w.stamp = run[r].stamp /\ w.drop \subseteq run[r].drop
    BY <1>2
  <2> HIDE DEF w
  <2>4. /\ w \in Runs /\ w # NoRun /\ ~Working(w) /\ Touches(w) = w.drop /\ w.pc = "prune"
    BY <2>3 DEF Runs, NoRun, Working, Touches
  <2>5. /\ remote' \in [Stamps -> Grades]
        /\ \A t \in Stamps \ Touches(run[r]) : remote'[t] = remote[t]
    BY <1>1, <1>2, <1>3, <2>1 DEF BackupTypeOK
  <2>6. ~overtaken => /\ run[r].stamp \notin Touches(w)
                      /\ remote'[run[r].stamp] \in SizesMatch
    BY <1>3, <1>4, <2>3, <2>4, <2>5
  <2>7. Touches(w) \subseteq Touches(run[r])
    BY <1>3, <2>3, <2>4
  <2>8. UNCHANGED <<transport, nextStamp, overtaken>> /\ lastOk' = lastOk
    BY <2>1
  <2> QED
    BY <1>3, <2>2, <2>3, <2>4, <2>5, <2>6, <2>7, <2>8, RunStep
<1>6. CASE PruneEnds(r)
  <2> DEFINE w == Recording(run[r].stamp, TRUE)
  <2>1. run' = [run EXCEPT ![r] = w] /\ UNCHANGED <<transport, remote, nextStamp, lastOk, overtaken>>
    BY <1>6 DEF PruneEnds
  <2>2. w \in Runs /\ w # NoRun /\ ~Working(w) /\ Touches(w) = {} /\ w.pc = "record"
        /\ w.stamp = run[r].stamp
    BY <1>3 DEF Recording, Runs, NoRun, Working, Touches
  <2> HIDE DEF w
  <2> QED
    BY <1>1, <1>3, <1>4, <2>1, <2>2, RunStep DEF BackupTypeOK
<1> QED
  BY <1>5, <1>6

LEMMA RecordStep ==
  ASSUME BackupInv, NEW r \in Threads, RecordRun(r) PROVE BackupInv'
<1>1. BackupTypeOK /\ run[r] \in Runs /\ run[r].pc = "record"
      /\ run' = [run EXCEPT ![r] = NoRun]
      /\ UNCHANGED <<transport, remote, nextStamp, overtaken>>
      /\ lastOk' = IF run[r].ok THEN run[r].stamp ELSE lastOk
  BY DEF BackupInv, BackupTypeOK, RecordRun
<1>2. Active(r) /\ NoRun \in Runs /\ Touches(NoRun) = {} /\ ~Working(NoRun)
      /\ NoRun.pc = "idle" /\ ~Verified(NoRun)
  BY <1>1, RunShape DEF Active, Runs, NoRun
<1>3. lastOk' = lastOk \/ (lastOk' = run[r].stamp /\ Verified(run[r]))
  BY <1>1 DEF Verified
<1> QED
  BY <1>1, <1>2, <1>3, RunStep DEF BackupTypeOK

\* What a run that has not been overtaken has uploaded is among the newest
\* KeepCount directories.
LEMMA NewestAreKept ==
  ASSUME BackupAssumption, BackupInv, InTime, NEW q \in Threads, Active(q), KeepCount > 0,
         NEW dirs, dirs = {s \in Stamps : remote[s] # "none"}
  PROVE  run[q].stamp \notin Expired(dirs)
<1> DEFINE p == run[q].stamp
           later == {t \in dirs : t > p}
<1>1. p \in Stamps /\ p \in Nat /\ nextStamp \in Nat /\ p < nextStamp /\ KeepCount \in Nat
  BY RunShape DEF BackupInv, BackupTypeOK, Begun, Active, Stamps, BackupAssumption
<1>2. later \subseteq p + 1 .. nextStamp - 1
  BY <1>1 DEF BackupInv, BackupTypeOK, Begun, Stamps
<1>3. /\ IsFiniteSet(p + 1 .. nextStamp - 1)
      /\ Cardinality(p + 1 .. nextStamp - 1) = nextStamp - 1 - p
  <2>1. p + 1 \in Int /\ nextStamp - 1 \in Int
    BY <1>1
  <2>2. /\ IsFiniteSet(p + 1 .. nextStamp - 1)
        /\ Cardinality(p + 1 .. nextStamp - 1) =
             IF p + 1 > nextStamp - 1 THEN 0 ELSE (nextStamp - 1) - (p + 1) + 1
    BY <2>1, FS_Interval, Zenon
  <2> QED
    BY <1>1, <2>2
<1>4. Cardinality(later) \in Nat /\ Cardinality(later) <= nextStamp - 1 - p
  BY <1>1, <1>2, <1>3, FS_Subset, FS_CardinalityType
<1>5. nextStamp - p <= KeepCount
  BY DEF InTime
<1>6. Cardinality(later) < KeepCount
  BY <1>1, <1>4, <1>5
<1>7. p \in dirs => p \in Kept(dirs)
  BY <1>6 DEF Kept
<1> QED
  BY <1>7 DEF Expired

LEMMA ListStep ==
  ASSUME BackupAssumption, BackupInv, NEW r \in Threads, PruneList(r) PROVE BackupInv'
<1> DEFINE dirs == {s \in Stamps : remote[s] # "none"}
<1>1. BackupTypeOK /\ Begun /\ run[r].pc = "list" /\ run[r] \in Runs
      /\ UNCHANGED <<transport, remote, nextStamp, lastOk, overtaken>>
  BY DEF BackupInv, BackupTypeOK, PruneList
<1>2. Active(r) /\ run[r].stamp \in Stamps /\ Verified(run[r]) /\ ~Working(run[r])
      /\ Touches(run[r]) = {} /\ KeepCount > 0
  BY <1>1, RunShape DEF Active, NoRun, Verified, Working, Touches, Begun
<1>3. PICK drop \in {Expired(dirs), {}} :
        run' = [run EXCEPT ![r] = [pc |-> "prune", stamp |-> run[r].stamp, drop |-> drop]]
  BY Zenon DEF PruneList
<1>4. drop \subseteq Stamps /\ \A s \in drop : s \in Stamps /\ s < nextStamp
  BY <1>1, <1>3 DEF Expired, Begun
<1>5. ASSUME InTime, NEW q \in Threads, Active(q) PROVE run[q].stamp \notin drop
  BY <1>2, <1>3, <1>5, NewestAreKept
<1> DEFINE w == [pc |-> "prune", stamp |-> run[r].stamp, drop |-> drop]
<1>6. w \in Runs /\ w # NoRun /\ w.stamp = run[r].stamp /\ ~Working(w) /\ Touches(w) = drop
      /\ w.pc = "prune" /\ Verified(w)
  BY <1>2, <1>4 DEF Runs, NoRun, Working, Touches, Verified
<1>7. run' = [run EXCEPT ![r] = w]
  BY <1>3
<1> HIDE DEF w
<1>8. \A q \in Threads : run'[q] = IF q = r THEN w ELSE run[q]
  BY <1>1, <1>7 DEF BackupTypeOK
<1>9. BackupTypeOK'
  BY <1>1, <1>6, <1>7 DEF BackupTypeOK
<1>10. \A q \in Threads : (run'[q] # NoRun) => Active(q) /\ run'[q].stamp = run[q].stamp
  BY <1>2, <1>6, <1>8 DEF Active
<1>11. Begun'
  BY <1>1, <1>2, <1>4, <1>6, <1>8, <1>10 DEF Begun, Active
<1>12. ASSUME ~overtaken' PROVE InTime' /\ Spared' /\ Compared' /\ Sound'
  <2>1. ~overtaken /\ InTime /\ Spared /\ Compared /\ Sound
    BY <1>1, <1>12 DEF BackupInv
  <2>2. \A q \in Threads : Active(q) => run[q].stamp \notin drop
    BY <1>5, <2>1
  <2>3. InTime'
    BY <1>1, <1>10, <2>1 DEF InTime, Active
  <2>4. Spared'
    BY <1>6, <1>8, <1>10, <2>1, <2>2 DEF Spared, Active
  <2>5. Compared'
    BY <1>1, <1>6, <1>8, <2>1 DEF Compared
  <2>6. \A s \in Stamps : Safe(s) /\ s \notin drop => Safe(s)'
    BY <1>1, <1>6, <1>8 DEF Safe
  <2>7. ASSUME NEW q \in Threads, Verified(run'[q])
        PROVE  /\ Active(q) /\ run'[q].stamp = run[q].stamp /\ run[q].stamp \in Stamps
               /\ Safe(run[q].stamp) /\ run[q].stamp \notin drop
    <3>1. run'[q] # NoRun
      BY <1>9, <2>7, RunShape DEF BackupTypeOK
    <3>2. Active(q) /\ run'[q].stamp = run[q].stamp /\ run[q].stamp \in Stamps
      BY <1>1, <1>10, <3>1, RunShape DEF Active, BackupTypeOK
    <3>3. Verified(run[q])
      BY <1>2, <1>8, <2>7
    <3> QED
      BY <2>1, <2>2, <3>2, <3>3 DEF Sound
  <2>8. \E s \in Stamps : Safe(s)'
    BY <1>2, <2>1, <2>2, <2>6 DEF Sound
  <2>9. Sound'
    BY <2>6, <2>7, <2>8 DEF Sound, Safe
  <2> QED
    BY <2>3, <2>4, <2>5, <2>9
<1> QED
  BY <1>9, <1>11, <1>12 DEF BackupInv

LEMMA DeathStep == ASSUME BackupInv, ServerDies PROVE BackupInv'
<1>1. /\ run' = [r \in Threads |-> NoRun]
      /\ UNCHANGED <<transport, remote, nextStamp, lastOk, overtaken>>
  BY DEF ServerDies
<1>2. \A r \in Threads : run'[r] = NoRun
  BY <1>1
<1>3. Touches(NoRun) = {} /\ ~Working(NoRun) /\ NoRun.pc = "idle" /\ ~Verified(NoRun) /\ NoRun \in Runs
  BY DEF Runs, NoRun, Touches, Working, Verified
<1>4. BackupTypeOK'
  BY <1>1, <1>3 DEF BackupInv, BackupTypeOK
<1>5. Begun'
  BY <1>1, <1>2, <1>3 DEF BackupInv, Begun, Active
<1>6. InTime' /\ Spared' /\ Compared'
  BY <1>2, <1>3 DEF InTime, Spared, Compared, Active
<1>7. \A s \in Stamps : Safe(s) => Safe(s)'
  BY <1>1, <1>2, <1>3 DEF Safe
<1>8. ~overtaken => Sound'
  BY <1>1, <1>2, <1>3, <1>7 DEF BackupInv, Sound
<1> QED
  BY <1>1, <1>4, <1>5, <1>6, <1>8 DEF BackupInv

\* A backup that was reported as done stays worth something: whatever
\* retention, the removal of failed uploads, other runs and deaths do, a
\* snapshot with all its files is left as long as no run is overtaken by
\* KeepCount others, for any number of threads and runs and any retention
\* (backup.py 670-717, 836-871).
THEOREM GoodSnapshotStays == BackupSpec => []SnapshotSurvives
<1>1. BackupInit => BackupInv
  BY BackupInit1
<1>2. BackupInv /\ [BackupNext]_backupVars => BackupInv'
  <2> SUFFICES ASSUME BackupInv, [BackupNext]_backupVars PROVE BackupInv'
    OBVIOUS
  <2>1. ASSUME NEW r \in Threads, RunStart(r) PROVE BackupInv'
    BY <2>1, BackupAssumption, RunStartStep
  <2>2. ASSUME NEW r \in Threads, MakeDir(r) \/ UploadEnds(r) \/ UploadFails(r) PROVE BackupInv'
    BY <2>2, UploadStep
  <2>3. ASSUME NEW r \in Threads, VerifySizes(r) PROVE BackupInv'
    BY <2>3, BackupAssumption, VerifyStep
  <2>4. ASSUME NEW r \in Threads, PruneList(r) PROVE BackupInv'
    BY <2>4, BackupAssumption, ListStep
  <2>5. ASSUME NEW r \in Threads, PruneOne(r) \/ PruneEnds(r) PROVE BackupInv'
    BY <2>5, PruneStep
  <2>6. ASSUME NEW r \in Threads, RecordRun(r) PROVE BackupInv'
    BY <2>6, RecordStep
  <2>7. CASE ServerDies
    BY <2>7, DeathStep
  <2>8. CASE UNCHANGED backupVars
    <3>1. UNCHANGED <<transport, remote, nextStamp, run, lastOk, overtaken>>
      BY <2>8 DEF backupVars
    <3> QED
      BY <3>1 DEF BackupInv, BackupTypeOK, Begun, InTime, Spared, Compared, Sound, Safe, Active
  <2> QED
    BY <2>1, <2>2, <2>3, <2>4, <2>5, <2>6, <2>7, <2>8 DEF BackupNext
<1>3. BackupInv => SnapshotSurvives
  BY DEF BackupInv, Sound, Safe, SnapshotSurvives
<1> QED
  BY <1>1, <1>2, <1>3, PTL DEF BackupSpec

-----------------------------------------------------------------------------
(* Restores.  What is swapped in has been found whole, and every file that *)
(* is no longer waiting comes from the snapshot that is restored.          *)

Restoring ==
  [pc: {"fetch", "swap"}, snap: Snapshots, scope: SUBSET DataFiles,
   todo: SUBSET DataFiles, whole: BOOLEAN]

RestoreTypeOK ==
  /\ restore \in {NoRestore} \cup Restoring
  /\ data \in [DataFiles -> (0..Own)]

\* What is being swapped.
SwapOK ==
  restore.pc = "swap" =>
    /\ restore.whole
    /\ \A f \in restore.scope \ restore.todo : data[f] = restore.snap

Uniform ==
  restore.pc # "swap" /\ ~blended => \A f, g \in DataFiles : data[f] = data[g]

RestoreInv == RestoreTypeOK /\ SwapOK /\ Uniform

LEMMA RestoreInitInv == RestoreInit => RestoreInv
<1> SUFFICES ASSUME RestoreInit PROVE RestoreInv
  OBVIOUS
<1>1. RestoreTypeOK
  BY RestoreAssumption
  DEF RestoreAssumption, RestoreInit, RestoreTypeOK, Own, Missing
<1>2. SwapOK /\ Uniform
  BY DEF RestoreInit, SwapOK, Uniform, NoRestore
<1> QED  BY <1>1, <1>2 DEF RestoreInv

LEMMA NextOfIsMember ==
  ASSUME NEW files, files # {} PROVE NextOf(files) \in files
  BY Zenon DEF NextOf

-----------------------------------------------------------------------------
(* One step of each kind *)

LEMMA StartStep ==
  ASSUME RestoreInv, NEW s \in Snapshots, NEW scope \in SUBSET DataFiles,
         RestoreStart(s, scope)
  PROVE  RestoreInv'
  BY DEF RestoreInv, RestoreTypeOK, SwapOK, Uniform, RestoreStart, Restoring, NoRestore

LEMMA FetchStep ==
  ASSUME RestoreInv, Fetch \/ FetchFails \/ FetchEnds PROVE RestoreInv'
<1>1. restore.pc = "fetch" /\ UNCHANGED <<shelf, saved, data, blended>>
  BY Zenon DEF Fetch, FetchFails, FetchEnds
<1>2. restore \in Restoring
  BY <1>1 DEF RestoreInv, RestoreTypeOK, NoRestore
<1>3. CASE Fetch
  <2>1. PICK whole \in BOOLEAN :
          /\ shelf[restore.snap] = "good" => whole
          /\ restore' = [restore EXCEPT !.todo = @ \ {NextOf(@)}, !.whole = @ /\ whole]
    BY <1>3, Zenon DEF Fetch
  <2>2. restore' \in Restoring /\ restore'.pc = "fetch"
    <3> DEFINE fetched == [restore EXCEPT !.todo = @ \ {NextOf(@)}]
    <3>1. fetched \in Restoring /\ fetched.pc = "fetch"
      BY <1>1, <1>2 DEF Restoring
    <3>2. restore' = [fetched EXCEPT !.whole = restore.whole /\ whole]
      BY <2>1
    <3>3. (restore.whole /\ whole) \in BOOLEAN
      OBVIOUS
    <3> QED
      BY <3>1, <3>2, <3>3 DEF Restoring
  <2> QED
    BY <1>1, <1>2, <2>2 DEF RestoreInv, RestoreTypeOK, SwapOK, Uniform
<1>4. CASE FetchFails
  BY <1>1, <1>2, <1>4 DEF FetchFails, RestoreInv, RestoreTypeOK, SwapOK, Uniform, NoRestore
<1>5. CASE FetchEnds
  <2>1. CASE restore.whole
    <3>1. restore' = [restore EXCEPT !.pc = "swap", !.todo = restore.scope]
      BY <1>5, <2>1 DEF FetchEnds, VerifyManifest, HashesMatch
    <3>2. /\ restore' \in Restoring /\ restore'.pc = "swap"
          /\ restore'.whole /\ restore'.todo = restore'.scope
      BY <1>2, <2>1, <3>1 DEF Restoring
    <3> QED
      BY <1>1, <3>2 DEF RestoreInv, RestoreTypeOK, SwapOK, Uniform
  <2>2. CASE ~restore.whole
    BY <1>1, <1>2, <1>5, <2>2
    DEF FetchEnds, VerifyManifest, HashesMatch, RestoreInv, RestoreTypeOK, SwapOK,
        Uniform, NoRestore
  <2> QED  BY <2>1, <2>2
<1> QED  BY <1>3, <1>4, <1>5

LEMMA SwapStep ==
  ASSUME RestoreInv, Swap PROVE RestoreInv'
<1> DEFINE next == NextOf(restore.todo)
<1>1. restore \in Restoring /\ restore.pc = "swap" /\ restore.whole
  BY DEF Swap, RestoreInv, RestoreTypeOK, SwapOK, NoRestore
<1>2. next \in restore.todo /\ next \in DataFiles
  BY <1>1, NextOfIsMember DEF Swap, Restoring
<1> HIDE DEF next
<1>3. data' = [data EXCEPT ![next] = restore.snap]
  BY <1>1 DEF Swap, next
<1>4. restore' = [restore EXCEPT !.todo = @ \ {next}]
  BY DEF Swap, next
<1>5. restore.snap \in 0..Own
  BY <1>1, RestoreAssumption DEF RestoreAssumption, Restoring, Snapshots, Own
<1>6. data' \in [DataFiles -> 0..Own]
  BY <1>2, <1>3, <1>5 DEF RestoreInv, RestoreTypeOK
<1>7. restore' \in Restoring /\ restore'.pc = "swap" /\ restore'.whole
  BY <1>1, <1>4 DEF Restoring
<1>8. ASSUME NEW f \in restore'.scope \ restore'.todo PROVE data'[f] = restore'.snap
  <2>1. /\ restore'.scope = restore.scope /\ restore'.snap = restore.snap
        /\ f = next \/ f \in restore.scope \ restore.todo
    BY <1>1, <1>4, <1>8 DEF Restoring
  <2>2. f \in DataFiles
    BY <1>1, <2>1, <1>2 DEF Restoring
  <2> QED
    BY <1>1, <1>2, <1>3, <2>1, <2>2 DEF RestoreInv, RestoreTypeOK, SwapOK
<1> QED  BY <1>6, <1>7, <1>8 DEF RestoreInv, RestoreTypeOK, SwapOK, Uniform

LEMMA EndStep ==
  ASSUME RestoreInv, RestoreEnds \/ RestoreDies \/ Retention PROVE RestoreInv'
<1>1. CASE RestoreEnds
  <2>1. restore \in Restoring
    BY <1>1 DEF RestoreEnds, RestoreInv, RestoreTypeOK, NoRestore
  <2>2. ~blended' => \A f \in DataFiles : data[f] = restore.snap
    BY <1>1 DEF RestoreEnds, RestoreInv, SwapOK
  <2> QED
    BY <1>1, <2>2 DEF RestoreEnds, RestoreInv, RestoreTypeOK, SwapOK, Uniform, NoRestore
<1>2. CASE RestoreDies
  BY <1>2 DEF RestoreDies, RestoreInv, RestoreTypeOK, SwapOK, Uniform, NoRestore
<1>3. CASE Retention
  BY <1>3 DEF Retention, RestoreInv, RestoreTypeOK, SwapOK, Uniform
<1> QED  BY <1>1, <1>2, <1>3

LEMMA RestoreStep == RestoreInv /\ [RestoreNext]_restoreVars => RestoreInv'
<1> SUFFICES ASSUME RestoreInv, [RestoreNext]_restoreVars PROVE RestoreInv'
  OBVIOUS
<1>1. CASE UNCHANGED restoreVars
  BY <1>1 DEF restoreVars, RestoreInv, RestoreTypeOK, SwapOK, Uniform
<1>2. CASE \E s \in Snapshots, scope \in SUBSET DataFiles \ {{}} : RestoreStart(s, scope)
  BY <1>2, StartStep
<1> QED
  BY <1>1, <1>2, FetchStep, SwapStep, EndStep, Zenon DEF RestoreNext

-----------------------------------------------------------------------------
\* For any files and snapshots: no damaged file is put into /data, and outside
\* of a swap all of /data has one origin, whatever fails during the transfer
\* and whatever retention removes meanwhile; a death in the swap and a
\* selective restore are the exceptions (backup.py 951-985).
THEOREM RestoreIsAllOrNothing == RestoreSpec => []RestoreAllOrNothing
<1>1. RestoreInit => RestoreInv
  BY RestoreInitInv
<1>2. RestoreInv /\ [RestoreNext]_restoreVars => RestoreInv'
  BY RestoreStep
<1>3. RestoreInv => RestoreAllOrNothing
  BY RestoreAssumption
  DEF RestoreAssumption, RestoreInv, RestoreTypeOK, Uniform, RestoreAllOrNothing, Own, Damaged
<1> QED
  BY <1>1, <1>2, <1>3, PTL DEF RestoreSpec

-----------------------------------------------------------------------------
(* Suggestions.  One changes the configuration at most once, for any       *)
(* number of them: the invariant and why every step keeps it.              *)

AdvisorTypeOK ==
  /\ suggestion \in [Suggestions -> {"none", "pending", "dismissed", "applied"}]
  /\ applications \in [Suggestions -> Nat]
  /\ applying \in {NoApply} \cup [pc: {"change", "settle"}, of: Suggestions]
  /\ dismissing \subseteq Suggestions

\* What has been applied is neither new nor pending, apart from the one that
\* is being applied, and that one has left no trace before its change.
TraceMatches(s) ==
  /\ applications[s] \in {0, 1}
  /\ suggestion[s] = "none" => applications[s] = 0 /\ applying.of # s
  /\ suggestion[s] = "pending" /\ applying.of # s => applications[s] = 0
  /\ applying.of = s /\ applying.pc = "change" => applications[s] = 0

AdvisorInv ==
  /\ AdvisorTypeOK
  /\ \A s \in Suggestions \ interrupted : TraceMatches(s)

LEMMA AdvisorInitInv == AdvisorInit => AdvisorInv
  BY AdvisorAssumption
  DEF AdvisorAssumption, AdvisorInit, AdvisorInv, AdvisorTypeOK, TraceMatches, NoApply

-----------------------------------------------------------------------------
(* One step of each kind *)

LEMMA ReviewStep ==
  ASSUME AdvisorInv, ReviewEnds PROVE AdvisorInv'
<1> USE DEF AdvisorInv, AdvisorTypeOK
<1>1. PICK old \in SUBSET {s \in Suggestions : suggestion[s] = "pending"},
           new \in SUBSET {s \in Suggestions : suggestion[s] = "none"} :
        suggestion' = [s \in Suggestions |-> IF s \in old THEN "dismissed"
                                         ELSE IF s \in new THEN "pending" ELSE suggestion[s]]
  BY Zenon DEF ReviewEnds
<1>2. UNCHANGED <<applications, applying, dismissing, interrupted>>
  BY DEF ReviewEnds
<1>3. AdvisorTypeOK'
  BY <1>1, <1>2
<1>4. ASSUME NEW s \in Suggestions \ interrupted PROVE TraceMatches(s)'
  BY <1>1, <1>2, <1>4 DEF TraceMatches
<1> QED  BY <1>2, <1>3, <1>4

LEMMA ApplyReadsStep ==
  ASSUME AdvisorInv, NEW a \in Suggestions, ApplyReads(a) PROVE AdvisorInv'
<1>1. AdvisorTypeOK'
  BY DEF AdvisorInv, AdvisorTypeOK, ApplyReads
<1>2. ASSUME NEW s \in Suggestions \ interrupted PROVE TraceMatches(s)'
  BY AdvisorAssumption, <1>2
  DEF AdvisorAssumption, AdvisorInv, AdvisorTypeOK, TraceMatches, ApplyReads, MayApply,
      LoopFree, NoApply
<1> QED  BY <1>1, <1>2 DEF AdvisorInv, ApplyReads

LEMMA ApplyChangesStep ==
  ASSUME AdvisorInv, ApplyChanges PROVE AdvisorInv'
<1>1. PICK a \in Suggestions : applying = [pc |-> "change", of |-> a]
  BY DEF AdvisorInv, AdvisorTypeOK, ApplyChanges, NoApply
<1>2. applying' = [pc |-> "settle", of |-> a]
  BY <1>1 DEF ApplyChanges
<1>3. /\ applications' \in [Suggestions -> Nat]
      /\ \A s \in Suggestions \ {a} : applications'[s] = applications[s]
      /\ applications[a] = 0 => applications'[a] \in {0, 1}
  BY <1>1 DEF AdvisorInv, AdvisorTypeOK, ApplyChanges
<1>4. UNCHANGED <<suggestion, dismissing, interrupted>>
  BY DEF ApplyChanges
<1>5. AdvisorTypeOK'
  BY <1>2, <1>3, <1>4 DEF AdvisorInv, AdvisorTypeOK
<1>6. ASSUME NEW s \in Suggestions \ interrupted PROVE TraceMatches(s)'
  BY <1>1, <1>2, <1>3, <1>4, <1>6 DEF AdvisorInv, TraceMatches
<1> QED  BY <1>4, <1>5, <1>6 DEF AdvisorInv

LEMMA ApplySettlesStep ==
  ASSUME AdvisorInv, ApplySettles PROVE AdvisorInv'
<1> USE DEF AdvisorInv, AdvisorTypeOK, ApplySettles
<1>1. PICK a \in Suggestions : applying = [pc |-> "settle", of |-> a]
  BY DEF NoApply
<1>2. AdvisorTypeOK'
  BY <1>1
<1>3. ASSUME NEW s \in Suggestions \ interrupted PROVE TraceMatches(s)'
  BY AdvisorAssumption, <1>1, <1>3 DEF AdvisorAssumption, TraceMatches, NoApply
<1> QED  BY <1>2, <1>3

LEMMA DismissStep ==
  ASSUME AdvisorInv, NEW d \in Suggestions, DismissReads(d) \/ DismissSettles(d)
  PROVE  AdvisorInv'
<1>1. AdvisorTypeOK'
  BY DEF AdvisorInv, AdvisorTypeOK, DismissReads, DismissSettles
<1>2. ASSUME NEW s \in Suggestions \ interrupted PROVE TraceMatches(s)'
  BY <1>2 DEF AdvisorInv, AdvisorTypeOK, TraceMatches, DismissReads, DismissSettles
<1> QED  BY <1>1, <1>2 DEF AdvisorInv, DismissReads, DismissSettles

\* What was being applied counts as interrupted from now on.
LEMMA RestartStep ==
  ASSUME AdvisorInv, AdvisorRestart PROVE AdvisorInv'
<1>1. AdvisorTypeOK'
  BY DEF AdvisorInv, AdvisorTypeOK, AdvisorRestart
<1>2. ASSUME NEW s \in Suggestions \ interrupted' PROVE TraceMatches(s)'
  <2>1. applying.of # s /\ s \notin interrupted
    BY AdvisorAssumption, <1>2 DEF AdvisorAssumption, AdvisorRestart
  <2> QED
    BY AdvisorAssumption, <1>2, <2>1
    DEF AdvisorAssumption, AdvisorInv, TraceMatches, AdvisorRestart, NoApply
<1> QED  BY <1>1, <1>2 DEF AdvisorInv

LEMMA AdvisorStep == AdvisorInv /\ [AdvisorNext]_advisorVars => AdvisorInv'
<1> SUFFICES ASSUME AdvisorInv, [AdvisorNext]_advisorVars PROVE AdvisorInv'
  OBVIOUS
<1>1. CASE UNCHANGED advisorVars
  BY <1>1 DEF advisorVars, AdvisorInv, AdvisorTypeOK, TraceMatches
<1> QED
  BY <1>1, ReviewStep, ApplyReadsStep, ApplyChangesStep, ApplySettlesStep,
     DismissStep, RestartStep, Zenon DEF AdvisorNext

-----------------------------------------------------------------------------
\* However reviews, the two routes that apply, dismissals in worker threads
\* and restarts interleave, a suggestion whose application the server survived
\* has changed the configuration at most once, and not at all while it is
\* still shown as pending (advisor_routes.py 1341, assistant_routes.py 446).
THEOREM SuggestionsApplyOnce == AdvisorSpec => []AppliedOnce
<1>1. AdvisorInit => AdvisorInv
  BY AdvisorInitInv
<1>2. AdvisorInv /\ [AdvisorNext]_advisorVars => AdvisorInv'
  BY AdvisorStep
<1>3. AdvisorInv => AppliedOnce
  BY DEF AdvisorInv, TraceMatches, AppliedOnce
<1> QED
  BY <1>1, <1>2, <1>3, PTL DEF AdvisorSpec

-----------------------------------------------------------------------------
(* Conversations.  They are accountable, for any number of turns, tool     *)
(* runs and model calls: nothing unasked is changed, what was decided is   *)
(* carried out once or not at all, and a deleted conversation leaves       *)
(* nothing behind.                                                         *)

\* The shape that updates of single fields rely on.
ChatShape ==
  /\ DOMAIN runs = ToolRuns /\ DOMAIN turns = ChatTurns
  /\ \A r \in ToolRuns : "status" \in DOMAIN runs[r]
  /\ \A t \in ChatTurns : "at" \in DOMAIN turns[t]
  /\ approving \in [ToolRuns -> Nat] /\ effects \in [ToolRuns -> Nat]
  /\ denying \subseteq ToolRuns
  /\ deleting \in {"no", "files", "done"} /\ upload \in {"no", "reading", "written"}

\* Nothing has happened to a run that has no row yet.
Untouched(r) ==
  runs[r].status = "none" => approving[r] = 0 /\ effects[r] = 0 /\ r \notin denying

\* How far the decision on a run is, as long as no two of them met.
Decision(r) ==
  /\ approving[r] \in {0, 1} /\ effects[r] \in {0, 1}
  /\ runs[r].status = "pending" /\ approving[r] = 0 => effects[r] = 0
  /\ r \in denying => approving[r] = 0 /\ effects[r] = 0
  /\ runs[r].status = "denied" => effects[r] = 0

\* A file has a row, or a thread that will make or remove one or the other.
FileHasOwner ==
  ~disturbed /\ file =>
    attachment # "none" \/ upload = "written" \/ deleting = "files"

\* Nothing goes on over the deletion, and nothing starts after it.
Deletion ==
  /\ chat <=> deleting = "no"
  /\ ~chat /\ ~disturbed =>
       /\ ~Busy /\ ~messages /\ attachment = "none"
       /\ \A r \in ToolRuns : runs[r].status \in {"none", "deleted"}

ChatInv ==
  /\ ChatShape
  /\ ~unasked
  /\ \A r \in ToolRuns : Untouched(r)
  /\ \A r \in ToolRuns \ crossed : Decision(r)
  /\ FileHasOwner
  /\ Deletion

LEMMA ChatInitInv == ChatInit => ChatInv
<1> SUFFICES ASSUME ChatInit PROVE ChatInv
  OBVIOUS
<1>1. ChatShape
  BY DEF ChatInit, ChatShape, NoToolRun, NoTurn
<1>2. \A r \in ToolRuns : Untouched(r) /\ Decision(r)
  BY DEF ChatInit, Untouched, Decision, NoToolRun
<1>3. ~unasked /\ FileHasOwner /\ Deletion
  BY Zenon DEF ChatInit, FileHasOwner, Deletion
<1> QED  BY <1>1, <1>2, <1>3 DEF ChatInv

-----------------------------------------------------------------------------
(* Turns *)

\* What a turn may do to the rows of the runs: nothing, or fill a free one.
FillsFree ==
  \/ UNCHANGED runs
  \/ \E r \in FreeRuns : \E row :
       /\ runs' = [runs EXCEPT ![r] = row]
       /\ "status" \in DOMAIN row /\ row.status \in {"pending", "applied"}

LEMMA InsertFills ==
  ASSUME NEW tool, NEW status \in {"pending", "applied"},
         Insert([status |-> status, tool |-> tool])
  PROVE  FillsFree
<1>1. FreeRuns # {} /\ (CHOOSE x \in FreeRuns : TRUE) \in FreeRuns
  BY Zenon DEF Insert
<1> DEFINE row == [status |-> status, tool |-> tool]
<1>2. "status" \in DOMAIN row /\ row.status = status
  OBVIOUS
<1>3. runs' = [runs EXCEPT ![CHOOSE x \in FreeRuns : TRUE] = row]
  BY Zenon DEF Insert
<1> QED  BY <1>1, <1>2, <1>3, Zenon DEF FillsFree

\* Everything a turn does after its start keeps the invariant: it goes on only
\* in a conversation that is there, or that was deleted over it.
LEMMA TurnKeeps ==
  ASSUME ChatInv, NEW t \in ChatTurns, turns[t].at # "idle", FillsFree, ~unasked',
         DOMAIN turns' = ChatTurns, \A u \in ChatTurns : "at" \in DOMAIN turns'[u],
         UNCHANGED <<rowsVars, decisionVars, attachment>>
  PROVE  ChatInv'
<1>1. UNCHANGED <<chat, deleting, upload, file, disturbed, approving, denying,
                  effects, crossed, attachment>>
  BY DEF rowsVars, decisionVars
<1>2. chat \/ disturbed
  BY DEF ChatInv, Deletion, Busy
<1>3. \A r \in ToolRuns :
        \/ runs'[r] = runs[r]
        \/ /\ "status" \in DOMAIN runs'[r] /\ runs'[r].status \in {"pending", "applied"}
           /\ runs[r].status = "none"
  BY DEF FillsFree, FreeRuns, ChatInv, ChatShape
<1>4. DOMAIN runs' = ToolRuns
  BY DEF FillsFree, ChatInv, ChatShape
<1>5. ChatShape'
  BY <1>1, <1>3, <1>4 DEF ChatInv, ChatShape
<1>6. \A r \in ToolRuns : Untouched(r)'
  BY <1>1, <1>3 DEF ChatInv, Untouched
<1>7. ASSUME NEW r \in ToolRuns \ crossed PROVE Decision(r)'
  BY <1>1, <1>3, <1>7 DEF ChatInv, Untouched, Decision
<1>8. FileHasOwner' /\ Deletion'
  BY <1>1, <1>2, Zenon DEF ChatInv, FileHasOwner, Deletion
<1> QED  BY <1>1, <1>5, <1>6, <1>7, <1>8 DEF ChatInv

LEMMA TurnStep ==
  ASSUME ChatInv, NEW t \in ChatTurns,
         ModelAnswers(t) \/ Proposes(t) \/ Acts(t) \/ Returns(t) \/ RoundEnds(t)
  PROVE  ChatInv'
<1>1. /\ turns[t].at # "idle"
      /\ UNCHANGED <<rowsVars, decisionVars, attachment>>
  BY Zenon DEF ModelAnswers, Proposes, Acts, Returns, RoundEnds
<1>2. FillsFree
  <2>1. UNCHANGED runs \/ Proposes(t) \/ Returns(t)
    BY Zenon DEF ModelAnswers, Acts, RoundEnds
  <2>2. CASE UNCHANGED runs
    BY <2>2 DEF FillsFree
  <2>3. CASE Proposes(t)
    <3>1. Insert([status |-> "pending", tool |-> Tool(t)])
      BY <2>3, Zenon DEF Proposes
    <3> QED  BY <3>1, InsertFills
  <2>4. CASE Returns(t)
    <3>1. UNCHANGED runs \/ Insert([status |-> "applied", tool |-> Tool(t)])
      BY <2>4, Zenon DEF Returns
    <3> QED  BY <3>1, <2>2, InsertFills
  <2> QED  BY <2>1, <2>2, <2>3, <2>4
<1>3. ~unasked'
  <2>1. UNCHANGED unasked \/ Acts(t)
    BY Zenon DEF ModelAnswers, Proposes, Returns, RoundEnds
  <2>2. CASE Acts(t)
    BY <2>2, Zenon DEF Acts, Waits, NeedsApproval, ChatInv
  <2> QED  BY <2>1, <2>2 DEF ChatInv
<1>4. DOMAIN turns' = ChatTurns /\ \A u \in ChatTurns : "at" \in DOMAIN turns'[u]
  <2>1. "at" \in DOMAIN turns[t] /\ "at" \in DOMAIN NoTurn
    BY DEF ChatInv, ChatShape, NoTurn
  <2>2. CASE ModelAnswers(t)
    <3>1. \/ turns' = [turns EXCEPT ![t] = NoTurn]
          \/ \E uses : turns' = [turns EXCEPT ![t].at = "tools", ![t].uses = uses]
      BY <2>2, Zenon DEF ModelAnswers, TurnEnds
    <3> QED  BY <3>1, <2>1 DEF ChatInv, ChatShape
  <2>3. CASE Proposes(t)
    <3>1. PICK rest : turns' = [turns EXCEPT ![t].uses = rest, ![t].proposed = TRUE]
      BY <2>3, Zenon DEF Proposes
    <3> QED  BY <3>1, <2>1 DEF ChatInv, ChatShape
  <2>4. CASE Acts(t) \/ Returns(t)
    BY <2>1, <2>4 DEF Acts, Returns, ChatInv, ChatShape
  <2>5. CASE RoundEnds(t)
    BY <2>1, <2>5 DEF RoundEnds, TurnEnds, ChatInv, ChatShape
  <2> QED  BY <2>2, <2>3, <2>4, <2>5
<1> QED  BY <1>1, <1>2, <1>3, <1>4, TurnKeeps

LEMMA TurnStartsStep ==
  ASSUME ChatInv, NEW t \in ChatTurns, TurnStarts(t) PROVE ChatInv'
<1>1. /\ chat
      /\ attachment # "none" => attachment' # "none"
      /\ UNCHANGED <<chat, deleting, upload, file, disturbed, approving, denying,
                     effects, crossed, runs, unasked>>
  BY DEF TurnStarts, rowsVars, decisionVars
<1>2. DOMAIN turns' = ChatTurns /\ \A u \in ChatTurns : "at" \in DOMAIN turns'[u]
  <2>1. PICK auto \in BOOLEAN :
          turns' = [turns EXCEPT ![t] = [NoTurn EXCEPT !.at = "model", !.autopilot = auto,
                                                        !.round = 1]]
    BY Zenon DEF TurnStarts
  <2>2. "at" \in DOMAIN [NoTurn EXCEPT !.at = "model", !.autopilot = auto, !.round = 1]
    BY DEF NoTurn
  <2> QED  BY <2>1, <2>2 DEF ChatInv, ChatShape
<1>3. ChatShape'
  BY <1>1, <1>2 DEF ChatInv, ChatShape
<1>4. FileHasOwner'
  BY <1>1 DEF ChatInv, FileHasOwner
<1>5. Deletion'
  BY <1>1 DEF ChatInv, Deletion
<1> QED  BY <1>1, <1>3, <1>4, <1>5 DEF ChatInv, Untouched, Decision

-----------------------------------------------------------------------------
(* Decisions *)

LEMMA DecidedRuns ==
  ASSUME ChatInv, NEW r \in ToolRuns, NEW status, runs' = Decided(r, status)
  PROVE  /\ DOMAIN runs' = ToolRuns
         /\ \A q \in ToolRuns : "status" \in DOMAIN runs'[q]
         /\ \A q \in ToolRuns \ {r} : runs'[q] = runs[q]
         /\ IF runs[r].status = "deleted" THEN runs'[r].status = "deleted"
            ELSE runs'[r].status = status
  BY DEF Decided, ChatInv, ChatShape

LEMMA ApproveStep ==
  ASSUME ChatInv, NEW r \in ToolRuns, Approve(r) PROVE ChatInv'
<1>1. /\ runs[r].status = "pending"
      /\ UNCHANGED <<chat, deleting, messages, runs, turns, upload, attachment, file,
                     denying, disturbed, unasked>>
  BY DEF Approve, rowsVars
<1>2. /\ approving' \in [ToolRuns -> Nat] /\ approving'[r] = approving[r] + 1
      /\ effects' \in [ToolRuns -> Nat] /\ effects'[r] \in {effects[r], effects[r] + 1}
      /\ \A q \in ToolRuns \ {r} : approving'[q] = approving[q] /\ effects'[q] = effects[q]
  BY DEF Approve, ChatInv, ChatShape
<1>3. /\ crossed \subseteq crossed'
      /\ r \notin crossed' => approving[r] = 0 /\ r \notin denying
  BY DEF Approve, ChatInv, ChatShape
<1>4. ChatShape'
  BY <1>1, <1>2 DEF ChatInv, ChatShape
<1>5. \A q \in ToolRuns : Untouched(q)'
  BY <1>1, <1>2 DEF ChatInv, Untouched
<1>6. ASSUME NEW q \in ToolRuns \ crossed' PROVE Decision(q)'
  BY <1>1, <1>2, <1>3, <1>6 DEF ChatInv, Decision
<1>7. FileHasOwner' /\ Deletion'
  BY <1>1 DEF ChatInv, FileHasOwner, Deletion, Busy
<1> QED  BY <1>1, <1>4, <1>5, <1>6, <1>7 DEF ChatInv

LEMMA ApproveSettlesStep ==
  ASSUME ChatInv, NEW r \in ToolRuns, ApproveSettles(r) PROVE ChatInv'
<1>1. /\ approving[r] > 0
      /\ UNCHANGED <<chat, deleting, messages, turns, upload, attachment, file,
                     denying, effects, crossed, disturbed, unasked>>
  BY DEF ApproveSettles, rowsVars
<1>2. PICK status \in {"applied", "error"} : runs' = Decided(r, status)
  BY DEF ApproveSettles
<1>3. /\ approving' \in [ToolRuns -> Nat] /\ approving'[r] = approving[r] - 1
      /\ \A q \in ToolRuns \ {r} : approving'[q] = approving[q]
  BY DEF ApproveSettles, ChatInv, ChatShape
<1>4. ChatShape'
  BY <1>1, <1>2, <1>3, DecidedRuns DEF ChatInv, ChatShape
<1>5. \A q \in ToolRuns : Untouched(q)'
  BY <1>1, <1>2, <1>3, DecidedRuns DEF ChatInv, Untouched
<1>6. ASSUME NEW q \in ToolRuns \ crossed PROVE Decision(q)'
  BY <1>1, <1>2, <1>3, <1>6, DecidedRuns DEF ChatInv, Decision, ChatShape
<1>7. FileHasOwner'
  BY <1>1 DEF ChatInv, FileHasOwner
<1>8. Deletion'
  BY <1>1, <1>2, DecidedRuns DEF ChatInv, ChatShape, Untouched, Deletion, Busy
<1> QED  BY <1>1, <1>4, <1>5, <1>6, <1>7, <1>8 DEF ChatInv

LEMMA DenyStep ==
  ASSUME ChatInv, NEW r \in ToolRuns, DenyReads(r) \/ DenySettles(r) PROVE ChatInv'
<1>1. UNCHANGED <<chat, deleting, messages, turns, upload, attachment, file,
                  approving, effects, disturbed, unasked>>
  BY DEF DenyReads, DenySettles, rowsVars
<1>2. CASE DenyReads(r)
  <2>1. /\ runs[r].status = "pending" /\ UNCHANGED runs
        /\ denying' = denying \cup {r}
        /\ crossed \subseteq crossed' /\ (approving[r] > 0 => r \in crossed')
    BY <1>2 DEF DenyReads
  <2>2. ASSUME NEW q \in ToolRuns \ crossed' PROVE Decision(q)'
    BY <1>1, <2>1, <2>2 DEF ChatInv, ChatShape, Decision
  <2> QED
    BY <1>1, <2>1, <2>2 DEF ChatInv, ChatShape, Untouched, FileHasOwner, Deletion, Busy
<1>3. CASE DenySettles(r)
  <2>1. /\ r \in denying /\ denying' = denying \ {r} /\ UNCHANGED crossed
        /\ runs' = Decided(r, "denied")
    BY <1>3 DEF DenySettles
  <2>2. ChatShape'
    BY <1>1, <2>1, DecidedRuns DEF ChatInv, ChatShape
  <2>3. \A q \in ToolRuns : Untouched(q)'
    BY <1>1, <2>1, DecidedRuns DEF ChatInv, Untouched
  <2>4. ASSUME NEW q \in ToolRuns \ crossed PROVE Decision(q)'
    BY <1>1, <2>1, <2>4, DecidedRuns DEF ChatInv, Decision
  <2>5. FileHasOwner' /\ Deletion'
    BY <1>1, <2>1, DecidedRuns
    DEF ChatInv, ChatShape, Untouched, FileHasOwner, Deletion, Busy
  <2> QED  BY <1>1, <2>1, <2>2, <2>3, <2>4, <2>5 DEF ChatInv
<1> QED  BY <1>2, <1>3

-----------------------------------------------------------------------------
(* Attachments, the deletion, restarts *)

LEMMA AttachmentStep ==
  ASSUME ChatInv,
         UploadStarts \/ UploadRefused \/ UploadWrites \/ UploadRecords
           \/ DeleteAttachment
  PROVE  ChatInv'
<1>1. UNCHANGED <<chat, deleting, messages, runs, turns, approving, denying, effects,
                  crossed, disturbed, unasked>>
  BY DEF UploadStarts, UploadRefused, UploadWrites, UploadRecords, DeleteAttachment,
         otherVars
<1>2. ChatShape'
  BY <1>1 DEF UploadStarts, UploadRefused, UploadWrites, UploadRecords,
              DeleteAttachment, ChatInv, ChatShape
<1>3. \A r \in ToolRuns : Untouched(r)' /\ (Decision(r) => Decision(r)')
  BY <1>1 DEF ChatInv, Untouched, Decision
<1>4. FileHasOwner'
  BY <1>1 DEF UploadStarts, UploadRefused, UploadWrites, UploadRecords,
              DeleteAttachment, ChatInv, FileHasOwner
<1>5. Deletion'
  BY <1>1 DEF UploadStarts, UploadRefused, UploadWrites, UploadRecords,
              DeleteAttachment, ChatInv, Deletion, Busy
<1> QED  BY <1>1, <1>2, <1>3, <1>4, <1>5 DEF ChatInv

LEMMA DeleteRowsStep ==
  ASSUME ChatInv, DeleteRows PROVE ChatInv'
<1>1. /\ chat /\ deleting = "no" /\ ~chat' /\ ~messages' /\ attachment' = "none"
      /\ deleting' = IF attachment = "none" THEN "done" ELSE "files"
      /\ disturbed' = (disturbed \/ Busy)
      /\ UNCHANGED <<turns, upload, file, approving, denying, effects, crossed, unasked>>
  BY DEF DeleteRows, otherVars
<1>2. /\ DOMAIN runs' = ToolRuns
      /\ \A r \in ToolRuns :
           /\ "status" \in DOMAIN runs'[r]
           /\ runs'[r].status = IF runs[r].status = "none" THEN "none" ELSE "deleted"
  BY DEF DeleteRows, FreeRuns, NoToolRun, ChatInv, ChatShape
<1>3. ChatShape'
  BY <1>1, <1>2 DEF ChatInv, ChatShape
<1>4. \A r \in ToolRuns : Untouched(r)' /\ (Decision(r) => Decision(r)')
  BY <1>1, <1>2 DEF ChatInv, Untouched, Decision
<1>5. ~disturbed' => ~disturbed /\ ~Busy
  BY <1>1, Zenon
<1>6. FileHasOwner'
  BY <1>1, <1>5 DEF ChatInv, FileHasOwner, Busy
<1>7. Busy' = Busy
  BY <1>1 DEF Busy
<1>8. Deletion'
  BY <1>1, <1>2, <1>5, <1>7 DEF Deletion
<1> QED  BY <1>1, <1>3, <1>4, <1>6, <1>8 DEF ChatInv

LEMMA DeleteFilesStep ==
  ASSUME ChatInv, DeleteFiles PROVE ChatInv'
  BY DEF DeleteFiles, otherVars, ChatInv, ChatShape, Untouched, Decision,
         FileHasOwner, Deletion, Busy

LEMMA ChatRestartStep ==
  ASSUME ChatInv, ChatRestart PROVE ChatInv'
<1>1. /\ turns' = [t \in ChatTurns |-> NoTurn]
      /\ crossed' = crossed \cup {r \in ToolRuns : approving[r] > 0}
      /\ approving' = [r \in ToolRuns |-> 0] /\ denying' = {} /\ upload' = "no"
      /\ deleting' = IF deleting = "no" THEN "no" ELSE "done"
      /\ UNCHANGED <<chat, messages, runs, attachment, file, effects, unasked>>
  BY DEF ChatRestart
<1>2. ~disturbed' => ~disturbed /\ deleting # "files" /\ upload # "written"
  BY Zenon DEF ChatRestart
<1>3. ChatShape'
  BY <1>1 DEF ChatInv, ChatShape, NoTurn
<1>4. \A r \in ToolRuns : Untouched(r)'
  BY <1>1 DEF ChatInv, Untouched
<1>5. ASSUME NEW r \in ToolRuns \ crossed' PROVE Decision(r)'
  BY <1>1, <1>5 DEF ChatInv, ChatShape, Decision
<1>6. FileHasOwner'
  BY <1>1, <1>2 DEF ChatInv, FileHasOwner
<1>7. ~Busy'
  BY <1>1 DEF Busy, NoTurn
<1>8. Deletion'
  BY <1>1, <1>2, <1>7 DEF ChatInv, Deletion
<1> QED  BY <1>1, <1>3, <1>4, <1>5, <1>6, <1>8 DEF ChatInv

LEMMA ChatStep == ChatInv /\ [ChatNext]_chatVars => ChatInv'
<1> SUFFICES ASSUME ChatInv, [ChatNext]_chatVars PROVE ChatInv'
  OBVIOUS
<1>1. CASE UNCHANGED chatVars
  BY <1>1 DEF chatVars, ChatInv, ChatShape, Untouched, Decision, FileHasOwner,
              Deletion, Busy
<1>2. CASE \E t \in ChatTurns : \/ TurnStarts(t) \/ ModelAnswers(t) \/ Proposes(t)
                                \/ Acts(t) \/ Returns(t) \/ RoundEnds(t)
  BY <1>2, TurnStartsStep, TurnStep, Zenon
<1>3. CASE \E r \in ToolRuns : Approve(r) \/ ApproveSettles(r) \/ DenyReads(r)
                                \/ DenySettles(r)
  BY <1>3, ApproveStep, ApproveSettlesStep, DenyStep, Zenon
<1> QED
  BY <1>1, <1>2, <1>3, AttachmentStep, DeleteRowsStep, DeleteFilesStep,
     ChatRestartStep, Zenon DEF ChatNext

-----------------------------------------------------------------------------
\* For any number of turns, runs, rounds and tools: without the autopilot
\* nothing is changed that the user has not approved, what is decided is
\* carried out once or not at all, and of a deleted conversation nothing is
\* left, apart from the races that ChatIsAccountable names (assistant_agent.py
\* 47, assistant_routes.py 187-210, assistant_store.py 201).
THEOREM ChatAccountability == ChatSpec => []ChatIsAccountable
<1>1. ChatInit => ChatInv
  BY ChatInitInv
<1>2. ChatInv /\ [ChatNext]_chatVars => ChatInv'
  BY ChatStep
<1>3. ChatInv => ChatIsAccountable
  BY DEF ChatInv, Decision, FileHasOwner, Deletion, Busy, ChatIsAccountable,
         DecidedOnce, DeletedIsGone
<1> QED
  BY <1>1, <1>2, <1>3, PTL DEF ChatSpec

-----------------------------------------------------------------------------
(* The calendar. Its windows have ids of their own and mean something (one *)
(* of a date has its date, a weekly one has days), so that rewriting them  *)
(* changes nothing; a copy is exactly the windows of the profile; and what *)
(* was asked for is covered by a window.                                   *)

LEMMA ScheduledIs ==
  ASSUME NEW ws, IsFiniteSet(ws), NEW g, \A w \in ws : g[w] = w.watts, NEW date, NEW hour
  PROVE  ScheduledLoad(ws, date, hour) = SumFunctionOnSet(g, {w \in ws : Covers(w, date, hour)})
<1> DEFINE T == {w \in ws : Covers(w, date, hour)}
           f == [w \in T |-> w.watts]
<1>1. ScheduledLoad(ws, date, hour) = SumFunctionOnSet(f, T)
  BY DEF ScheduledLoad, SumFunction
<1>2. IsFiniteSet(T) /\ \A w \in T : f[w] = g[w]
  BY FS_Subset
<1> HIDE DEF f, T
<1>3. SumFunctionOnSet(f, T) = SumFunctionOnSet(g, T)
  BY <1>2, SumAgrees
<1> QED
  BY <1>1, <1>3 DEF T

\* The windows of a calendar: each covers what it means to, ids are its own.
Windowed(w) ==
  /\ w \in [id : {w.id}, start : 0 .. 2 * DayLength - 1, end : 0 .. 2 * DayLength - 1,
            watts : Nat, kind : {"legacy", "once", "weekly"}, date : Dates \cup {NoDate},
            weekdays : SUBSET Weekdays]
Meaningful(w) ==
  /\ w.kind = "once" => w.date \in Dates
  /\ w.kind # "once" => w.weekdays # {}
OwnIds(ws) == \A v, w \in ws : v.id = w.id => v = w
CalendarOK(ws) ==
  /\ IsFiniteSet(ws) /\ OwnIds(ws)
  /\ \A w \in ws : Windowed(w) /\ Meaningful(w)

LEMMA DaysOfWeek ==
  /\ Weekdays # {} /\ \A date \in Nat : WeekdayOf(date) \in Weekdays
<1>1. PICK n \in Weekdays : Weekdays = 0 .. n
  BY CalendarAssumption DEF CalendarAssumption
<1>2. n \in Nat
  BY CalendarAssumption DEF CalendarAssumption
<1>3. Max(Weekdays) = n
  <2>1. \A x \in 0 .. n : (\A y \in 0 .. n : x >= y) => x = n
    BY <1>2
  <2>2. n \in 0 .. n /\ \A y \in 0 .. n : n >= y
    BY <1>2
  <2>3. Max(0 .. n) = n
    BY <2>1, <2>2 DEF Max
  <2> QED
    BY <1>1, <2>3
<1>4. ASSUME NEW date \in Nat PROVE WeekdayOf(date) \in Weekdays
  <2>1. WeekdayOf(date) = date % (n + 1)
    BY <1>3 DEF WeekdayOf
  <2>2. date % (n + 1) \in 0 .. n
    BY <1>2
  <2> QED
    BY <1>1, <2>1, <2>2
<1> QED
  BY <1>1, <1>4

\* What is rewritten means the same.
LEMMA NormalMeans ==
  ASSUME NEW w, Windowed(w)
  PROVE  LET v == Normal(w) IN
         /\ Windowed(v) /\ v.id = w.id /\ v.watts = w.watts
         /\ v.start = w.start /\ v.end = w.end
         /\ v.kind = (IF w.kind = "once" THEN "once" ELSE "weekly")
         /\ w.kind = "once" => v.date = w.date
         /\ w.kind # "once" => v.weekdays = IF w.weekdays = {} THEN Weekdays ELSE w.weekdays
<1> DEFINE T == [id : {w.id}, start : 0 .. 2 * DayLength - 1, end : 0 .. 2 * DayLength - 1,
                 watts : Nat, kind : {"legacy", "once", "weekly"}, date : Dates \cup {NoDate},
                 weekdays : SUBSET Weekdays]
<1>1. w \in T
  BY DEF Windowed
<1>2. CASE w.kind = "once"
  <2> DEFINE v == [w EXCEPT !.weekdays = {}]
  <2>1. v \in T /\ v.id = w.id /\ v.watts = w.watts /\ v.start = w.start /\ v.end = w.end
        /\ v.kind = w.kind /\ v.date = w.date
    BY <1>1
  <2>2. Normal(w) = v
    BY <1>2 DEF Normal
  <2> HIDE DEF v
  <2>3. Windowed(v)
    BY <2>1 DEF Windowed
  <2> QED
    BY <1>2, <2>1, <2>2, <2>3
<1>3. CASE w.kind # "once"
  <2> DEFINE d == IF w.weekdays = {} THEN Weekdays ELSE w.weekdays
             v == [w EXCEPT !.kind = "weekly", !.date = NoDate, !.weekdays = d]
  <2>1. d \in SUBSET Weekdays
    BY <1>1
  <2>2. Normal(w) = v
    BY <1>3 DEF Normal
  <2> HIDE DEF d
  <2>3. v \in T /\ v.id = w.id /\ v.watts = w.watts /\ v.start = w.start /\ v.end = w.end
        /\ v.kind = "weekly" /\ v.weekdays = d
    BY <1>1, <2>1
  <2> HIDE DEF v
  <2>4. Windowed(v)
    BY <2>3 DEF Windowed
  <2> QED
    BY <1>3, <2>2, <2>3, <2>4 DEF d
<1> QED
  BY <1>2, <1>3

LEMMA NormalCovers ==
  ASSUME NEW w, Windowed(w), Meaningful(w), NEW date, NEW hour
  PROVE  Covers(Normal(w), date, hour) <=> Covers(w, date, hour)
<1> DEFINE v == Normal(w)
<1>1. /\ v.start = w.start /\ v.end = w.end
      /\ v.kind = (IF w.kind = "once" THEN "once" ELSE "weekly")
      /\ w.kind = "once" => v.date = w.date
      /\ w.kind # "once" => v.weekdays = IF w.weekdays = {} THEN Weekdays ELSE w.weekdays
  BY NormalMeans
<1> HIDE DEF v
<1>2. Covers(v, date, hour) <=> Covers(w, date, hour)
  BY <1>1 DEF Covers, Meaningful
<1> QED
  BY <1>2 DEF v

LEMMA NormalisedOK ==
  ASSUME NEW ws, IsFiniteSet(ws), OwnIds(ws), \A w \in ws : Windowed(w)
  PROVE  CalendarOK(Normalised(ws))
<1> DEFINE kept == {x \in ws : x.kind = "once" => x.date # NoDate}
           m == [w \in kept |-> Normal(w)]
           N == {Normal(w) : w \in kept}
<1>1. IsFiniteSet(N)
  <2>1. IsFiniteSet(kept)
    BY FS_Subset
  <2>2. m \in Surjection(kept, N)
    BY DEF Surjection
  <2> HIDE DEF m, N, kept
  <2> QED
    BY <2>1, <2>2, FS_Surjection, Zenon
<1>2. ASSUME NEW w \in kept PROVE Windowed(Normal(w)) /\ Meaningful(Normal(w)) /\ Normal(w).id = w.id
  <2> DEFINE v == Normal(w)
  <2>1. Windowed(w) /\ (w.kind = "once" => w.date # NoDate)
    OBVIOUS
  <2>2. /\ Windowed(v) /\ v.id = w.id
        /\ v.kind = (IF w.kind = "once" THEN "once" ELSE "weekly")
        /\ w.kind = "once" => v.date = w.date
        /\ w.kind # "once" => v.weekdays = IF w.weekdays = {} THEN Weekdays ELSE w.weekdays
    BY <2>1, NormalMeans
  <2> HIDE DEF v
  <2>3. w.date \in Dates \cup {NoDate}
    BY <2>1 DEF Windowed
  <2>4. Meaningful(v)
    BY <2>1, <2>2, <2>3, DaysOfWeek DEF Meaningful
  <2> QED
    BY <2>2, <2>4 DEF v
<1>3. OwnIds(N)
  <2> SUFFICES ASSUME NEW x \in kept, NEW y \in kept, Normal(x).id = Normal(y).id
               PROVE  Normal(x) = Normal(y)
    BY DEF OwnIds
  <2>1. x.id = y.id
    BY <1>2
  <2>2. x = y
    BY <2>1 DEF OwnIds
  <2> QED
    BY <2>2
<1>4. Normalised(ws) = N
  BY DEF Normalised
<1> HIDE DEF N, m
<1>5. \A v \in N : Windowed(v) /\ Meaningful(v)
  BY <1>2 DEF N
<1> QED
  BY <1>1, <1>3, <1>4, <1>5 DEF CalendarOK

LEMMA MigrationKept ==
  ASSUME CalendarOK(calendar.windows)
  PROVE  MigrationKeepsPlan
<1> DEFINE ws == calendar.windows
<1> SUFFICES ASSUME NEW c \in Cells
             PROVE  ScheduledLoad(Normalised(ws), c[1], c[2]) = ScheduledLoad(ws, c[1], c[2])
  BY DEF MigrationKeepsPlan
<1> DEFINE T == {w \in ws : Covers(w, c[1], c[2])}
           U == {v \in Normalised(ws) : Covers(v, c[1], c[2])}
           g == [w \in ws |-> w.watts]
           h == [v \in Normalised(ws) |-> v.watts]
           m == [w \in ws |-> Normal(w)]
<1>1. CalendarOK(ws) /\ CalendarOK(Normalised(ws))
  BY NormalisedOK DEF CalendarOK
<1>2. ScheduledLoad(ws, c[1], c[2]) = SumFunctionOnSet(g, T)
  <2>1. IsFiniteSet(ws) /\ \A w \in ws : g[w] = w.watts
    BY <1>1 DEF CalendarOK
  <2> HIDE DEF g, ws
  <2> QED
    BY <2>1, ScheduledIs
<1>3. ScheduledLoad(Normalised(ws), c[1], c[2]) = SumFunctionOnSet(h, U)
  <2>1. IsFiniteSet(Normalised(ws)) /\ \A v \in Normalised(ws) : h[v] = v.watts
    BY <1>1 DEF CalendarOK
  <2> HIDE DEF h, ws
  <2> QED
    BY <2>1, ScheduledIs
<1>4. \A w \in ws : Normal(w) \in Normalised(ws) /\ (Covers(Normal(w), c[1], c[2]) <=> Covers(w, c[1], c[2]))
  <2> SUFFICES ASSUME NEW w \in ws
               PROVE  /\ Normal(w) \in Normalised(ws)
                      /\ Covers(Normal(w), c[1], c[2]) <=> Covers(w, c[1], c[2])
    OBVIOUS
  <2>1. Windowed(w) /\ Meaningful(w)
    BY <1>1 DEF CalendarOK
  <2>2. w.kind = "once" => w.date # NoDate
    BY <2>1, CalendarAssumption DEF Meaningful, CalendarAssumption
  <2> QED
    BY <2>1, <2>2, NormalCovers DEF Normalised
<1>5. U = {m[w] : w \in T}
  <2>1. \A v \in Normalised(ws) : \E w \in ws : v = Normal(w)
    BY DEF Normalised
  <2>2. \A w \in T : m[w] = Normal(w)
    OBVIOUS
  <2> HIDE DEF ws, m
  <2> QED
    BY <1>4, <2>1, <2>2
<1>6. \A x \in T : m[x] = Normal(x) /\ g[x] = x.watts /\ x.watts \in Nat
                   /\ Normal(x).watts = x.watts /\ Normal(x).id = x.id /\ h[m[x]] = Normal(x).watts
  <2> SUFFICES ASSUME NEW x \in T
               PROVE  m[x] = Normal(x) /\ g[x] = x.watts /\ x.watts \in Nat
                   /\ Normal(x).watts = x.watts /\ Normal(x).id = x.id /\ h[m[x]] = Normal(x).watts
    OBVIOUS
  <2>1. Windowed(x)
    BY <1>1 DEF CalendarOK
  <2>2. Normal(x).watts = x.watts /\ Normal(x).id = x.id
    BY <2>1, NormalMeans
  <2>3. x.watts \in Nat
    BY <2>1 DEF Windowed
  <2>4. Normal(x) \in Normalised(ws)
    BY <1>4
  <2> QED
    BY <2>2, <2>3, <2>4
<1>7. \A x, y \in T : m[x] = m[y] => x = y
  <2>1. \A x, y \in ws : x.id = y.id => x = y
    BY <1>1 DEF CalendarOK, OwnIds
  <2> TAKE x, y \in T
  <2> HAVE m[x] = m[y]
  <2>2. Normal(x) = Normal(y)
    BY <1>6
  <2>3. x.id = y.id
    BY <1>6, <2>2
  <2> QED
    BY <2>1, <2>3
<1>8. IsFiniteSet(T)
  BY <1>1, FS_Subset DEF CalendarOK
<1>9. \A x \in T : g[x] = h[m[x]] /\ g[x] \in Int
  <2> HIDE DEF T, g, h, m
  <2> QED
    BY <1>6
<1> HIDE DEF T, U, g, h, m
<1>10. SumFunctionOnSet(g, T) = SumFunctionOnSet(h, {m[x] : x \in T})
  BY <1>7, <1>8, <1>9, SumRenamed
<1> QED
  BY <1>2, <1>3, <1>5, <1>10

\* A bucket of the profile, and the window that is made of it.
BucketAt(date, hour) == <<hour, IF WeekdayOf(date) \in RestDays THEN 1 ELSE 0>>
WindowAt(profile, b) ==
  [id |-> 2 * b[1] + b[2], start |-> 2 * b[1], end |-> 2 * ((b[1] + 1) % DayLength),
   watts |-> profile[b], kind |-> "weekly", date |-> NoDate,
   weekdays |-> IF b[2] = 1 THEN RestDays ELSE Workdays]
IsProfile(profile) ==
  /\ DOMAIN profile \subseteq CalendarHours \X {0, 1}
  /\ \A b \in DOMAIN profile : profile[b] \in Nat

LEMMA NextHour ==
  ASSUME NEW hour \in CalendarHours
  PROVE  /\ hour \in Nat /\ hour < DayLength
         /\ (hour + 1) % DayLength = IF hour + 1 < DayLength THEN hour + 1 ELSE 0
<1>1. DayLength \in Nat /\ DayLength >= 2 /\ hour \in Nat /\ hour < DayLength
  BY CalendarAssumption DEF CalendarAssumption, CalendarHours
<1> DEFINE x == hour + 1
<1>2. x \in -DayLength .. 2 * DayLength - 1 /\ DayLength > 0
  BY <1>1
<1> HIDE DEF x
<1>3. x % DayLength = IF x < 0 THEN x + DayLength ELSE IF x < DayLength THEN x ELSE x - DayLength
  BY <1>1, <1>2, NearMod
<1> QED
  BY <1>1, <1>3 DEF x

LEMMA WindowAtIs ==
  ASSUME NEW profile, IsProfile(profile), NEW b \in DOMAIN profile
  PROVE  /\ Windowed(WindowAt(profile, b)) /\ Meaningful(WindowAt(profile, b))
         /\ \A date \in Dates, hour \in CalendarHours :
              Covers(WindowAt(profile, b), date, hour) <=> b = BucketAt(date, hour)
<1>1. PICK h \in CalendarHours, k \in {0, 1} : b = <<h, k>>
  BY DEF IsProfile
<1>2. h \in Nat /\ h < DayLength /\ (h + 1) % DayLength = IF h + 1 < DayLength THEN h + 1 ELSE 0
  BY NextHour
<1>3. DayLength \in Nat /\ DayLength >= 2 /\ Workdays # {} /\ RestDays # {}
      /\ Workdays \cap RestDays = {} /\ Workdays \subseteq Weekdays /\ RestDays \subseteq Weekdays
      /\ Dates \subseteq Nat
  BY CalendarAssumption DEF CalendarAssumption, Weekdays
<1> DEFINE e == 2 * ((h + 1) % DayLength)
           d == IF k = 1 THEN RestDays ELSE Workdays
           w == [id |-> 2 * h + k, start |-> 2 * h, end |-> e, watts |-> profile[b],
                 kind |-> "weekly", date |-> NoDate, weekdays |-> d]
<1>4. e \in 0 .. 2 * DayLength - 1 /\ e = IF h + 1 < DayLength THEN 2 * h + 2 ELSE 0
  BY <1>2, <1>3
<1>5. d \in SUBSET Weekdays /\ d # {}
  BY <1>3
<1>6. WindowAt(profile, b) = w
  BY <1>1 DEF WindowAt
<1>7. profile[b] \in Nat
  BY DEF IsProfile
<1> HIDE DEF e, d
<1>8. Windowed(w)
  <2>1. 2 * h \in 0 .. 2 * DayLength - 1
    BY <1>2, <1>3
  <2> QED
    BY <1>4, <1>5, <1>7, <2>1 DEF Windowed
<1>9. w.start = 2 * h /\ w.end = e /\ w.kind = "weekly" /\ w.weekdays = d
  OBVIOUS
<1> HIDE DEF w
<1>10. Meaningful(w)
  BY <1>5, <1>9 DEF Meaningful
<1>11. ASSUME NEW date \in Dates, NEW hour \in CalendarHours
       PROVE  Covers(w, date, hour) <=> b = BucketAt(date, hour)
  <2>1. hour \in Nat /\ hour < DayLength
    BY NextHour
  <2>2. InWindow(2 * hour, 2 * h, e) <=> hour = h
    BY <1>2, <1>3, <1>4, <2>1 DEF InWindow
  <2>3. WeekdayOf(date) \in d <=> k = IF WeekdayOf(date) \in RestDays THEN 1 ELSE 0
    <3>1. WeekdayOf(date) \in Weekdays
      BY <1>3, DaysOfWeek
    <3> QED
      BY <1>3, <3>1 DEF d, Weekdays
  <2>4. Covers(w, date, hour) <=> InWindow(2 * hour, 2 * h, e) /\ WeekdayOf(date) \in d
    BY <1>9 DEF Covers
  <2> QED
    BY <1>1, <2>2, <2>3, <2>4 DEF BucketAt
<1> QED
  BY <1>6, <1>8, <1>10, <1>11

LEMMA WindowsOfOK ==
  ASSUME NEW profile, IsProfile(profile)
  PROVE  /\ IsFiniteSet(WindowsOf(profile)) /\ OwnIds(WindowsOf(profile))
         /\ \A w \in WindowsOf(profile) : Windowed(w) /\ Meaningful(w)
         /\ WindowsOf(profile) = {WindowAt(profile, b) : b \in DOMAIN profile}
<1> DEFINE D == DOMAIN profile
           m == [b \in D |-> WindowAt(profile, b)]
           ws == {WindowAt(profile, b) : b \in D}
<1>1. WindowsOf(profile) = ws
  BY DEF WindowsOf, WindowAt
<1>2. IsFiniteSet(ws)
  <2>1. IsFiniteSet(CalendarHours) /\ IsFiniteSet({0, 1})
    <3>1. 0 \in Int /\ DayLength - 1 \in Int /\ 1 \in Int
      BY CalendarAssumption DEF CalendarAssumption
    <3>2. {0, 1} = 0 .. 1
      OBVIOUS
    <3> QED
      BY <3>1, <3>2, FS_Interval DEF CalendarHours
  <2>2. IsFiniteSet(CalendarHours \X {0, 1})
    BY <2>1, FS_Product
  <2>3. IsFiniteSet(D)
    BY <2>2, FS_Subset DEF IsProfile
  <2>4. m \in Surjection(D, ws)
    BY DEF Surjection
  <2> HIDE DEF m, ws, D
  <2> QED
    BY <2>3, <2>4, FS_Surjection, Zenon
<1>3. OwnIds(ws)
  <2> SUFFICES ASSUME NEW b \in D, NEW c \in D, WindowAt(profile, b).id = WindowAt(profile, c).id
               PROVE  WindowAt(profile, b) = WindowAt(profile, c)
    BY DEF OwnIds
  <2>1. PICK h \in CalendarHours, k \in {0, 1} : b = <<h, k>>
    BY DEF IsProfile
  <2>2. PICK i \in CalendarHours, l \in {0, 1} : c = <<i, l>>
    BY DEF IsProfile
  <2>3. h \in Nat /\ i \in Nat
    BY NextHour
  <2>4. 2 * h + k = 2 * i + l
    BY <2>1, <2>2 DEF WindowAt
  <2>5. h = i /\ k = l
    BY <2>3, <2>4
  <2> QED
    BY <2>1, <2>2, <2>5
<1>4. \A w \in ws : Windowed(w) /\ Meaningful(w)
  BY WindowAtIs
<1> QED
  BY <1>1, <1>2, <1>3, <1>4

\* The copy: the windows of the profile, and nothing else.
IsCopy(ws, profile) ==
  IsProfile(profile) /\ ws = Normalised(WindowsOf(profile))

LEMMA CopyKept ==
  ASSUME CalendarOK(calendar.windows),
         copied = NoProfile \/ IsCopy(calendar.windows, copied)
  PROVE  CopyKeepsForecast
<1> SUFFICES ASSUME NEW date \in Dates, NEW hour \in CalendarHours,
                    BucketAt(date, hour) \in DOMAIN copied, ~UnitSleeps(hour)
             PROVE  PlannedDraw(date, hour) = LearnedDraw(copied, date, hour)
  BY DEF CopyKeepsForecast, Cells, BucketAt
<1> DEFINE b == BucketAt(date, hour)
           ws == calendar.windows
           v == Normal(WindowAt(copied, b))
           g == [w \in ws |-> w.watts]
<1>1. IsProfile(copied) /\ ws = Normalised(WindowsOf(copied))
  <2>1. copied # NoProfile
    BY DEF NoProfile
  <2> QED
    BY <2>1 DEF IsCopy
<1>2. \A c \in DOMAIN copied :
        LET w == WindowAt(copied, c) IN
        /\ Windowed(w) /\ Meaningful(w) /\ w \in WindowsOf(copied) /\ w.kind = "weekly"
        /\ Covers(w, date, hour) <=> c = b
  BY <1>1, WindowAtIs, WindowsOfOK DEF WindowAt
<1>3. v \in ws /\ v.watts = copied[b]
  <2>1. v.watts = WindowAt(copied, b).watts
    BY <1>2, NormalMeans
  <2>2. WindowAt(copied, b).watts = copied[b]
    BY DEF WindowAt
  <2>3. v \in Normalised(WindowsOf(copied))
    BY <1>2 DEF Normalised
  <2> QED
    BY <1>1, <2>1, <2>2, <2>3
<1>4. {w \in ws : Covers(w, date, hour)} = {v}
  <2>1. Covers(v, date, hour)
    BY <1>2, NormalCovers
  <2>2. ASSUME NEW w \in ws, Covers(w, date, hour) PROVE w = v
    <3>1. PICK c \in DOMAIN copied : w = Normal(WindowAt(copied, c))
      <4>1. PICK x \in WindowsOf(copied) : w = Normal(x)
        BY <1>1, <2>2 DEF Normalised
      <4>2. WindowsOf(copied) = {WindowAt(copied, c) : c \in DOMAIN copied}
        BY <1>1, WindowsOfOK
      <4> QED
        BY <4>1, <4>2
    <3>2. Covers(WindowAt(copied, c), date, hour)
      BY <1>2, <2>2, <3>1, NormalCovers
    <3>3. c = b
      BY <1>2, <3>2
    <3> QED
      BY <3>1, <3>3
  <2> HIDE DEF v, ws
  <2> QED
    BY <1>3, <2>1, <2>2
<1>5. ScheduledLoad(ws, date, hour) = copied[b]
  <2>1. IsFiniteSet(ws) /\ \A w \in ws : g[w] = w.watts
    BY DEF CalendarOK
  <2>2. g[v] = copied[b] /\ copied[b] \in Nat
    BY <1>1, <1>3 DEF IsProfile
  <2> HIDE DEF g, ws, v
  <2>3. ScheduledLoad(ws, date, hour) = SumFunctionOnSet(g, {v})
    BY <1>4, <2>1, ScheduledIs
  <2>4. SumFunctionOnSet(g, {v}) = g[v] + SumFunctionOnSet(g, {v} \ {v})
    <3>1. IsFiniteSet({v})
      BY FS_Singleton, Zenon
    <3>2. \A x \in {v} : g[x] \in Int
      BY <2>2
    <3> QED
      BY <3>1, <3>2, SumWithout
  <2>5. SumFunctionOnSet(g, {v} \ {v}) = 0
    <3>1. {v} \ {v} = {}
      OBVIOUS
    <3> QED
      BY <3>1, SumOfNone
  <2> QED
    BY <2>2, <2>3, <2>4, <2>5
<1>6. copied[b] = copied[<<hour, IF WeekdayOf(date) \in RestDays THEN 1 ELSE 0>>]
  BY DEF BucketAt
<1> HIDE DEF ws, b
<1> QED
  BY <1>5, <1>6 DEF PlannedDraw, LearnedDraw, ws

\* What is planned is at least what each window plans.
LEMMA LoadAtLeast ==
  ASSUME NEW ws, CalendarOK(ws), NEW date, NEW hour, NEW w \in ws, Covers(w, date, hour)
  PROVE  ScheduledLoad(ws, date, hour) >= w.watts
<1> DEFINE g == [x \in ws |-> x.watts]
           T == {x \in ws : Covers(x, date, hour)}
<1>1. IsFiniteSet(ws) /\ (\A x \in ws : g[x] = x.watts /\ x.watts \in Nat) /\ g[w] = w.watts
  BY DEF CalendarOK, Windowed
<1>2. IsFiniteSet(T) /\ w \in T /\ IsFiniteSet(T \ {w})
  BY <1>1, FS_Subset
<1>3. \A x \in T : g[x] \in Nat
  BY <1>1
<1> HIDE DEF g
<1>4. ScheduledLoad(ws, date, hour) = SumFunctionOnSet(g, T)
  BY <1>1, ScheduledIs
<1> HIDE DEF T
<1>5. SumFunctionOnSet(g, T) = g[w] + SumFunctionOnSet(g, T \ {w})
  BY <1>2, <1>3, SumWithout
<1>6. SumFunctionOnSet(g, T \ {w}) \in Int /\ SumFunctionOnSet(g, T \ {w}) >= 0
  BY <1>2, <1>3, SumIsNumber
<1> QED
  BY <1>1, <1>4, <1>5, <1>6

\* An event that was asked for and not yet written over is in the calendar.
WantedIsThere(ws, event) ==
  \A c \in event.cells :
    c \in Cells /\ \E w \in ws : Covers(w, c[1], c[2]) /\ w.watts = event.watts

CalendarInv ==
  /\ CalendarOK(calendar.windows)
  /\ copied = NoProfile \/ IsCopy(calendar.windows, copied)
  /\ WantedIsThere(calendar.windows, wanted)

LEMMA CalendarInvSays == ASSUME CalendarInv PROVE PlanIsKept
<1>1. AskedIsPlanned
  <2> SUFFICES ASSUME NEW c \in wanted.cells
               PROVE  ScheduledLoad(calendar.windows, c[1], c[2]) >= wanted.watts
    BY DEF AskedIsPlanned
  <2>1. PICK w \in calendar.windows : Covers(w, c[1], c[2]) /\ w.watts = wanted.watts
    BY DEF CalendarInv, WantedIsThere
  <2> QED
    BY <2>1, LoadAtLeast DEF CalendarInv
<1>2. MigrationKeepsPlan /\ CopyKeepsForecast
  BY MigrationKept, CopyKept DEF CalendarInv
<1> QED
  BY <1>1, <1>2 DEF PlanIsKept

LEMMA ShapeIsWindow ==
  ASSUME NEW id, NEW span \in Spans, NEW watts \in Watts, NEW kind \in {"legacy", "once", "weekly"},
         NEW date \in Dates \cup {NoDate}, NEW days \in SUBSET Weekdays
  PROVE  Windowed(WindowShape(id, span, watts, kind, date, days))
<1>1. span \in (0 .. 2 * DayLength - 1) \X (0 .. 2 * DayLength - 1) /\ watts \in Nat
  BY CalendarAssumption DEF CalendarAssumption
<1>2. span[1] \in 0 .. 2 * DayLength - 1 /\ span[2] \in 0 .. 2 * DayLength - 1
  BY <1>1
<1> QED
  BY <1>1, <1>2 DEF WindowShape, Windowed

LEMMA NoneOrOne ==
  ASSUME NEW w, Windowed(w)
  PROVE  /\ IsFiniteSet({}) /\ OwnIds({}) /\ IsFiniteSet({w}) /\ OwnIds({w})
         /\ Meaningful(w) => CalendarOK({w})
         /\ CalendarOK({})
<1>1. IsFiniteSet({w}) /\ IsFiniteSet({})
  BY FS_Singleton, FS_EmptySet, Zenon
<1> QED
  BY <1>1 DEF OwnIds, CalendarOK

LEMMA CalendarInitInv == ASSUME CalendarInit PROVE CalendarInv
<1>1. CalendarOK(calendar.windows)
  <2>1. CASE calendar.windows = {}
    BY <2>1, FS_EmptySet DEF CalendarOK, OwnIds
  <2>2. CASE calendar.windows # {}
    <3>1. PICK span \in Spans, days \in {Workdays, RestDays, Weekdays}, watts \in Watts :
                 calendar.windows = {WindowShape(2 * DayLength, span, watts, "legacy", NoDate, days)}
      BY <2>2 DEF CalendarInit
    <3>2. days \in SUBSET Weekdays /\ days # {}
      BY CalendarAssumption DEF CalendarAssumption, Weekdays
    <3> DEFINE w == WindowShape(2 * DayLength, span, watts, "legacy", NoDate, days)
    <3>3. Windowed(w) /\ w.kind = "legacy" /\ w.weekdays = days
      <4>1. Windowed(w)
        BY <3>2, ShapeIsWindow
      <4> QED
        BY <4>1 DEF WindowShape
    <3> HIDE DEF w
    <3>4. Meaningful(w)
      BY <3>2, <3>3 DEF Meaningful
    <3> QED
      BY <3>1, <3>3, <3>4, NoneOrOne DEF w
  <2> QED
    BY <2>1, <2>2
<1>2. copied = NoProfile /\ wanted.cells = {}
  BY DEF CalendarInit, NoEvent
<1> QED
  BY <1>1, <1>2 DEF CalendarInv, WantedIsThere

\* Whatever is written is put in order.
LEMMA Written ==
  ASSUME NEW mode, NEW sleep, NEW ws, NEW profile, NEW event,
         Write(mode, sleep, ws, profile, event),
         IsFiniteSet(ws), OwnIds(ws), \A w \in ws : Windowed(w),
         profile = NoProfile \/ (IsProfile(profile) /\ ws = WindowsOf(profile)),
         WantedIsThere(Normalised(ws), event)
  PROVE  CalendarInv'
<1>1. calendar'.windows = Normalised(ws) /\ copied' = profile /\ wanted' = event
  BY DEF Write
<1>2. CalendarOK(calendar.windows)'
  <2>1. CalendarOK(Normalised(ws))
    BY NormalisedOK
  <2> QED
    BY <1>1, <2>1 DEF CalendarOK, OwnIds, Windowed, Meaningful
<1>3. (copied = NoProfile \/ IsCopy(calendar.windows, copied))'
  BY <1>1 DEF IsCopy, IsProfile
<1>4. WantedIsThere(calendar.windows, wanted)'
  BY <1>1 DEF WantedIsThere
<1> QED
  BY <1>2, <1>3, <1>4 DEF CalendarInv

LEMMA Saved == ASSUME CalendarInv, SaveCalendar PROVE CalendarInv'
<1>0. PICK mode \in {"historical", "scheduled"}, sleep \in Sleeps,
           span \in Spans, watts \in Watts, date \in Dates \cup {NoDate}, days \in SUBSET Weekdays :
             \E kind \in {"once", "weekly"} :
               \E ws \in SUBSET {WindowShape(2 * DayLength, span, watts, kind, date, days)} :
                 Write(mode, sleep, ws, NoProfile, NoEvent)
  BY DEF SaveCalendar
<1>k. PICK kind \in {"once", "weekly"} :
             \E ws \in SUBSET {WindowShape(2 * DayLength, span, watts, kind, date, days)} :
               Write(mode, sleep, ws, NoProfile, NoEvent)
  BY <1>0
<1>1. PICK ws \in SUBSET {WindowShape(2 * DayLength, span, watts, kind, date, days)} :
             Write(mode, sleep, ws, NoProfile, NoEvent)
  BY <1>k
<1> DEFINE w == WindowShape(2 * DayLength, span, watts, kind, date, days)
<1>2. Windowed(w)
  BY ShapeIsWindow
<1> HIDE DEF w
<1>3. ws = {} \/ ws = {w}
  BY DEF w
<1>4. IsFiniteSet(ws) /\ OwnIds(ws) /\ \A x \in ws : Windowed(x)
  BY <1>2, <1>3, NoneOrOne
<1>5. WantedIsThere(Normalised(ws), NoEvent)
  BY DEF WantedIsThere, NoEvent
<1> QED
  BY <1>1, <1>4, <1>5, Written

LEMMA Copied == ASSUME CalendarInv, CopyLearned PROVE CalendarInv'
<1>1. PICK sleep \in Sleeps, profile \in Profiles :
             Write("scheduled", sleep, WindowsOf(profile), profile, NoEvent)
  BY DEF CopyLearned
<1>2. IsProfile(profile)
  <2>1. PICK B \in {CalendarHours \X {0, 1}, {<<DayLength - 1, 0>>, <<0, 1>>}} :
               profile \in [B -> Watts \cup {0}]
    BY DEF Profiles
  <2>2. B \subseteq CalendarHours \X {0, 1}
    BY CalendarAssumption DEF CalendarAssumption, CalendarHours
  <2>3. Watts \cup {0} \subseteq Nat
    BY CalendarAssumption DEF CalendarAssumption
  <2> QED
    BY <2>1, <2>2, <2>3 DEF IsProfile
<1>3. WantedIsThere(Normalised(WindowsOf(profile)), NoEvent)
  BY DEF WantedIsThere, NoEvent
<1> QED
  BY <1>1, <1>2, <1>3, WindowsOfOK, Written

LEMMA Deleted ==
  ASSUME CalendarInv, NEW id, ScheduleDelete(id) PROVE CalendarInv'
<1> DEFINE all == Normalised(calendar.windows)
           ws == {w \in all : w.id # id}
<1>1. CalendarOK(all)
  BY NormalisedOK DEF CalendarInv, CalendarOK
<1>2. IsFiniteSet(ws) /\ OwnIds(ws) /\ \A x \in ws : Windowed(x)
  BY <1>1, FS_Subset DEF CalendarOK, OwnIds
<1>3. Write(calendar.mode, calendar.sleep, ws, NoProfile, NoEvent)
  BY DEF ScheduleDelete
<1> HIDE DEF ws
<1>4. WantedIsThere(Normalised(ws), NoEvent)
  BY DEF WantedIsThere, NoEvent
<1> QED
  BY <1>2, <1>3, <1>4, Written

LEMMA MergedIs ==
  ASSUME NEW old, Windowed(old), NEW new, Windowed(new), new.id = old.id
  PROVE  LET w == Merged(old, new) IN
         /\ Windowed(w) /\ w.id = new.id /\ w.watts = new.watts /\ w.kind = new.kind
         /\ w.start = new.start /\ w.end = new.end
         /\ w.date = IF new.date = NoDate THEN old.date ELSE new.date
         /\ w.weekdays = IF new.weekdays = {} THEN old.weekdays ELSE new.weekdays
<1> DEFINE date == IF new.date = NoDate THEN old.date ELSE new.date
           days == IF new.weekdays = {} THEN old.weekdays ELSE new.weekdays
           w == [new EXCEPT !.date = date, !.weekdays = days]
           T == [id : {new.id}, start : 0 .. 2 * DayLength - 1, end : 0 .. 2 * DayLength - 1,
                 watts : Nat, kind : {"legacy", "once", "weekly"}, date : Dates \cup {NoDate},
                 weekdays : SUBSET Weekdays]
<1>1. new \in T /\ date \in Dates \cup {NoDate} /\ days \in SUBSET Weekdays
  BY DEF Windowed
<1>2. Merged(old, new) = w
  BY <1>1 DEF Merged
<1> HIDE DEF date, days
<1>3. w \in T /\ w.id = new.id /\ w.watts = new.watts /\ w.kind = new.kind
      /\ w.start = new.start /\ w.end = new.end /\ w.date = date /\ w.weekdays = days
  BY <1>1
<1> HIDE DEF w
<1>4. Windowed(w)
  BY <1>3 DEF Windowed
<1> QED
  BY <1>2, <1>3, <1>4 DEF date, days

\* The window that an event becomes, with what the request left open, covers
\* what was meant.
LEMMA MeantIsCovered ==
  ASSUME NEW new, Windowed(new), new.kind \in {"once", "weekly"},
         NEW olds, \A old \in olds : Windowed(old) /\ old.id = new.id,
         \A x, y \in olds : x = y,
         NEW x, olds = {} => x = new, \A old \in olds : x = Merged(old, new),
         NEW c \in Meant(new, olds)
  PROVE  /\ c \in Cells /\ Windowed(x) /\ x.watts = new.watts
         /\ x.kind = "once" => x.date # NoDate
         /\ Covers(Normal(x), c[1], c[2])
<1>1. /\ Windowed(x) /\ x.watts = new.watts /\ x.kind = new.kind
      /\ x.start = new.start /\ x.end = new.end
  <2>1. CASE olds = {}
    BY <2>1
  <2>2. CASE olds # {}
    <3>1. PICK old \in olds : x = Merged(old, new)
      BY <2>2
    <3> QED
      BY <3>1, MergedIs
  <2> QED
    BY <2>1, <2>2
<1>2. c \in Cells
  BY DEF Meant, CellsOf
<1>3. c[1] \in Dates /\ c[1] \in Nat /\ c[2] \in CalendarHours
  BY <1>2, CalendarAssumption DEF Cells, CalendarAssumption
<1> DEFINE v == Normal(x)
<1>4. /\ v.start = new.start /\ v.end = new.end
      /\ v.kind = (IF new.kind = "once" THEN "once" ELSE "weekly")
      /\ new.kind = "once" => v.date = x.date
      /\ new.kind # "once" => v.weekdays = IF x.weekdays = {} THEN Weekdays ELSE x.weekdays
  BY <1>1, NormalMeans
<1> HIDE DEF v
<1>5. NoDate \notin Dates
  BY CalendarAssumption DEF CalendarAssumption
<1>6. ASSUME olds # {}
      PROVE \E old \in olds : /\ x.date = IF new.date = NoDate THEN old.date ELSE new.date
                              /\ x.weekdays = IF new.weekdays = {} THEN old.weekdays ELSE new.weekdays
  <2>1. PICK old \in olds : x = Merged(old, new)
    BY <1>6
  <2> QED
    BY <2>1, MergedIs
<1>7. CASE new.kind = "once"
  <2>1. InWindow(2 * c[2], new.start, new.end) /\ x.date = c[1]
    <3>1. CASE new.date # NoDate
      <4>1. c \in CellsOf(new)
        BY <1>7, <3>1 DEF Meant
      <4>2. InWindow(2 * c[2], new.start, new.end) /\ new.date = c[1]
        BY <1>7, <4>1 DEF CellsOf, Covers
      <4>3. x.date = new.date
        BY <1>6, <3>1
      <4> QED
        BY <4>2, <4>3
    <3>2. CASE new.date = NoDate
      <4>1. InWindow(2 * c[2], new.start, new.end) /\ \E old \in olds : old.date = c[1]
        BY <1>7, <3>2 DEF Meant
      <4> QED
        BY <1>6, <3>2, <4>1
    <3> QED
      BY <3>1, <3>2
  <2>2. Covers(v, c[1], c[2])
    BY <1>4, <1>7, <2>1 DEF Covers
  <2> QED
    BY <1>1, <1>2, <1>3, <1>5, <2>1, <2>2 DEF v
<1>8. CASE new.kind = "weekly"
  <2>1. InWindow(2 * c[2], new.start, new.end) /\ WeekdayOf(c[1]) \in v.weekdays
    <3>0. WeekdayOf(c[1]) \in Weekdays
      BY <1>3, DaysOfWeek
    <3>1. CASE new.weekdays # {}
      <4>1. c \in CellsOf(new)
        BY <1>8, <3>1 DEF Meant
      <4>2. InWindow(2 * c[2], new.start, new.end) /\ WeekdayOf(c[1]) \in new.weekdays
        BY <1>8, <4>1 DEF CellsOf, Covers
      <4>3. x.weekdays = new.weekdays
        BY <1>6, <3>1
      <4> QED
        BY <1>4, <1>8, <3>1, <4>2, <4>3
    <3>2. CASE new.weekdays = {}
      <4>1. /\ InWindow(2 * c[2], new.start, new.end)
            /\ \A old \in olds : old.weekdays # {} => WeekdayOf(c[1]) \in old.weekdays
        BY <1>8, <3>2 DEF Meant
      <4>2. x.weekdays = {} \/ WeekdayOf(c[1]) \in x.weekdays
        BY <1>6, <3>2, <4>1
      <4> QED
        BY <1>4, <1>8, <3>0, <4>1, <4>2
    <3> QED
      BY <3>1, <3>2
  <2>2. Covers(v, c[1], c[2])
    BY <1>4, <1>8, <2>1 DEF Covers
  <2> QED
    BY <1>1, <1>2, <1>8, <2>2 DEF v
<1> QED
  BY <1>7, <1>8

LEMMA Upserted ==
  ASSUME CalendarInv, NEW id, ScheduleUpsert(id) PROVE CalendarInv'
<1>1. PICK span \in Spans, watts \in Watts, date \in Dates \cup {NoDate}, days \in SUBSET Weekdays,
           kind \in {"once", "weekly"} :
             LET before == Normalised(calendar.windows)
                 new == WindowShape(id, span, watts, kind, date, days)
                 olds == {w \in before : w.id = id} IN
             Write("scheduled", calendar.sleep,
                   (before \ olds) \cup (IF olds = {} THEN {new} ELSE {Merged(old, new) : old \in olds}),
                   NoProfile, [watts |-> watts, cells |-> Meant(new, olds)])
  BY DEF ScheduleUpsert
<1> DEFINE before == Normalised(calendar.windows)
           new == WindowShape(id, span, watts, kind, date, days)
           olds == {w \in before : w.id = id}
           x == IF olds = {} THEN new ELSE Merged(CHOOSE old \in olds : TRUE, new)
           ws == (before \ olds) \cup {x}
           event == [watts |-> watts, cells |-> Meant(new, olds)]
<1>2. CalendarOK(before)
  BY NormalisedOK DEF CalendarInv, CalendarOK
<1>3. Windowed(new) /\ new.id = id /\ new.watts = watts /\ new.kind = kind
  <2>1. Windowed(new)
    BY ShapeIsWindow
  <2> QED
    BY <2>1 DEF WindowShape
<1> HIDE DEF before, new
<1>4. (\A old \in olds : Windowed(old) /\ old.id = new.id) /\ \A y, z \in olds : y = z
  BY <1>2, <1>3 DEF CalendarOK, OwnIds
<1>5. (olds = {} => x = new) /\ \A old \in olds : x = Merged(old, new)
  BY <1>4
<1>6. Write("scheduled", calendar.sleep, ws, NoProfile, event)
  <2>1. ws = (before \ olds) \cup (IF olds = {} THEN {new} ELSE {Merged(old, new) : old \in olds})
    BY <1>5
  <2> QED
    BY <1>1, <2>1 DEF before, new
<1>7. \A w \in before \ olds : w.id # id
  OBVIOUS
<1> HIDE DEF x, olds
<1>8. Windowed(x) /\ x.id = id
  <2>1. CASE olds = {}
    BY <1>3, <1>5, <2>1
  <2>2. CASE olds # {}
    BY <1>3, <1>4, <1>5, <2>2, MergedIs
  <2> QED
    BY <2>1, <2>2
<1>9. IsFiniteSet(ws) /\ OwnIds(ws) /\ \A w \in ws : Windowed(w)
  <2>1. IsFiniteSet(before \ olds)
    BY <1>2, FS_Subset DEF CalendarOK
  <2>2. IsFiniteSet(ws)
    BY <2>1, FS_AddElement
  <2> QED
    BY <1>2, <1>7, <1>8, <2>2 DEF CalendarOK, OwnIds
<1>10. WantedIsThere(Normalised(ws), event)
  <2>1. event.watts = watts /\ event.cells = Meant(new, olds)
    OBVIOUS
  <2> HIDE DEF event
  <2> SUFFICES ASSUME NEW c \in Meant(new, olds)
               PROVE  c \in Cells /\ \E w \in Normalised(ws) : Covers(w, c[1], c[2]) /\ w.watts = watts
    BY <2>1 DEF WantedIsThere
  <2>2. /\ c \in Cells /\ x.watts = watts /\ Covers(Normal(x), c[1], c[2])
        /\ x.kind = "once" => x.date # NoDate
    BY <1>3, <1>4, <1>5, MeantIsCovered
  <2>3. Normal(x) \in Normalised(ws)
    BY <2>2 DEF Normalised
  <2>4. Normal(x).watts = watts
    BY <1>8, <2>2, NormalMeans
  <2> QED
    BY <2>2, <2>3, <2>4
<1> HIDE DEF ws, event
<1> QED
  BY <1>6, <1>9, <1>10, Written

\* Rewriting old windows, copying the learned profile and changing an event
\* keep what was planned, whatever is written in whatever order
\* (load_schedule.py, assistant_routes.py 370-412).
THEOREM PlansAreKept == CalendarSpec => []PlanIsKept
<1>1. CalendarInit => CalendarInv
  BY CalendarInitInv
<1>2. CalendarInv /\ [CalendarNext]_calendarVars => CalendarInv'
  <2> SUFFICES ASSUME CalendarInv, [CalendarNext]_calendarVars PROVE CalendarInv'
    OBVIOUS
  <2>1. CASE CalendarNext
    BY <2>1, Saved, Copied, Upserted, Deleted DEF CalendarNext
  <2>2. CASE UNCHANGED calendarVars
    BY <2>2 DEF calendarVars, CalendarInv, CalendarOK, OwnIds, Windowed, Meaningful, IsCopy,
                IsProfile, WantedIsThere
  <2> QED
    BY <2>1, <2>2
<1>3. CalendarInv => PlanIsKept
  BY CalendarInvSays
<1> QED
  BY <1>1, <1>2, <1>3, PTL DEF CalendarSpec

-----------------------------------------------------------------------------
(* The EcoFlow session.  Whoever stops the client forgets it, and between  *)
(* the stop and the start nobody sets one.                                 *)

EcoflowClients == [sns : SUBSET Serials, up : BOOLEAN, runs : BOOLEAN]
Logins ==
  [pc : {"login", "mqtt"}, sns : SUBSET Serials]
    \cup [pc : {"update"}, sns : SUBSET Serials, found : BOOLEAN]

SessionsInv ==
  /\ registry \in SUBSET Serials
  /\ client \in EcoflowClients \cup {NoClient}
  /\ loop \in [pc : {"top", "start", "wait", "watch"}] \cup Logins
  /\ loop \in Logins => client = NoClient
  /\ credentials \in BOOLEAN
  /\ NoOrphanSession

\* A stop leaves no session and no client.
LEMMA StopLeavesNone ==
  ASSUME SessionsInv, StopClient PROVE client' = NoClient /\ sessions' = 0
BY DEF SessionsInv, NoOrphanSession, StopClient, EcoflowClients

LEMMA LoopKeepsSessions ==
  ASSUME SessionsInv, LoopTop \/ StartReads \/ LoopWatch PROVE SessionsInv'
<1>1. UNCHANGED <<registry, credentials>>
  BY DEF LoopTop, StartReads, LoopWatch, apiVars
<1>2. loop' \in [pc : {"top", "start", "wait", "watch"}] \cup Logins
  BY DEF LoopTop, StartReads, LoopWatch, LoopRests, Waiting, Watching, Logins, SessionsInv
<1>3. CASE StopClient
  BY <1>1, <1>2, <1>3, StopLeavesNone DEF SessionsInv, NoOrphanSession
<1>4. CASE ~StopClient
  <2>0. UNCHANGED <<client, sessions>>
    BY <1>4 DEF LoopTop, StartReads, LoopWatch
  <2>1. loop' \notin Logins
    BY <1>4 DEF LoopTop, StartReads, LoopWatch, LoopRests, Waiting, Watching, Logins
  <2> QED
    BY <1>1, <1>2, <2>0, <2>1 DEF SessionsInv, NoOrphanSession
<1> QED
  BY <1>3, <1>4

LEMMA StartKeepsSessions ==
  ASSUME SessionsInv, StartLogin \/ StartUpdates \/ StartMqtt PROVE SessionsInv'
<1>1. loop \in Logins /\ client = NoClient /\ sessions = 0
  BY DEF StartLogin, StartUpdates, StartMqtt, SessionsInv, Logins, NoOrphanSession
<1>2. CASE StartLogin \/ StartUpdates
  <2>1. UNCHANGED <<registry, client, sessions>> /\ credentials' \in BOOLEAN
    BY <1>2 DEF StartLogin, StartUpdates, apiVars, SessionsInv
  <2>2. loop' \in [pc : {"top", "start", "wait", "watch"}] \cup Logins
    BY <1>2, <1>1 DEF StartLogin, StartUpdates, Logins, Watching, SessionsInv
  <2> QED
    BY <1>1, <2>1, <2>2 DEF SessionsInv, NoOrphanSession
<1>3. CASE StartMqtt
  <2>1. loop.sns \in SUBSET Serials
    BY <1>1 DEF Logins
  <2>2. /\ client' = [sns |-> loop.sns, up |-> broker = "up", runs |-> broker = "up"]
        /\ sessions' = IF broker = "up" THEN sessions + 1 ELSE sessions
        /\ loop' = Watching /\ UNCHANGED <<registry, credentials>>
    BY <1>3 DEF StartMqtt, apiVars
  <2>3. client' \in EcoflowClients /\ client'.runs = (broker = "up")
    BY <2>1, <2>2 DEF EcoflowClients
  <2>4. client' # NoClient
    BY <2>3, EcoflowAssumption DEF EcoflowClients
  <2>5. sessions' = IF client'.runs THEN 1 ELSE 0
    <3>1. CASE broker = "up"
      <4>1. client'.runs = TRUE /\ sessions' = sessions + 1
        BY <3>1, <2>2
      <4> QED
        BY <4>1, <1>1
    <3>2. CASE broker # "up"
      <4>1. client'.runs = FALSE /\ sessions' = sessions
        BY <3>2, <2>2
      <4> QED
        BY <4>1, <1>1
    <3> QED
      BY <3>1, <3>2
  <2> QED
    BY <2>2, <2>3, <2>4, <2>5 DEF SessionsInv, NoOrphanSession, Watching, Logins
<1> QED
  BY <1>2, <1>3

\* A running client that loses or regains its connection keeps its thread.
LEMMA ConnectionKeepsSessions ==
  ASSUME SessionsInv, ConnectionChanges PROVE SessionsInv'
<1>1. client # NoClient /\ client \in EcoflowClients /\ client.runs
  BY DEF ConnectionChanges, SessionsInv
<1>2. client' \in EcoflowClients /\ client'.runs
  BY <1>1 DEF ConnectionChanges, EcoflowClients
<1>3. client' # NoClient
  BY <1>2, EcoflowAssumption DEF EcoflowClients
<1>4. UNCHANGED <<registry, credentials, sessions, loop>> /\ loop \notin Logins
  BY <1>1 DEF ConnectionChanges, apiVars, SessionsInv
<1> QED
  BY <1>1, <1>2, <1>3, <1>4 DEF SessionsInv, NoOrphanSession

LEMMA ApiKeepsSessions ==
  ASSUME SessionsInv,
         SaveAccount \/ DeleteAccount \/ SaveDevices \/ ForceReconnect \/ BrokerChanges
  PROVE  SessionsInv'
<1>1. UNCHANGED loop /\ registry' \in SUBSET Serials /\ credentials' \in BOOLEAN
  BY DEF SaveAccount, DeleteAccount, SaveDevices, ForceReconnect, BrokerChanges, apiVars, SessionsInv
<1>2. CASE StopClient
  BY <1>1, <1>2, StopLeavesNone DEF SessionsInv, NoOrphanSession
<1>3. CASE ~StopClient
  <2>1. UNCHANGED <<client, sessions>>
    BY <1>3 DEF SaveAccount, DeleteAccount, SaveDevices, ForceReconnect, BrokerChanges
  <2> QED
    BY <1>1, <2>1 DEF SessionsInv, NoOrphanSession
<1> QED
  BY <1>2, <1>3

\* Whatever stops, starts and refusals of the EcoFlow session overtake each
\* other, its one thread is the client's, or there is none
\* (server.py 1510-1598, ecoflow_client.py 365-564).
THEOREM SessionHasOwner == EcoflowSpec => []NoOrphanSession
<1>1. EcoflowInit => SessionsInv
  BY DEF EcoflowInit, SessionsInv, NoOrphanSession, Logins
<1>2. SessionsInv /\ [EcoflowNext]_ecoflowVars => SessionsInv'
  <2> SUFFICES ASSUME SessionsInv, [EcoflowNext]_ecoflowVars PROVE SessionsInv'
    OBVIOUS
  <2>1. CASE LoopWakes \/ RetryTick \/ Telemetry \/ FallsSilent \/ UNCHANGED ecoflowVars
    <3>1. UNCHANGED <<registry, credentials, client, sessions>> /\ (loop' = loop \/ loop' = [pc |-> "top"])
      BY <2>1 DEF LoopWakes, RetryTick, Telemetry, FallsSilent, ecoflowVars, apiVars
    <3>2. [pc |-> "top"] \in [pc : {"top", "start", "wait", "watch"}] \ Logins
      BY DEF Logins
    <3> QED
      BY <3>1, <3>2 DEF SessionsInv, NoOrphanSession
  <2> QED
    BY <2>1, LoopKeepsSessions, StartKeepsSessions, ConnectionKeepsSessions, ApiKeepsSessions
    DEF EcoflowNext
<1>3. SessionsInv => NoOrphanSession
  BY DEF SessionsInv
<1> QED
  BY <1>1, <1>2, <1>3, PTL DEF EcoflowSpec

-----------------------------------------------------------------------------
(* The Siseli feed.  While the portal is asked for the device's data, a    *)
(* local sample that is usable has become so since: the poll has looked.   *)

FeedSamples == {NoSample} \cup [origin : {"http", "local"}, fresh : BOOLEAN]
Fetching == [pc : {"fetch"}, live : FeedSamples, landed : BOOLEAN]
Polls ==
  {NoPoll} \cup [pc : {"list", "check"}, of : Accounts] \cup Fetching
    \cup [pc : {"others"}, got : FeedSamples]

FeedInv ==
  /\ account \in Accounts \cup {NoAccount}
  /\ probe \in {NoProbe} \cup [pc : {"station"}, of : Accounts]
  /\ sample \in FeedSamples /\ poll \in Polls
  /\ poll.pc = "fetch" /\ LiveLocal => poll.landed

LEMMA FeedKinds ==
  /\ Http \in FeedSamples /\ Local \in FeedSamples /\ NoSample \in FeedSamples
  /\ \A p \in Polls : p.pc = "fetch" <=> p \in Fetching
  /\ \A p \in Polls : p.pc = "others" => p.got \in FeedSamples
BY DEF FeedSamples, Http, Local, NoSample, Fetching, Polls, NoPoll

\* The poll's steps.
LEMMA PollKeepsFeed ==
  ASSUME FeedInv,
         PollStart \/ LoopForgets \/ PollList \/ PollChecks \/ PollFetch \/ PollEnds
  PROVE  FeedInv'
<1>1. account' = account /\ probe' = probe
  BY DEF PollStart, LoopForgets, PollList, PollChecks, PollFetch, PollEnds
<1>2. sample' \in FeedSamples
  <2>1. CASE PollStart \/ LoopForgets \/ PollList \/ PollChecks
    BY <2>1, FeedKinds DEF PollStart, LoopForgets, PollList, PollChecks, FeedInv
  <2>2. CASE PollFetch
    BY <2>2, FeedKinds DEF PollFetch, FeedInv
  <2>3. CASE PollEnds
    BY <2>3, FeedKinds DEF PollEnds, Published, FeedInv
  <2> QED
    BY <2>1, <2>2, <2>3
<1>3. poll' \in Polls /\ (poll'.pc = "fetch" => ~LiveLocal')
  <2>1. CASE PollStart
    BY <2>1 DEF PollStart, FeedInv, Polls
  <2>2. CASE LoopForgets \/ PollEnds
    BY <2>2 DEF LoopForgets, PollEnds, FeedInv, Polls, NoPoll
  <2>3. CASE PollList
    BY <2>3 DEF PollList, FeedInv, Polls, NoPoll, Fetching
  <2>4. CASE PollChecks
    <3>1. CASE LiveLocal
      BY <2>4, <3>1 DEF PollChecks, FeedInv, Polls
    <3>2. CASE ~LiveLocal
      <4>1. poll' = [pc |-> "fetch", live |-> sample, landed |-> FALSE]
            /\ UNCHANGED <<sample, capture>>
        BY <2>4, <3>2 DEF PollChecks
      <4> QED
        BY <3>2, <4>1 DEF FeedInv, Polls, Fetching, LiveLocal
    <3> QED
      BY <3>1, <3>2
  <2>5. CASE PollFetch
    <3>1. poll \in Fetching
      BY <2>5, FeedKinds DEF PollFetch, FeedInv
    <3>2. PICK got \in {Http, poll.live} : poll' = [pc |-> "others", got |-> got]
      BY <2>5 DEF PollFetch
    <3>3. got \in FeedSamples
      BY <3>1, <3>2, FeedKinds DEF Fetching
    <3> QED
      BY <3>2, <3>3 DEF Polls
  <2> QED
    BY <2>1, <2>2, <2>3, <2>4, <2>5
<1> QED
  BY <1>1, <1>2, <1>3 DEF FeedInv

LEMMA LandedIsNoted ==
  ASSUME FeedInv, NoteLanded PROVE poll' \in Polls /\ (poll'.pc = "fetch" /\ LiveLocal' => poll'.landed)
<1>1. CASE poll.pc = "fetch" /\ LiveLocal'
  <2>1. poll \in Fetching /\ poll' = [poll EXCEPT !.landed = TRUE]
    BY <1>1, FeedKinds DEF FeedInv, NoteLanded
  <2> QED
    BY <2>1 DEF Fetching, Polls
<1>2. CASE ~(poll.pc = "fetch" /\ LiveLocal')
  BY <1>2 DEF FeedInv, NoteLanded
<1> QED
  BY <1>1, <1>2

LEMMA FeedStep ==
  ASSUME FeedInv, SiseliNext PROVE FeedInv'
<1>1. CASE PollStart \/ LoopForgets \/ PollList \/ PollChecks \/ PollFetch \/ PollEnds
  BY <1>1, PollKeepsFeed
<1>2. CASE LocalDecode \/ SaveLocal
  <2>1. NoteLanded /\ sample' \in {Local, sample} /\ UNCHANGED <<account, probe>>
    BY <1>2 DEF LocalDecode, SaveLocal
  <2> QED
    BY <2>1, LandedIsNoted, FeedKinds DEF FeedInv
<1>3. CASE SampleAges \/ CaptureFails \/ ClearAccount
  <2>1. poll' = poll /\ probe' = probe /\ account' \in {account, NoAccount}
    BY <1>3 DEF SampleAges, CaptureFails, ClearAccount
  <2>2. sample' \in FeedSamples
    <3>1. CASE SampleAges
      <4>1. sample.fresh /\ sample' = [sample EXCEPT !.fresh = FALSE] /\ sample \in FeedSamples
        BY <3>1 DEF SampleAges, FeedInv
      <4>2. sample \in [origin : {"http", "local"}, fresh : BOOLEAN]
        BY <4>1 DEF FeedSamples, NoSample
      <4>3. sample' \in [origin : {"http", "local"}, fresh : BOOLEAN]
        BY <4>1, <4>2
      <4> QED
        BY <4>3 DEF FeedSamples
    <3>2. CASE CaptureFails \/ ClearAccount
      BY <3>2, FeedKinds DEF CaptureFails, ClearAccount, FeedInv, FeedSamples, NoSample
    <3> QED
      BY <1>3, <3>1, <3>2
  <2>3. ~LiveLocal'
    BY <1>3 DEF SampleAges, CaptureFails, ClearAccount, FeedInv, FeedSamples, NoSample, LiveLocal,
                Local
  <2> QED
    BY <2>1, <2>2, <2>3 DEF FeedInv
<1>4. CASE (\E a \in Accounts : SaveAsks(a)) \/ SaveEnds
  <2>1. UNCHANGED <<sample, capture, poll>>
    BY <1>4 DEF SaveAsks, SaveEnds
  <2>2. probe' \in {NoProbe} \cup [pc : {"station"}, of : Accounts]
    BY <1>4 DEF SaveAsks, SaveEnds, FeedInv
  <2>3. account' \in Accounts \cup {NoAccount}
    BY <1>4 DEF SaveAsks, SaveEnds, FeedInv, NoProbe
  <2> QED
    BY <2>1, <2>2, <2>3 DEF FeedInv, LiveLocal
<1> QED
  BY <1>1, <1>2, <1>3, <1>4 DEF SiseliNext

\* However a poll, the sniffer and the account's routes overtake each other,
\* the portal's data only displaces a fresh local sample that came while that
\* very request was under way (server.py 1126-1458).
THEOREM LocalSampleKept == SiseliSpec => FreshLocalKept
<1>1. SiseliInit => FeedInv
  BY FeedKinds DEF SiseliInit, FeedInv, Polls, NoPoll
<1>2. FeedInv /\ [SiseliNext]_siseliVars => FeedInv'
  <2> SUFFICES ASSUME FeedInv, [SiseliNext]_siseliVars PROVE FeedInv'
    OBVIOUS
  <2>1. CASE UNCHANGED siseliVars
    BY <2>1 DEF siseliVars, FeedInv, LiveLocal
  <2> QED
    BY <2>1, FeedStep
<1>3. FeedInv /\ [SiseliNext]_siseliVars =>
        [LiveLocal /\ sample'.origin = "http" => poll.pc = "fetch" /\ poll.landed]_siseliVars
  <2> SUFFICES ASSUME FeedInv, SiseliNext, LiveLocal, sample'.origin = "http"
               PROVE  poll.pc = "fetch" /\ poll.landed
    OBVIOUS
  <2>1. sample = Local /\ sample.origin = "local" /\ sample' # sample
    BY DEF LiveLocal, Local
  <2>2. ~LocalDecode /\ ~SampleAges /\ ~ClearAccount /\ ~LoopForgets
    BY <2>1 DEF LocalDecode, SampleAges, ClearAccount, LoopForgets, Local, NoSample
  <2>3. ~PollEnds /\ ~PollList
    BY <2>1 DEF PollEnds, Published, PollList, Local
  <2>4. PollFetch
    BY <2>1, <2>2, <2>3 DEF SiseliNext, PollStart, PollChecks, CaptureFails, SaveLocal, SaveAsks,
                            SaveEnds
  <2> QED
    BY <2>4 DEF PollFetch, FeedInv
<1> QED
  BY <1>1, <1>2, <1>3, PTL DEF SiseliSpec, FreshLocalKept

-----------------------------------------------------------------------------
(* What is published.  The lock is held from the snapshot to the sink, so  *)
(* one thread at most has a snapshot, and it is the latest taken.          *)

Publishing(t) == t.pc = "publish"
DecodeThreads == [pc : {"idle", "merged", "tick"}] \cup [pc : {"publish"}, snapshot : Nat]

PublishInv ==
  /\ decoder \in DecodeThreads /\ health \in DecodeThreads
  /\ merged \in Nat /\ retained \in Nat /\ retained <= merged
  /\ ~(Publishing(decoder) /\ Publishing(health))
  /\ \A t \in {decoder, health} : Publishing(t) => t.snapshot \in retained .. merged

LEMMA PublishStep == ASSUME PublishInv, PublishNext PROVE PublishInv' /\ retained' >= retained
<1>1. CASE Merge
  BY <1>1 DEF Merge, PublishInv, Publishing, DecodeThreads, Idle
<1>2. CASE TakeSnapshot
  BY <1>2 DEF TakeSnapshot, PublishInv, Publishing, DecodeThreads, Idle, Locked
<1>3. CASE PublishTick
  BY <1>3 DEF PublishTick, PublishInv, Publishing, DecodeThreads, Idle, Locked
<1>4. CASE PublishGroupedState
  BY <1>4 DEF PublishGroupedState, Handed, PublishInv, Publishing, DecodeThreads, Idle
<1>5. CASE Republish
  BY <1>5 DEF Republish, Handed, PublishInv, Publishing, DecodeThreads, Idle
<1>6. CASE CheckCaptureThread
  BY <1>6 DEF CheckCaptureThread, PublishInv, Publishing, DecodeThreads, Idle
<1>7. CASE SnifferDies \/ PublishTime
  BY <1>7 DEF SnifferDies, PublishTime, PublishInv, Publishing, DecodeThreads, Idle
<1> QED
  BY <1>1, <1>2, <1>3, <1>4, <1>5, <1>6, <1>7
  DEF PublishNext, HealthThread, CaptureThread

\* The sink never takes an older snapshot than the one it has, whichever
\* thread publishes and wherever the capture dies (siseli_local/parsers.py
\* 715-775, 2479-2541).
THEOREM SinkNeverGoesBack == PublishSpec => NeverOlder
<1>1. PublishInit => PublishInv
  BY DEF PublishInit, PublishInv, Publishing, DecodeThreads, Idle
<1>2. PublishInv /\ [PublishNext]_publishVars => PublishInv'
  <2> SUFFICES ASSUME PublishInv, [PublishNext]_publishVars PROVE PublishInv'
    OBVIOUS
  <2>1. CASE UNCHANGED publishVars
    BY <2>1 DEF publishVars, PublishInv, Publishing
  <2> QED
    BY <2>1, PublishStep
<1>3. PublishInv /\ [PublishNext]_publishVars => [retained' >= retained]_publishVars
  BY PublishStep
<1> QED
  BY <1>1, <1>2, <1>3, PTL DEF PublishSpec, NeverOlder
=============================================================================
