------------------------------- MODULE Backup -------------------------------
(***************************************************************************)
(* Snapshots of /data on a NAS (backup.py): the nightly run and the ones   *)
(* the user asks for, each in a thread of its own and without a lock, and  *)
(* the retention that follows a successful upload.  What a snapshot        *)
(* directory holds is one of five grades.                                  *)
(***************************************************************************)
EXTENDS Naturals, FiniteSets, SnapshotGrades

CONSTANTS
  Threads,        \* threads that may run a backup at the same time
  Transports,  \* what the saved credentials may name
  KeepCount,   \* backup_keep_count
  MaxStamp     \* bound: backups started

ASSUME BackupAssumption ==
  /\ Transports \subseteq {"none", "smb", "rsync_ssh", "rsyncd"}
  /\ KeepCount \in Nat /\ MaxStamp \in Nat

VARIABLES
  transport,  \* of the saved credentials; "none" without
  remote,     \* grade of each snapshot directory
  nextStamp,  \* directory stamps grow with the clock
  run,        \* the backup threads
  lastOk,     \* last_ok_ts of the status file: a stamp, 0 for none
  overtaken   \* history: a run saw KeepCount later ones begin

backupVars == <<transport, remote, nextStamp, run, lastOk, overtaken>>

Stamps == 1..MaxStamp

NoRun == [pc |-> "idle"]
Recording(s, ok) == [pc |-> "record", stamp |-> s, ok |-> ok]

BackupInit ==
  /\ transport \in Transports
  /\ remote = [s \in Stamps |-> "none"]
  /\ nextStamp = 1
  /\ run = [r \in Threads |-> NoRun]
  /\ lastOk = 0
  /\ overtaken = FALSE

\* A run starts: without credentials it is only recorded, otherwise the
\* snapshot is staged and checked locally, which may fail, as the first mkdir.
RunStart(r) ==
  /\ run[r] = NoRun
  /\ nextStamp <= MaxStamp
  /\ nextStamp' = nextStamp + 1
  /\ \E pc \in {"mkdir", "record"} :
       /\ transport = "none" => pc = "record"
       /\ run' = [run EXCEPT ![r] =
                    IF pc = "record" THEN Recording(nextStamp, FALSE)
                    ELSE [pc |-> "mkdir", stamp |-> nextStamp]]
  /\ overtaken' = (overtaken \/ \E q \in Threads :
                     run[q] # NoRun /\ nextStamp - run[q].stamp >= KeepCount)
  /\ UNCHANGED <<transport, remote, lastOk>>

\* The directory is made, then the files are transferred.
MakeDir(r) ==
  /\ run[r].pc = "mkdir"
  /\ remote' = [remote EXCEPT ![run[r].stamp] = "partial"]
  /\ run' = [run EXCEPT ![r].pc = "upload"]
  /\ UNCHANGED <<transport, nextStamp, lastOk, overtaken>>

\* The transfer ends without an error: rsync has compared checksums by then,
\* SMB may have cut a file short or damaged it.
UploadEnds(r) ==
  /\ run[r].pc = "upload"
  /\ \E g \in IF transport = "smb" THEN {"bad", "corrupt", "good"} ELSE {"good"} :
       remote' = [remote EXCEPT ![run[r].stamp] = g]
  /\ run' = [run EXCEPT ![r].pc = "verify"]
  /\ UNCHANGED <<transport, nextStamp, lastOk, overtaken>>

\* A failed transfer leaves what has arrived.
UploadFails(r) ==
  /\ run[r].pc = "upload"
  /\ \E g \in {remote[run[r].stamp], "partial", "bad"} :
       remote' = [remote EXCEPT ![run[r].stamp] = g]
  /\ run' = [run EXCEPT ![r] = Recording(@.stamp, FALSE)]
  /\ UNCHANGED <<transport, nextStamp, lastOk, overtaken>>

\* Mutant: a directory that can be listed passes.
SizeCheckListed(s, listed) == listed \/ transport # "smb"

\* Sizes on the remote against the manifest.  A listing that fails counts as
\* a mismatch over SMB and is ignored over rsync.
SizeCheckPasses(s, listed) ==
  IF listed THEN remote[s] \in SizesMatch ELSE transport # "smb"

VerifySizes(r) ==
  LET s == run[r].stamp IN
  /\ run[r].pc = "verify"
  /\ \E listed \in BOOLEAN :
       IF SizeCheckPasses(s, listed)
       THEN /\ run' = [run EXCEPT ![r] =
                         IF KeepCount > 0 THEN [pc |-> "list", stamp |-> s]
                         ELSE Recording(s, TRUE)]
            /\ UNCHANGED remote
       ELSE /\ run' = [run EXCEPT ![r] = Recording(s, FALSE)]
            /\ IF transport = "rsyncd" THEN UNCHANGED remote
               ELSE \E g \in RemovalLeaves(remote[s]) :
                      remote' = [remote EXCEPT ![s] = g]
  /\ UNCHANGED <<transport, nextStamp, lastOk, overtaken>>

\* Retention keeps the newest KeepCount directories, whatever they hold.
Kept(dirs) == {s \in dirs : Cardinality({t \in dirs : t > s}) < KeepCount}
Expired(dirs) == dirs \ Kept(dirs)

\* Listing the directories; none can be removed over rsyncd, and an error of
\* the listing ends the retention.
PruneList(r) ==
  LET dirs == {s \in Stamps : remote[s] # "none"} IN
  /\ run[r].pc = "list"
  /\ \E drop \in {Expired(dirs), {}} :
       /\ transport = "rsyncd" => drop = {}
       /\ run' = [run EXCEPT ![r] =
                    [pc |-> "prune", stamp |-> @.stamp, drop |-> drop]]
  /\ UNCHANGED <<transport, remote, nextStamp, lastOk, overtaken>>

PruneOne(r) ==
  /\ run[r].pc = "prune"
  /\ \E s \in run[r].drop, g \in Grades :
       /\ g \in RemovalLeaves(remote[s])
       /\ remote' = [remote EXCEPT ![s] = g]
       /\ run' = [run EXCEPT ![r].drop = @ \ {s}]
  /\ UNCHANGED <<transport, nextStamp, lastOk, overtaken>>

PruneEnds(r) ==
  /\ run[r].pc = "prune" /\ run[r].drop = {}
  /\ run' = [run EXCEPT ![r] = Recording(@.stamp, TRUE)]
  /\ UNCHANGED <<transport, remote, nextStamp, lastOk, overtaken>>

RecordRun(r) ==
  /\ run[r].pc = "record"
  /\ lastOk' = IF run[r].ok THEN run[r].stamp ELSE lastOk
  /\ run' = [run EXCEPT ![r] = NoRun]
  /\ UNCHANGED <<transport, remote, nextStamp, overtaken>>

\* The threads die with the server; nothing is resumed or cleaned up.
ServerDies ==
  /\ run' = [r \in Threads |-> NoRun]
  /\ UNCHANGED <<transport, remote, nextStamp, lastOk, overtaken>>

BackupNext ==
  \/ \E r \in Threads :
       \/ RunStart(r) \/ MakeDir(r) \/ UploadEnds(r) \/ UploadFails(r)
       \/ VerifySizes(r) \/ PruneList(r) \/ PruneOne(r) \/ PruneEnds(r)
       \/ RecordRun(r)
  \/ ServerDies

BackupSpec == BackupInit /\ [][BackupNext]_backupVars

-----------------------------------------------------------------------------
\* A backup that was reported as done stays worth something: retention, the
\* removal of failed uploads and other runs leave at least one snapshot that
\* has all its files, as long as no run is overtaken by KeepCount others
\* (backup.py 670-717, 836-871).
SnapshotSurvives ==
  lastOk > 0 /\ ~overtaken => \E s \in Stamps : remote[s] \in SizesMatch
=============================================================================
