------------------------------ MODULE Restore ------------------------------
(***************************************************************************)
(* A restore (backup.py 903-999, 1681-1759): the manifest and the files of *)
(* a snapshot are copied to a staging directory, hashed, and only then put *)
(* in place one by one.  Meanwhile retention may remove the snapshot, and  *)
(* the server may die.                                                     *)
(***************************************************************************)
EXTENDS Naturals, FiniteSets, SnapshotGrades

CONSTANTS
  DataFiles,    \* energy.db and the small files
  NumSnapshots  \* bound: directories on the NAS

ASSUME RestoreAssumption == "auth.json" \in DataFiles /\ NumSnapshots \in Nat

VARIABLES
  shelf,    \* grade of each snapshot
  saved,    \* are credentials of a NAS saved
  restore,  \* the request
  data,     \* where each file of /data comes from
  blended   \* history: a selective restore, or a death while swapping

restoreVars == <<shelf, saved, restore, data, blended>>

Snapshots == 1..NumSnapshots
NoRestore == [pc |-> "idle"]
\* Where a file of /data comes from, other than a whole file of a snapshot.
Missing == 0
Own == NumSnapshots + 1
Damaged == NumSnapshots + 2

HasUser == data["auth.json"] # Missing

\* An installation in use, or a fresh one.
RestoreInit ==
  /\ shelf \in [Snapshots -> {"bad", "corrupt", "good"}]
  /\ saved \in BOOLEAN
  /\ restore = NoRestore
  /\ data \in {[f \in DataFiles |-> Own], [f \in DataFiles |-> Missing]}
  /\ HasUser = saved
  /\ blended = FALSE

\* Retention of a backup run removes a snapshot, or a part of it.
Retention ==
  /\ \E s \in Snapshots, g \in Grades :
       /\ g \in RemovalLeaves(shelf[s]) \ {shelf[s]}
       /\ shelf' = [shelf EXCEPT ![s] = g]
  /\ UNCHANGED <<saved, restore, data, blended>>

\* With the saved credentials, or, as long as there is no user, with those
\* of the form.  The manifest is read first.
RestoreStart(s, scope) ==
  /\ restore = NoRestore
  /\ HasUser => saved
  /\ shelf[s] \in HasManifest
  /\ restore' = [pc |-> "fetch", snap |-> s, scope |-> scope, todo |-> scope,
                 whole |-> TRUE]
  /\ UNCHANGED <<shelf, saved, data, blended>>

\* Files are taken in the order of the manifest.
NextOf(files) == CHOOSE f \in files : TRUE

\* The next file; it may be damaged.
Fetch ==
  /\ restore.pc = "fetch" /\ restore.todo # {}
  /\ shelf[restore.snap] \in HasManifest
  /\ \E whole \in BOOLEAN :
       /\ shelf[restore.snap] = "good" => whole
       /\ restore' = [restore EXCEPT !.todo = @ \ {NextOf(@)},
                                     !.whole = @ /\ whole]
  /\ UNCHANGED <<shelf, saved, data, blended>>

\* The transport fails, or a file has been deleted since.
FetchFails ==
  /\ restore.pc = "fetch"
  /\ restore' = NoRestore
  /\ UNCHANGED <<shelf, saved, data, blended>>

\* The hashes of the staged files against the manifest.
HashesMatch(whole) == whole

\* Mutant: only the presence of the files is verified.
PresenceOnly(whole) == TRUE

VerifyManifest(whole) == HashesMatch(whole)

FetchEnds ==
  /\ restore.pc = "fetch" /\ restore.todo = {}
  /\ restore' = IF VerifyManifest(restore.whole)
                THEN [restore EXCEPT !.pc = "swap", !.todo = restore.scope]
                ELSE NoRestore
  /\ UNCHANGED <<shelf, saved, data, blended>>

\* Each staged file replaces the live one by a rename.
Swap ==
  /\ restore.pc = "swap" /\ restore.todo # {}
  /\ data' = [data EXCEPT ![NextOf(restore.todo)] =
                 IF restore.whole THEN restore.snap ELSE Damaged]
  /\ restore' = [restore EXCEPT !.todo = @ \ {NextOf(@)}]
  /\ UNCHANGED <<shelf, saved, blended>>

\* A fresh installation keeps the credentials it has restored with.
RestoreEnds ==
  /\ restore.pc = "swap" /\ restore.todo = {}
  /\ saved' = TRUE
  /\ blended' = (blended \/ restore.scope # DataFiles)
  /\ restore' = NoRestore
  /\ UNCHANGED <<shelf, data>>

\* The thread dies with the server.
RestoreDies ==
  /\ blended' = (blended \/ restore.pc = "swap")
  /\ restore' = NoRestore
  /\ UNCHANGED <<shelf, saved, data>>

RestoreNext ==
  \/ Retention
  \/ \E s \in Snapshots, scope \in SUBSET DataFiles \ {{}} : RestoreStart(s, scope)
  \/ Fetch \/ FetchFails \/ FetchEnds \/ Swap \/ RestoreEnds
  \/ RestoreDies

RestoreSpec == RestoreInit /\ [][RestoreNext]_restoreVars

-----------------------------------------------------------------------------
\* A restore puts whole files of one snapshot into /data or none: a transfer
\* that fails, a damaged file, or a snapshot that retention removes meanwhile
\* leaves /data alone; only a death while files are swapped can blend two
\* (backup.py 951-985, "a partial transfer or corrupted file can't
\* half-overwrite the live state").
RestoreAllOrNothing ==
  /\ \A f \in DataFiles : data[f] # Damaged
  /\ restore.pc # "swap" /\ ~blended =>
       \A f, g \in DataFiles : data[f] = data[g]
=============================================================================
