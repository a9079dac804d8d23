--------------------------- MODULE SnapshotGrades ---------------------------
(* What a snapshot directory on the NAS may hold (backup.py). *)

\* No directory; one without a manifest; one with a manifest and a file that
\* is missing or cut short; all sizes right but a wrong content; all right.
Grades == {"none", "partial", "bad", "corrupt", "good"}
HasManifest == {"bad", "corrupt", "good"}
SizesMatch == {"corrupt", "good"}

\* Removing a directory file by file; every error on the way is swallowed.
RemovalLeaves(g) ==
  {g, "none"} \cup (IF g = "none" THEN {} ELSE {"partial"})
              \cup (IF g \in HasManifest THEN {"bad"} ELSE {})
=============================================================================
