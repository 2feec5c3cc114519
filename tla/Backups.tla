------------------------------- MODULE Backups -------------------------------
(* Encrypted backups (scripts/): dumps of Postgres, snapshots of DuckDB,    *)
(* the retention that prunes both, and the restore.  Nothing locks: a       *)
(* snapshot may run beside a prune, and each script may fail, be            *)
(* interrupted, which its trap cleans up after, or be killed, which nothing *)
(* does.  A timestamp stands for its second; a file name for its kind and   *)
(* timestamp, as no label is given.                                         *)
EXTENDS Integers, FiniteSetsExt

CONSTANTS Day, Week, Month,       \* the calendar: timestamp -> bucket, each non-decreasing
          Daily, Weekly, Monthly, \* quotas of the buckets
          MaxEvents               \* bound on backups, snapshots, prunes and power cuts together

VARIABLES now,      \* the timestamp of this second
          files,    \* the artefacts: name -> [run, whole]
          sidecars, \* name -> the contents it was computed of
          jobs,     \* the running backup.sh and snapshot.sh: kind -> [step, name, run]
          scratch,  \* the snapshot's scratch directory is as it wrote it
          prune,    \* the running prune.sh: [step, index]
          events,   \* backups, snapshots, prunes and power cuts so far
          killed,   \* history: there was a power cut
          listed,   \* history: names some prune had in its index
          blurred   \* history: an index held an artefact that was not whole, or lost one since

backupVars == <<now, files, sidecars, jobs, scratch, prune, events, killed, listed,
                blurred>>

Timestamps == DOMAIN Day
Kinds == {"pg", "duckdb"}
Off == [step |-> "off"]

\* Calendars number their days, weeks and months; quotas count.
BackupConstants ==
  /\ Timestamps \subseteq Int
  /\ \A t \in Timestamps : Day[t] \in Int /\ Week[t] \in Int /\ Month[t] \in Int
  /\ Daily \in Nat /\ Weekly \in Nat /\ Monthly \in Nat

Init ==
  /\ now = Min(Timestamps)
  /\ files = <<>>
  /\ sidecars = <<>>
  /\ jobs = [k \in Kinds |-> Off]
  /\ scratch = FALSE
  /\ prune = Off
  /\ events = 0
  /\ killed = FALSE
  /\ listed = {}
  /\ blurred = FALSE

Another == events < MaxEvents /\ events' = events + 1

With(f, k, v) == [x \in DOMAIN f \cup {k} |-> IF x = k THEN v ELSE f[x]]
Without(f, gone) == [x \in DOMAIN f \ gone |-> f[x]]
-----------------------------------------------------------------------------
(* backup.sh and snapshot.sh                                                *)

\* The output is named; the snapshot exports its tables into a scratch directory.
Start(k, second) ==
  /\ jobs[k] = Off /\ Another
  /\ second >= now
  /\ now' = second
  /\ jobs' = [jobs EXCEPT ![k] = [step |-> "started", name |-> <<k, second>>, run |-> events']]
  /\ scratch' = (IF k = "duckdb" THEN TRUE ELSE scratch)
  /\ UNCHANGED <<files, sidecars, prune, killed, listed, blurred>>

Step(k, step) == jobs' = [jobs EXCEPT ![k].step = step]

\* age opens the output, whatever has that name, and writes while it is fed; a snapshot
\* whose scratch directory is gone does not come this far.
Open(k) ==
  /\ jobs[k].step = "started" /\ (k = "duckdb" => scratch)
  /\ files' = With(files, jobs[k].name, [run |-> jobs[k].run, whole |-> FALSE])
  /\ Step(k, "writing")
  /\ UNCHANGED <<now, sidecars, scratch, prune, events, killed, listed, blurred>>

\* The pipeline is through; a prune beside it may have removed the file meanwhile.
Close(k) ==
  /\ jobs[k].step = "writing" /\ jobs[k].name \in DOMAIN files /\ (k = "duckdb" => scratch)
  /\ files' = [files EXCEPT ![jobs[k].name].whole = TRUE]
  /\ Step(k, "written")
  /\ UNCHANGED <<now, sidecars, scratch, prune, events, killed, listed, blurred>>

\* write_sha256, the last step; the trap removes the scratch directory.
Checksum(k) ==
  /\ jobs[k].step = "written" /\ jobs[k].name \in DOMAIN files
  /\ sidecars' = With(sidecars, jobs[k].name, files[jobs[k].name])
  /\ jobs' = [jobs EXCEPT ![k] = Off]
  /\ scratch' = (scratch /\ k # "duckdb")
  /\ UNCHANGED <<now, files, prune, events, killed, listed, blurred>>

\* cleanup: on any other exit the output and its sidecar are removed.
Leaves(name) == {name}
GiveUp(k) ==
  /\ jobs[k] # Off
  /\ files' = Without(files, Leaves(jobs[k].name))
  /\ sidecars' = Without(sidecars, Leaves(jobs[k].name))
  /\ blurred' = (blurred \/ jobs[k].name \in listed)
  /\ jobs' = [jobs EXCEPT ![k] = Off]
  /\ scratch' = (scratch /\ k # "duckdb")
  /\ UNCHANGED <<now, prune, events, killed, listed>>

\* A power cut: no trap runs, everything stays as it is.
Kill ==
  /\ Another
  /\ prune # Off \/ \E k \in Kinds : jobs[k] # Off
  /\ killed' = TRUE
  /\ jobs' = [k \in Kinds |-> Off]
  /\ prune' = Off
  /\ UNCHANGED <<now, files, sidecars, scratch, listed, blurred>>
-----------------------------------------------------------------------------
(* prune.sh                                                                 *)

\* sort -r of lines that begin with the timestamp and end with the path: of one second
\* the dump, whose path is the greater, is the newer.
Newer(a, b) == a[2] > b[2] \/ (a[2] = b[2] /\ a[1] = "pg" /\ b[1] = "duckdb")

\* pick_bucket: the newest artefact of each of the newest buckets, up to the quota.
Picked(index, Bucket, quota) ==
  LET buckets == {Bucket[n[2]] : n \in index}
      kept == {b \in buckets : Cardinality({c \in buckets : c > b}) < quota}
  IN  {n \in index : /\ Bucket[n[2]] \in kept
                     /\ \A m \in index : Bucket[m[2]] = Bucket[n[2]] => ~Newer(m, n)}

Keep(index) ==
  Picked(index, Day, Daily) \cup Picked(index, Week, Weekly) \cup Picked(index, Month, Monthly)

\* With artefacts to prune, the scratch directories found are swept, a running
\* snapshot's among them.
List ==
  /\ prune = Off /\ Another
  /\ DOMAIN files # {}
  /\ prune' = [step |-> "removing", index |-> DOMAIN files]
  /\ scratch' = FALSE
  /\ listed' = listed \cup DOMAIN files
  /\ blurred' = (blurred \/ \E n \in DOMAIN files : ~files[n].whole)
  /\ UNCHANGED <<now, files, sidecars, jobs, killed>>

Condemned == prune.index \ Keep(prune.index)

\* Line by line, newest first: the file and its sidecar.
Remove ==
  /\ prune # Off
  /\ \E n \in Condemned \cap DOMAIN files :
       /\ \A m \in Condemned \cap DOMAIN files : ~Newer(m, n)
       /\ files' = Without(files, {n})
       /\ sidecars' = Without(sidecars, {n})
  /\ UNCHANGED <<now, jobs, scratch, prune, events, killed, listed, blurred>>

\* Through the index, or interrupted anywhere in it.
Finish ==
  /\ prune # Off
  /\ prune' = Off
  /\ UNCHANGED <<now, files, sidecars, jobs, scratch, events, killed, listed,
                 blurred>>
-----------------------------------------------------------------------------
(* restore.sh                                                               *)

\* Unless told to skip it: the sidecar must be there and match, before anything is replayed.
Verified(n) == n \in DOMAIN sidecars /\ sidecars[n] = files[n]

Next ==
  \/ \E k \in Kinds, second \in Timestamps : Start(k, second)
  \/ \E k \in Kinds : Open(k) \/ Close(k) \/ Checksum(k) \/ GiveUp(k)
  \/ Kill \/ List \/ Remove \/ Finish

Spec == Init /\ [][Next]_backupVars
-----------------------------------------------------------------------------
(* Properties                                                               *)

\* Of the quota newest days, weeks and months that ever had an artefact, the newest one
\* pruned is still there: prune after prune, with whatever was taken between them, the
\* dailies grow old into weeklies and monthlies (ADR-0025) - unless a prune counted an
\* artefact that was never completed.
RetentionCovers ==
  blurred \/
  \A b \in {<<Day, Daily>>, <<Week, Weekly>>, <<Month, Monthly>>} :
    LET ever == {b[1][n[2]] : n \in listed}
    IN  \A d \in ever : Cardinality({e \in ever : e > d}) < b[2] =>
          \E n \in DOMAIN files : /\ b[1][n[2]] = d
                                 /\ \A m \in listed : b[1][m[2]] = d => m[2] <= n[2]

\* Pruning what a prune leaves removes nothing more, so a second run of prune.sh, or one
\* that takes up an interrupted one, ends in the same place.
PruneIsStable ==
  prune # Off =>
    \A left \in SUBSET Condemned :
      Keep(Keep(prune.index) \cup left) = Keep(prune.index)

\* restore.sh never begins to replay a truncated dump, also not one that lies under the
\* sidecar of an earlier one: psql commits as it goes, so it would stop half-way in the
\* database it replaces (restore.sh, write_sha256).
RestoreIsWhole == \A n \in DOMAIN files : Verified(n) => files[n].whole

\* Without a power cut, no truncated artefact outlives the script that wrote it (the traps
\* of backup.sh and snapshot.sh).
NothingTornStays ==
  ~killed => \A n \in DOMAIN files :
                 \/ files[n].whole
                 \/ \E k \in Kinds : jobs[k] # Off /\ jobs[k].name = n
=============================================================================
