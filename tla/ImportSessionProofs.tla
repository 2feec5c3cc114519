------------------------- MODULE ImportSessionProofs -------------------------
(***************************************************************************)
(* Proofs about ImportSession, for any number of request slots, rows,      *)
(* corrections and crashes.                                                *)
(*                                                                         *)
(* None of the safety properties is inductive.  What a request may do      *)
(* rests on what it read some steps ago (seen, snap, todo), so the         *)
(* invariant says how far that memory can be from the session: a late      *)
(* request no longer remembers "staged", a loader only writes rows of its  *)
(* snapshot, and while requests do not overlap what a request saw is what  *)
(* the session still is.                                                   *)
(*                                                                         *)
(* UploadIsKept is proved by its two parts: StagedHasFile with the control *)
(* stages, EmptyHadFile with the commits.                                  *)
(***************************************************************************)
EXTENDS ImportSession, TLAPS

\* An upload runs before the session exists, and alone.
UploadIsFirst ==
    \A r \in Requests :
        /\ pc[r] = "upload" =>
             status = "none" /\ file /\ \A q \in Requests \ {r} : pc[q] = "idle"
        /\ status = "none" => pc[r] \in {"idle", "upload"}

\* The directory is only removed once the session has left "staged".
RemovedAfterStaged == \A r \in Requests : pc[r] = "remove" => status # "staged"

\* A request past its checks saw a staged session.
CommitsStaged ==
    \A r \in Requests : pc[r] \in {"lock", "write", "mark"} => req[r].seen = "staged"

\* A loader only has included rows of its snapshot left to write.
TodoIsIncluded ==
    \A r \in Requests : pc[r] = "write" => req[r].todo \subseteq Included(req[r].snap)

\* A request that came too late has stopped believing in "staged" as soon as
\* it acts.
LateIsRefused ==
    \A r \in Requests : req[r].late =>
        /\ overdue /\ pc[r] # "idle"
        /\ pc[r] # "loaded" => req[r].seen # "staged"

\* raced is set as soon as two requests are in flight.
AloneUnlessRaced ==
    ~raced => \A r, q \in Requests : pc[r] # "idle" /\ pc[q] # "idle" => r = q

\* What a request saw, alone, is still so.
SeenIsCurrentAlone ==
    ~raced => \A r \in Requests :
        /\ pc[r] \in {"loaded", "act", "lock", "write", "mark"} => req[r].seen = status
        /\ pc[r] = "remove" => status = "discarded"
        /\ pc[r] = "mark" => source # "empty" \/ file

\* What a lone commit has not left to do is loaded.
LoadedSoFarAlone ==
    ~raced => \A r \in Requests :
        /\ pc[r] \in {"lock", "write"} => req[r].snap = rows
        /\ pc[r] = "write" =>
             \A i \in Included(rows) \ req[r].todo : raw[i] = rows[i]
        /\ pc[r] = "mark" => \A i \in Included(rows) : raw[i] = rows[i]

\* An empty holdings snapshot has no rows to include.
EmptyHasNoRows == source = "empty" => DOMAIN rows = {}

IInv ==
    /\ TypeOK /\ EmptyHasNoRows /\ UploadIsFirst /\ RemovedAfterStaged
    /\ CommitsStaged /\ TodoIsIncluded /\ LateIsRefused
    /\ AloneUnlessRaced /\ SeenIsCurrentAlone /\ LoadedSoFarAlone
    /\ StagedHasFile /\ EmptyHadFile
    /\ OnlyReviewedRowsLoaded /\ CommittedIsLoadedAlone
-----------------------------------------------------------------------------
(* Facts about the row sets and the request's memory. *)

\* An upload without rows is the empty function.
LEMMA EmptyRows == <<>> \in RowSets
<1>1. <<>> \in [{} -> StagedRow]
  OBVIOUS
<1>2. QED
  BY <1>1 DEF RowSets

\* A row set is staged for all rows or for none.
LEMMA RowSetCases ==
  ASSUME NEW s \in RowSets
  PROVE  s \in [Rows -> StagedRow] \/ (DOMAIN s = {} /\ s \in [{} -> StagedRow])
  BY DEF RowSets

Req == [kind : Kinds, seen : Statuses, snap : RowSets, todo : SUBSET Rows,
        late : BOOLEAN]

\* A request that has not begun is a request.
LEMMA NoReqType == NoReq \in Req
  BY EmptyRows DEF NoReq, Req, Kinds, Statuses

\* Included rows are rows of the upload with a typed payload.
LEMMA IncludedRows ==
  ASSUME NEW s \in RowSets, NEW i \in Included(s)
  PROVE  i \in Rows /\ s[i] \in StagedRow /\ ~s[i].excluded
  BY RowSetCases DEF Included

\* What a loader writes has the type of the raw tables.
LEMMA PutType ==
  ASSUME TypeOK, NEW s \in RowSets, NEW S \in SUBSET Included(s)
  PROVE  Put(s, S) \in [Rows -> StagedRow \cup {NoRow}]
<1>1. \A i \in S : s[i] \in StagedRow
  BY IncludedRows
<1>2. QED
  BY <1>1 DEF Put, TypeOK

\* The end of a request keeps the shape of the state.
LEMMA FinishType ==
  ASSUME TypeOK, NEW r \in Requests, Finish(r)
  PROVE  /\ pc' \in [Requests -> Stages]
         /\ req' \in [Requests -> Req]
         /\ \A q \in Requests : lock' = q <=> pc'[q] = "write"
         /\ lock' \in Requests \cup {Free}
<1>1. pc' = [pc EXCEPT ![r] = "idle"] /\ req' = [req EXCEPT ![r] = NoReq]
      /\ lock' = (IF lock = r THEN Free ELSE lock)
  BY DEF Finish, Goto
<1>2. \A q \in Requests : lock' = q <=> pc'[q] = "write"
  BY <1>1, ImportConstants DEF TypeOK
<1>3. QED
  BY <1>1, <1>2, NoReqType DEF TypeOK, Stages, Req

\* What staging inserts has the shape of a session.
LEMMA InsertType ==
  ASSUME TypeOK, InsertSession
  PROVE  status' \in Statuses /\ rows' \in RowSets
<1>1. PICK bad \in SUBSET Rows :
        rows' = [i \in IF source = "empty" THEN {} ELSE Rows |->
                   [ver |-> 1, error |-> i \in bad, excluded |-> FALSE]]
  BY DEF InsertSession
<1>2. rows' \in RowSets
  BY <1>1, ImportConstants DEF RowSets, StagedRow
<1>3. QED
  BY <1>2 DEF InsertSession, Statuses

-----------------------------------------------------------------------------
(* Type correctness *)

\* Every step of a request keeps the shape of the state.
LEMMA TypeStep == TypeOK /\ TodoIsIncluded /\ [Next]_vars => TypeOK'
<1> SUFFICES ASSUME TypeOK, TodoIsIncluded, [Next]_vars PROVE TypeOK'
  OBVIOUS
<1> USE DEF Req
<1>1. CASE UNCHANGED vars
  BY <1>1 DEF vars, TypeOK
<1>2. CASE Tick
  BY <1>2 DEF Tick, TypeOK
<1>3. CASE Crash
  BY <1>3, NoReqType, ImportConstants DEF Crash, TypeOK, Stages
<1>4. ASSUME NEW r \in Requests, Upload(r) PROVE TypeOK'
  BY <1>4, ImportConstants DEF Upload, Goto, TypeOK, Stages
<1>5. ASSUME NEW r \in Requests, StageRows(r) PROVE TypeOK'
  BY <1>5, InsertType, FinishType DEF StageRows, TypeOK
<1>6. ASSUME NEW r \in Requests, StagingFails(r) PROVE TypeOK'
  BY <1>6, FinishType DEF StagingFails, TypeOK
<1>7. ASSUME NEW r \in Requests, NEW kind \in Kinds, GetSession(r, kind) PROVE TypeOK'
  <2>1. [NoReq EXCEPT !.kind = kind, !.seen = status, !.late = overdue] \in Req
    BY NoReqType DEF TypeOK
  <2>2. QED
    BY <1>7, <2>1 DEF GetSession, Goto, TypeOK, Stages
<1>8. ASSUME NEW r \in Requests, ExpireIfStale(r) PROVE TypeOK'
  <2>1. [req[r] EXCEPT !.seen = "expired"] \in Req
    BY DEF TypeOK, Statuses
  <2>2. req' \in [Requests -> Req] /\ status' \in Statuses
    BY <1>8, <2>1 DEF ExpireIfStale, TypeOK, Statuses
  <2>3. QED
    BY <1>8, <2>2 DEF ExpireIfStale, Goto, TypeOK, Stages
<1>9. ASSUME NEW r \in Requests, Respond(r) PROVE TypeOK'
  BY <1>9, FinishType DEF Respond, TypeOK
<1>10. ASSUME NEW r \in Requests, GiveUp(r) PROVE TypeOK'
  BY <1>10, FinishType DEF GiveUp, TypeOK
<1>11. ASSUME NEW r \in Requests, PatchRow(r) PROVE TypeOK'
  <2>1. PICK i \in DOMAIN rows, out \in BOOLEAN, error \in BOOLEAN :
          \/ rows' = [rows EXCEPT ![i].excluded = out]
          \/ /\ \A j \in DOMAIN rows : rows[j].ver <= MaxEdits
             /\ rows' = [rows EXCEPT ![i] = [Corrected(rows[i], rows[i].ver + 1, error)
                                               EXCEPT !.excluded = out]]
    BY <1>11 DEF PatchRow
  <2>2. rows \in [Rows -> StagedRow] /\ i \in Rows
    BY RowSetCases DEF TypeOK
  <2>3. [rows[i] EXCEPT !.excluded = out] \in StagedRow
    BY <2>2 DEF StagedRow
  <2>4. rows[i].ver <= MaxEdits =>
          [Corrected(rows[i], rows[i].ver + 1, error) EXCEPT !.excluded = out] \in StagedRow
    <3> SUFFICES ASSUME rows[i].ver <= MaxEdits
                 PROVE  [Corrected(rows[i], rows[i].ver + 1, error)
                           EXCEPT !.excluded = out] \in StagedRow
      OBVIOUS
    <3>1. rows[i].ver + 1 \in 1..MaxEdits + 1
      BY <2>2, ImportConstants DEF StagedRow
    <3>2. Corrected(rows[i], rows[i].ver + 1, error) \in StagedRow
      BY <2>2, <3>1 DEF StagedRow, Corrected
    <3>3. QED
      BY <3>2 DEF StagedRow
  <2>5. rows' \in [Rows -> StagedRow]
    BY <2>1, <2>2, <2>3, <2>4
  <2>6. rows' \in RowSets
    BY <2>5 DEF RowSets
  <2>7. QED
    BY <1>11, <2>6, FinishType DEF PatchRow, TypeOK
<1>12. ASSUME NEW r \in Requests, GetRows(r) PROVE TypeOK'
  <2>1. [req[r] EXCEPT !.snap = rows] \in Req
    BY DEF TypeOK
  <2>2. QED
    BY <1>12, <2>1 DEF GetRows, Goto, TypeOK, Stages
<1>13. ASSUME NEW r \in Requests, TakeLock(r) PROVE TypeOK'
  <2>1. Included(req[r].snap) \subseteq Rows
    BY IncludedRows DEF TypeOK
  <2>2. [req[r] EXCEPT !.todo = Included(req[r].snap)] \in Req
    BY <2>1 DEF TypeOK
  <2>3. QED
    BY <1>13, <2>2, ImportConstants DEF TakeLock, Goto, TypeOK, Stages
<1>14. ASSUME NEW r \in Requests, LoadRecords(r) PROVE TypeOK'
  <2>1. raw' \in [Rows -> StagedRow \cup {NoRow}]
    BY <1>14, PutType DEF LoadRecords, TodoIsIncluded, TypeOK
  <2>2. [req[r] EXCEPT !.todo = {}, !.snap = <<>>] \in Req
    BY EmptyRows DEF TypeOK
  <2>3. req' \in [Requests -> Req]
    BY <1>14, <2>2 DEF LoadRecords, TypeOK
  <2>4. QED
    BY <1>14, <2>1, <2>3, ImportConstants DEF LoadRecords, Loaded, Goto, TypeOK, Stages
<1>15. ASSUME NEW r \in Requests, RecordBalance(r) PROVE TypeOK'
  <2>1. PICK i \in req[r].todo :
          /\ raw' = Put(req[r].snap, {i})
          /\ \/ /\ req' = [req EXCEPT ![r].todo = @ \ {i}]
                /\ UNCHANGED <<pc, lock>>
             \/ /\ req' = [req EXCEPT ![r].todo = {}, ![r].snap = <<>>]
                /\ Loaded(r)
    BY <1>15 DEF RecordBalance
  <2>2. raw' \in [Rows -> StagedRow \cup {NoRow}]
    BY <1>15, <2>1, PutType DEF RecordBalance, TodoIsIncluded, TypeOK
  <2>3. [req[r] EXCEPT !.todo = {}, !.snap = <<>>] \in Req
    BY EmptyRows DEF TypeOK
  <2>4. [req[r] EXCEPT !.todo = @ \ {i}] \in Req
    BY DEF TypeOK
  <2>5. req' \in [Requests -> Req]
    BY <2>1, <2>3, <2>4 DEF TypeOK
  <2>6. QED
    BY <1>15, <2>1, <2>2, <2>5, ImportConstants
    DEF RecordBalance, Loaded, Goto, TypeOK, Stages
<1>16. ASSUME NEW r \in Requests, MarkCommitted(r) PROVE TypeOK'
  BY <1>16, FinishType DEF MarkCommitted, TypeOK, Statuses
<1>17. ASSUME NEW r \in Requests, MarkDiscarded(r) PROVE TypeOK'
  BY <1>17, ImportConstants DEF MarkDiscarded, Goto, TypeOK, Stages, Statuses
<1>18. ASSUME NEW r \in Requests, RemoveFile(r) PROVE TypeOK'
  BY <1>18, FinishType DEF RemoveFile, TypeOK
<1>19. ASSUME NEW r \in Requests, StagingUnanswered(r) PROVE TypeOK'
  BY <1>19, InsertType, FinishType DEF StagingUnanswered, TypeOK
<1>20. QED
  BY <1>1, <1>2, <1>3, <1>4, <1>5, <1>6, <1>7, <1>8, <1>9, <1>10, <1>11, <1>12,
     <1>13, <1>14, <1>15, <1>16, <1>17, <1>18, <1>19 DEF Next, Handle
-----------------------------------------------------------------------------
(* Who is in flight, and what the requests remember of the status *)

\* Uploads come first, directories go last, and overlaps are noted.
LEMMA ControlStep ==
  ASSUME TypeOK, UploadIsFirst, RemovedAfterStaged, AloneUnlessRaced, StagedHasFile,
         [Next]_vars
  PROVE  UploadIsFirst' /\ RemovedAfterStaged' /\ AloneUnlessRaced' /\ StagedHasFile'
<1> USE DEF TypeOK, UploadIsFirst, RemovedAfterStaged, AloneUnlessRaced, StagedHasFile
<1>1. CASE UNCHANGED vars
  BY <1>1 DEF vars
<1>2. CASE Tick
  BY <1>2 DEF Tick
<1>3. CASE Crash
  BY <1>3 DEF Crash, NoReq
<1>4. ASSUME NEW r \in Requests, Upload(r)
      PROVE  UploadIsFirst' /\ RemovedAfterStaged' /\ AloneUnlessRaced' /\ StagedHasFile'
  BY <1>4 DEF Upload, Goto
<1>5. ASSUME NEW r \in Requests, StageRows(r)
      PROVE  UploadIsFirst' /\ RemovedAfterStaged' /\ AloneUnlessRaced' /\ StagedHasFile'
  BY <1>5 DEF StageRows, InsertSession, Finish, Goto
<1>6. ASSUME NEW r \in Requests, StagingFails(r)
      PROVE  UploadIsFirst' /\ RemovedAfterStaged' /\ AloneUnlessRaced' /\ StagedHasFile'
  BY <1>6 DEF StagingFails, Finish, Goto
<1>7. ASSUME NEW r \in Requests, NEW kind \in Kinds, GetSession(r, kind)
      PROVE  UploadIsFirst' /\ RemovedAfterStaged' /\ AloneUnlessRaced' /\ StagedHasFile'
  BY <1>7 DEF GetSession, NoReq, Goto
<1>8. ASSUME NEW r \in Requests, ExpireIfStale(r)
      PROVE  UploadIsFirst' /\ RemovedAfterStaged' /\ AloneUnlessRaced' /\ StagedHasFile'
  BY <1>8 DEF ExpireIfStale, IsStale, Goto
<1>9. ASSUME NEW r \in Requests, Respond(r)
      PROVE  UploadIsFirst' /\ RemovedAfterStaged' /\ AloneUnlessRaced' /\ StagedHasFile'
  BY <1>9 DEF Respond, Finish, Goto
<1>10. ASSUME NEW r \in Requests, GiveUp(r)
      PROVE  UploadIsFirst' /\ RemovedAfterStaged' /\ AloneUnlessRaced' /\ StagedHasFile'
  BY <1>10 DEF GiveUp, Finish, Goto
<1>11. ASSUME NEW r \in Requests, PatchRow(r)
      PROVE  UploadIsFirst' /\ RemovedAfterStaged' /\ AloneUnlessRaced' /\ StagedHasFile'
  BY <1>11 DEF PatchRow, Finish, Goto
<1>12. ASSUME NEW r \in Requests, GetRows(r)
      PROVE  UploadIsFirst' /\ RemovedAfterStaged' /\ AloneUnlessRaced' /\ StagedHasFile'
  BY <1>12 DEF GetRows, Accepted, Goto
<1>13. ASSUME NEW r \in Requests, TakeLock(r)
      PROVE  UploadIsFirst' /\ RemovedAfterStaged' /\ AloneUnlessRaced' /\ StagedHasFile'
  BY <1>13 DEF TakeLock, Goto
<1>14. ASSUME NEW r \in Requests, LoadRecords(r)
      PROVE  UploadIsFirst' /\ RemovedAfterStaged' /\ AloneUnlessRaced' /\ StagedHasFile'
  BY <1>14 DEF LoadRecords, Loaded, Goto
<1>15. ASSUME NEW r \in Requests, RecordBalance(r)
      PROVE  UploadIsFirst' /\ RemovedAfterStaged' /\ AloneUnlessRaced' /\ StagedHasFile'
  BY <1>15 DEF RecordBalance, Loaded, Goto
<1>16. ASSUME NEW r \in Requests, MarkCommitted(r)
      PROVE  UploadIsFirst' /\ RemovedAfterStaged' /\ AloneUnlessRaced' /\ StagedHasFile'
  BY <1>16 DEF MarkCommitted, Finish, Goto
<1>17. ASSUME NEW r \in Requests, MarkDiscarded(r)
      PROVE  UploadIsFirst' /\ RemovedAfterStaged' /\ AloneUnlessRaced' /\ StagedHasFile'
  BY <1>17 DEF MarkDiscarded, Goto
<1>18. ASSUME NEW r \in Requests, RemoveFile(r)
      PROVE  UploadIsFirst' /\ RemovedAfterStaged' /\ AloneUnlessRaced' /\ StagedHasFile'
  BY <1>18 DEF RemoveFile, Finish, Goto
<1>19. ASSUME NEW r \in Requests, StagingUnanswered(r)
      PROVE  UploadIsFirst' /\ RemovedAfterStaged' /\ AloneUnlessRaced' /\ StagedHasFile'
  BY <1>19 DEF StagingUnanswered, InsertSession, Finish, Goto
<1>20. QED
  BY <1>1, <1>2, <1>3, <1>4, <1>5, <1>6, <1>7, <1>8, <1>9, <1>10, <1>11, <1>12, <1>13,
     <1>14, <1>15, <1>16, <1>17, <1>18, <1>19 DEF Next, Handle

\* What a request remembers only lets it do what it may.
LEMMA MemoryStep ==
  ASSUME TypeOK, CommitsStaged, TodoIsIncluded, LateIsRefused, [Next]_vars
  PROVE  CommitsStaged' /\ TodoIsIncluded' /\ LateIsRefused'
<1> USE DEF TypeOK, CommitsStaged, TodoIsIncluded, LateIsRefused
<1>1. CASE UNCHANGED vars
  BY <1>1 DEF vars
<1>2. CASE Tick
  BY <1>2 DEF Tick
<1>3. CASE Crash
  BY <1>3 DEF Crash, NoReq
<1>4. ASSUME NEW r \in Requests, Upload(r)
      PROVE  CommitsStaged' /\ TodoIsIncluded' /\ LateIsRefused'
  BY <1>4 DEF Upload, Goto
<1>5. ASSUME NEW r \in Requests, StageRows(r)
      PROVE  CommitsStaged' /\ TodoIsIncluded' /\ LateIsRefused'
  BY <1>5 DEF StageRows, InsertSession, Finish, NoReq, Goto
<1>6. ASSUME NEW r \in Requests, StagingFails(r)
      PROVE  CommitsStaged' /\ TodoIsIncluded' /\ LateIsRefused'
  BY <1>6 DEF StagingFails, Finish, NoReq, Goto
<1>7. ASSUME NEW r \in Requests, NEW kind \in Kinds, GetSession(r, kind)
      PROVE  CommitsStaged' /\ TodoIsIncluded' /\ LateIsRefused'
  BY <1>7 DEF GetSession, NoReq, Goto
<1>8. ASSUME NEW r \in Requests, ExpireIfStale(r)
      PROVE  CommitsStaged' /\ TodoIsIncluded' /\ LateIsRefused'
  BY <1>8 DEF ExpireIfStale, IsStale, Goto
<1>9. ASSUME NEW r \in Requests, Respond(r)
      PROVE  CommitsStaged' /\ TodoIsIncluded' /\ LateIsRefused'
  BY <1>9 DEF Respond, Finish, NoReq, Goto
<1>10. ASSUME NEW r \in Requests, GiveUp(r)
      PROVE  CommitsStaged' /\ TodoIsIncluded' /\ LateIsRefused'
  BY <1>10 DEF GiveUp, Finish, NoReq, Goto
<1>11. ASSUME NEW r \in Requests, PatchRow(r)
      PROVE  CommitsStaged' /\ TodoIsIncluded' /\ LateIsRefused'
  BY <1>11 DEF PatchRow, Finish, NoReq, Goto
<1>12. ASSUME NEW r \in Requests, GetRows(r)
      PROVE  CommitsStaged' /\ TodoIsIncluded' /\ LateIsRefused'
  BY <1>12 DEF GetRows, Accepted, Goto
<1>13. ASSUME NEW r \in Requests, TakeLock(r)
      PROVE  CommitsStaged' /\ TodoIsIncluded' /\ LateIsRefused'
  BY <1>13 DEF TakeLock, Goto
<1>14. ASSUME NEW r \in Requests, LoadRecords(r)
      PROVE  CommitsStaged' /\ TodoIsIncluded' /\ LateIsRefused'
  BY <1>14 DEF LoadRecords, Loaded, Goto
<1>15. ASSUME NEW r \in Requests, RecordBalance(r)
      PROVE  CommitsStaged' /\ TodoIsIncluded' /\ LateIsRefused'
  BY <1>15 DEF RecordBalance, Loaded, Goto
<1>16. ASSUME NEW r \in Requests, MarkCommitted(r)
      PROVE  CommitsStaged' /\ TodoIsIncluded' /\ LateIsRefused'
  BY <1>16 DEF MarkCommitted, Finish, NoReq, Goto
<1>17. ASSUME NEW r \in Requests, MarkDiscarded(r)
      PROVE  CommitsStaged' /\ TodoIsIncluded' /\ LateIsRefused'
  BY <1>17 DEF MarkDiscarded, Goto
<1>18. ASSUME NEW r \in Requests, RemoveFile(r)
      PROVE  CommitsStaged' /\ TodoIsIncluded' /\ LateIsRefused'
  BY <1>18 DEF RemoveFile, Finish, NoReq, Goto
<1>19. ASSUME NEW r \in Requests, StagingUnanswered(r)
      PROVE  CommitsStaged' /\ TodoIsIncluded' /\ LateIsRefused'
  BY <1>19 DEF StagingUnanswered, InsertSession, Finish, NoReq, Goto
<1>20. QED
  BY <1>1, <1>2, <1>3, <1>4, <1>5, <1>6, <1>7, <1>8, <1>9, <1>10, <1>11, <1>12, <1>13,
     <1>14, <1>15, <1>16, <1>17, <1>18, <1>19 DEF Next, Handle

-----------------------------------------------------------------------------
(* The raw tables, and requests that do not overlap *)

\* A loader checks its snapshot and writes included rows of it.
LEMMA WriteIsReviewed ==
  ASSUME TypeOK, OnlyReviewedRowsLoaded, NEW s \in RowSets,
         NEW S \in SUBSET Included(s),
         Committable(s), raw' = Put(s, S)
  PROVE  OnlyReviewedRowsLoaded'
<1>1. \A i \in S : ~s[i].error /\ ~s[i].excluded
  BY DEF Committable, Included
<1>2. QED
  BY <1>1 DEF OnlyReviewedRowsLoaded, Put

\* Only the loaders write to the raw tables.
LEMMA LoadStep ==
  ASSUME TypeOK, TodoIsIncluded, OnlyReviewedRowsLoaded, [Next]_vars
  PROVE  OnlyReviewedRowsLoaded'
<1>1. ASSUME NEW r \in Requests, LoadRecords(r) PROVE OnlyReviewedRowsLoaded'
  BY <1>1, WriteIsReviewed DEF LoadRecords, TodoIsIncluded, TypeOK
<1>2. ASSUME NEW r \in Requests, RecordBalance(r) PROVE OnlyReviewedRowsLoaded'
  <2>1. PICK i \in req[r].todo : raw' = Put(req[r].snap, {i})
    BY <1>2 DEF RecordBalance
  <2>2. QED
    BY <1>2, <2>1, WriteIsReviewed DEF RecordBalance, TodoIsIncluded, TypeOK
<1>3. CASE UNCHANGED raw
  BY <1>3 DEF OnlyReviewedRowsLoaded
<1>4. QED
  BY <1>1, <1>2, <1>3
  DEF Next, Handle, vars, Tick, Crash, Upload, StageRows, StagingFails,
      StagingUnanswered, GetSession,
      ExpireIfStale, Respond, GiveUp, PatchRow, GetRows, TakeLock, MarkCommitted,
      MarkDiscarded, RemoveFile

\* Rows are staged with the session, and never added.
LEMMA EmptyStep ==
  ASSUME EmptyHasNoRows, [Next]_vars
  PROVE  EmptyHasNoRows'
<1>1. source' = source
  BY DEF Next, Handle, vars, Tick, Crash, Upload, StageRows, StagingFails,
         StagingUnanswered, GetSession, ExpireIfStale, Respond, GiveUp, PatchRow,
         GetRows, TakeLock, LoadRecords, RecordBalance, MarkCommitted, MarkDiscarded,
         RemoveFile
<1>2. ASSUME NEW r \in Requests, StageRows(r) \/ StagingUnanswered(r)
      PROVE  EmptyHasNoRows'
  BY <1>1, <1>2 DEF StageRows, StagingUnanswered, InsertSession, EmptyHasNoRows
<1>3. ASSUME NEW r \in Requests, PatchRow(r) PROVE EmptyHasNoRows'
  BY <1>1, <1>3 DEF PatchRow, EmptyHasNoRows
<1>4. CASE UNCHANGED rows
  BY <1>1, <1>4 DEF EmptyHasNoRows
<1>5. QED
  BY <1>2, <1>3, <1>4
  DEF Next, Handle, vars, Tick, Crash, Upload, StagingFails, GetSession, ExpireIfStale,
      Respond, GiveUp, GetRows, TakeLock, LoadRecords, RecordBalance, MarkCommitted,
      MarkDiscarded, RemoveFile

\* Alone, the session is what the request saw.
LEMMA AloneStep ==
  ASSUME TypeOK, EmptyHasNoRows, UploadIsFirst, CommitsStaged, AloneUnlessRaced,
         SeenIsCurrentAlone, LoadedSoFarAlone, [Next]_vars
  PROVE  SeenIsCurrentAlone'
<1> USE DEF TypeOK, UploadIsFirst, CommitsStaged, AloneUnlessRaced, SeenIsCurrentAlone
<1>1. CASE UNCHANGED vars
  BY <1>1 DEF vars
<1>2. CASE Tick
  BY <1>2 DEF Tick
<1>3. CASE Crash
  BY <1>3 DEF Crash, NoReq
<1>4. ASSUME NEW r \in Requests, Upload(r)
      PROVE  SeenIsCurrentAlone'
  BY <1>4 DEF Upload, Goto
<1>5. ASSUME NEW r \in Requests, StageRows(r)
      PROVE  SeenIsCurrentAlone'
  BY <1>5 DEF StageRows, InsertSession, Finish, NoReq, Goto
<1>6. ASSUME NEW r \in Requests, StagingFails(r)
      PROVE  SeenIsCurrentAlone'
  BY <1>6 DEF StagingFails, Finish, NoReq, Goto
<1>7. ASSUME NEW r \in Requests, NEW kind \in Kinds, GetSession(r, kind)
      PROVE  SeenIsCurrentAlone'
  BY <1>7 DEF GetSession, NoReq, Goto
<1>8. ASSUME NEW r \in Requests, ExpireIfStale(r)
      PROVE  SeenIsCurrentAlone'
  BY <1>8 DEF ExpireIfStale, IsStale, Goto
<1>9. ASSUME NEW r \in Requests, Respond(r)
      PROVE  SeenIsCurrentAlone'
  BY <1>9 DEF Respond, Finish, NoReq, Goto
<1>10. ASSUME NEW r \in Requests, GiveUp(r)
      PROVE  SeenIsCurrentAlone'
  BY <1>10 DEF GiveUp, Finish, NoReq, Goto
<1>11. ASSUME NEW r \in Requests, PatchRow(r)
      PROVE  SeenIsCurrentAlone'
  BY <1>11 DEF PatchRow, Finish, NoReq, Goto
<1>12. ASSUME NEW r \in Requests, GetRows(r)
      PROVE  SeenIsCurrentAlone'
  BY <1>12 DEF GetRows, Accepted, Goto
<1>13. ASSUME NEW r \in Requests, TakeLock(r)
      PROVE  SeenIsCurrentAlone'
  BY <1>13 DEF TakeLock, Goto
<1>14. ASSUME NEW r \in Requests, LoadRecords(r)
      PROVE  SeenIsCurrentAlone'
  BY <1>14 DEF LoadRecords, Loaded, Committable, Included, LoadedSoFarAlone, Goto
<1>15. ASSUME NEW r \in Requests, RecordBalance(r)
      PROVE  SeenIsCurrentAlone'
  BY <1>15 DEF RecordBalance, Loaded, Committable, Included, LoadedSoFarAlone, Goto
<1>16. ASSUME NEW r \in Requests, MarkCommitted(r)
      PROVE  SeenIsCurrentAlone'
  BY <1>16 DEF MarkCommitted, Finish, NoReq, Goto
<1>17. ASSUME NEW r \in Requests, MarkDiscarded(r)
      PROVE  SeenIsCurrentAlone'
  BY <1>17 DEF MarkDiscarded, Goto
<1>18. ASSUME NEW r \in Requests, RemoveFile(r)
      PROVE  SeenIsCurrentAlone'
  BY <1>18 DEF RemoveFile, Finish, NoReq, Goto
<1>19. ASSUME NEW r \in Requests, StagingUnanswered(r)
      PROVE  SeenIsCurrentAlone'
  BY <1>19 DEF StagingUnanswered, InsertSession, Finish, NoReq, Goto
<1>20. QED
  BY <1>1, <1>2, <1>3, <1>4, <1>5, <1>6, <1>7, <1>8, <1>9, <1>10, <1>11, <1>12, <1>13,
     <1>14, <1>15, <1>16, <1>17, <1>18, <1>19 DEF Next, Handle
\* Without overlaps, no step touches a committed session: no request in
\* flight believes it to be staged.
LEMMA FinalStep ==
  ASSUME TypeOK, UploadIsFirst, CommitsStaged, SeenIsCurrentAlone, [Next]_vars,
         status = "committed", ~raced'
  PROVE  UNCHANGED <<status, rows, raw, file>>
<1> USE DEF TypeOK, UploadIsFirst, CommitsStaged, SeenIsCurrentAlone
<1>1. CASE UNCHANGED vars
  BY <1>1 DEF vars
<1>2. CASE Tick \/ Crash
  BY <1>2 DEF Tick, Crash
<1>3. ASSUME NEW r \in Requests, Upload(r) \/ StageRows(r) \/ StagingFails(r)
                                  \/ StagingUnanswered(r)
      PROVE  FALSE
  BY <1>3 DEF Upload, StageRows, StagingFails, StagingUnanswered
<1>4. ASSUME NEW r \in Requests, NEW kind \in Kinds, GetSession(r, kind)
      PROVE  UNCHANGED <<status, rows, raw, file>>
  BY <1>4 DEF GetSession
<1>5. ASSUME NEW r \in Requests,
             ExpireIfStale(r) \/ Respond(r) \/ GiveUp(r) \/ GetRows(r) \/ TakeLock(r)
      PROVE  UNCHANGED <<status, rows, raw, file>>
  BY <1>5 DEF ExpireIfStale, IsStale, Respond, GiveUp, GetRows, TakeLock
<1>6. ASSUME NEW r \in Requests, PatchRow(r) \/ MarkDiscarded(r) \/ RemoveFile(r)
      PROVE  FALSE
  BY <1>6 DEF PatchRow, MarkDiscarded, RemoveFile, Accepted
<1>7. ASSUME NEW r \in Requests, LoadRecords(r) \/ RecordBalance(r) \/ MarkCommitted(r)
      PROVE  FALSE
  BY <1>7 DEF LoadRecords, RecordBalance, MarkCommitted
<1>8. QED
  BY <1>1, <1>2, <1>3, <1>4, <1>5, <1>6, <1>7 DEF Next, Handle

\* Alone, a commit loads the rows the session still has.
LEMMA LoadedStep ==
  ASSUME TypeOK, UploadIsFirst, TodoIsIncluded, AloneUnlessRaced, LoadedSoFarAlone,
         [Next]_vars
  PROVE  LoadedSoFarAlone'
<1> USE DEF TypeOK, UploadIsFirst, TodoIsIncluded, AloneUnlessRaced, LoadedSoFarAlone
<1>1. CASE UNCHANGED vars
  BY <1>1 DEF vars
<1>2. CASE Tick
  BY <1>2 DEF Tick
<1>3. CASE Crash
  BY <1>3 DEF Crash, NoReq
<1>4. ASSUME NEW r \in Requests, Upload(r)
      PROVE  LoadedSoFarAlone'
  BY <1>4 DEF Upload, Goto
<1>5. ASSUME NEW r \in Requests, StageRows(r)
      PROVE  LoadedSoFarAlone'
  BY <1>5 DEF StageRows, InsertSession, Finish, NoReq, Goto
<1>6. ASSUME NEW r \in Requests, StagingFails(r)
      PROVE  LoadedSoFarAlone'
  BY <1>6 DEF StagingFails, Finish, NoReq, Goto
<1>7. ASSUME NEW r \in Requests, NEW kind \in Kinds, GetSession(r, kind)
      PROVE  LoadedSoFarAlone'
  BY <1>7 DEF GetSession, NoReq, Goto
<1>8. ASSUME NEW r \in Requests, ExpireIfStale(r)
      PROVE  LoadedSoFarAlone'
  BY <1>8 DEF ExpireIfStale, IsStale, Goto
<1>9. ASSUME NEW r \in Requests, Respond(r)
      PROVE  LoadedSoFarAlone'
  BY <1>9 DEF Respond, Finish, NoReq, Goto
<1>10. ASSUME NEW r \in Requests, GiveUp(r)
      PROVE  LoadedSoFarAlone'
  BY <1>10 DEF GiveUp, Finish, NoReq, Goto
<1>11. ASSUME NEW r \in Requests, PatchRow(r)
      PROVE  LoadedSoFarAlone'
  BY <1>11 DEF PatchRow, Finish, NoReq, Goto
<1>12. ASSUME NEW r \in Requests, GetRows(r)
      PROVE  LoadedSoFarAlone'
  BY <1>12 DEF GetRows, Accepted, Goto
<1>13. ASSUME NEW r \in Requests, TakeLock(r)
      PROVE  LoadedSoFarAlone'
  BY <1>13 DEF TakeLock, Goto
<1>14. ASSUME NEW r \in Requests, LoadRecords(r)
      PROVE  LoadedSoFarAlone'
  BY <1>14 DEF LoadRecords, Loaded, Put, Included, Goto
<1>15. ASSUME NEW r \in Requests, RecordBalance(r)
      PROVE  LoadedSoFarAlone'
  <2> SUFFICES ASSUME ~raced PROVE LoadedSoFarAlone'
    BY <1>15 DEF RecordBalance
  <2>1. PICK i \in req[r].todo :
          /\ raw' = Put(req[r].snap, {i})
          /\ \/ /\ req[r].todo # {i}
                /\ req' = [req EXCEPT ![r].todo = @ \ {i}]
                /\ UNCHANGED <<pc, lock>>
             \/ /\ req[r].todo = {i}
                /\ req' = [req EXCEPT ![r].todo = {}, ![r].snap = <<>>]
                /\ Loaded(r)
    BY <1>15 DEF RecordBalance
  <2>2. UNCHANGED <<rows, raced>> /\ pc[r] = "write" /\ req[r].snap = rows
    BY <1>15 DEF RecordBalance
  <2>3. \A j \in Included(rows) \ (req[r].todo \ {i}) : raw'[j] = rows[j]
    BY <2>1, <2>2, IncludedRows DEF Put
  <2>4. CASE pc' = pc /\ req' = [req EXCEPT ![r].todo = @ \ {i}]
    BY <2>2, <2>3, <2>4
  <2>5. CASE req[r].todo = {i} /\ Loaded(r)
    <3>1. \A j \in Included(rows) : raw'[j] = rows[j]
      BY <2>3, <2>5
    <3>2. pc'[r] = "mark" /\ \A q \in Requests \ {r} : pc'[q] = "idle"
      BY <2>2, <2>5 DEF Loaded, Goto
    <3>3. UNCHANGED rows /\ ~raced'
      BY <2>2
    <3> HIDE DEF TypeOK, UploadIsFirst, TodoIsIncluded, AloneUnlessRaced
    <3>4. QED
      BY <3>1, <3>2, <3>3
  <2>6. QED
    BY <2>1, <2>4, <2>5
<1>16. ASSUME NEW r \in Requests, MarkCommitted(r)
      PROVE  LoadedSoFarAlone'
  BY <1>16 DEF MarkCommitted, Finish, NoReq, Goto
<1>17. ASSUME NEW r \in Requests, MarkDiscarded(r)
      PROVE  LoadedSoFarAlone'
  BY <1>17 DEF MarkDiscarded, Goto
<1>18. ASSUME NEW r \in Requests, RemoveFile(r)
      PROVE  LoadedSoFarAlone'
  BY <1>18 DEF RemoveFile, Finish, NoReq, Goto
<1>19. ASSUME NEW r \in Requests, StagingUnanswered(r)
      PROVE  LoadedSoFarAlone'
  BY <1>19 DEF StagingUnanswered, InsertSession, Finish, NoReq, Goto
<1>20. QED
  BY <1>1, <1>2, <1>3, <1>4, <1>5, <1>6, <1>7, <1>8, <1>9, <1>10, <1>11, <1>12, <1>13,
     <1>14, <1>15, <1>16, <1>17, <1>18, <1>19 DEF Next, Handle
\* A session becomes committed behind a loader that has nothing left to do,
\* and then stays as it is.
LEMMA CommittedStep ==
  ASSUME TypeOK, UploadIsFirst, CommitsStaged, SeenIsCurrentAlone, LoadedSoFarAlone,
         CommittedIsLoadedAlone, EmptyHadFile, [Next]_vars
  PROVE  CommittedIsLoadedAlone' /\ EmptyHadFile'
<1> SUFFICES ASSUME status' = "committed", ~raced'
             PROVE  /\ \A i \in Included(rows') : raw'[i] = rows'[i]
                    /\ source' = "empty" => file'
  BY DEF CommittedIsLoadedAlone, EmptyHadFile
<1>0. source' = source
  BY DEF Next, Handle, vars, Tick, Crash, Upload, StageRows, StagingFails,
         StagingUnanswered, GetSession, ExpireIfStale, Respond, GiveUp, PatchRow,
         GetRows, TakeLock, LoadRecords, RecordBalance, MarkCommitted, MarkDiscarded,
         RemoveFile
<1>1. ~raced
  BY DEF TypeOK, Next, Handle, vars, Tick, Crash, Upload, StageRows, StagingFails,
         StagingUnanswered, GetSession, ExpireIfStale, Respond, GiveUp, PatchRow,
         GetRows, TakeLock, LoadRecords, RecordBalance, MarkCommitted, MarkDiscarded,
         RemoveFile
<1>2. CASE status = "committed"
  BY <1>0, <1>1, <1>2, FinalStep DEF CommittedIsLoadedAlone, EmptyHadFile
<1>3. CASE status # "committed"
  <2>1. PICK r \in Requests : MarkCommitted(r)
    BY <1>3
    DEF Next, Handle, vars, Tick, Crash, Upload, StageRows, StagingFails,
        StagingUnanswered, InsertSession, GetSession, ExpireIfStale, Respond, GiveUp,
        PatchRow, GetRows, TakeLock, LoadRecords, RecordBalance, MarkDiscarded, RemoveFile
  <2>2. QED
    BY <1>0, <1>1, <2>1 DEF MarkCommitted, LoadedSoFarAlone, SeenIsCurrentAlone
<1>4. QED
  BY <1>2, <1>3

-----------------------------------------------------------------------------
(* The theorems *)

\* The initial state satisfies the invariant.
LEMMA InitInvariant == Init => IInv
<1> SUFFICES ASSUME Init PROVE IInv
  OBVIOUS
<1>1. TypeOK
  BY EmptyRows, NoReqType, ImportConstants DEF Init, TypeOK, Req, Statuses, Stages
<1>2. UploadIsFirst /\ RemovedAfterStaged /\ CommitsStaged /\ TodoIsIncluded
  BY DEF Init, UploadIsFirst, RemovedAfterStaged, CommitsStaged, TodoIsIncluded
<1>3. LateIsRefused /\ AloneUnlessRaced /\ SeenIsCurrentAlone /\ LoadedSoFarAlone
  BY DEF Init, NoReq, LateIsRefused, AloneUnlessRaced, SeenIsCurrentAlone,
         LoadedSoFarAlone
<1>4. /\ StagedHasFile /\ EmptyHadFile
      /\ OnlyReviewedRowsLoaded /\ CommittedIsLoadedAlone
  BY DEF Init, StagedHasFile, EmptyHadFile, OnlyReviewedRowsLoaded,
         CommittedIsLoadedAlone
<1>5. EmptyHasNoRows
  BY EmptyRows DEF Init, EmptyHasNoRows
<1>6. QED
  BY <1>1, <1>2, <1>3, <1>4, <1>5 DEF IInv

\* Every step preserves the invariant.
LEMMA InvariantStep == IInv /\ [Next]_vars => IInv'
  BY TypeStep, EmptyStep, ControlStep, MemoryStep, LoadStep, AloneStep, LoadedStep,
     CommittedStep
  DEF IInv

\* IInv is an invariant of every session.
THEOREM Invariance == Spec => []IInv
  BY InitInvariant, InvariantStep, PTL DEF Spec

\* The state keeps its shape, and the flock is held by the one request that
\* writes (refresh_write_intent in routes.py).
THEOREM TypeCorrect == Spec => []TypeOK
<1>1. IInv => TypeOK
  BY DEF IInv
<1>2. QED
  BY <1>1, Invariance, PTL

\* A session that can be committed has its upload directory unless its own
\* staging went unanswered (discard_import marks before it removes), and an
\* empty snapshot is never committed without it.
THEOREM KeepsUpload == Spec => []UploadIsKept
<1>1. IInv => UploadIsKept
  BY DEF IInv, UploadIsKept
<1>2. QED
  BY <1>1, Invariance, PTL

\* No row that was invalid or excluded when commit_session checked it is in
\* the raw tables.
THEOREM LoadsOnlyReviewed == Spec => []OnlyReviewedRowsLoaded
<1>1. IInv => OnlyReviewedRowsLoaded
  BY DEF IInv
<1>2. QED
  BY <1>1, Invariance, PTL

\* A request that arrives after the TTL never gets to write: expire_if_stale
\* took "staged" from what it believes before any check.
THEOREM NeverLoadsOverdue == Spec => []OverdueIsNeverLoaded
<1>1. IInv => OverdueIsNeverLoaded
  BY DEF IInv, CommitsStaged, LateIsRefused, OverdueIsNeverLoaded
<1>2. QED
  BY <1>1, Invariance, PTL

\* Requests that do not overlap: a committed session has every included row
\* loaded at its last correction, after any crashes and half-way commits.
THEOREM CommitLoadsAll == Spec => []CommittedIsLoadedAlone
<1>1. IInv => CommittedIsLoadedAlone
  BY DEF IInv
<1>2. QED
  BY <1>1, Invariance, PTL

\* Requests that do not overlap leave a committed session as it is.
THEOREM CommitIsFinal == Spec => CommittedIsFinalAlone
<1>1. IInv /\ [Next]_vars =>
        [status = "committed" /\ ~raced' => UNCHANGED <<status, rows, raw, file>>]_vars
  BY FinalStep DEF IInv
<1>2. QED
  BY <1>1, Invariance, PTL DEF Spec, CommittedIsFinalAlone
=============================================================================
