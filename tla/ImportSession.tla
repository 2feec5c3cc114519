---------------------------- MODULE ImportSession ----------------------------
(***************************************************************************)
(* One staged import session and the API requests that act on it.          *)
(*                                                                         *)
(* An upload is parsed into staged rows; the user corrects or excludes     *)
(* rows, then commits the session to the raw tables or discards it.  Each  *)
(* handler reads the session once and acts on what it read: FastAPI runs   *)
(* the handlers in a thread pool, so the actions of requests interleave.   *)
(* The refresh lock serialises the loaders only.                           *)
(*                                                                         *)
(* A row's payload is its version; the raw tables are keyed by the row's   *)
(* natural key, so a second load of a row replaces the first.              *)
(***************************************************************************)
EXTENDS Integers, FiniteSets

CONSTANTS
    Requests,   \* slots of concurrent requests
    Rows,       \* row_index of the rows of a non-empty upload
    Free,       \* nobody holds the refresh lock
    NoRow,      \* nothing loaded under this key
    MaxEdits,   \* bound: corrections of a row's payload
    MaxCrashes  \* bound: restarts of the API process

ASSUME ImportConstants ==
    /\ Free \notin Requests
    /\ Rows \subseteq Nat /\ Rows # {} /\ IsFiniteSet(Rows)
    /\ MaxEdits \in Nat /\ MaxCrashes \in Nat

\* One transaction for the whole file, one per entry, or a validated empty
\* holdings snapshot.
Sources == {"statement", "manual", "empty"}

StagedRow == [ver : 1..MaxEdits + 1, error : BOOLEAN, excluded : BOOLEAN]

ASSUME NoRowAssumption == NoRow \notin StagedRow

VARIABLES
    status,   \* import_session.status, "none" before the insert
    source,   \* import_session.source
    overdue,  \* expires_at has passed
    rows,     \* the session's import_row rows
    file,     \* the upload directory exists
    raw,      \* what the loaders wrote for each row
    lock,     \* the request that holds refresh.lock
    pc,       \* stage of each request
    req,      \* its local variables: see Req
    crashes,  \* restarts so far
    raced,    \* history: two requests on the session were in flight together
    unanswered \* history: the staging COMMIT was stored but not answered

vars == <<status, source, overdue, rows, file, raw, lock, pc, req, crashes,
          raced, unanswered>>

Statuses == {"none", "staged", "committed", "discarded", "expired"}

Kinds == {"get", "patch", "commit", "discard"}

Stages == {"idle", "upload", "loaded", "act", "lock", "write", "mark", "remove"}

(***************************************************************************)
(* kind: the endpoint; seen: the status this request works with; snap: the *)
(* rows a commit read; todo: the entries it has not written; late: the     *)
(* session was overdue when the request arrived (history).                 *)
(***************************************************************************)
NoReq == [kind |-> "get", seen |-> "none", snap |-> <<>>, todo |-> {},
          late |-> FALSE]

Init ==
    /\ status = "none"
    /\ source \in Sources
    /\ overdue = FALSE
    /\ rows = <<>>
    /\ file = FALSE
    /\ raw = [i \in Rows |-> NoRow]
    /\ lock = Free
    /\ pc = [r \in Requests |-> "idle"]
    /\ req = [r \in Requests |-> NoReq]
    /\ crashes = 0
    /\ raced = FALSE /\ unanswered = FALSE

Goto(r, stage) == pc' = [pc EXCEPT ![r] = stage]

\* The response is sent: the request's variables and its flock are gone.
Finish(r) ==
    /\ Goto(r, "idle")
    /\ req' = [req EXCEPT ![r] = NoReq]
    /\ lock' = IF lock = r THEN Free ELSE lock

-----------------------------------------------------------------------------
(* create_import *)

\* mkdir and the streamed upload.
Upload(r) ==
    /\ status = "none"
    /\ \A q \in Requests : pc[q] = "idle"
    /\ file' = TRUE
    /\ Goto(r, "upload")
    /\ UNCHANGED <<status, source, overdue, rows, raw, lock, req,
                   crashes, raced, unanswered>>

\* create_session inserts the session and its rows in one transaction.
InsertSession ==
    /\ status' = "staged"
    /\ \E bad \in SUBSET Rows :
         rows' = [i \in IF source = "empty" THEN {} ELSE Rows |->
                    [ver |-> 1, error |-> i \in bad, excluded |-> FALSE]]

StageRows(r) ==
    /\ pc[r] = "upload"
    /\ InsertSession
    /\ Finish(r)
    /\ UNCHANGED <<source, overdue, file, raw, crashes, raced, unanswered>>

\* Anything raised while staging removes the directory (ignore_errors=True).
StagingFails(r) ==
    /\ pc[r] = "upload"
    /\ file' \in {FALSE, file}
    /\ Finish(r)
    /\ UNCHANGED <<status, source, overdue, rows, raw,
                   crashes, raced, unanswered>>

\* So does a COMMIT that took place and was answered with an error.
StagingUnanswered(r) ==
    /\ pc[r] = "upload"
    /\ InsertSession /\ unanswered' = TRUE
    /\ file' \in {FALSE, file}
    /\ Finish(r)
    /\ UNCHANGED <<source, overdue, raw, crashes, raced>>

\* The session's TTL runs out.
Tick ==
    /\ status # "none" /\ ~overdue
    /\ overdue' = TRUE
    /\ UNCHANGED <<status, source, rows, file, raw, lock, pc, req,
                   crashes, raced, unanswered>>

-----------------------------------------------------------------------------
(* _load_session: get_session, then expire_if_stale on the record read *)

GetSession(r, kind) ==
    /\ pc[r] = "idle" /\ status # "none"
    /\ req' = [req EXCEPT ![r] = [NoReq EXCEPT !.kind = kind, !.seen = status,
                                               !.late = overdue]]
    /\ Goto(r, "loaded")
    /\ raced' = (raced \/ \E q \in Requests \ {r} : pc[q] # "idle")
    /\ UNCHANGED <<status, source, overdue, rows, file, raw, lock,
                   crashes, unanswered>>

\* Faulty variant: the TTL is only stored.
NeverStale(r) == FALSE

IsStale(r) == req[r].seen = "staged" /\ overdue

ExpireIfStale(r) ==
    /\ pc[r] = "loaded"
    /\ IF IsStale(r)
       THEN status' = "expired" /\ req' = [req EXCEPT ![r].seen = "expired"]
       ELSE UNCHANGED <<status, req>>
    /\ Goto(r, "act")
    /\ UNCHANGED <<source, overdue, rows, file, raw, lock,
                   crashes, raced, unanswered>>

\* Faulty variant: only staged-only endpoints look at the status.
AcceptedDiscard(kind, seen) ==
    CASE kind = "get" -> FALSE
      [] kind = "discard" -> seen # "discarded"
      [] OTHER -> seen = "staged"

\* _require_staged, the 409 of a discarded audit record, or a plain read.
Accepted(kind, seen) ==
    CASE kind = "get" -> FALSE
      [] kind = "discard" -> seen \notin {"committed", "discarded"}
      [] OTHER -> seen = "staged"

Respond(r) ==
    /\ pc[r] = "act" /\ ~Accepted(req[r].kind, req[r].seen)
    /\ Finish(r)
    /\ UNCHANGED <<status, source, overdue, rows, file, raw,
                   crashes, raced, unanswered>>

\* Faulty variant: the error path keeps the flock.
GiveUpHolding(r) ==
    /\ pc[r] \in {"loaded", "act", "lock", "write", "mark"}
    /\ Goto(r, "idle")
    /\ req' = [req EXCEPT ![r] = NoReq]
    /\ UNCHANGED <<status, source, overdue, rows, file, raw, lock,
                   crashes, raced, unanswered>>

\* An error ends the request: no such row, the refresh lock or its marker
\* unavailable (503), a refused session (409), the database.  An open
\* transaction rolls back and the flock is released.
GiveUp(r) ==
    /\ pc[r] \in {"loaded", "act", "lock", "write", "mark"}
    /\ Finish(r)
    /\ UNCHANGED <<status, source, overdue, rows, file, raw,
                   crashes, raced, unanswered>>

-----------------------------------------------------------------------------
(* patch_import_row *)

Corrected(row, ver, error) == [row EXCEPT !.ver = ver, !.error = error]

\* A corrected payload is revalidated; the flag may change with it or alone.
PatchRow(r) ==
    /\ pc[r] = "act" /\ req[r].kind = "patch"
    /\ Accepted("patch", req[r].seen)
    /\ \E i \in DOMAIN rows, out, error \in BOOLEAN :
         LET row == rows[i]
         IN  \/ rows' = [rows EXCEPT ![i].excluded = out]
             \/ /\ \A j \in DOMAIN rows : rows[j].ver <= MaxEdits
                /\ rows' = [rows EXCEPT ![i] = [Corrected(row, row.ver + 1, error)
                                                  EXCEPT !.excluded = out]]
    /\ Finish(r)
    /\ UNCHANGED <<status, source, overdue, file, raw,
                   crashes, raced, unanswered>>

-----------------------------------------------------------------------------
(* commit_import *)

GetRows(r) ==
    /\ pc[r] = "act" /\ req[r].kind = "commit"
    /\ Accepted("commit", req[r].seen)
    /\ req' = [req EXCEPT ![r].snap = rows]
    /\ Goto(r, "lock")
    /\ UNCHANGED <<status, source, overdue, rows, file, raw, lock,
                   crashes, raced, unanswered>>

Included(snap) == {i \in DOMAIN snap : ~snap[i].excluded}

\* refresh_write_intent
TakeLock(r) ==
    /\ pc[r] = "lock" /\ lock = Free
    /\ lock' = r
    /\ req' = [req EXCEPT ![r].todo = Included(req[r].snap)]
    /\ Goto(r, "write")
    /\ UNCHANGED <<status, source, overdue, rows, file, raw,
                   crashes, raced, unanswered>>

\* Faulty variant: the rows' validation status is not looked at.
SomethingToLoad(snap) == Included(snap) # {} \/ (source = "empty" /\ file)

\* commit_session refuses error rows and a session without included rows; an
\* empty snapshot is revalidated against the stored file.
Committable(snap) ==
    /\ \A i \in Included(snap) : ~snap[i].error
    /\ Included(snap) # {} \/ (source = "empty" /\ file)

Put(snap, S) == [i \in Rows |-> IF i \in S THEN snap[i] ELSE raw[i]]

\* The intent ends with the loader; the session is marked after it.
Loaded(r) == Goto(r, "mark") /\ lock' = Free

\* load_records: one transaction.
LoadRecords(r) ==
    /\ pc[r] = "write" /\ source # "manual" /\ Committable(req[r].snap)
    /\ raw' = Put(req[r].snap, req[r].todo)
    /\ Loaded(r)
    /\ req' = [req EXCEPT ![r].todo = {}, ![r].snap = <<>>]
    /\ UNCHANGED <<status, source, overdue, rows, file,
                   crashes, raced, unanswered>>

\* Faulty variant: one entry ends the loop.
RecordOneBalance(r) ==
    /\ pc[r] = "write" /\ source = "manual" /\ Committable(req[r].snap)
    /\ \E i \in req[r].todo :
         /\ \A j \in req[r].todo : i <= j
         /\ raw' = Put(req[r].snap, {i})
         /\ req' = [req EXCEPT ![r].todo = {}, ![r].snap = <<>>]
    /\ Loaded(r)
    /\ UNCHANGED <<status, source, overdue, rows, file,
                   crashes, raced, unanswered>>

\* _commit_manual: one transaction per entry, in row order.
RecordBalance(r) ==
    /\ pc[r] = "write" /\ source = "manual" /\ Committable(req[r].snap)
    /\ \E i \in req[r].todo :
         /\ \A j \in req[r].todo : i <= j
         /\ raw' = Put(req[r].snap, {i})
         /\ \/ /\ req[r].todo # {i}
               /\ req' = [req EXCEPT ![r].todo = @ \ {i}]
               /\ UNCHANGED <<pc, lock>>
            \/ /\ req[r].todo = {i}
               /\ req' = [req EXCEPT ![r].todo = {}, ![r].snap = <<>>]
               /\ Loaded(r)
    /\ UNCHANGED <<status, source, overdue, rows, file,
                   crashes, raced, unanswered>>

MarkCommitted(r) ==
    /\ pc[r] = "mark"
    /\ status' = "committed"
    /\ Finish(r)
    /\ UNCHANGED <<source, overdue, rows, file, raw,
                   crashes, raced, unanswered>>

-----------------------------------------------------------------------------
(* discard_import *)

\* Faulty variant: the directory goes first.
RemoveFirst(r) ==
    /\ pc[r] = "act" /\ req[r].kind = "discard"
    /\ Accepted("discard", req[r].seen)
    /\ file' = FALSE
    /\ Goto(r, "remove")
    /\ UNCHANGED <<status, source, overdue, rows, raw, lock, req,
                   crashes, raced, unanswered>>

MarkDiscarded(r) ==
    /\ pc[r] = "act" /\ req[r].kind = "discard"
    /\ Accepted("discard", req[r].seen)
    /\ status' = "discarded"
    /\ Goto(r, "remove")
    /\ UNCHANGED <<source, overdue, rows, file, raw, lock, req,
                   crashes, raced, unanswered>>

\* rmtree(ignore_errors=True)
RemoveFile(r) ==
    /\ pc[r] = "remove"
    /\ file' \in {FALSE, file}
    /\ Finish(r)
    /\ UNCHANGED <<status, source, overdue, rows, raw,
                   crashes, raced, unanswered>>

-----------------------------------------------------------------------------
\* The API process dies: every request in flight ends where it is.
Crash ==
    /\ crashes < MaxCrashes
    /\ \E r \in Requests : pc[r] # "idle"
    /\ crashes' = crashes + 1
    /\ pc' = [r \in Requests |-> "idle"]
    /\ req' = [r \in Requests |-> NoReq]
    /\ lock' = Free
    /\ UNCHANGED <<status, source, overdue, rows, file, raw, raced, unanswered>>

Handle(r) ==
    \/ Upload(r) \/ StageRows(r) \/ StagingFails(r) \/ StagingUnanswered(r)
    \/ (\E kind \in Kinds : GetSession(r, kind)) \/ ExpireIfStale(r)
    \/ Respond(r) \/ GiveUp(r)
    \/ PatchRow(r)
    \/ GetRows(r) \/ TakeLock(r) \/ LoadRecords(r) \/ RecordBalance(r)
    \/ MarkCommitted(r)
    \/ MarkDiscarded(r) \/ RemoveFile(r)

Next == Tick \/ Crash \/ \E r \in Requests : Handle(r)

Spec == Init /\ [][Next]_vars

-----------------------------------------------------------------------------
(* Properties *)

RowSets == UNION {[S -> StagedRow] : S \in {{}, Rows}}

\* The state's shape; the flock is held by the one request that writes.
TypeOK ==
    /\ status \in Statuses /\ source \in Sources
    /\ overdue \in BOOLEAN /\ file \in BOOLEAN
    /\ raced \in BOOLEAN /\ unanswered \in BOOLEAN
    /\ rows \in RowSets
    /\ raw \in [Rows -> StagedRow \cup {NoRow}]
    /\ pc \in [Requests -> Stages]
    /\ req \in [Requests -> [kind : Kinds, seen : Statuses, snap : RowSets,
                             todo : SUBSET Rows, late : BOOLEAN]]
    /\ crashes \in Nat
    /\ \A r \in Requests : lock = r <=> pc[r] = "write"
    /\ lock \in Requests \cup {Free}

\* A staged session has its upload, unless its own staging went unanswered.
StagedHasFile == status = "staged" /\ ~unanswered => file

\* An empty snapshot that was committed alone was revalidated from it.
EmptyHadFile == status = "committed" /\ source = "empty" /\ ~raced => file

\* The upload outlives what may still need it, whatever requests discard, fail
\* or die in between: a session that can be committed has it, and where the
\* answer to the staging COMMIT was lost and the directory of a stored session
\* went with it, an empty holdings snapshot, which stands for the removal of
\* every holding, is not taken from nothing (commit.py).
UploadIsKept == StagedHasFile /\ EmptyHadFile

\* Nothing reaches the raw tables that the user did not let through: no
\* loaded row was invalid or excluded in the snapshot it came from.
OnlyReviewedRowsLoaded ==
    \A i \in Rows : raw[i] # NoRow => ~raw[i].error /\ ~raw[i].excluded

\* Expiry is enforced lazily on access (ADR-0037): a request that arrives
\* after the TTL never loads the session, not even when it raced others.
OverdueIsNeverLoaded ==
    \A r \in Requests : pc[r] \in {"write", "mark"} => ~req[r].late

\* Requests that do not overlap leave a committed session as it is: status,
\* rows and upload are kept for audit and nothing is loaded again.
CommittedIsFinalAlone ==
    [][status = "committed" /\ ~raced' => UNCHANGED <<status, rows, raw, file>>]_vars

\* Requests that do not overlap load what was reviewed: in a committed
\* session every included row is in the raw tables at its last correction,
\* even after crashes and commits that stopped half-way.
CommittedIsLoadedAlone ==
    status = "committed" /\ ~raced =>
        \A i \in Included(rows) : raw[i] = rows[i]

\* "committed sessions are kept for audit and cannot be discarded"
\* (routes.py), without the condition that requests do not overlap.
CommittedIsFinal == [][status = "committed" => status' = "committed"]_status
=============================================================================
