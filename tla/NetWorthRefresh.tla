--------------------------- MODULE NetWorthRefresh ---------------------------
(***************************************************************************)
(* The guarded refresh of the analytics marts.                             *)
(*                                                                         *)
(* Every path that writes raw tables on behalf of a user takes one advisory*)
(* file lock and leaves a durable "pending" marker before it writes; the   *)
(* scheduled worker and POST /meta/refresh take the same lock, rebuild the *)
(* marts with dbt in shadow schemas, rename them live in one transaction   *)
(* and only then remove the marker.                                        *)
(*                                                                         *)
(* raw counts the raw transactions that changed something; a mart holds    *)
(* the raw version it was built from, or Absent.  Staging models are views *)
(* and hold no data of their own: only materialised marts are modelled.    *)
(***************************************************************************)
EXTENDS Integers, FiniteSets

CONSTANTS
    Writers,     \* requests and CLIs under refresh_write_intent
    Early,       \* of those, the household sessions: they report, then commit
    Workers,     \* invocations of penge-refresh-net-worth
    Triggers,    \* POST /meta/refresh requests
    Connections, \* bank connections the worker may find eligible
    Marts,       \* the tables dbt materialises
    NoProc,      \* the lock is free
    MaxRaw,      \* bound: raw changes
    MaxCrashes   \* bound: killed processes

ASSUME RefreshConstants ==
    /\ Early \subseteq Writers
    /\ Writers \cap Workers = {} /\ Writers \cap Triggers = {}
    /\ Workers \cap Triggers = {}
    /\ NoProc \notin Writers \cup Workers \cup Triggers
    /\ Marts # {}
    /\ MaxRaw \in Nat /\ MaxCrashes \in Nat

Procs == Writers \cup Workers \cup Triggers

Absent == -1

VARIABLES
    lock,       \* holder of refresh.lock, or NoProc
    marker,     \* the file "pending" exists
    raw,        \* version of the raw tables
    shadow,     \* the marts of the shadow schemas
    live,       \* the marts of the live schemas
    pc,         \* what each process is doing
    ctx,        \* its tracker: see Ctx
    crashes,    \* processes killed so far
    unreported  \* history: an error hid a commit or a marker from its tracker

vars == <<lock, marker, raw, shadow, live, pc, ctx, crashes, unreported>>

(***************************************************************************)
(* wrote: the tracker saw a write; step: it saw one since this connection  *)
(* began (a write intent has one step); was: a refresh was pending before  *)
(* the marker was touched; ok: dbt promoted; todo: connections to sync.    *)
(***************************************************************************)
Ctx == [wrote : BOOLEAN, step : BOOLEAN, was : BOOLEAN, ok : BOOLEAN,
        todo : SUBSET Connections]

NoCtx == [wrote |-> FALSE, step |-> FALSE, was |-> FALSE, ok |-> FALSE,
          todo |-> {}]

Stages == {"idle", "writing", "committed", "closing", "sync", "drop", "build",
           "cleanup", "clear", "release"}

Empty == [m \in Marts |-> Absent]

Init ==
    /\ lock = NoProc
    /\ marker = FALSE
    /\ raw = 0
    /\ shadow = Empty
    /\ live = [m \in Marts |-> 0]
    /\ pc = [p \in Procs |-> "idle"]
    /\ ctx = [p \in Procs |-> NoCtx]
    /\ crashes = 0
    /\ unreported = FALSE

Goto(p, stage) == pc' = [pc EXCEPT ![p] = stage]

\* Faulty variant: the lock is not tested.
AcquireHeld(p) == pc[p] = "idle" /\ lock' = p

\* flock(LOCK_EX | LOCK_NB): a process that finds the lock held gives up with
\* LockUnavailableError and changes nothing, so only success is a step.
Acquire(p) == pc[p] = "idle" /\ lock = NoProc /\ lock' = p

\* The process returns, or dies: the kernel drops its flock either way.
Leave(p) ==
    /\ lock' = IF lock = p THEN NoProc ELSE lock
    /\ Goto(p, "idle")
    /\ ctx' = [ctx EXCEPT ![p] = NoCtx]

\* unlink(missing_ok=True); an OSError is recorded and leaves the file.
Unlink == marker' \in {FALSE, marker}

-----------------------------------------------------------------------------
(* Raw writes under an intent, alone or inside the worker's connection loop *)

\* is_refresh_pending() then prepare().  The inspection may fail and then
\* answers False; a failing prepare() returns before anything changed.
Prepare(p, c) ==
    /\ \E seen \in {marker, FALSE} :
         /\ ctx' = [ctx EXCEPT ![p] =
                      [c EXCEPT !.step = FALSE, !.was = c.wrote \/ seen]]
         /\ unreported' = (unreported \/ (marker /\ ~seen /\ ~c.wrote))
    /\ marker' = TRUE
    /\ Goto(p, "writing")

WriterEnter(p) ==
    /\ p \in Writers
    /\ Acquire(p)
    /\ Prepare(p, NoCtx)
    /\ UNCHANGED <<raw, shadow, live, crashes>>

Report(p) == ctx' = [ctx EXCEPT ![p].wrote = TRUE, ![p].step = TRUE]

\* household.write_session calls observe(1) before its transaction commits.
ReportEarly(p) ==
    /\ p \in Early
    /\ pc[p] = "writing" /\ ~ctx[p].wrote
    /\ Report(p)
    /\ UNCHANGED <<lock, marker, raw, shadow, live, pc, crashes, unreported>>

\* One raw transaction commits: an account of a sync, a loader call, one
\* manual balance, a household session.
Commit(p) ==
    /\ pc[p] = "writing" /\ raw < MaxRaw
    /\ p \in Early => ctx[p].wrote
    /\ raw' = raw + 1
    /\ Goto(p, IF p \in Early THEN "closing" ELSE "committed")
    /\ UNCHANGED <<lock, marker, shadow, live, ctx, crashes, unreported>>

\* The loader returned its counts and on_write saw them.
ReportCommit(p) ==
    /\ pc[p] = "committed"
    /\ Report(p)
    /\ Goto(p, "writing")
    /\ UNCHANGED <<lock, marker, raw, shadow, live, crashes, unreported>>

\* The server committed, but the client saw an exception instead of the
\* result (connection lost in COMMIT, interrupt): on_write is never called.
LoseReport(p) ==
    /\ pc[p] = "committed"
    /\ unreported' = (unreported \/ ~(ctx[p].step \/ ctx[p].was))
    /\ Goto(p, "closing")
    /\ UNCHANGED <<lock, marker, raw, shadow, live, ctx, crashes>>

\* The writes are over, by success or by an error that rolled back.
EndWrites(p) ==
    /\ pc[p] = "writing"
    /\ Goto(p, "closing")
    /\ UNCHANGED <<lock, marker, raw, shadow, live, ctx, crashes, unreported>>

\* Faulty variant: a marker that was there before is retracted too.
RetractAny(p) == IF ctx[p].step THEN UNCHANGED marker ELSE Unlink

\* Only an intent that wrote nothing and found nothing pending takes its
\* marker back.
Retract(p) ==
    IF ctx[p].step \/ ctx[p].was THEN UNCHANGED marker ELSE Unlink

WriterExit(p) ==
    /\ p \in Writers /\ pc[p] = "closing"
    /\ Retract(p)
    /\ Leave(p)
    /\ UNCHANGED <<raw, shadow, live, crashes, unreported>>

-----------------------------------------------------------------------------
(* The scheduled worker's connection loop *)

WorkerEnter(p) ==
    /\ p \in Workers
    /\ Acquire(p)
    /\ \/ \E eligible \in SUBSET Connections :
            /\ ctx' = [ctx EXCEPT ![p] = [NoCtx EXCEPT !.todo = eligible]]
            /\ Goto(p, "sync")
       \/ Goto(p, "release") /\ UNCHANGED ctx      \* --dry-run
    /\ UNCHANGED <<marker, raw, shadow, live, crashes, unreported>>

\* A connection is left out when its marker cannot be persisted.
SyncConnection(p) ==
    /\ p \in Workers /\ pc[p] = "sync"
    /\ \E conn \in ctx[p].todo :
         LET c == [ctx[p] EXCEPT !.todo = @ \ {conn}]
         IN  \/ Prepare(p, c)
             \/ /\ ctx' = [ctx EXCEPT ![p] = c]
                /\ UNCHANGED <<marker, unreported, pc>>
    /\ UNCHANGED <<lock, raw, shadow, live, crashes>>

EndConnection(p) ==
    /\ p \in Workers /\ pc[p] = "closing"
    /\ Retract(p)
    /\ Goto(p, "sync")
    /\ UNCHANGED <<lock, raw, shadow, live, ctx, crashes, unreported>>

\* Faulty variant: only this run's writes start dbt.
StartDbtOnWrites(p) ==
    /\ p \in Workers /\ pc[p] = "sync" /\ ctx[p].todo = {}
    /\ ctx[p].wrote
    /\ Goto(p, "drop")
    /\ UNCHANGED <<lock, marker, raw, shadow, live, ctx, crashes, unreported>>

\* dbt runs if the tracker saw a write or the marker is there.
StartDbt(p) ==
    /\ p \in Workers /\ pc[p] = "sync" /\ ctx[p].todo = {}
    /\ ctx[p].wrote \/ marker
    /\ Goto(p, "drop")
    /\ UNCHANGED <<lock, marker, raw, shadow, live, ctx, crashes, unreported>>

\* Nothing pending, or the marker cannot be inspected.
SkipDbt(p) ==
    /\ p \in Workers /\ pc[p] = "sync" /\ ctx[p].todo = {}
    /\ ~ctx[p].wrote
    /\ Goto(p, "release")
    /\ UNCHANGED <<lock, marker, raw, shadow, live, ctx, crashes, unreported>>

TriggerEnter(p) ==
    /\ p \in Triggers
    /\ Acquire(p)
    /\ marker' = TRUE
    /\ Goto(p, "drop")
    /\ UNCHANGED <<raw, shadow, live, ctx, crashes, unreported>>

-----------------------------------------------------------------------------
(* DbtRunner.refresh *)

\* Faulty variant: a killed refresh's schemas are built upon.
KeepShadow(p) ==
    /\ pc[p] = "drop"
    /\ Goto(p, "build")
    /\ UNCHANGED <<lock, marker, raw, shadow, live, ctx, crashes, unreported>>

DropShadow(p) ==
    /\ pc[p] = "drop"
    /\ shadow' = Empty
    /\ Goto(p, "build")
    /\ UNCHANGED <<lock, marker, raw, live, ctx, crashes, unreported>>

\* dbt materialises one table from the raw rows it sees then.
BuildMart(p) ==
    /\ pc[p] = "build"
    /\ \E m \in Marts : shadow[m] = Absent /\ shadow' = [shadow EXCEPT ![m] = raw]
    /\ UNCHANGED <<lock, marker, raw, live, pc, ctx, crashes, unreported>>

Built == \A m \in Marts : shadow[m] # Absent

\* Faulty variant: promotes whatever schemas the build left.
PromotePartial(p) ==
    /\ pc[p] = "build"
    /\ live' = [m \in {n \in Marts : shadow[n] # Absent} |-> shadow[m]]
    /\ shadow' = Empty
    /\ ctx' = [ctx EXCEPT ![p].ok = TRUE]
    /\ Goto(p, "cleanup")
    /\ unreported' = FALSE
    /\ UNCHANGED <<lock, marker, raw, crashes>>

\* The renames commit as one transaction.  ok is FALSE when the commit is
\* answered with an error although it happened.
Promote(p) ==
    /\ pc[p] = "build" /\ Built
    /\ live' = shadow
    /\ shadow' = Empty
    /\ \E told \in BOOLEAN : ctx' = [ctx EXCEPT ![p].ok = told]
    /\ Goto(p, "cleanup")
    /\ unreported' = FALSE
    /\ UNCHANGED <<lock, marker, raw, crashes>>

\* The first drop, the build, its tests or the promotion fails.  Only a
\* failure inside the try block reaches the cleanup.
DbtFails(p) ==
    /\ \/ pc[p] = "drop" /\ Goto(p, "release")
       \/ pc[p] = "build" /\ Goto(p, "cleanup")
    /\ UNCHANGED <<lock, marker, raw, shadow, live, ctx, crashes, unreported>>

\* Faulty variant: the marker goes whether or not dbt succeeded.
CleanupAndClear(p) ==
    /\ pc[p] = "cleanup"
    /\ shadow' \in {Empty, shadow}
    /\ Goto(p, "clear")
    /\ UNCHANGED <<lock, marker, raw, live, ctx, crashes, unreported>>

\* The best-effort drop of what is left of the shadow schemas.
Cleanup(p) ==
    /\ pc[p] = "cleanup"
    /\ shadow' \in {Empty, shadow}
    /\ Goto(p, IF ctx[p].ok THEN "clear" ELSE "release")
    /\ UNCHANGED <<lock, marker, raw, live, ctx, crashes, unreported>>

ClearMarker(p) ==
    /\ pc[p] = "clear"
    /\ Unlink
    /\ Goto(p, "release")
    /\ UNCHANGED <<lock, raw, shadow, live, ctx, crashes, unreported>>

Release(p) ==
    /\ pc[p] = "release"
    /\ Leave(p)
    /\ UNCHANGED <<marker, raw, shadow, live, crashes, unreported>>

-----------------------------------------------------------------------------
\* The process is killed: the marker, the raw rows and the schemas stay.
Crash(p) ==
    /\ pc[p] # "idle" /\ crashes < MaxCrashes
    /\ crashes' = crashes + 1
    /\ Leave(p)
    /\ UNCHANGED <<marker, raw, shadow, live, unreported>>

Enter(p) == WriterEnter(p) \/ WorkerEnter(p) \/ TriggerEnter(p)

Writing(p) ==
    ReportEarly(p) \/ Commit(p) \/ ReportCommit(p) \/ LoseReport(p)
        \/ EndWrites(p) \/ WriterExit(p) \/ SyncConnection(p) \/ EndConnection(p)

Refreshing(p) ==
    StartDbt(p) \/ SkipDbt(p) \/ DropShadow(p) \/ BuildMart(p) \/ Promote(p)
        \/ DbtFails(p) \/ Cleanup(p) \/ ClearMarker(p) \/ Release(p)

Next == \E p \in Procs : Enter(p) \/ Writing(p) \/ Refreshing(p) \/ Crash(p)

Spec == Init /\ [][Next]_vars

(***************************************************************************)
(* Fairness.  A process that is not killed goes on.  The systemd timer     *)
(* (Persistent=true) starts the worker again and again; it may lose the    *)
(* lock each time to another process, but not for ever.  dbt and the       *)
(* marker's file system may fail any number of times, but not for ever.    *)
(***************************************************************************)
Fairness ==
    /\ \A p \in Procs : WF_vars(Writing(p) \/ Refreshing(p))
    /\ \A p \in Workers :
         /\ SF_vars(WorkerEnter(p) /\ pc'[p] = "sync")
         /\ SF_vars(StartDbt(p))
         /\ SF_vars(DropShadow(p))
         /\ \A S \in SUBSET Marts :
              SF_vars(BuildMart(p) /\ {m \in Marts : shadow'[m] # Absent} = S)
         /\ SF_vars(Promote(p))

FairSpec == Spec /\ Fairness

-----------------------------------------------------------------------------
(* Properties *)

\* The state's shape: versions are natural numbers or Absent.
TypeOK ==
    /\ lock \in Procs \cup {NoProc}
    /\ marker \in BOOLEAN
    /\ raw \in Nat
    /\ shadow \in [Marts -> Nat \cup {Absent}]
    /\ live \in [Marts -> Nat \cup {Absent}]
    /\ pc \in [Procs -> Stages]
    /\ ctx \in [Procs -> Ctx]
    /\ crashes \in Nat
    /\ unreported \in BOOLEAN

Stale == \E m \in Marts : live[m] # raw

\* No refresh is lost (ADR-0046): through crashes, dbt and file errors, marts
\* that lag behind the raw tables imply a pending marker, except after an
\* error that hid a commit or a standing marker from the tracker.
NoLostRefresh == Stale => (marker \/ unreported)

\* The live marts always are one snapshot of the raw tables: no reader sees a
\* mart missing, or two marts built from different raw versions (ADR-0046:
\* schema-level promotion keeps all marts consistent).
LiveIsOneSnapshot ==
    \A m, n \in Marts : live[m] # Absent /\ live[m] = live[n]

\* A promotion shows every guarded change committed so far: no writer slips in
\* between the build of a mart and the renames, and nothing an earlier, killed
\* refresh left in the shadow schemas is promoted.
PromotionIsCurrent == [][\A m \in Marts : live'[m] = raw]_live

\* "a failed commit may leave a conservative pending marker, never a stale
\* mart" (household.py), read without the exception NoLostRefresh grants.
NeverAStaleMart == Stale => marker

\* Every reported change is shown in the end, once writes and crashes stop
\* (their bounds): scheduled runs retry until a promotion succeeds.
ChangesGetShown ==
    \A v \in 1..MaxRaw :
        (raw >= v) ~> (unreported \/ \A m \in Marts : live[m] >= v)

AnyMart == CHOOSE m \in Marts : TRUE

\* The abstract promise this module implements.
F == INSTANCE Freshness WITH raw <- raw, live <- live[AnyMart],
                             owed <- marker \/ unreported

\* Refinement: every step is a step of Freshness or leaves it alone.
Promise == F!Spec
=============================================================================
