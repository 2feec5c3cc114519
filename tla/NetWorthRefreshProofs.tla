------------------------ MODULE NetWorthRefreshProofs ------------------------
(***************************************************************************)
(* Proofs about NetWorthRefresh, for any number of writers, workers,       *)
(* triggers, connections, marts, raw changes and crashes.                  *)
(*                                                                         *)
(* NoLostRefresh is not inductive: that a marker may be retracted rests on *)
(* what the holder of the lock remembers (wrote, step, was), and that dbt  *)
(* caught up rests on nobody writing while it builds.  IInv says both.     *)
(***************************************************************************)
EXTENDS NetWorthRefresh, TLAPS

\* Who is not idle holds the lock.
Held == \A p \in Procs : pc[p] # "idle" => lock = p

\* The marker stands for as long as a process may commit.
Prepared == \A p \in Procs : pc[p] \in {"writing", "committed", "closing"} => marker

\* A tracker that is about to retract the marker really owes nothing.
NothingOwed ==
    \A p \in Procs :
        (pc[p] \in {"writing", "closing"} /\ Stale) =>
            (ctx[p].step \/ ctx[p].was \/ unreported)

\* A write intent has a single step.
OneStep == \A p \in Writers : ctx[p].wrote => ctx[p].step

\* What dbt has built so far is current.
ShadowCurrent ==
    \A p \in Procs : pc[p] = "build" => \A m \in Marts : shadow[m] \in {Absent, raw}

\* ok is only set by a promotion that caught up.
CaughtUp ==
    \A p \in Procs :
        /\ pc[p] \notin {"cleanup", "clear", "release"} => ~ctx[p].ok
        /\ pc[p] = "cleanup" /\ ctx[p].ok => ~Stale
        /\ pc[p] = "clear" => ~Stale

IInv ==
    /\ TypeOK /\ Held /\ Prepared /\ NothingOwed /\ OneStep
    /\ ShadowCurrent /\ CaughtUp
    /\ NoLostRefresh /\ LiveIsOneSnapshot
-----------------------------------------------------------------------------
(* Every constant-level fact a leaf needs about processes and contexts. *)

\* Writers, workers and triggers are processes, and a writer is no worker.
LEMMA ProcKinds ==
    /\ Writers \subseteq Procs /\ Workers \subseteq Procs /\ Triggers \subseteq Procs
    /\ NoProc \notin Procs
    /\ \A p \in Writers : p \notin Workers
    /\ Early \subseteq Writers
  BY RefreshConstants DEF Procs

\* A process starts with a context of the right form.
LEMMA NoCtxType == NoCtx \in Ctx
  BY DEF NoCtx, Ctx

\* A schema without marts is a schema.
LEMMA EmptyType == Empty \in [Marts -> Nat \cup {Absent}]
  BY DEF Empty

-----------------------------------------------------------------------------
(* Type correctness *)

\* Leaving the lock keeps the types of what it changes.
LEMMA LeaveType ==
  ASSUME TypeOK, NEW p \in Procs, Leave(p)
  PROVE  /\ lock' \in Procs \cup {NoProc}
         /\ pc' \in [Procs -> Stages]
         /\ ctx' \in [Procs -> Ctx]
  BY NoCtxType DEF TypeOK, Leave, Goto, Stages

\* Setting the marker, whether or not it is seen to be set, keeps the types.
LEMMA PrepareType ==
  ASSUME TypeOK, NEW p \in Procs, NEW c \in Ctx, Prepare(p, c)
  PROVE  /\ marker' \in BOOLEAN /\ unreported' \in BOOLEAN
         /\ pc' \in [Procs -> Stages]
         /\ ctx' \in [Procs -> Ctx]
<1>1. PICK seen \in {marker, FALSE} :
        ctx' = [ctx EXCEPT ![p] = [c EXCEPT !.step = FALSE, !.was = c.wrote \/ seen]]
  BY DEF Prepare
<1>2. [c EXCEPT !.step = FALSE, !.was = c.wrote \/ seen] \in Ctx
  BY DEF TypeOK, Ctx
<1>3. ctx' \in [Procs -> Ctx]
  BY <1>1, <1>2 DEF TypeOK
<1>4. QED
  BY <1>3 DEF Prepare, TypeOK, Goto, Stages

\* Reporting a change keeps the type of the context.
LEMMA ReportType ==
  ASSUME TypeOK, NEW p \in Procs, Report(p)
  PROVE  ctx' \in [Procs -> Ctx]
<1>1. [ctx[p] EXCEPT !.wrote = TRUE, !.step = TRUE] \in Ctx
  BY DEF TypeOK, Ctx
<1>2. ctx' = [ctx EXCEPT ![p] = [ctx[p] EXCEPT !.wrote = TRUE, !.step = TRUE]]
  BY DEF Report, TypeOK, Ctx
<1>3. QED
  BY <1>1, <1>2 DEF TypeOK

\* Every step keeps the types.
LEMMA TypeStep == TypeOK /\ [Next]_vars => TypeOK'
<1> SUFFICES ASSUME TypeOK, [Next]_vars PROVE TypeOK'
  OBVIOUS
<1>1. CASE UNCHANGED vars
  BY <1>1 DEF vars, TypeOK
<1>2. ASSUME NEW p \in Procs, WriterEnter(p) PROVE TypeOK'
  <2>1. Prepare(p, NoCtx)
    BY <1>2 DEF WriterEnter
  <2>2. QED
    BY <1>2, <2>1, PrepareType, NoCtxType DEF WriterEnter, Acquire, TypeOK
<1>3. ASSUME NEW p \in Procs, WorkerEnter(p) PROVE TypeOK'
  <2>1. \A e \in SUBSET Connections : [NoCtx EXCEPT !.todo = e] \in Ctx
    BY DEF NoCtx, Ctx
  <2>2. QED
    BY <1>3, <2>1 DEF WorkerEnter, Acquire, Goto, Stages, TypeOK
<1>4. ASSUME NEW p \in Procs, TriggerEnter(p) PROVE TypeOK'
  BY <1>4 DEF TriggerEnter, Acquire, Goto, Stages, TypeOK
<1>5. ASSUME NEW p \in Procs, ReportEarly(p) PROVE TypeOK'
  BY <1>5, ReportType DEF ReportEarly, TypeOK
<1>6. ASSUME NEW p \in Procs, Commit(p) PROVE TypeOK'
  BY <1>6 DEF Commit, Goto, Stages, TypeOK
<1>7. ASSUME NEW p \in Procs, ReportCommit(p) PROVE TypeOK'
  BY <1>7, ReportType DEF ReportCommit, Goto, Stages, TypeOK
<1>8. ASSUME NEW p \in Procs, LoseReport(p) PROVE TypeOK'
  BY <1>8 DEF LoseReport, Goto, Stages, TypeOK
<1>9. ASSUME NEW p \in Procs, EndWrites(p) PROVE TypeOK'
  BY <1>9 DEF EndWrites, Goto, Stages, TypeOK
<1>10. ASSUME NEW p \in Procs, WriterExit(p) PROVE TypeOK'
  BY <1>10, LeaveType DEF WriterExit, Retract, Unlink, TypeOK
<1>11. ASSUME NEW p \in Procs, SyncConnection(p) PROVE TypeOK'
  <2>1. PICK conn \in ctx[p].todo :
          LET c == [ctx[p] EXCEPT !.todo = @ \ {conn}]
          IN  \/ Prepare(p, c)
              \/ ctx' = [ctx EXCEPT ![p] = c] /\ UNCHANGED <<marker, unreported, pc>>
    BY <1>11 DEF SyncConnection
  <2> DEFINE c == [ctx[p] EXCEPT !.todo = @ \ {conn}]
  <2>2. c \in Ctx
    BY DEF TypeOK, Ctx
  <2>3. CASE Prepare(p, c)
    <3> HIDE DEF c
    <3>1. QED
      BY <1>11, <2>2, <2>3, PrepareType DEF SyncConnection, TypeOK
  <2>4. CASE ctx' = [ctx EXCEPT ![p] = c] /\ UNCHANGED <<marker, unreported, pc>>
    <3> HIDE DEF c
    <3>1. QED
      BY <1>11, <2>2, <2>4 DEF SyncConnection, TypeOK
  <2>5. QED
    BY <2>1, <2>3, <2>4
<1>12. ASSUME NEW p \in Procs, EndConnection(p) PROVE TypeOK'
  BY <1>12 DEF EndConnection, Retract, Unlink, Goto, Stages, TypeOK
<1>13. ASSUME NEW p \in Procs, StartDbt(p) \/ SkipDbt(p) PROVE TypeOK'
  BY <1>13 DEF StartDbt, SkipDbt, Goto, Stages, TypeOK
<1>14. ASSUME NEW p \in Procs, DropShadow(p) PROVE TypeOK'
  BY <1>14, EmptyType DEF DropShadow, Goto, Stages, TypeOK
<1>15. ASSUME NEW p \in Procs, BuildMart(p) PROVE TypeOK'
  BY <1>15 DEF BuildMart, TypeOK
<1>16. ASSUME NEW p \in Procs, Promote(p) PROVE TypeOK'
  <2>1. PICK told \in BOOLEAN : ctx' = [ctx EXCEPT ![p].ok = told]
    BY <1>16 DEF Promote
  <2>2. ctx' \in [Procs -> Ctx]
    BY <2>1 DEF TypeOK, Ctx
  <2>3. QED
    BY <1>16, <2>2, EmptyType DEF Promote, Goto, Stages, TypeOK
<1>17. ASSUME NEW p \in Procs, DbtFails(p) PROVE TypeOK'
  BY <1>17 DEF DbtFails, Goto, Stages, TypeOK
<1>18. ASSUME NEW p \in Procs, Cleanup(p) PROVE TypeOK'
  BY <1>18, EmptyType DEF Cleanup, Goto, Stages, TypeOK
<1>19. ASSUME NEW p \in Procs, ClearMarker(p) PROVE TypeOK'
  BY <1>19 DEF ClearMarker, Unlink, Goto, Stages, TypeOK
<1>20. ASSUME NEW p \in Procs, Release(p) PROVE TypeOK'
  BY <1>20, LeaveType DEF Release, TypeOK
<1>21. ASSUME NEW p \in Procs, Crash(p) PROVE TypeOK'
  BY <1>21, LeaveType DEF Crash, TypeOK
<1>22. QED
  BY <1>1, <1>2, <1>3, <1>4, <1>5, <1>6, <1>7, <1>8, <1>9, <1>10, <1>11, <1>12,
     <1>13, <1>14, <1>15, <1>16, <1>17, <1>18, <1>19, <1>20, <1>21
     DEF Next, Enter, Writing, Refreshing

\* The first state has the types.
LEMMA InitType == Init => TypeOK
<1> SUFFICES ASSUME Init PROVE TypeOK
  OBVIOUS
<1>1. shadow \in [Marts -> Nat \cup {Absent}]
  BY EmptyType DEF Init
<1>2. ctx \in [Procs -> Ctx]
  BY NoCtxType DEF Init
<1>3. live \in [Marts -> Nat \cup {Absent}] /\ pc \in [Procs -> Stages]
  BY DEF Init, Stages
<1>4. QED
  BY <1>1, <1>2, <1>3 DEF Init, TypeOK

\* The state keeps its shape.
THEOREM TypeCorrect == Spec => []TypeOK
  BY InitType, TypeStep, PTL DEF Spec
-----------------------------------------------------------------------------
(* The inductive invariant *)

\* At most one process is not idle.
LEMMA Solo ==
  ASSUME Held, CaughtUp, NEW p \in Procs, pc[p] # "idle", NEW q \in Procs, q # p
  PROVE  pc[q] = "idle" /\ ~ctx[q].ok
  BY DEF Held, CaughtUp

\* Nobody is busy while the lock is free.
LEMMA Alone ==
  ASSUME Held, CaughtUp, lock = NoProc, NEW q \in Procs
  PROVE  pc[q] = "idle" /\ ~ctx[q].ok
  BY ProcKinds DEF Held, CaughtUp

\* What a process about to write remembers, right after Prepare.
LEMMA PrepareInv ==
  ASSUME IInv, TypeOK', NEW p \in Procs, NEW c \in Ctx, Prepare(p, c),
         ~c.ok, p \in Writers => ~c.wrote,
         UNCHANGED <<raw, shadow, live>>, lock' = p,
         \A q \in Procs : q # p => pc[q] = "idle"
  PROVE  IInv'
<1>1. PICK seen \in {marker, FALSE} :
        /\ ctx' = [ctx EXCEPT ![p] = [c EXCEPT !.step = FALSE, !.was = c.wrote \/ seen]]
        /\ unreported' = (unreported \/ (marker /\ ~seen /\ ~c.wrote))
  BY DEF Prepare
<1>2. /\ ctx'[p].ok = c.ok /\ ctx'[p].wrote = c.wrote
      /\ ctx'[p].was = (c.wrote \/ seen)
  BY <1>1 DEF IInv, TypeOK, Ctx
<1>3. \A q \in Procs : q # p => ctx'[q] = ctx[q] /\ pc'[q] = "idle"
  BY <1>1 DEF IInv, TypeOK, Prepare, Goto
<1>4. pc'[p] = "writing" /\ marker' = TRUE
  BY DEF IInv, TypeOK, Prepare, Goto
<1>5. Held' /\ Prepared' /\ ShadowCurrent'
  BY <1>3, <1>4 DEF Held, Prepared, ShadowCurrent
<1>6. NothingOwed'
  <2>1. Stale => marker \/ unreported
    BY DEF IInv, NoLostRefresh
  <2>2. Stale' => Stale
    BY DEF Stale
  <2>3. Stale' => ctx'[p].was \/ unreported'
    BY <1>1, <1>2, <2>1, <2>2 DEF IInv, TypeOK
  <2>4. QED
    BY <1>3, <2>3 DEF NothingOwed
<1>7. OneStep'
  BY <1>2, <1>3, ProcKinds DEF IInv, OneStep
<1>8. CaughtUp'
  BY <1>2, <1>3, <1>4 DEF IInv, CaughtUp
<1>9. NoLostRefresh' /\ LiveIsOneSnapshot'
  BY <1>4 DEF IInv, NoLostRefresh, LiveIsOneSnapshot
<1>10. QED
  BY <1>5, <1>6, <1>7, <1>8, <1>9 DEF IInv

\* A process that leaves takes no obligation with it.
LEMMA LeaveInv ==
  ASSUME IInv, TypeOK', NEW p \in Procs, pc[p] # "idle", Leave(p),
         UNCHANGED <<raw, shadow, live, unreported>>,
         marker' = marker \/ ~Stale \/ unreported
  PROVE  IInv'
<1>1. \A q \in Procs : pc'[q] = "idle"
  BY Solo DEF IInv, TypeOK, Leave, Goto
<1>2. \A q \in Procs :
        (ctx'[q].wrote => ctx'[q].step \/ q \notin Writers) /\ ~ctx'[q].ok
  BY Solo, ProcKinds DEF IInv, OneStep, TypeOK, Leave, NoCtx
<1>3. Held' /\ Prepared' /\ NothingOwed' /\ ShadowCurrent' /\ CaughtUp'
  BY <1>1, <1>2 DEF Held, Prepared, NothingOwed, ShadowCurrent, CaughtUp
<1>4. OneStep'
  BY <1>2, ProcKinds DEF OneStep
<1>5. NoLostRefresh' /\ LiveIsOneSnapshot'
  BY DEF IInv, NoLostRefresh, Stale, LiveIsOneSnapshot
<1>6. QED
  BY <1>3, <1>4, <1>5 DEF IInv

\* A step that moves only p, between stages of the same kind.
LEMMA WritingInv ==
  ASSUME IInv, TypeOK', NEW p \in Procs, Writing(p)
  PROVE  IInv'
<1> USE DEF IInv
<1>1. CASE ReportEarly(p)
  <2>1. /\ \A q \in Procs : q # p => ctx'[q] = ctx[q]
        /\ ctx'[p].step = TRUE /\ ctx'[p].ok = ctx[p].ok
    BY <1>1 DEF ReportEarly, Report, TypeOK, Ctx
  <2>2. Held' /\ Prepared' /\ ShadowCurrent' /\ NoLostRefresh' /\ LiveIsOneSnapshot'
    BY <1>1 DEF ReportEarly, Held, Prepared, ShadowCurrent, NoLostRefresh, Stale,
                LiveIsOneSnapshot
  <2>3. NothingOwed' /\ OneStep'
    BY <1>1, <2>1, ProcKinds DEF ReportEarly, NothingOwed, OneStep, Stale
  <2>4. CaughtUp'
    BY <1>1, <2>1 DEF ReportEarly, CaughtUp, Stale
  <2>5. QED
    BY <2>2, <2>3, <2>4
<1>2. CASE Commit(p)
  <2>1. \A q \in Procs : q # p => pc'[q] = "idle" /\ ~ctx'[q].ok
    BY <1>2, Solo DEF Commit, Goto, TypeOK
  <2>2. pc'[p] = IF p \in Early THEN "closing" ELSE "committed"
    BY <1>2 DEF Commit, Goto, TypeOK
  <2>3. marker' /\ lock' = p
    BY <1>2 DEF Commit, Prepared, Held, TypeOK
  <2>4. Held' /\ Prepared' /\ ShadowCurrent' /\ NoLostRefresh'
    BY <2>1, <2>2, <2>3 DEF Held, Prepared, ShadowCurrent, NoLostRefresh
  <2>5. NothingOwed'
    BY <1>2, <2>1, <2>2, ProcKinds DEF Commit, NothingOwed, OneStep
  <2>6. OneStep' /\ LiveIsOneSnapshot'
    BY <1>2 DEF Commit, OneStep, LiveIsOneSnapshot
  <2>7. CaughtUp'
    BY <1>2, <2>1, <2>2 DEF Commit, CaughtUp
  <2>8. QED
    BY <2>4, <2>5, <2>6, <2>7
<1>3. CASE ReportCommit(p)
  <2>1. \A q \in Procs : q # p => pc'[q] = "idle" /\ ctx'[q] = ctx[q] /\ ~ctx'[q].ok
    BY <1>3, Solo DEF ReportCommit, Report, Goto, TypeOK
  <2>2. /\ pc'[p] = "writing" /\ lock' = p /\ marker'
        /\ ctx'[p].step = TRUE /\ ctx'[p].ok = FALSE
    BY <1>3 DEF ReportCommit, Report, Goto, TypeOK, Ctx, Held, Prepared, CaughtUp
  <2>3. Held' /\ Prepared' /\ ShadowCurrent' /\ NoLostRefresh' /\ CaughtUp' /\ NothingOwed'
    BY <2>1, <2>2 DEF Held, Prepared, ShadowCurrent, NoLostRefresh, CaughtUp,
             NothingOwed
  <2>4. OneStep' /\ LiveIsOneSnapshot'
    BY <1>3, <2>1, <2>2, ProcKinds DEF ReportCommit, OneStep, LiveIsOneSnapshot
  <2>5. QED
    BY <2>3, <2>4
<1>4. CASE LoseReport(p)
  <2>1. \A q \in Procs : q # p => pc'[q] = "idle" /\ ~ctx'[q].ok
    BY <1>4, Solo DEF LoseReport, Goto, TypeOK
  <2>2. pc'[p] = "closing" /\ lock' = p /\ marker' /\ ~ctx'[p].ok
    BY <1>4 DEF LoseReport, Goto, TypeOK, Held, Prepared, CaughtUp
  <2>3. Held' /\ Prepared' /\ ShadowCurrent' /\ NoLostRefresh' /\ CaughtUp'
    BY <2>1, <2>2 DEF Held, Prepared, ShadowCurrent, NoLostRefresh, CaughtUp
  <2>4. NothingOwed'
    BY <1>4, <2>1 DEF LoseReport, NothingOwed
  <2>5. OneStep' /\ LiveIsOneSnapshot'
    BY <1>4 DEF LoseReport, OneStep, LiveIsOneSnapshot
  <2>6. QED
    BY <2>3, <2>4, <2>5
<1>5. CASE EndWrites(p)
  <2>1. \A q \in Procs : q # p => pc'[q] = "idle" /\ ~ctx'[q].ok
    BY <1>5, Solo DEF EndWrites, Goto, TypeOK
  <2>2. pc'[p] = "closing" /\ lock' = p /\ marker' /\ ~ctx'[p].ok
    BY <1>5 DEF EndWrites, Goto, TypeOK, Held, Prepared, CaughtUp
  <2>3. Held' /\ Prepared' /\ ShadowCurrent' /\ NoLostRefresh' /\ CaughtUp'
    BY <2>1, <2>2 DEF Held, Prepared, ShadowCurrent, NoLostRefresh, CaughtUp
  <2>4. NothingOwed' /\ OneStep' /\ LiveIsOneSnapshot'
    BY <1>5, <2>1 DEF EndWrites, NothingOwed, OneStep, LiveIsOneSnapshot, Stale
  <2>5. QED
    BY <2>3, <2>4
<1>6. CASE WriterExit(p)
  <2>1. marker' = marker \/ ~Stale \/ unreported
    BY <1>6 DEF WriterExit, Retract, NothingOwed
  <2>2. QED
    BY <1>6, <2>1, LeaveInv DEF WriterExit
<1>7. CASE SyncConnection(p)
  <2>1. PICK conn \in ctx[p].todo :
          LET c == [ctx[p] EXCEPT !.todo = @ \ {conn}]
          IN  \/ Prepare(p, c)
              \/ ctx' = [ctx EXCEPT ![p] = c] /\ UNCHANGED <<marker, unreported, pc>>
    BY <1>7 DEF SyncConnection
  <2> DEFINE c == [ctx[p] EXCEPT !.todo = @ \ {conn}]
  <2>2. /\ c \in Ctx /\ ~c.ok /\ c.ok = ctx[p].ok /\ p \notin Writers
        /\ lock = p /\ lock' = p /\ pc[p] = "sync"
        /\ UNCHANGED <<raw, shadow, live>>
    BY <1>7, ProcKinds DEF TypeOK, Ctx, SyncConnection, CaughtUp, Held
  <2>3. \A q \in Procs : q # p => pc[q] = "idle"
    BY <2>2, Solo
  <2>4. CASE Prepare(p, c)
    <3> HIDE DEF c
    <3>1. QED
      BY <2>2, <2>3, <2>4, PrepareInv
  <2>5. CASE ctx' = [ctx EXCEPT ![p] = c] /\ UNCHANGED <<marker, unreported, pc>>
    <3> HIDE DEF c
    <3>1. \A q \in Procs : q # p => ctx'[q] = ctx[q]
      BY <2>5 DEF TypeOK
    <3>2. ctx'[p].ok = ctx[p].ok
      BY <2>2, <2>5 DEF TypeOK
    <3>3. Held' /\ Prepared' /\ ShadowCurrent' /\ NoLostRefresh' /\ LiveIsOneSnapshot'
      BY <2>2, <2>5 DEF Held, Prepared, ShadowCurrent, NoLostRefresh, Stale,
                        LiveIsOneSnapshot
    <3>4. NothingOwed' /\ CaughtUp'
      BY <2>2, <2>3, <2>5, <3>2 DEF NothingOwed, CaughtUp
    <3>5. OneStep'
      BY <2>2, <3>1, ProcKinds DEF OneStep
    <3>6. QED
      BY <3>3, <3>4, <3>5
  <2>6. QED
    BY <2>1, <2>4, <2>5
<1>8. CASE EndConnection(p)
  <2>1. \A q \in Procs : q # p => pc'[q] = "idle" /\ ~ctx'[q].ok
    BY <1>8, Solo DEF EndConnection, Goto, TypeOK
  <2>2. pc'[p] = "sync" /\ lock' = p /\ ~ctx'[p].ok
    BY <1>8 DEF EndConnection, Goto, TypeOK, Held, CaughtUp
  <2>3. Stale' => marker' \/ unreported'
    BY <1>8 DEF EndConnection, Retract, NothingOwed, NoLostRefresh, Stale
  <2>4. Held' /\ Prepared' /\ NothingOwed' /\ ShadowCurrent' /\ NoLostRefresh' /\ CaughtUp'
    BY <2>1, <2>2, <2>3
       DEF Held, Prepared, NothingOwed, ShadowCurrent, NoLostRefresh, CaughtUp
  <2>5. OneStep' /\ LiveIsOneSnapshot'
    BY <1>8 DEF EndConnection, OneStep, LiveIsOneSnapshot
  <2>6. QED
    BY <2>4, <2>5
<1>9. QED
  BY <1>1, <1>2, <1>3, <1>4, <1>5, <1>6, <1>7, <1>8 DEF Writing

\* Taking the lock keeps the invariant.
LEMMA EnterInv ==
  ASSUME IInv, TypeOK', NEW p \in Procs, Enter(p)
  PROVE  IInv'
<1> USE DEF IInv
<1>1. /\ \A q \in Procs : pc[q] = "idle"
      /\ lock' = p /\ UNCHANGED <<raw, shadow, live>>
  BY Alone DEF Enter, WriterEnter, WorkerEnter, TriggerEnter, Acquire
<1>2. CASE WriterEnter(p)
  <2>1. Prepare(p, NoCtx) /\ ~NoCtx.ok /\ ~NoCtx.wrote
    BY <1>2 DEF WriterEnter, NoCtx
  <2>2. QED
    BY <1>1, <2>1, NoCtxType, PrepareInv
<1>3. CASE WorkerEnter(p)
  <2>1. /\ \A q \in Procs : q # p => pc'[q] = "idle" /\ ctx'[q] = ctx[q]
        /\ pc'[p] \in {"sync", "release"} /\ p \notin Writers
        /\ UNCHANGED <<marker, unreported>>
    BY <1>1, <1>3, ProcKinds DEF WorkerEnter, Acquire, Goto, TypeOK
  <2>2. pc'[p] = "sync" => ~ctx'[p].ok
    BY <1>1, <1>3 DEF WorkerEnter, Goto, TypeOK, NoCtx
  <2>3. Held' /\ Prepared' /\ NothingOwed' /\ ShadowCurrent' /\ CaughtUp'
    BY <1>1, <2>1, <2>2 DEF Held, Prepared, NothingOwed, ShadowCurrent, CaughtUp
  <2>4. OneStep' /\ NoLostRefresh' /\ LiveIsOneSnapshot'
    BY <1>1, <2>1, ProcKinds DEF OneStep, NoLostRefresh, Stale, LiveIsOneSnapshot
  <2>5. QED
    BY <2>3, <2>4
<1>4. CASE TriggerEnter(p)
  <2>1. /\ \A q \in Procs : q # p => pc'[q] = "idle"
        /\ pc'[p] = "drop" /\ marker' /\ UNCHANGED ctx
    BY <1>1, <1>4 DEF TriggerEnter, Goto, TypeOK
  <2>2. CaughtUp'
    BY <1>1, <2>1 DEF CaughtUp
  <2>3. Held' /\ Prepared' /\ NothingOwed' /\ ShadowCurrent'
    BY <1>1, <2>1 DEF Held, Prepared, NothingOwed, ShadowCurrent
  <2>4. OneStep' /\ NoLostRefresh' /\ LiveIsOneSnapshot'
    BY <1>1, <2>1 DEF OneStep, NoLostRefresh, LiveIsOneSnapshot
  <2>5. QED
    BY <2>2, <2>3, <2>4
<1>5. QED
  BY <1>2, <1>3, <1>4 DEF Enter

\* Every step of a refresh keeps the invariant.
LEMMA RefreshingInv ==
  ASSUME IInv, TypeOK', NEW p \in Procs, Refreshing(p)
  PROVE  IInv'
<1> USE DEF IInv
<1>1. CASE Release(p)
  BY <1>1, LeaveInv DEF Release
<1>2. CASE ~Release(p)
  <2>1. pc[p] \notin {"idle", "release"}
    BY <1>2 DEF Refreshing, StartDbt, SkipDbt, DropShadow, BuildMart, Promote, DbtFails,
                Cleanup, ClearMarker, Release
  <2>2. lock' = lock /\ lock = p /\ UNCHANGED raw
    BY <1>2, <2>1 DEF Refreshing, StartDbt, SkipDbt, DropShadow, BuildMart, Promote,
             DbtFails,
                      Cleanup, ClearMarker, Held
  <2>3. \A q \in Procs : q # p => pc'[q] = "idle" /\ ctx'[q] = ctx[q] /\ ~ctx[q].ok
    BY <1>2, <2>1, Solo
       DEF Refreshing, StartDbt, SkipDbt, DropShadow, BuildMart, Promote, DbtFails,
           Cleanup, ClearMarker, Goto, TypeOK
  <2>4. pc'[p] \in {"drop", "build", "cleanup", "clear", "release"}
    BY <1>2 DEF Refreshing, StartDbt, SkipDbt, DropShadow, BuildMart, Promote, DbtFails,
                Cleanup, ClearMarker, Goto, TypeOK
  <2>5. ctx'[p].wrote = ctx[p].wrote /\ ctx'[p].step = ctx[p].step
    BY <1>2 DEF Refreshing, StartDbt, SkipDbt, DropShadow, BuildMart, Promote, DbtFails,
                Cleanup, ClearMarker, TypeOK, Ctx
  <2>6. Held' /\ Prepared' /\ NothingOwed' /\ OneStep'
    BY <2>2, <2>3, <2>4, <2>5, ProcKinds DEF Held, Prepared, NothingOwed, OneStep
  <2>7. ShadowCurrent' /\ CaughtUp' /\ NoLostRefresh' /\ LiveIsOneSnapshot'
    <3>1. CASE StartDbt(p) \/ SkipDbt(p)
      <4>1. pc'[p] \in {"drop", "release"} /\ UNCHANGED <<ctx, live, marker, unreported>>
        BY <3>1 DEF StartDbt, SkipDbt, Goto, TypeOK
      <4>2. ~ctx[p].ok
        BY <3>1 DEF StartDbt, SkipDbt, CaughtUp
      <4>3. QED
        BY <2>2, <2>3, <4>1, <4>2
           DEF ShadowCurrent, CaughtUp, NoLostRefresh, LiveIsOneSnapshot, Stale
    <3>2. CASE DropShadow(p)
      <4>1. /\ pc'[p] = "build" /\ shadow' = Empty
            /\ UNCHANGED <<ctx, live, marker, unreported>> /\ ~ctx[p].ok
        BY <3>2 DEF DropShadow, Goto, TypeOK, CaughtUp
      <4>2. QED
        BY <2>2, <2>3, <4>1
           DEF ShadowCurrent, CaughtUp, NoLostRefresh, LiveIsOneSnapshot, Stale, Empty
    <3>3. CASE BuildMart(p)
      <4>1. \A m \in Marts : shadow'[m] \in {shadow[m], raw}
        BY <3>3 DEF BuildMart, TypeOK
      <4>2. pc[p] = "build" /\ UNCHANGED <<pc, ctx, live, marker, unreported>>
        BY <3>3 DEF BuildMart
      <4>3. QED
        BY <2>2, <2>3, <4>1, <4>2
           DEF ShadowCurrent, CaughtUp, NoLostRefresh, LiveIsOneSnapshot, Stale
    <3>4. CASE Promote(p)
      <4>1. \A m \in Marts : live'[m] = raw /\ live'[m] # Absent
        BY <3>4 DEF Promote, Built, ShadowCurrent, TypeOK, Absent
      <4>2. ~Stale'
        BY <2>2, <4>1 DEF Stale
      <4>3. pc'[p] = "cleanup"
        BY <3>4 DEF Promote, Goto, TypeOK
      <4>4. ShadowCurrent' /\ CaughtUp' /\ NoLostRefresh'
        BY <2>3, <4>2, <4>3 DEF ShadowCurrent, CaughtUp, NoLostRefresh
      <4>5. QED
        BY <4>1, <4>4 DEF LiveIsOneSnapshot
    <3>5. CASE DbtFails(p)
      <4>1. /\ pc'[p] \in {"cleanup", "release"} /\ ~ctx[p].ok
            /\ UNCHANGED <<ctx, live, marker, unreported>>
        BY <3>5 DEF DbtFails, Goto, TypeOK, CaughtUp
      <4>2. QED
        BY <2>2, <2>3, <4>1
           DEF ShadowCurrent, CaughtUp, NoLostRefresh, LiveIsOneSnapshot, Stale
    <3>6. CASE Cleanup(p)
      <4>1. /\ pc'[p] = IF ctx[p].ok THEN "clear" ELSE "release"
            /\ ctx[p].ok => ~Stale
            /\ UNCHANGED <<ctx, live, marker, unreported>>
        BY <3>6 DEF Cleanup, Goto, TypeOK, CaughtUp
      <4>2. QED
        BY <2>2, <2>3, <4>1
           DEF ShadowCurrent, CaughtUp, NoLostRefresh, LiveIsOneSnapshot, Stale
    <3>7. CASE ClearMarker(p)
      <4>1. pc'[p] = "release" /\ ~Stale /\ UNCHANGED <<ctx, live>>
        BY <3>7 DEF ClearMarker, Goto, TypeOK, CaughtUp
      <4>2. QED
        BY <2>2, <2>3, <4>1
           DEF ShadowCurrent, CaughtUp, NoLostRefresh, LiveIsOneSnapshot, Stale
    <3>8. QED
      BY <1>2, <3>1, <3>2, <3>3, <3>4, <3>5, <3>6, <3>7 DEF Refreshing
  <2>8. QED
    BY <2>6, <2>7
<1>3. QED
  BY <1>1, <1>2

\* Every step keeps the invariant.
LEMMA InvStep == IInv /\ [Next]_vars => IInv'
<1> SUFFICES ASSUME IInv, [Next]_vars PROVE IInv'
  OBVIOUS
<1>1. TypeOK'
  BY TypeStep DEF IInv
<1>2. CASE UNCHANGED vars
  BY <1>2 DEF vars, IInv, TypeOK, Held, Prepared, NothingOwed, OneStep, ShadowCurrent,
              CaughtUp, NoLostRefresh, LiveIsOneSnapshot, Stale
<1>3. ASSUME NEW p \in Procs, Crash(p) PROVE IInv'
  BY <1>1, <1>3, LeaveInv DEF Crash, IInv, TypeOK
<1>4. QED
  BY <1>1, <1>2, <1>3, EnterInv, WritingInv, RefreshingInv DEF Next

\* The first state has the invariant.
LEMMA InvInit == Init => IInv
<1> SUFFICES ASSUME Init PROVE IInv
  OBVIOUS
<1>1. TypeOK
  BY InitType
<1>2. ~Stale /\ LiveIsOneSnapshot
  BY DEF Init, Stale, LiveIsOneSnapshot, Absent
<1>3. \A q \in Procs : pc[q] = "idle" /\ ~ctx[q].wrote /\ ~ctx[q].ok
  BY DEF Init, NoCtx
<1>4. Held /\ Prepared /\ NothingOwed /\ ShadowCurrent /\ CaughtUp /\ OneStep
  BY <1>3, ProcKinds DEF Held, Prepared, NothingOwed, ShadowCurrent, CaughtUp, OneStep
<1>5. QED
  BY <1>1, <1>2, <1>4 DEF IInv, NoLostRefresh

\* The inductive invariant holds throughout.
THEOREM Inductive == Spec => []IInv
  BY InvInit, InvStep, PTL DEF Spec

\* Marts that lag imply a pending marker, unless an error hid the evidence.
THEOREM RefreshIsNeverLost == Spec => []NoLostRefresh
  BY Inductive, PTL DEF IInv

\* Readers always see one snapshot, whole.
THEOREM OneSnapshot == Spec => []LiveIsOneSnapshot
  BY Inductive, PTL DEF IInv
-----------------------------------------------------------------------------
(* Which steps touch the raw tables and the live marts *)

\* Only a commit changes the raw tables and only a promotion the live marts.
LEMMA OnlyPromoteAndCommit ==
  ASSUME [Next]_vars
  PROVE  \/ UNCHANGED <<raw, live>>
         \/ \E p \in Procs : Commit(p) \/ Promote(p)
  BY DEF Next, vars, Enter, Writing, Refreshing, WriterEnter, WorkerEnter, TriggerEnter,
         ReportEarly, ReportCommit, LoseReport, EndWrites, WriterExit, SyncConnection,
         EndConnection, StartDbt, SkipDbt, DropShadow, BuildMart, DbtFails, Cleanup,
         ClearMarker, Release, Crash

\* What a promotion makes live is what the raw tables hold.
LEMMA PromoteIsCurrent ==
  ASSUME IInv, NEW p \in Procs, Promote(p)
  PROVE  \A m \in Marts : live'[m] = raw
  BY DEF IInv, Promote, Built, ShadowCurrent

\* A promotion shows every guarded change committed before it.
THEOREM PromotionsAreCurrent == Spec => PromotionIsCurrent
<1>1. IInv /\ [Next]_vars => [\A m \in Marts : live'[m] = raw]_live
  <2> SUFFICES ASSUME IInv, [Next]_vars
               PROVE  (\A m \in Marts : live'[m] = raw) \/ UNCHANGED live
    OBVIOUS
  <2>1. ASSUME NEW p \in Procs, Commit(p) PROVE UNCHANGED live
    BY <2>1 DEF Commit
  <2>2. QED
    BY <2>1, OnlyPromoteAndCommit, PromoteIsCurrent
<1>2. QED
  BY <1>1, Inductive, PTL DEF Spec, PromotionIsCurrent

-----------------------------------------------------------------------------
(* Refinement *)

\* The mart that stands for all of them is one of them.
LEMMA AnyMartIsAMart == AnyMart \in Marts
  BY RefreshConstants DEF AnyMart

\* The first state is a first state of the abstract specification.
LEMMA RefinementInit == Init => F!Init
  BY AnyMartIsAMart DEF Init, F!Init

\* A step under the invariant is a step of the abstract specification, or none.
LEMMA RefinementStep == IInv /\ IInv' /\ [Next]_vars => [F!Next]_(F!vars)
<1> SUFFICES ASSUME IInv, IInv', [Next]_vars
             PROVE  F!Next \/ UNCHANGED F!vars
  BY DEF F!vars
<1>1. CASE UNCHANGED <<raw, live>>
  <2>1. CASE (marker \/ unreported)'
    <3>1. F!Owe
      BY <1>1, <2>1 DEF F!Owe, IInv, TypeOK
    <3>2. QED
      BY <3>1 DEF F!Next
  <2>2. CASE ~(marker \/ unreported)'
    <3>1. live[AnyMart] = raw
      BY <1>1, <2>2, AnyMartIsAMart DEF IInv, NoLostRefresh, Stale
    <3>2. F!Settle
      BY <1>1, <2>2, <3>1 DEF F!Settle, IInv, TypeOK
    <3>3. QED
      BY <3>2 DEF F!Next
  <2>3. QED
    BY <2>1, <2>2
<1>2. ASSUME NEW p \in Procs, Commit(p) PROVE F!Next
  <2>1. marker
    BY <1>2 DEF IInv, Commit, Prepared
  <2>2. F!Write
    BY <1>2, <2>1 DEF Commit, F!Write
  <2>3. QED
    BY <2>2 DEF F!Next
<1>3. ASSUME NEW p \in Procs, Promote(p) PROVE F!Next
  <2>1. live'[AnyMart] = raw /\ UNCHANGED raw
    BY <1>3, AnyMartIsAMart, PromoteIsCurrent DEF Promote
  <2>2. F!Publish
    BY <2>1 DEF F!Publish, IInv, TypeOK
  <2>3. QED
    BY <2>2 DEF F!Next
<1>4. QED
  BY <1>1, <1>2, <1>3, OnlyPromoteAndCommit

\* The guarded refresh implements the abstract promise.
THEOREM Refinement == Spec => Promise
  BY Inductive, RefinementInit, RefinementStep, PTL DEF Spec, Promise, F!Spec
=============================================================================
