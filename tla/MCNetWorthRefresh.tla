-------------------------- MODULE MCNetWorthRefresh --------------------------
(***************************************************************************)
(* Instances of NetWorthRefresh for TLC: a connection sync or import (w),  *)
(* a household session (h), two overlapping worker invocations (r1, r2)    *)
(* and a manual trigger (t) over two marts.                                *)
(***************************************************************************)
EXTENDS NetWorthRefresh
CONSTANTS w, h, r1, r2, t, c1, c2, m1, m2

MCWriters == {w, h}
MCEarly == {h}
MCWorkers == {r1, r2}
OneWorker == {r1}
MCTriggers == {t}
NoTrigger == {}
MCConnections == {c1, c2}
OneConnection == {c1}
MCMarts == {m1, m2}
=============================================================================
