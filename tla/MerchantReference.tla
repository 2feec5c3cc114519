------------------------ MODULE MerchantReference ------------------------
(* The public merchant index (api/merchant_reference): a scheduled refresh  *)
(* under the shared lock loads a new catalog as a generation and makes it   *)
(* active, while searches read the active one in several statements.        *)
EXTENDS DecimalMath, FiniteSetsExt

CONSTANTS Catalog,       \* version -> set of [entity, aliases]; aliases normalized
          Queries,       \* normalized search texts
          Contains,      \* <<alias, query>>: the alias has the query as a part
          Limits,        \* search limits
          MaxGenerations \* bound on the promotions

VARIABLES state,   \* the refresh-state row: [status, active, candidate, error]
          gens,    \* generations: id -> [version, status]
          records, \* id -> references stored for the generation
          refresh, \* the refresh process: [step, release]
          aged,    \* the attempt is older than REFRESH_STALE_AFTER
          upstream,\* the version the registry offers
          search,  \* a search: [step, query, limit, generation, status, result]
          passed   \* history: promotions since the search chose its generation

referenceVars == <<state, gens, records, refresh, aged, upstream, search, passed>>

None == "none"
NoGeneration == 0
Versions == DOMAIN Catalog

\* A catalog is a finite set of references, and a search asks for at least one.
ReferenceConstants ==
  /\ Limits \subseteq Nat \ {0}
  /\ \A v \in Versions : IsFiniteSet(Catalog[v])

Idle == [step |-> "idle", release |-> None]
NoSearch == [step |-> "none"]

Init ==
  /\ state = [status |-> None, active |-> NoGeneration, candidate |-> None, error |-> FALSE]
  /\ gens = <<>>
  /\ records = <<>>
  /\ refresh = Idle
  /\ aged = FALSE
  /\ upstream \in Versions
  /\ search = NoSearch
  /\ passed = 0

Without(f, ids) == [i \in DOMAIN f \ ids |-> f[i]]

-----------------------------------------------------------------------------
(* The refresh: one process at a time holds the lock *)

Start ==
  /\ refresh.step = "idle"
  /\ refresh' = [refresh EXCEPT !.step = "started"]
  /\ state' = [state EXCEPT !.status = "refreshing", !.candidate = None, !.error = FALSE]
  /\ aged' = FALSE
  /\ UNCHANGED <<gens, records, upstream, search, passed>>

Discover ==
  /\ refresh.step = "started"
  /\ refresh' = [step |-> "released", release |-> upstream]
  /\ UNCHANGED <<state, gens, records, aged, upstream, search, passed>>

\* A first release counts as unchanged, there being no other version.
UnchangedAtFirst(release) ==
  state.active # NoGeneration => gens[state.active].version = release

\* The release is compared with the active generation read before the mark.
Unchanged(release) ==
  state.active # NoGeneration /\ gens[state.active].version = release
MarkCandidate ==
  /\ refresh.step = "released"
  /\ state' = [state EXCEPT !.candidate = refresh.release]
  /\ refresh' = [refresh EXCEPT !.step = IF Unchanged(refresh.release) THEN "unchanged" ELSE "fetch"]
  /\ UNCHANGED <<gens, records, aged, upstream, search, passed>>

MarkUnchanged ==
  /\ refresh.step = "unchanged"
  /\ state' = [state EXCEPT !.status = "current", !.candidate = None, !.error = FALSE]
  /\ refresh' = Idle
  /\ UNCHANGED <<gens, records, aged, upstream, search, passed>>

Fetch ==
  /\ refresh.step = "fetch"
  /\ refresh' = [refresh EXCEPT !.step = "promote"]
  /\ UNCHANGED <<state, gens, records, aged, upstream, search, passed>>

\* The source or the database fails at a step; the outcome is recorded next.
Fails ==
  /\ refresh.step \in {"started", "released", "unchanged", "fetch", "promote"}
  /\ refresh' = [refresh EXCEPT !.step = "failed"]
  /\ UNCHANGED <<state, gens, records, aged, upstream, search, passed>>

MarkFailure ==
  /\ refresh.step = "failed"
  /\ state' = [state EXCEPT !.status = IF state.active # NoGeneration THEN "stale" ELSE "failed",
                            !.error = TRUE]
  /\ refresh' = Idle
  /\ UNCHANGED <<gens, records, aged, upstream, search, passed>>

\* Generations superseded before the one replaced now are deleted.
Deleted(active) == {g \in DOMAIN gens : gens[g].status = "superseded" /\ g # active}
Promote ==
  /\ refresh.step = "promote"
  /\ LET fresh == 1 + Max({0} \cup DOMAIN gens)
         gone == Deleted(state.active)
         superseded == [g \in DOMAIN gens |->
                          IF g = state.active THEN [gens[g] EXCEPT !.status = "superseded"] ELSE gens[g]]
         kept == Without(superseded, gone)
     IN  /\ fresh <= MaxGenerations
         /\ gens' = [g \in DOMAIN kept \cup {fresh} |->
                       IF g = fresh THEN [version |-> refresh.release, status |-> "active"] ELSE kept[g]]
         /\ records' = [g \in DOMAIN gens' |->
                          IF g = fresh THEN Catalog[refresh.release] ELSE records[g]]
         /\ state' = [status |-> "current", active |-> fresh, candidate |-> None, error |-> FALSE]
  /\ refresh' = Idle
  /\ passed' = IF search.step = "chosen" THEN passed + 1 ELSE passed
  /\ UNCHANGED <<aged, upstream, search>>

\* The process is killed; the kernel drops the lock.
Crash ==
  /\ refresh.step # "idle"
  /\ refresh' = Idle
  /\ UNCHANGED <<state, gens, records, aged, upstream, search, passed>>

Age ==
  /\ state.status = "refreshing" /\ ~aged
  /\ aged' = TRUE
  /\ UNCHANGED <<state, gens, records, refresh, upstream, search, passed>>

NewRelease ==
  /\ upstream' \in Versions \ {upstream}
  /\ UNCHANGED <<state, gens, records, refresh, aged, search, passed>>

-----------------------------------------------------------------------------
(* Searching *)

\* _effective_status: an attempt that never ended is taken for dead.
EffectiveStatus ==
  CASE state.status = "refreshing" /\ aged ->
         IF state.active # NoGeneration THEN "stale" ELSE "failed"
    [] state.status = None -> "never_refreshed"
    [] OTHER -> state.status

ChooseGeneration(query, limit) ==
  /\ search.step # "chosen"
  /\ search' = [step |-> "chosen", query |-> query, limit |-> limit, generation |-> state.active,
                status |-> EffectiveStatus]
  /\ passed' = 0
  /\ UNCHANGED <<state, gens, records, refresh, aged, upstream>>

Exact(rows, query) == {r \in rows : query \in r.aliases}
Substring(rows, query) == {r \in rows : \E a \in r.aliases : <<a, query>> \in Contains}

\* One more row than the limit is asked for, to know whether there are more.
Asked(limit) == limit + 1
Found(rows, query, limit) ==
  LET all == IF Exact(rows, query) # {} THEN Exact(rows, query) ELSE Substring(rows, query)
      fetched == Least(Cardinality(all), Asked(limit))
      shown == Least(fetched, limit)
  IN  CASE shown = 0 -> "no_match"
        [] shown = 1 /\ fetched <= limit -> "unique"
        [] OTHER -> "ambiguous"

ReadMatches ==
  /\ search.step = "chosen"
  /\ LET g == search.generation
         rows == IF g \in DOMAIN records THEN records[g] ELSE {}
     IN  search' = [step |-> "done", query |-> search.query, generation |-> g,
                    status |-> search.status, rows |-> rows,
                    result |-> Found(rows, search.query, search.limit)]
  /\ UNCHANGED <<state, gens, records, refresh, aged, upstream, passed>>

Next ==
  \/ Start \/ Discover \/ MarkCandidate \/ MarkUnchanged \/ Fetch \/ Fails \/ MarkFailure
  \/ Promote \/ Crash \/ Age \/ NewRelease
  \/ \E q \in Queries, n \in Limits : ChooseGeneration(q, n)
  \/ ReadMatches

Spec == Init /\ [][Next]_referenceVars

-----------------------------------------------------------------------------
(* Properties *)

\* There is one active generation, the state names it, and its records are those of
\* its version; one superseded generation at most is kept beside it.
ActiveIsWhole ==
  /\ {g \in DOMAIN gens : gens[g].status = "active"} = {state.active} \ {NoGeneration}
  /\ \A g \in DOMAIN gens : records[g] = Catalog[gens[g].version]
  /\ Cardinality(DOMAIN gens) <= 2

\* A search answers from one whole catalog, unless two refreshes were completed
\* while it ran.
SearchReadsOneCatalog ==
  search.step = "done" /\ search.generation # NoGeneration /\ passed < 2 =>
    \E v \in Versions : search.rows = Catalog[v]

\* A match is called unique only when no other reference of the catalog matches as
\* well as it.
UniqueIsUnique ==
  search.step = "done" =>
    LET best == IF Exact(search.rows, search.query) # {} THEN Exact(search.rows, search.query)
                ELSE Substring(search.rows, search.query)
    IN  (search.result = "unique" <=> Cardinality(best) = 1)

\* A refresh that did not complete never hides the catalog: with an active
\* generation the index is current, refreshing or stale, and a catalog that is
\* called current was checked against the registry since the last failure.
FailureKeepsCatalog ==
  /\ EffectiveStatus \in {"failed", "never_refreshed"} => state.active = NoGeneration
  /\ EffectiveStatus = "current" => state.active # NoGeneration /\ ~state.error
=============================================================================
