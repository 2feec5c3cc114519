---------------------------- MODULE BankConnection ----------------------------
(***************************************************************************)
(* Bank connections: consent links, their authorization, account syncs.    *)
(*                                                                         *)
(* A bank_connection row is inserted when a consent is started, gets its   *)
(* session when the redirect code is exchanged, and is synced from then    *)
(* on.  Syncs run one at a time under the refresh lock, links and          *)
(* authorizations beside them without it; each reads the row once and      *)
(* later updates it by id.  Enable Banking is external: a code is good for *)
(* one exchange, and a session lasts until it is revoked or expires.       *)
(*                                                                         *)
(* A consent, its code, its state and its session go by the name of the    *)
(* connection that asked for it.  All connections are to one bank.         *)
(***************************************************************************)
EXTENDS Integers, FiniteSets

CONSTANTS
    Conns,      \* connections the user may start
    Requests,   \* slots of concurrent requests
    Accounts,   \* accounts behind a session
    Windows,    \* number of history windows to try, widest first
    None,       \* no session, no connection, lock free
    BadCode,    \* a mistyped or stale code
    MaxCrashes  \* bound: restarts

ASSUME ConnectionConstants ==
    /\ None \notin Conns \cup Requests /\ BadCode \notin Conns
    /\ Windows \in Nat \ {0} /\ MaxCrashes \in Nat

VARIABLES
    row,      \* bank_connection: status, state still set, session_id
    consent,  \* Enable Banking's side of each consent
    lock,     \* the request that holds refresh.lock, or None
    pc,       \* stage of each request
    req,      \* its local variables: see NoReq
    crashes,  \* restarts so far
    raced,    \* history: two requests were in flight together
    lost,     \* history: consents whose session was granted and then lost
    blind     \* history: codes that were sent without their state

vars == <<row, consent, lock, pc, req, crashes, raced, lost, blind>>

Statuses == {"absent", "linking", "authorized", "expired", "error"}

Row == [status : Statuses, state : BOOLEAN, session : Conns \cup {None}]

Consents == {"none", "asked", "given", "spent", "revoked"}

Stages == {"idle", "exchange", "failed", "resolve", "bind",
           "next", "check", "load", "ok"}

Syncing == {"next", "check", "load", "ok"}

(***************************************************************************)
(* conn: the row worked on; code: the code sent; seen: the row as read;    *)
(* worker, todo: the scheduled worker syncs, and has these connections to  *)
(* go; window, got: the window being tried and the accounts loaded so far, *)
(* with the window they were loaded for.                                   *)
(***************************************************************************)
NoReq == [conn |-> None, code |-> None, seen |-> None, worker |-> FALSE,
          todo |-> {}, window |-> 1, got |-> {}]

Init ==
    /\ row = [k \in Conns |-> [status |-> "absent", state |-> FALSE,
                               session |-> None]]
    /\ consent = [k \in Conns |-> "none"]
    /\ lock = None
    /\ pc = [r \in Requests |-> "idle"]
    /\ req = [r \in Requests |-> NoReq]
    /\ crashes = 0
    /\ raced = FALSE /\ lost = {} /\ blind = {}

Goto(r, stage) == pc' = [pc EXCEPT ![r] = stage]

Finish(r) ==
    /\ Goto(r, "idle")
    /\ req' = [req EXCEPT ![r] = NoReq]
    /\ lock' = IF lock = r THEN None ELSE lock

Arrive(r) ==
    raced' = (raced \/ \E q \in Requests \ {r} : pc[q] # "idle")

-----------------------------------------------------------------------------
(* start_link, and what happens at the bank *)

\* start_authorization answered; create_linking inserts the row.
StartLink(k) ==
    /\ row[k].status = "absent"
    /\ row' = [row EXCEPT ![k] = [status |-> "linking", state |-> TRUE,
                                  session |-> None]]
    /\ consent' = [consent EXCEPT ![k] = "asked"]
    /\ UNCHANGED <<lock, pc, req, crashes, raced, lost, blind>>

\* The user finishes SCA and holds the code; later the consent may end.
BankDecides(k) ==
    /\ \/ consent[k] = "asked" /\ consent' = [consent EXCEPT ![k] = "given"]
       \/ consent[k] = "spent" /\ consent' = [consent EXCEPT ![k] = "revoked"]
    /\ UNCHANGED <<row, lock, pc, req, crashes, raced, lost, blind>>

-----------------------------------------------------------------------------
(* authorize *)

\* With a state, a linking row must match before the code is spent.
AuthorizeWithState(r, k, code) ==
    /\ pc[r] = "idle" /\ row[k].state /\ row[k].status = "linking"
    /\ req' = [req EXCEPT ![r] = [NoReq EXCEPT !.conn = k, !.code = code]]
    /\ Goto(r, "exchange")
    /\ Arrive(r)
    /\ UNCHANGED <<row, consent, lock, crashes, lost, blind>>

AuthorizeWithoutState(r, code) ==
    /\ pc[r] = "idle"
    /\ req' = [req EXCEPT ![r] = [NoReq EXCEPT !.code = code]]
    /\ Goto(r, "exchange")
    /\ Arrive(r)
    /\ blind' = blind \cup ({code} \cap Conns)
    /\ UNCHANGED <<row, consent, lock, crashes, lost>>

Valid(code) == code \in Conns /\ consent[code] = "given"

Spend(code) == consent' = [consent EXCEPT ![code] = "spent"]

Exchange(r) ==
    /\ pc[r] = "exchange" /\ Valid(req[r].code)
    /\ Spend(req[r].code)
    /\ Goto(r, IF req[r].conn = None THEN "resolve" ELSE "bind")
    /\ UNCHANGED <<row, lock, req, crashes, raced, lost, blind>>

\* The code was not spent, or it was and the session it bought is lost.
NoAnswer(r) ==
    \/ UNCHANGED <<consent, lost>>
    \/ /\ Valid(req[r].code) /\ Spend(req[r].code)
       /\ lost' = lost \cup {req[r].code}

\* An error response: EnableBankingError.
ExchangeRefused(r) ==
    /\ pc[r] = "exchange"
    /\ NoAnswer(r)
    /\ IF req[r].conn = None THEN Finish(r)
       ELSE Goto(r, "failed") /\ UNCHANGED <<req, lock>>
    /\ UNCHANGED <<row, crashes, raced, blind>>

\* Unreachable, the answer lost or not readable: no EnableBankingError, so
\* nothing is recorded and the row stays linking.
ExchangeUnanswered(r) ==
    /\ pc[r] = "exchange"
    /\ NoAnswer(r)
    /\ Finish(r)
    /\ UNCHANGED <<row, crashes, raced, blind>>

\* record_error keeps the state; it may fail itself.
RecordFailedExchange(r) ==
    /\ pc[r] = "failed"
    /\ \/ row' = [row EXCEPT ![req[r].conn].status = "error"]
       \/ UNCHANGED row
    /\ Finish(r)
    /\ UNCHANGED <<consent, crashes, raced, lost, blind>>

Linking == {k \in Conns : row[k].status = "linking"}

\* The session in hand goes with the request that holds it.
Drop(r) == Finish(r) /\ lost' = lost \cup {req[r].code}

\* _resolve_pending without a state: the only linking row of that bank.
Resolve(r) ==
    /\ pc[r] = "resolve"
    /\ IF Cardinality(Linking) = 1
       THEN /\ \E k \in Linking : req' = [req EXCEPT ![r].conn = k]
            /\ Goto(r, "bind")
            /\ UNCHANGED <<lock, lost>>
       ELSE Drop(r)
    /\ UNCHANGED <<row, consent, crashes, raced, blind>>

\* Faulty variant: status and state only.
BindLater(r) ==
    /\ pc[r] = "bind"
    /\ row' = [row EXCEPT ![req[r].conn].status = "authorized",
                          ![req[r].conn].state = FALSE]
    /\ Finish(r)
    /\ UNCHANGED <<consent, crashes, raced, lost, blind>>

\* Faulty variant: only a row that still is linking is updated.
BindIfLinking(r) ==
    /\ pc[r] = "bind"
    /\ row' = IF row[req[r].conn].status # "linking" THEN row
              ELSE [row EXCEPT ![req[r].conn] = [status |-> "authorized",
                      state |-> FALSE, session |-> req[r].code]]
    /\ Finish(r)
    /\ UNCHANGED <<consent, crashes, raced, lost, blind>>

\* mark_authorized, whether or not the answer to its COMMIT comes back.
Bind(r) ==
    /\ pc[r] = "bind"
    /\ row' = [row EXCEPT ![req[r].conn] = [status |-> "authorized",
                 state |-> FALSE, session |-> req[r].code]]
    /\ Finish(r)
    /\ UNCHANGED <<consent, crashes, raced, lost, blind>>

\* The database fails in list_connections or mark_authorized: the code is
\* spent, and nothing is stored of what it bought.
AuthorizeBreaks(r) ==
    /\ pc[r] \in {"resolve", "bind"}
    /\ Drop(r)
    /\ UNCHANGED <<row, consent, crashes, raced, blind>>

-----------------------------------------------------------------------------
(* sync, from POST /connections/{id}/sync or the scheduled worker *)

\* list_eligible_connections: authorized rows whose consent has not ended,
\* as far as valid_until can tell.
Eligible(k) == row[k].status = "authorized" /\ row[k].session # None

\* One locked run of the worker lists its connections once.
WorkerStart(r) ==
    /\ pc[r] = "idle" /\ lock = None
    /\ lock' = r
    /\ req' = [req EXCEPT ![r] = [NoReq EXCEPT !.worker = TRUE,
                                               !.todo = {k \in Conns : Eligible(k)}]]
    /\ Goto(r, "next")
    /\ Arrive(r)
    /\ UNCHANGED <<row, consent, crashes, lost, blind>>

\* service.sync reads a listed row again.
WorkerNext(r) ==
    /\ pc[r] = "next"
    /\ \E k \in req[r].todo :
         req' = [req EXCEPT ![r].conn = k, ![r].seen = row[k], ![r].todo = @ \ {k}]
    /\ Goto(r, "check")
    /\ UNCHANGED <<row, consent, lock, crashes, raced, lost, blind>>

WorkerEnd(r) ==
    /\ pc[r] = "next" /\ req[r].todo = {}
    /\ Finish(r)
    /\ UNCHANGED <<row, consent, crashes, raced, lost, blind>>

\* POST /connections/{id}/sync
SyncStart(r, k) ==
    /\ pc[r] = "idle" /\ lock = None
    /\ row[k].status # "absent"
    /\ lock' = r
    /\ req' = [req EXCEPT ![r] = [NoReq EXCEPT !.conn = k, !.seen = row[k]]]
    /\ Goto(r, "check")
    /\ Arrive(r)
    /\ UNCHANGED <<row, consent, crashes, lost, blind>>

\* The request answers; the worker goes on to its next connection.
EndSync(r) ==
    IF ~req[r].worker THEN Finish(r)
    ELSE /\ Goto(r, "next")
         /\ req' = [req EXCEPT ![r] = [NoReq EXCEPT !.worker = TRUE,
                                                    !.todo = req[r].todo]]
         /\ UNCHANGED lock

\* record_error / record_sync_ok: an update by id, whatever the row is now.
SetStatus(r, status) ==
    /\ row' = [row EXCEPT ![req[r].conn].status = status]
    /\ EndSync(r)

\* Not authorized yet, or Enable Banking fails: the status read is kept.
SyncFails(r) ==
    /\ pc[r] \in {"check", "load"}
    /\ SetStatus(r, req[r].seen.status)
    /\ UNCHANGED <<consent, crashes, raced, lost, blind>>

\* Faulty variant: a consent that ended is reported as any other error.
ConsentEndedError(r) ==
    /\ pc[r] = "check" /\ req[r].seen.session # None
    /\ consent[req[r].seen.session] = "revoked"
    /\ SetStatus(r, "error")
    /\ UNCHANGED <<consent, crashes, raced, lost, blind>>

ConsentEnded(r) ==
    /\ pc[r] = "check" /\ req[r].seen.session # None
    /\ consent[req[r].seen.session] = "revoked"
    /\ SetStatus(r, "expired")
    /\ UNCHANGED <<consent, crashes, raced, lost, blind>>

SessionActive(r) ==
    /\ pc[r] = "check" /\ req[r].seen.session # None
    /\ consent[req[r].seen.session] = "spent"
    /\ Goto(r, "load")
    /\ UNCHANGED <<row, consent, lock, req, crashes, raced, lost, blind>>

Loaded(r) == {a \in Accounts : <<a, req[r].window>> \in req[r].got}

\* One account's transaction commits; the last one ends the loop.
LoadAccount(r) ==
    /\ pc[r] = "load"
    /\ \E a \in Accounts \ Loaded(r) :
         /\ req' = [req EXCEPT ![r].got = @ \cup {<<a, req[r].window>>}]
         /\ Goto(r, IF Loaded(r) \cup {a} = Accounts THEN "ok" ELSE "load")
    /\ UNCHANGED <<row, consent, lock, crashes, raced, lost, blind>>

\* Faulty variant: the rejected account is passed over.
PassOver(r) ==
    /\ pc[r] = "load" /\ req[r].window < Windows
    /\ Goto(r, "ok")
    /\ UNCHANGED <<row, consent, lock, req, crashes, raced, lost, blind>>

\* WRONG_TRANSACTIONS_PERIOD: all accounts again, with a narrower window.
NarrowWindow(r) ==
    /\ pc[r] = "load" /\ req[r].window < Windows
    /\ req' = [req EXCEPT ![r].window = @ + 1]
    /\ UNCHANGED <<row, consent, lock, pc, crashes, raced, lost, blind>>

\* Faulty variant: the flock outlives the error.
SyncBreaksHolding(r) ==
    /\ pc[r] \in {"check", "load", "ok"}
    /\ Goto(r, "idle")
    /\ req' = [req EXCEPT ![r] = NoReq]
    /\ UNCHANGED <<row, consent, lock, crashes, raced, lost, blind>>

\* An unexpected error: the route records nothing, the worker writes the
\* status the row was listed with, if the database still answers.
SyncBreaks(r) ==
    /\ pc[r] \in {"check", "load", "ok"}
    /\ \/ req[r].worker /\ SetStatus(r, "authorized")
       \/ EndSync(r) /\ UNCHANGED row
    /\ UNCHANGED <<consent, crashes, raced, lost, blind>>

SyncOk(r) ==
    /\ pc[r] = "ok"
    /\ SetStatus(r, "authorized")
    /\ UNCHANGED <<consent, crashes, raced, lost, blind>>

-----------------------------------------------------------------------------
\* The host dies; a session just granted goes with it.
Crash ==
    /\ crashes < MaxCrashes
    /\ \E r \in Requests : pc[r] # "idle"
    /\ crashes' = crashes + 1
    /\ lost' = lost \cup {req[r].code : r \in {q \in Requests :
                                               pc[q] \in {"resolve", "bind"}}}
    /\ pc' = [r \in Requests |-> "idle"]
    /\ req' = [r \in Requests |-> NoReq]
    /\ lock' = None
    /\ UNCHANGED <<row, consent, raced, blind>>

Authorize(r) ==
    \/ \E k \in Conns : \E code \in {k, BadCode} : AuthorizeWithState(r, k, code)
    \/ \E code \in Conns \cup {BadCode} : AuthorizeWithoutState(r, code)
    \/ Exchange(r) \/ ExchangeRefused(r) \/ ExchangeUnanswered(r)
    \/ RecordFailedExchange(r)
    \/ Resolve(r) \/ Bind(r) \/ AuthorizeBreaks(r)

Sync(r) ==
    \/ WorkerStart(r) \/ WorkerNext(r) \/ WorkerEnd(r)
    \/ \E k \in Conns : SyncStart(r, k)
    \/ SyncFails(r) \/ ConsentEnded(r) \/ SessionActive(r)
    \/ LoadAccount(r) \/ NarrowWindow(r) \/ SyncBreaks(r) \/ SyncOk(r)

Next ==
    \/ \E k \in Conns : StartLink(k) \/ BankDecides(k)
    \/ Crash
    \/ \E r \in Requests : Authorize(r) \/ Sync(r)

Spec == Init /\ [][Next]_vars

-----------------------------------------------------------------------------
(* Properties *)

\* The state's shape; only a sync holds the lock.
TypeOK ==
    /\ row \in [Conns -> Row]
    /\ consent \in [Conns -> Consents]
    /\ pc \in [Requests -> Stages]
    /\ req \in [Requests -> [conn : Conns \cup {None},
                             code : Conns \cup {BadCode, None},
                             seen : Row \cup {None}, worker : BOOLEAN,
                             todo : SUBSET Conns, window : 1..Windows,
                             got : SUBSET (Accounts \X (1..Windows))]]
    /\ lock \in Requests \cup {None}
    /\ \A r \in Requests : lock = r <=> pc[r] \in Syncing
    /\ crashes \in Nat
    /\ raced \in BOOLEAN
    /\ lost \subseteq Conns /\ blind \subseteq Conns

\* What the worker and the UI offer for a sync can be synced: however stale
\* the row a request read, no update calls a row authorized that never got
\* its session.
AuthorizedHasSession ==
    \A k \in Conns : row[k].status = "authorized" => row[k].session # None

\* A code is single-use, so what it bought must end up in the row that asked
\* for it: however many requests race for a consent or fail beside it, it is
\* stored there, or about to be, unless that very session was lost (its answer,
\* its process or its database failed before it was stored), its own code came
\* without its state, or such a code took the row over.
SpentConsentIsStored ==
    \A k \in Conns : consent[k] \in {"spent", "revoked"} =>
        \/ row[k].session \in {k} \cup blind
        \/ k \in lost \cup blind
        \/ \E r \in Requests :
             pc[r] = "bind" /\ req[r].conn = k /\ req[r].code = k

\* Requests that do not overlap keep the status truthful: a stored session is
\* authorized or expired, so neither a failed sync nor a failed exchange takes
\* a connection out of the schedule, and only an ended consent asks for
\* another.
StatusTellsSessionAlone ==
    ~raced => \A k \in Conns :
        row[k].session # None <=> row[k].status \in {"authorized", "expired"}

\* A sync that reports ok has loaded every account for one and the same
\* history window, whatever windows the bank refused on the way.
SyncCoversAllAccounts ==
    \A r \in Requests : pc[r] = "ok" =>
        \E w \in 1..Windows : \A a \in Accounts : <<a, w>> \in req[r].got

\* "guessing could bind the code to the wrong connection, so the caller is
\* required to supply state instead" (service.py): a connection only ever
\* gets the session of its own consent.
RightConnection == \A k \in Conns : row[k].session \in {k, None}
=============================================================================
