------------------------- MODULE BankConnectionProofs -------------------------
(***************************************************************************)
(* Proofs about BankConnection, for any number of connections, requests,   *)
(* accounts, history windows and crashes.                                  *)
(*                                                                         *)
(* A request updates by id a row it read some steps ago, and exchanges a   *)
(* code it was given before that, so the invariant says what the row and   *)
(* the code in a request's hands still mean when it uses them: a row that  *)
(* was seen with a session still has one, a code that is bound was spent   *)
(* for that very row, and alone the row seen is the row.                   *)
(***************************************************************************)
EXTENDS BankConnection, TLAPS

\* The stages in which a request works with a row it read.
HoldsRow == {"check", "load", "ok"}

\* A row that was never linked has no session and no consent.
AbsentIsBlank ==
    \A k \in Conns : row[k].status = "absent" =>
        row[k].session = None /\ consent[k] = "none"

\* What a request knows of its code: one sent with its state belongs to the
\* row it is for, and from the exchange on its consent is spent.
CodeInHand ==
    \A r \in Requests :
        /\ pc[r] = "exchange" =>
             IF req[r].conn = None THEN req[r].code \in blind \cup {BadCode}
             ELSE req[r].code \in {req[r].conn, BadCode}
        /\ pc[r] = "failed" => req[r].conn \in Conns
        /\ pc[r] = "resolve" => req[r].code \in blind
        /\ pc[r] = "bind" =>
             /\ req[r].conn \in Conns /\ req[r].code \in Conns
             /\ req[r].code \in blind \cup {req[r].conn}

\* What a request knows of the row it read: the session it saw is still
\* there, and a row read as authorized had one.
RowInHand ==
    \A r \in Requests : pc[r] \in HoldsRow =>
        /\ req[r].conn \in Conns /\ req[r].seen \in Row
        /\ req[r].seen.status # "absent"
        /\ req[r].seen.status = "authorized" => req[r].seen.session # None
        /\ req[r].seen.session # None => row[req[r].conn].session # None
        /\ req[r].worker \/ pc[r] # "check" => req[r].seen.session # None

\* What the worker has listed can still be synced.
ListedHasSession ==
    \A r \in Requests : pc[r] \in Syncing =>
        \A k \in req[r].todo : row[k].session # None

\* A sync that is done has every account in the window it ended with.
LoadedInOneWindow ==
    \A r \in Requests : pc[r] = "ok" =>
        \A a \in Accounts : <<a, req[r].window>> \in req[r].got

\* raced is set as soon as two requests are in flight.
AloneUnlessRaced ==
    ~raced => \A r, q \in Requests : pc[r] # "idle" /\ pc[q] # "idle" => r = q

\* Alone, the row in hand is the row, and a code with a state is for a row
\* that is still linking.
InHandIsCurrentAlone ==
    ~raced => \A r \in Requests :
        /\ pc[r] \in HoldsRow => row[req[r].conn] = req[r].seen
        /\ pc[r] \in {"exchange", "failed"} /\ req[r].conn # None =>
             row[req[r].conn].status = "linking"

IInv ==
    /\ TypeOK /\ AbsentIsBlank
    /\ CodeInHand /\ RowInHand /\ ListedHasSession /\ LoadedInOneWindow
    /\ AloneUnlessRaced /\ InHandIsCurrentAlone
    /\ AuthorizedHasSession /\ SpentConsentIsStored /\ StatusTellsSessionAlone
-----------------------------------------------------------------------------
(* Type correctness *)

Req == [conn : Conns \cup {None}, code : Conns \cup {BadCode, None},
        seen : Row \cup {None}, worker : BOOLEAN, todo : SUBSET Conns,
        window : 1..Windows, got : SUBSET (Accounts \X (1..Windows))]

\* A request that has not begun is a request.
LEMMA NoReqType == NoReq \in Req
  BY ConnectionConstants DEF NoReq, Req

\* A request whose connection is found is a request.
LEMMA ReqFor ==
  ASSUME NEW q \in Req, NEW k \in Conns
  PROVE  [q EXCEPT !.conn = k] \in Req
  BY DEF Req

\* A status written by id gives a row.
LEMMA StatusType ==
  ASSUME TypeOK, NEW k \in Conns, NEW s \in Statuses
  PROVE  [row EXCEPT ![k].status = s] \in [Conns -> Row]
<1>1. [row[k] EXCEPT !.status = s] \in Row
  BY DEF TypeOK, Row
<1>2. QED
  BY <1>1 DEF TypeOK

\* The end of a request keeps the shape of the state.
LEMMA FinishType ==
  ASSUME TypeOK, NEW r \in Requests, Finish(r)
  PROVE  /\ pc' \in [Requests -> Stages] /\ req' \in [Requests -> Req]
         /\ lock' \in Requests \cup {None}
         /\ \A q \in Requests : lock' = q <=> pc'[q] \in Syncing
<1>1. pc' = [pc EXCEPT ![r] = "idle"] /\ req' = [req EXCEPT ![r] = NoReq]
      /\ lock' = (IF lock = r THEN None ELSE lock)
  BY DEF Finish, Goto
<1>2. \A q \in Requests : lock' = q <=> pc'[q] \in Syncing
  BY <1>1, ConnectionConstants DEF TypeOK, Syncing
<1>3. QED
  BY <1>1, <1>2, NoReqType DEF TypeOK, Stages, Req

\* So does the end of one connection's sync.
LEMMA EndSyncType ==
  ASSUME TypeOK, NEW r \in Requests, pc[r] \in HoldsRow, EndSync(r)
  PROVE  /\ pc' \in [Requests -> Stages] /\ req' \in [Requests -> Req]
         /\ lock' \in Requests \cup {None}
         /\ \A q \in Requests : lock' = q <=> pc'[q] \in Syncing
<1>1. CASE ~req[r].worker
  BY <1>1, FinishType DEF EndSync
<1>2. CASE req[r].worker
  <2>1. [NoReq EXCEPT !.worker = TRUE, !.todo = req[r].todo] \in Req
    BY NoReqType DEF TypeOK, Req
  <2>2. req' \in [Requests -> Req]
    BY <1>2, <2>1 DEF EndSync, TypeOK, Req
  <2>3. pc' = [pc EXCEPT ![r] = "next"] /\ lock' = lock
    BY <1>2 DEF EndSync, Goto
  <2>4. QED
    BY <2>2, <2>3 DEF TypeOK, Stages, Syncing, HoldsRow
<1>3. QED
  BY <1>1, <1>2

\* A code is valid only for its own connection.
LEMMA NoAnswerType ==
  ASSUME TypeOK, NEW r \in Requests, NoAnswer(r)
  PROVE  consent' \in [Conns -> Consents] /\ lost' \subseteq Conns
<1>1. CASE UNCHANGED <<consent, lost>>
  BY <1>1 DEF TypeOK
<1>2. CASE /\ Valid(req[r].code) /\ Spend(req[r].code)
           /\ lost' = lost \cup {req[r].code}
  BY <1>2 DEF Valid, Spend, Consents, TypeOK
<1>3. QED
  BY <1>1, <1>2 DEF NoAnswer

\* Every step keeps the shape of the state.
LEMMA TypeStep ==
  ASSUME TypeOK, CodeInHand, RowInHand, [Next]_vars
  PROVE  TypeOK'
<1> USE ConnectionConstants DEF TypeOK, Req, Stages, Syncing
<1>1. CASE UNCHANGED vars
  BY <1>1 DEF vars
<1>2. CASE Crash
  <2>1. lost' \subseteq Conns
    BY <1>2 DEF Crash, CodeInHand
  <2>2. QED
    BY <1>2, <2>1, NoReqType DEF Crash
<1>3. ASSUME NEW k \in Conns, StartLink(k) PROVE TypeOK'
  BY <1>3 DEF StartLink, Row, Statuses, Consents
<1>4. ASSUME NEW k \in Conns, BankDecides(k) PROVE TypeOK'
  BY <1>4 DEF BankDecides, Consents
<1>5. ASSUME NEW r \in Requests, NEW k \in Conns, NEW code \in {k, BadCode},
             AuthorizeWithState(r, k, code)
      PROVE  TypeOK'
  <2>1. [NoReq EXCEPT !.conn = k, !.code = code] \in Req
    BY NoReqType
  <2>2. QED
    BY <1>5, <2>1 DEF AuthorizeWithState, Goto, Arrive
<1>6. ASSUME NEW r \in Requests, NEW code \in Conns \cup {BadCode},
             AuthorizeWithoutState(r, code)
      PROVE  TypeOK'
  <2>1. [NoReq EXCEPT !.code = code] \in Req
    BY NoReqType
  <2>2. QED
    BY <1>6, <2>1 DEF AuthorizeWithoutState, Goto, Arrive
<1>7. ASSUME NEW r \in Requests, Exchange(r) PROVE TypeOK'
  BY <1>7 DEF Exchange, Valid, Spend, Goto, Consents
<1>8. ASSUME NEW r \in Requests, ExchangeRefused(r) PROVE TypeOK'
  <2>1. consent' \in [Conns -> Consents] /\ lost' \subseteq Conns
    BY <1>8, NoAnswerType DEF ExchangeRefused
  <2>2. CASE req[r].conn = None
    BY <1>8, <2>1, <2>2, FinishType DEF ExchangeRefused
  <2>3. CASE req[r].conn # None
    BY <1>8, <2>1, <2>3 DEF ExchangeRefused, Goto
  <2>4. QED
    BY <2>2, <2>3
<1>9. ASSUME NEW r \in Requests, RecordFailedExchange(r) PROVE TypeOK'
  <2>1. CASE row' = row
    BY <1>9, <2>1, FinishType, StatusType DEF RecordFailedExchange, CodeInHand, Statuses
  <2>2. CASE row' = [row EXCEPT ![req[r].conn].status = "error"]
    BY <1>9, <2>2, FinishType, StatusType DEF RecordFailedExchange, CodeInHand, Statuses
  <2>3. QED
    BY <1>9, <2>1, <2>2 DEF RecordFailedExchange
<1>10. ASSUME NEW r \in Requests, Resolve(r) PROVE TypeOK'
  <2>1. CASE Cardinality(Linking) = 1
    <3>1. PICK k \in Conns : req' = [req EXCEPT ![r].conn = k]
      BY <1>10, <2>1 DEF Resolve, Linking
    <3>2. req \in [Requests -> Req] /\ req[r] \in Req
      BY DEF TypeOK
    <3> HIDE DEF Req
    <3>3. req' \in [Requests -> Req]
      BY <3>1, <3>2, ReqFor
    <3>4. UNCHANGED <<row, consent, lock, crashes, raced, lost, blind>> /\ Goto(r, "bind")
      BY <1>10, <2>1 DEF Resolve
    <3>5. pc[r] = "resolve"
      BY <1>10 DEF Resolve
    <3>6. QED
      BY <3>3, <3>4, <3>5 DEF Goto, Req
  <2>2. CASE Cardinality(Linking) # 1
    BY <1>10, <2>2, FinishType DEF Resolve, Drop, CodeInHand
  <2>3. QED
    BY <2>1, <2>2
<1>11. ASSUME NEW r \in Requests, Bind(r) PROVE TypeOK'
  <2>1. row' \in [Conns -> Row]
    BY <1>11 DEF Bind, CodeInHand, Row, Statuses
  <2>2. QED
    BY <1>11, <2>1, FinishType DEF Bind
<1>12. ASSUME NEW r \in Requests, WorkerStart(r) PROVE TypeOK'
  <2>1. [NoReq EXCEPT !.worker = TRUE, !.todo = {k \in Conns : Eligible(k)}] \in Req
    BY NoReqType
  <2>2. QED
    BY <1>12, <2>1 DEF WorkerStart, Goto, Arrive
<1>13. ASSUME NEW r \in Requests, WorkerNext(r) PROVE TypeOK'
  <2>1. PICK k \in req[r].todo :
          req' = [req EXCEPT ![r].conn = k, ![r].seen = row[k], ![r].todo = @ \ {k}]
    BY <1>13 DEF WorkerNext
  <2>2. [req[r] EXCEPT !.conn = k, !.seen = row[k], !.todo = @ \ {k}] \in Req
    <3>1. k \in Conns /\ row[k] \in Row /\ req[r] \in Req
      OBVIOUS
    <3>2. QED
      BY <3>1
  <2>3. req' \in [Requests -> Req]
    BY <2>1, <2>2
  <2>4. QED
    BY <1>13, <2>3 DEF WorkerNext, Goto
<1>14. ASSUME NEW r \in Requests, WorkerEnd(r) PROVE TypeOK'
  BY <1>14, FinishType DEF WorkerEnd
<1>15. ASSUME NEW r \in Requests, NEW k \in Conns, SyncStart(r, k)
      PROVE  TypeOK'
  <2>1. [NoReq EXCEPT !.conn = k, !.seen = row[k]] \in Req
    BY NoReqType
  <2>2. QED
    BY <1>15, <2>1 DEF SyncStart, Goto, Arrive
<1>16. ASSUME NEW r \in Requests, SyncFails(r) PROVE TypeOK'
  <2>1. req[r].seen.status \in Statuses
    BY <1>16 DEF SyncFails, RowInHand, HoldsRow, Row
  <2>2. QED
    BY <1>16, <2>1, EndSyncType, StatusType DEF SyncFails, SetStatus, RowInHand,
             HoldsRow
<1>17. ASSUME NEW r \in Requests, ConsentEnded(r) PROVE TypeOK'
  BY <1>17, EndSyncType, StatusType
  DEF ConsentEnded, SetStatus, RowInHand, HoldsRow, Statuses
<1>18. ASSUME NEW r \in Requests, SessionActive(r) PROVE TypeOK'
  BY <1>18 DEF SessionActive, Goto
<1>19. ASSUME NEW r \in Requests, LoadAccount(r) PROVE TypeOK'
  <2>1. PICK a \in Accounts :
          /\ req' = [req EXCEPT ![r].got = @ \cup {<<a, req[r].window>>}]
          /\ Goto(r, IF Loaded(r) \cup {a} = Accounts THEN "ok" ELSE "load")
    BY <1>19 DEF LoadAccount
  <2>2. [req[r] EXCEPT !.got = @ \cup {<<a, req[r].window>>}] \in Req
    OBVIOUS
  <2>3. req' \in [Requests -> Req]
    BY <2>1, <2>2
  <2>4. QED
    BY <1>19, <2>1, <2>3 DEF LoadAccount, Goto
<1>20. ASSUME NEW r \in Requests, NarrowWindow(r) PROVE TypeOK'
  <2>1. [req[r] EXCEPT !.window = @ + 1] \in Req
    BY <1>20 DEF NarrowWindow
  <2>2. req' \in [Requests -> Req]
    BY <1>20, <2>1 DEF NarrowWindow
  <2>3. QED
    BY <1>20, <2>2 DEF NarrowWindow
<1>21. ASSUME NEW r \in Requests, SyncBreaks(r) PROVE TypeOK'
  <2>1. pc[r] \in HoldsRow /\ req[r].conn \in Conns /\ "authorized" \in Statuses
    BY <1>21 DEF SyncBreaks, RowInHand, HoldsRow, Statuses
  <2>2. EndSync(r) /\ row' \in [Conns -> Row]
    BY <1>21, <2>1, StatusType DEF SyncBreaks, SetStatus
  <2>3. QED
    BY <1>21, <2>1, <2>2, EndSyncType DEF SyncBreaks
<1>22. ASSUME NEW r \in Requests, SyncOk(r) PROVE TypeOK'
  BY <1>22, EndSyncType, StatusType
  DEF SyncOk, SetStatus, RowInHand, HoldsRow, Statuses
<1>23. ASSUME NEW r \in Requests, ExchangeUnanswered(r) PROVE TypeOK'
  BY <1>23, FinishType, NoAnswerType DEF ExchangeUnanswered
<1>24. ASSUME NEW r \in Requests, AuthorizeBreaks(r) PROVE TypeOK'
  BY <1>24, FinishType DEF AuthorizeBreaks, Drop, CodeInHand
<1>25. QED
  BY <1>1, <1>2, <1>3, <1>4, <1>5, <1>6, <1>7, <1>8, <1>9, <1>10, <1>11,
     <1>12, <1>13, <1>14, <1>15, <1>16, <1>17, <1>18, <1>19, <1>20, <1>21,
     <1>22, <1>23, <1>24 DEF Next, Authorize, Sync
-----------------------------------------------------------------------------
(* What requests have in hand *)

\* A code stays with the row it was sent for.
LEMMA CodeStep ==
  ASSUME TypeOK, CodeInHand, [Next]_vars
  PROVE  CodeInHand'
<1> USE ConnectionConstants DEF TypeOK, CodeInHand
<1>1. CASE UNCHANGED vars
  BY <1>1 DEF vars
<1>2. CASE Crash
  BY <1>2 DEF Crash, NoReq
<1>3. ASSUME NEW k \in Conns, StartLink(k) PROVE CodeInHand'
  BY <1>3 DEF StartLink
<1>4. ASSUME NEW k \in Conns, BankDecides(k) PROVE CodeInHand'
  BY <1>4 DEF BankDecides
<1>5. ASSUME NEW r \in Requests, NEW k \in Conns, NEW code \in {k, BadCode},
             AuthorizeWithState(r, k, code)
      PROVE  CodeInHand'
  BY <1>5 DEF AuthorizeWithState, NoReq, Goto, Arrive
<1>6. ASSUME NEW r \in Requests, NEW code \in Conns \cup {BadCode},
             AuthorizeWithoutState(r, code)
      PROVE  CodeInHand'
  BY <1>6 DEF AuthorizeWithoutState, NoReq, Goto, Arrive
<1>7. ASSUME NEW r \in Requests, Exchange(r) PROVE CodeInHand'
  BY <1>7 DEF Exchange, Valid, Spend, Goto
<1>8. ASSUME NEW r \in Requests, ExchangeRefused(r) PROVE CodeInHand'
  BY <1>8 DEF ExchangeRefused, NoAnswer, Valid, Spend, Finish, NoReq, Goto
<1>9. ASSUME NEW r \in Requests, RecordFailedExchange(r) PROVE CodeInHand'
  BY <1>9 DEF RecordFailedExchange, Finish, NoReq, Goto
<1>10. ASSUME NEW r \in Requests, Resolve(r) PROVE CodeInHand'
  BY <1>10 DEF Resolve, Linking, Drop, Finish, NoReq, Goto
<1>11. ASSUME NEW r \in Requests, Bind(r) PROVE CodeInHand'
  BY <1>11 DEF Bind, Finish, NoReq, Goto
<1>12. ASSUME NEW r \in Requests, WorkerStart(r) PROVE CodeInHand'
  BY <1>12 DEF WorkerStart, Eligible, NoReq, Goto, Arrive
<1>13. ASSUME NEW r \in Requests, WorkerNext(r) PROVE CodeInHand'
  BY <1>13 DEF WorkerNext, Goto
<1>14. ASSUME NEW r \in Requests, WorkerEnd(r) PROVE CodeInHand'
  BY <1>14 DEF WorkerEnd, Finish, NoReq, Goto
<1>15. ASSUME NEW r \in Requests, NEW k \in Conns, SyncStart(r, k)
      PROVE  CodeInHand'
  BY <1>15 DEF SyncStart, NoReq, Goto, Arrive
<1>16. ASSUME NEW r \in Requests, SyncFails(r) PROVE CodeInHand'
  BY <1>16 DEF SyncFails, SetStatus, EndSync, Finish, NoReq, Goto
<1>17. ASSUME NEW r \in Requests, ConsentEnded(r) PROVE CodeInHand'
  BY <1>17 DEF ConsentEnded, SetStatus, EndSync, Finish, NoReq, Goto
<1>18. ASSUME NEW r \in Requests, SessionActive(r) PROVE CodeInHand'
  BY <1>18 DEF SessionActive, Goto
<1>19. ASSUME NEW r \in Requests, LoadAccount(r) PROVE CodeInHand'
  BY <1>19 DEF LoadAccount, Loaded, Goto
<1>20. ASSUME NEW r \in Requests, NarrowWindow(r) PROVE CodeInHand'
  BY <1>20 DEF NarrowWindow
<1>21. ASSUME NEW r \in Requests, SyncBreaks(r) PROVE CodeInHand'
  BY <1>21 DEF SyncBreaks, SetStatus, EndSync, Finish, NoReq, Goto
<1>22. ASSUME NEW r \in Requests, SyncOk(r) PROVE CodeInHand'
  BY <1>22 DEF SyncOk, SetStatus, EndSync, Finish, NoReq, Goto
<1>23. ASSUME NEW r \in Requests, ExchangeUnanswered(r)
      PROVE  CodeInHand'
  BY <1>23 DEF ExchangeUnanswered, NoAnswer, Valid, Spend, Finish, NoReq, Goto
<1>24. ASSUME NEW r \in Requests, AuthorizeBreaks(r)
      PROVE  CodeInHand'
  BY <1>24 DEF AuthorizeBreaks, Drop, Finish, NoReq, Goto
<1>25. QED
  BY <1>1, <1>2, <1>3, <1>4, <1>5, <1>6, <1>7, <1>8, <1>9, <1>10, <1>11,
     <1>12, <1>13, <1>14, <1>15, <1>16, <1>17, <1>18, <1>19, <1>20, <1>21,
     <1>22, <1>23, <1>24 DEF Next, Authorize, Sync

\* Whatever a sync sets the status to, the sessions stay, and nobody else's
\* memory changes.
LEMMA SetStatusKeeps ==
  ASSUME TypeOK, RowInHand, ListedHasSession, AuthorizedHasSession,
         NEW r \in Requests, pc[r] \in HoldsRow, EndSync(r),
         NEW s \in Statuses, s = "authorized" => req[r].seen.session # None,
         row' \in {row, [row EXCEPT ![req[r].conn].status = s]}
  PROVE  RowInHand' /\ ListedHasSession' /\ AuthorizedHasSession'
<1>1. \A k \in Conns : row'[k].session = row[k].session
  BY DEF TypeOK, Row
<1>2. AuthorizedHasSession'
  BY <1>1 DEF AuthorizedHasSession, RowInHand, TypeOK, Row
<1>3. \A q \in Requests \ {r} : pc'[q] = pc[q] /\ req'[q] = req[q]
  BY DEF EndSync, Finish, Goto, TypeOK
<1>4. pc'[r] = "idle" \/ (pc'[r] = "next" /\ req'[r].todo = req[r].todo)
  <2>1. CASE ~req[r].worker
    BY <2>1 DEF EndSync, Finish, Goto, TypeOK
  <2>2. CASE req[r].worker
    <3>1. req' = [req EXCEPT ![r] = [NoReq EXCEPT !.worker = TRUE,
                                                  !.todo = req[r].todo]]
      BY <2>2 DEF EndSync
    <3>2. req'[r].todo = req[r].todo
      BY <3>1 DEF NoReq, TypeOK
    <3>3. QED
      BY <2>2, <3>2 DEF EndSync, Goto, TypeOK
  <2>3. QED
    BY <2>1, <2>2
<1>5. RowInHand'
  <2> SUFFICES ASSUME NEW q \in Requests, pc'[q] \in HoldsRow
               PROVE  pc'[q] = pc[q] /\ req'[q] = req[q] /\ q # r
    BY <1>1 DEF RowInHand
  <2>1. QED
    BY <1>3, <1>4 DEF HoldsRow
<1>6. ListedHasSession'
  <2> SUFFICES ASSUME NEW q \in Requests, pc'[q] \in Syncing, NEW k \in req'[q].todo
               PROVE  row'[k].session # None
    BY DEF ListedHasSession
  <2>1. pc[q] \in Syncing /\ k \in req[q].todo
    BY <1>3, <1>4 DEF HoldsRow, Syncing
  <2>2. k \in Conns /\ row[k].session # None
    BY <2>1 DEF ListedHasSession, TypeOK
  <2>3. QED
    BY <1>1, <2>2
<1>7. QED
  BY <1>2, <1>5, <1>6

\* A row is blank until it is linked, and linked rows are never absent again.
LEMMA BlankStep ==
  ASSUME TypeOK, AbsentIsBlank, CodeInHand, RowInHand, [Next]_vars
  PROVE  AbsentIsBlank'
<1> USE ConnectionConstants DEF TypeOK, AbsentIsBlank, CodeInHand, RowInHand, HoldsRow
<1>1. CASE UNCHANGED vars
  BY <1>1 DEF vars
<1>2. CASE Crash
  BY <1>2 DEF Crash, NoReq
<1>3. ASSUME NEW k \in Conns, StartLink(k) PROVE AbsentIsBlank'
  BY <1>3 DEF StartLink
<1>4. ASSUME NEW k \in Conns, BankDecides(k) PROVE AbsentIsBlank'
  BY <1>4 DEF BankDecides
<1>5. ASSUME NEW r \in Requests, NEW k \in Conns, NEW code \in {k, BadCode},
             AuthorizeWithState(r, k, code)
      PROVE  AbsentIsBlank'
  BY <1>5 DEF AuthorizeWithState, NoReq, Goto, Arrive
<1>6. ASSUME NEW r \in Requests, NEW code \in Conns \cup {BadCode},
             AuthorizeWithoutState(r, code)
      PROVE  AbsentIsBlank'
  BY <1>6 DEF AuthorizeWithoutState, NoReq, Goto, Arrive
<1>7. ASSUME NEW r \in Requests, Exchange(r) PROVE AbsentIsBlank'
  BY <1>7 DEF Exchange, Valid, Spend, Goto
<1>8. ASSUME NEW r \in Requests, ExchangeRefused(r) PROVE AbsentIsBlank'
  BY <1>8 DEF ExchangeRefused, NoAnswer, Valid, Spend, Finish, NoReq, Goto
<1>9. ASSUME NEW r \in Requests, RecordFailedExchange(r) PROVE AbsentIsBlank'
  <2>1. CASE row' = row
    BY <1>9, <2>1 DEF RecordFailedExchange, Finish, NoReq, Goto
  <2>2. CASE row' = [row EXCEPT ![req[r].conn].status = "error"]
    BY <1>9, <2>2 DEF RecordFailedExchange, Finish, NoReq, Goto
  <2>3. QED
    BY <1>9, <2>1, <2>2 DEF RecordFailedExchange
<1>10. ASSUME NEW r \in Requests, Resolve(r) PROVE AbsentIsBlank'
  BY <1>10 DEF Resolve, Linking, Drop, Finish, NoReq, Goto
<1>11. ASSUME NEW r \in Requests, Bind(r) PROVE AbsentIsBlank'
  BY <1>11 DEF Bind, Finish, NoReq, Goto
<1>12. ASSUME NEW r \in Requests, WorkerStart(r) PROVE AbsentIsBlank'
  BY <1>12 DEF WorkerStart, Eligible, NoReq, Goto, Arrive
<1>13. ASSUME NEW r \in Requests, WorkerNext(r) PROVE AbsentIsBlank'
  BY <1>13 DEF WorkerNext, Goto
<1>14. ASSUME NEW r \in Requests, WorkerEnd(r) PROVE AbsentIsBlank'
  BY <1>14 DEF WorkerEnd, Finish, NoReq, Goto
<1>15. ASSUME NEW r \in Requests, NEW k \in Conns, SyncStart(r, k)
      PROVE  AbsentIsBlank'
  BY <1>15 DEF SyncStart, NoReq, Goto, Arrive
<1>16. ASSUME NEW r \in Requests, SyncFails(r) PROVE AbsentIsBlank'
  BY <1>16 DEF SyncFails, SetStatus, EndSync, Finish, NoReq, Goto
<1>17. ASSUME NEW r \in Requests, ConsentEnded(r) PROVE AbsentIsBlank'
  BY <1>17 DEF ConsentEnded, SetStatus, EndSync, Finish, NoReq, Goto
<1>18. ASSUME NEW r \in Requests, SessionActive(r) PROVE AbsentIsBlank'
  BY <1>18 DEF SessionActive, Goto
<1>19. ASSUME NEW r \in Requests, LoadAccount(r) PROVE AbsentIsBlank'
  BY <1>19 DEF LoadAccount, Loaded, Goto
<1>20. ASSUME NEW r \in Requests, NarrowWindow(r) PROVE AbsentIsBlank'
  BY <1>20 DEF NarrowWindow
<1>21. ASSUME NEW r \in Requests, SyncBreaks(r) PROVE AbsentIsBlank'
  <2>1. CASE row' = row
    BY <1>21, <2>1 DEF SyncBreaks
  <2>2. CASE row' = [row EXCEPT ![req[r].conn].status = "authorized"]
    BY <1>21, <2>2 DEF SyncBreaks
  <2>3. QED
    BY <1>21, <2>1, <2>2 DEF SyncBreaks, SetStatus
<1>22. ASSUME NEW r \in Requests, SyncOk(r) PROVE AbsentIsBlank'
  BY <1>22 DEF SyncOk, SetStatus, EndSync, Finish, NoReq, Goto
<1>23. ASSUME NEW r \in Requests, ExchangeUnanswered(r)
      PROVE  AbsentIsBlank'
  BY <1>23 DEF ExchangeUnanswered, NoAnswer, Valid, Spend, Finish, NoReq, Goto
<1>24. ASSUME NEW r \in Requests, AuthorizeBreaks(r)
      PROVE  AbsentIsBlank'
  BY <1>24 DEF AuthorizeBreaks, Drop, Finish, NoReq, Goto
<1>25. QED
  BY <1>1, <1>2, <1>3, <1>4, <1>5, <1>6, <1>7, <1>8, <1>9, <1>10, <1>11,
     <1>12, <1>13, <1>14, <1>15, <1>16, <1>17, <1>18, <1>19, <1>20, <1>21,
     <1>22, <1>23, <1>24 DEF Next, Authorize, Sync

\* Only a session is ever called authorized, and none is taken back.
LEMMA SessionStep ==
  ASSUME TypeOK, AbsentIsBlank, CodeInHand, RowInHand, ListedHasSession,
         AuthorizedHasSession, [Next]_vars
  PROVE  RowInHand' /\ ListedHasSession' /\ AuthorizedHasSession'
<1> USE ConnectionConstants DEF TypeOK, AbsentIsBlank, CodeInHand, RowInHand,
            ListedHasSession, AuthorizedHasSession, HoldsRow, Syncing, Row
<1>1. CASE UNCHANGED vars
  BY <1>1 DEF vars
<1>2. CASE Crash
  BY <1>2 DEF Crash, NoReq
<1>3. ASSUME NEW k \in Conns, StartLink(k)
      PROVE  RowInHand' /\ ListedHasSession' /\ AuthorizedHasSession'
  BY <1>3 DEF StartLink
<1>4. ASSUME NEW k \in Conns, BankDecides(k)
      PROVE  RowInHand' /\ ListedHasSession' /\ AuthorizedHasSession'
  BY <1>4 DEF BankDecides
<1>5. ASSUME NEW r \in Requests, NEW k \in Conns, NEW code \in {k, BadCode},
             AuthorizeWithState(r, k, code)
      PROVE  RowInHand' /\ ListedHasSession' /\ AuthorizedHasSession'
  BY <1>5 DEF AuthorizeWithState, NoReq, Goto, Arrive
<1>6. ASSUME NEW r \in Requests, NEW code \in Conns \cup {BadCode},
             AuthorizeWithoutState(r, code)
      PROVE  RowInHand' /\ ListedHasSession' /\ AuthorizedHasSession'
  BY <1>6 DEF AuthorizeWithoutState, NoReq, Goto, Arrive
<1>7. ASSUME NEW r \in Requests, Exchange(r)
      PROVE  RowInHand' /\ ListedHasSession' /\ AuthorizedHasSession'
  BY <1>7 DEF Exchange, Valid, Spend, Goto
<1>8. ASSUME NEW r \in Requests, ExchangeRefused(r)
      PROVE  RowInHand' /\ ListedHasSession' /\ AuthorizedHasSession'
  BY <1>8 DEF ExchangeRefused, NoAnswer, Valid, Spend, Finish, NoReq, Goto
<1>9. ASSUME NEW r \in Requests, RecordFailedExchange(r)
      PROVE  RowInHand' /\ ListedHasSession' /\ AuthorizedHasSession'
  <2>1. CASE row' = row
    BY <1>9, <2>1 DEF RecordFailedExchange, Finish, NoReq, Goto
  <2>2. CASE row' = [row EXCEPT ![req[r].conn].status = "error"]
    BY <1>9, <2>2 DEF RecordFailedExchange, Finish, NoReq, Goto
  <2>3. QED
    BY <1>9, <2>1, <2>2 DEF RecordFailedExchange
<1>10. ASSUME NEW r \in Requests, Resolve(r)
      PROVE  RowInHand' /\ ListedHasSession' /\ AuthorizedHasSession'
  BY <1>10 DEF Resolve, Linking, Drop, Finish, NoReq, Goto
<1>11. ASSUME NEW r \in Requests, Bind(r)
      PROVE  RowInHand' /\ ListedHasSession' /\ AuthorizedHasSession'
  BY <1>11 DEF Bind, Finish, NoReq, Goto
<1>12. ASSUME NEW r \in Requests, WorkerStart(r)
      PROVE  RowInHand' /\ ListedHasSession' /\ AuthorizedHasSession'
  BY <1>12 DEF WorkerStart, Eligible, NoReq, Goto, Arrive
<1>13. ASSUME NEW r \in Requests, WorkerNext(r)
      PROVE  RowInHand' /\ ListedHasSession' /\ AuthorizedHasSession'
  BY <1>13 DEF WorkerNext, Goto
<1>14. ASSUME NEW r \in Requests, WorkerEnd(r)
      PROVE  RowInHand' /\ ListedHasSession' /\ AuthorizedHasSession'
  BY <1>14 DEF WorkerEnd, Finish, NoReq, Goto
<1>15. ASSUME NEW r \in Requests, NEW k \in Conns, SyncStart(r, k)
      PROVE  RowInHand' /\ ListedHasSession' /\ AuthorizedHasSession'
  BY <1>15 DEF SyncStart, NoReq, Goto, Arrive
<1>16. ASSUME NEW r \in Requests, SyncFails(r)
      PROVE  RowInHand' /\ ListedHasSession' /\ AuthorizedHasSession'
  BY <1>16, SetStatusKeeps DEF SyncFails, SetStatus
<1>17. ASSUME NEW r \in Requests, ConsentEnded(r)
      PROVE  RowInHand' /\ ListedHasSession' /\ AuthorizedHasSession'
  BY <1>17, SetStatusKeeps DEF ConsentEnded, SetStatus, Statuses
<1>18. ASSUME NEW r \in Requests, SessionActive(r)
      PROVE  RowInHand' /\ ListedHasSession' /\ AuthorizedHasSession'
  BY <1>18 DEF SessionActive, Goto
<1>19. ASSUME NEW r \in Requests, LoadAccount(r)
      PROVE  RowInHand' /\ ListedHasSession' /\ AuthorizedHasSession'
  BY <1>19 DEF LoadAccount, Loaded, Goto
<1>20. ASSUME NEW r \in Requests, NarrowWindow(r)
      PROVE  RowInHand' /\ ListedHasSession' /\ AuthorizedHasSession'
  BY <1>20 DEF NarrowWindow
<1>21. ASSUME NEW r \in Requests, SyncBreaks(r)
      PROVE  RowInHand' /\ ListedHasSession' /\ AuthorizedHasSession'
  <2>1. /\ pc[r] \in HoldsRow /\ EndSync(r)
        /\ row' = row \/ (req[r].worker /\ row' = [row EXCEPT ![req[r].conn].status = "authorized"])
    BY <1>21 DEF SyncBreaks, SetStatus
  <2>2. req[r].worker => req[r].seen.session # None
    BY <2>1
  <2>3. {"authorized", "error"} \subseteq Statuses
    BY DEF Statuses
  <2> HIDE DEF TypeOK, AbsentIsBlank, CodeInHand, RowInHand, ListedHasSession,
               AuthorizedHasSession, HoldsRow, Syncing, Row
  <2>4. CASE row' = row
    BY <2>1, <2>3, <2>4, SetStatusKeeps
  <2>5. CASE req[r].worker /\ row' = [row EXCEPT ![req[r].conn].status = "authorized"]
    BY <2>1, <2>2, <2>3, <2>5, SetStatusKeeps
  <2>6. QED
    BY <2>1, <2>4, <2>5
<1>22. ASSUME NEW r \in Requests, SyncOk(r)
      PROVE  RowInHand' /\ ListedHasSession' /\ AuthorizedHasSession'
  BY <1>22, SetStatusKeeps DEF SyncOk, SetStatus, Statuses
<1>23. ASSUME NEW r \in Requests, ExchangeUnanswered(r)
      PROVE  RowInHand' /\ ListedHasSession' /\ AuthorizedHasSession'
  BY <1>23 DEF ExchangeUnanswered, NoAnswer, Valid, Spend, Finish, NoReq, Goto
<1>24. ASSUME NEW r \in Requests, AuthorizeBreaks(r)
      PROVE  RowInHand' /\ ListedHasSession' /\ AuthorizedHasSession'
  BY <1>24 DEF AuthorizeBreaks, Drop, Finish, NoReq, Goto
<1> HIDE DEF TypeOK, AbsentIsBlank, CodeInHand, RowInHand, ListedHasSession,
             AuthorizedHasSession, HoldsRow, Syncing, Row
<1>25. QED
  BY <1>1, <1>2, <1>3, <1>4, <1>5, <1>6, <1>7, <1>8, <1>9, <1>10, <1>11,
     <1>12, <1>13, <1>14, <1>15, <1>16, <1>17, <1>18, <1>19, <1>20, <1>21,
     <1>22, <1>23, <1>24 DEF Next, Authorize, Sync

\* A sync is done when the last account of its window is.
LEMMA WindowStep ==
  ASSUME TypeOK, LoadedInOneWindow, [Next]_vars
  PROVE  LoadedInOneWindow'
<1>1. CASE UNCHANGED vars
  BY <1>1 DEF vars, TypeOK, LoadedInOneWindow
<1>2. CASE Crash
  BY <1>2 DEF Crash, NoReq, TypeOK, LoadedInOneWindow
<1>3. ASSUME NEW k \in Conns, StartLink(k) PROVE LoadedInOneWindow'
  BY <1>3 DEF StartLink, TypeOK, LoadedInOneWindow
<1>4. ASSUME NEW k \in Conns, BankDecides(k) PROVE LoadedInOneWindow'
  BY <1>4 DEF BankDecides, TypeOK, LoadedInOneWindow
<1>5. ASSUME NEW r \in Requests, NEW k \in Conns, NEW code \in {k, BadCode},
             AuthorizeWithState(r, k, code)
      PROVE  LoadedInOneWindow'
  BY <1>5 DEF AuthorizeWithState, NoReq, Goto, Arrive, TypeOK, LoadedInOneWindow
<1>6. ASSUME NEW r \in Requests, NEW code \in Conns \cup {BadCode},
             AuthorizeWithoutState(r, code)
      PROVE  LoadedInOneWindow'
  BY <1>6 DEF AuthorizeWithoutState, NoReq, Goto, Arrive, TypeOK, LoadedInOneWindow
<1>7. ASSUME NEW r \in Requests, Exchange(r) PROVE LoadedInOneWindow'
  BY <1>7 DEF Exchange, Valid, Spend, Goto, TypeOK, LoadedInOneWindow
<1>8. ASSUME NEW r \in Requests, ExchangeRefused(r) PROVE LoadedInOneWindow'
  BY <1>8 DEF ExchangeRefused, NoAnswer, Valid, Spend, Finish, NoReq, Goto, TypeOK,
           LoadedInOneWindow
<1>9. ASSUME NEW r \in Requests, RecordFailedExchange(r)
      PROVE  LoadedInOneWindow'
  BY <1>9 DEF RecordFailedExchange, Finish, NoReq, Goto, TypeOK, LoadedInOneWindow
<1>10. ASSUME NEW r \in Requests, Resolve(r) PROVE LoadedInOneWindow'
  BY <1>10 DEF Resolve, Linking, Drop, Finish, NoReq, Goto, TypeOK, LoadedInOneWindow
<1>11. ASSUME NEW r \in Requests, Bind(r) PROVE LoadedInOneWindow'
  BY <1>11 DEF Bind, Finish, NoReq, Goto, TypeOK, LoadedInOneWindow
<1>12. ASSUME NEW r \in Requests, WorkerStart(r) PROVE LoadedInOneWindow'
  BY <1>12 DEF WorkerStart, Eligible, NoReq, Goto, Arrive, TypeOK, LoadedInOneWindow
<1>13. ASSUME NEW r \in Requests, WorkerNext(r) PROVE LoadedInOneWindow'
  BY <1>13 DEF WorkerNext, Goto, TypeOK, LoadedInOneWindow
<1>14. ASSUME NEW r \in Requests, WorkerEnd(r) PROVE LoadedInOneWindow'
  BY <1>14 DEF WorkerEnd, Finish, NoReq, Goto, TypeOK, LoadedInOneWindow
<1>15. ASSUME NEW r \in Requests, NEW k \in Conns, SyncStart(r, k)
      PROVE  LoadedInOneWindow'
  BY <1>15 DEF SyncStart, NoReq, Goto, Arrive, TypeOK, LoadedInOneWindow
<1>16. ASSUME NEW r \in Requests, SyncFails(r) PROVE LoadedInOneWindow'
  BY <1>16 DEF SyncFails, SetStatus, EndSync, Finish, NoReq, Goto, TypeOK,
           LoadedInOneWindow
<1>17. ASSUME NEW r \in Requests, ConsentEnded(r) PROVE LoadedInOneWindow'
  BY <1>17 DEF ConsentEnded, SetStatus, EndSync, Finish, NoReq, Goto, TypeOK,
           LoadedInOneWindow
<1>18. ASSUME NEW r \in Requests, SessionActive(r) PROVE LoadedInOneWindow'
  BY <1>18 DEF SessionActive, Goto, TypeOK, LoadedInOneWindow
<1>19. ASSUME NEW r \in Requests, LoadAccount(r) PROVE LoadedInOneWindow'
  BY <1>19 DEF LoadAccount, Loaded, Goto, TypeOK, LoadedInOneWindow
<1>20. ASSUME NEW r \in Requests, NarrowWindow(r) PROVE LoadedInOneWindow'
  BY <1>20 DEF NarrowWindow, TypeOK, LoadedInOneWindow
<1>21. ASSUME NEW r \in Requests, SyncBreaks(r) PROVE LoadedInOneWindow'
  BY <1>21 DEF SyncBreaks, SetStatus, EndSync, Finish, NoReq, Goto, TypeOK,
           LoadedInOneWindow
<1>22. ASSUME NEW r \in Requests, SyncOk(r) PROVE LoadedInOneWindow'
  BY <1>22 DEF SyncOk, SetStatus, EndSync, Finish, NoReq, Goto, TypeOK,
           LoadedInOneWindow
<1>23. ASSUME NEW r \in Requests, ExchangeUnanswered(r)
      PROVE  LoadedInOneWindow'
  BY <1>23 DEF ExchangeUnanswered, NoAnswer, Valid, Spend, Finish, NoReq, Goto, TypeOK,
           LoadedInOneWindow
<1>24. ASSUME NEW r \in Requests, AuthorizeBreaks(r)
      PROVE  LoadedInOneWindow'
  BY <1>24 DEF AuthorizeBreaks, Drop, Finish, NoReq, Goto, TypeOK, LoadedInOneWindow
<1>25. QED
  BY <1>1, <1>2, <1>3, <1>4, <1>5, <1>6, <1>7, <1>8, <1>9, <1>10, <1>11,
     <1>12, <1>13, <1>14, <1>15, <1>16, <1>17, <1>18, <1>19, <1>20, <1>21,
     <1>22, <1>23, <1>24 DEF Next, Authorize, Sync

\* Overlaps are noted.
LEMMA RacedStep ==
  ASSUME TypeOK, AloneUnlessRaced, [Next]_vars
  PROVE  AloneUnlessRaced'
<1> USE ConnectionConstants DEF TypeOK, AloneUnlessRaced
<1>1. CASE UNCHANGED vars
  BY <1>1 DEF vars
<1>2. CASE Crash
  BY <1>2 DEF Crash, NoReq
<1>3. ASSUME NEW k \in Conns, StartLink(k) PROVE AloneUnlessRaced'
  BY <1>3 DEF StartLink
<1>4. ASSUME NEW k \in Conns, BankDecides(k) PROVE AloneUnlessRaced'
  BY <1>4 DEF BankDecides
<1>5. ASSUME NEW r \in Requests, NEW k \in Conns, NEW code \in {k, BadCode},
             AuthorizeWithState(r, k, code)
      PROVE  AloneUnlessRaced'
  BY <1>5 DEF AuthorizeWithState, NoReq, Goto, Arrive
<1>6. ASSUME NEW r \in Requests, NEW code \in Conns \cup {BadCode},
             AuthorizeWithoutState(r, code)
      PROVE  AloneUnlessRaced'
  BY <1>6 DEF AuthorizeWithoutState, NoReq, Goto, Arrive
<1>7. ASSUME NEW r \in Requests, Exchange(r) PROVE AloneUnlessRaced'
  BY <1>7 DEF Exchange, Valid, Spend, Goto
<1>8. ASSUME NEW r \in Requests, ExchangeRefused(r) PROVE AloneUnlessRaced'
  BY <1>8 DEF ExchangeRefused, NoAnswer, Valid, Spend, Finish, NoReq, Goto
<1>9. ASSUME NEW r \in Requests, RecordFailedExchange(r)
      PROVE  AloneUnlessRaced'
  BY <1>9 DEF RecordFailedExchange, Finish, NoReq, Goto
<1>10. ASSUME NEW r \in Requests, Resolve(r) PROVE AloneUnlessRaced'
  BY <1>10 DEF Resolve, Linking, Drop, Finish, NoReq, Goto
<1>11. ASSUME NEW r \in Requests, Bind(r) PROVE AloneUnlessRaced'
  BY <1>11 DEF Bind, Finish, NoReq, Goto
<1>12. ASSUME NEW r \in Requests, WorkerStart(r) PROVE AloneUnlessRaced'
  BY <1>12 DEF WorkerStart, Eligible, NoReq, Goto, Arrive
<1>13. ASSUME NEW r \in Requests, WorkerNext(r) PROVE AloneUnlessRaced'
  BY <1>13 DEF WorkerNext, Goto
<1>14. ASSUME NEW r \in Requests, WorkerEnd(r) PROVE AloneUnlessRaced'
  BY <1>14 DEF WorkerEnd, Finish, NoReq, Goto
<1>15. ASSUME NEW r \in Requests, NEW k \in Conns, SyncStart(r, k)
      PROVE  AloneUnlessRaced'
  BY <1>15 DEF SyncStart, NoReq, Goto, Arrive
<1>16. ASSUME NEW r \in Requests, SyncFails(r) PROVE AloneUnlessRaced'
  BY <1>16 DEF SyncFails, SetStatus, EndSync, Finish, NoReq, Goto
<1>17. ASSUME NEW r \in Requests, ConsentEnded(r) PROVE AloneUnlessRaced'
  BY <1>17 DEF ConsentEnded, SetStatus, EndSync, Finish, NoReq, Goto
<1>18. ASSUME NEW r \in Requests, SessionActive(r) PROVE AloneUnlessRaced'
  BY <1>18 DEF SessionActive, Goto
<1>19. ASSUME NEW r \in Requests, LoadAccount(r) PROVE AloneUnlessRaced'
  BY <1>19 DEF LoadAccount, Loaded, Goto
<1>20. ASSUME NEW r \in Requests, NarrowWindow(r) PROVE AloneUnlessRaced'
  BY <1>20 DEF NarrowWindow
<1>21. ASSUME NEW r \in Requests, SyncBreaks(r) PROVE AloneUnlessRaced'
  BY <1>21 DEF SyncBreaks, SetStatus, EndSync, Finish, NoReq, Goto
<1>22. ASSUME NEW r \in Requests, SyncOk(r) PROVE AloneUnlessRaced'
  BY <1>22 DEF SyncOk, SetStatus, EndSync, Finish, NoReq, Goto
<1>23. ASSUME NEW r \in Requests, ExchangeUnanswered(r)
      PROVE  AloneUnlessRaced'
  BY <1>23 DEF ExchangeUnanswered, NoAnswer, Valid, Spend, Finish, NoReq, Goto
<1>24. ASSUME NEW r \in Requests, AuthorizeBreaks(r)
      PROVE  AloneUnlessRaced'
  BY <1>24 DEF AuthorizeBreaks, Drop, Finish, NoReq, Goto
<1>25. QED
  BY <1>1, <1>2, <1>3, <1>4, <1>5, <1>6, <1>7, <1>8, <1>9, <1>10, <1>11,
     <1>12, <1>13, <1>14, <1>15, <1>16, <1>17, <1>18, <1>19, <1>20, <1>21,
     <1>22, <1>23, <1>24 DEF Next, Authorize, Sync
-----------------------------------------------------------------------------
(* Sessions that were paid for, and requests that do not overlap *)

\* A consent is spent on the way to its row.
LEMMA SpentStep ==
  ASSUME TypeOK, AbsentIsBlank, CodeInHand, RowInHand, SpentConsentIsStored, [Next]_vars
  PROVE  SpentConsentIsStored'
<1> USE ConnectionConstants DEF TypeOK, AbsentIsBlank, CodeInHand, RowInHand,
            SpentConsentIsStored, HoldsRow
<1>1. CASE UNCHANGED vars
  BY <1>1 DEF vars
<1>2. CASE Crash
  BY <1>2 DEF Crash, NoReq
<1>3. ASSUME NEW k \in Conns, StartLink(k) PROVE SpentConsentIsStored'
  BY <1>3 DEF StartLink
<1>4. ASSUME NEW k \in Conns, BankDecides(k) PROVE SpentConsentIsStored'
  BY <1>4 DEF BankDecides
<1>5. ASSUME NEW r \in Requests, NEW k \in Conns, NEW code \in {k, BadCode},
             AuthorizeWithState(r, k, code)
      PROVE  SpentConsentIsStored'
  BY <1>5 DEF AuthorizeWithState, NoReq, Goto, Arrive
<1>6. ASSUME NEW r \in Requests, NEW code \in Conns \cup {BadCode},
             AuthorizeWithoutState(r, code)
      PROVE  SpentConsentIsStored'
  BY <1>6 DEF AuthorizeWithoutState, NoReq, Goto, Arrive
<1>7. ASSUME NEW r \in Requests, Exchange(r) PROVE SpentConsentIsStored'
  BY <1>7 DEF Exchange, Valid, Spend, Goto
<1>8. ASSUME NEW r \in Requests, ExchangeRefused(r) PROVE SpentConsentIsStored'
  BY <1>8 DEF ExchangeRefused, NoAnswer, Valid, Spend, Finish, NoReq, Goto
<1>9. ASSUME NEW r \in Requests, RecordFailedExchange(r)
      PROVE  SpentConsentIsStored'
  <2>1. CASE row' = row
    BY <1>9, <2>1 DEF RecordFailedExchange, Finish, NoReq, Goto
  <2>2. CASE row' = [row EXCEPT ![req[r].conn].status = "error"]
    BY <1>9, <2>2 DEF RecordFailedExchange, Finish, NoReq, Goto
  <2>3. QED
    BY <1>9, <2>1, <2>2 DEF RecordFailedExchange
<1>10. ASSUME NEW r \in Requests, Resolve(r) PROVE SpentConsentIsStored'
  BY <1>10 DEF Resolve, Linking, Drop, Finish, NoReq, Goto
<1>11. ASSUME NEW r \in Requests, Bind(r) PROVE SpentConsentIsStored'
  BY <1>11 DEF Bind, Finish, NoReq, Goto
<1>12. ASSUME NEW r \in Requests, WorkerStart(r) PROVE SpentConsentIsStored'
  BY <1>12 DEF WorkerStart, Eligible, NoReq, Goto, Arrive
<1>13. ASSUME NEW r \in Requests, WorkerNext(r) PROVE SpentConsentIsStored'
  BY <1>13 DEF WorkerNext, Goto
<1>14. ASSUME NEW r \in Requests, WorkerEnd(r) PROVE SpentConsentIsStored'
  BY <1>14 DEF WorkerEnd, Finish, NoReq, Goto
<1>15. ASSUME NEW r \in Requests, NEW k \in Conns, SyncStart(r, k)
      PROVE  SpentConsentIsStored'
  BY <1>15 DEF SyncStart, NoReq, Goto, Arrive
<1>16. ASSUME NEW r \in Requests, SyncFails(r) PROVE SpentConsentIsStored'
  BY <1>16 DEF SyncFails, SetStatus, EndSync, Finish, NoReq, Goto
<1>17. ASSUME NEW r \in Requests, ConsentEnded(r) PROVE SpentConsentIsStored'
  BY <1>17 DEF ConsentEnded, SetStatus, EndSync, Finish, NoReq, Goto
<1>18. ASSUME NEW r \in Requests, SessionActive(r) PROVE SpentConsentIsStored'
  BY <1>18 DEF SessionActive, Goto
<1>19. ASSUME NEW r \in Requests, LoadAccount(r) PROVE SpentConsentIsStored'
  BY <1>19 DEF LoadAccount, Loaded, Goto
<1>20. ASSUME NEW r \in Requests, NarrowWindow(r) PROVE SpentConsentIsStored'
  BY <1>20 DEF NarrowWindow
<1>21. ASSUME NEW r \in Requests, SyncBreaks(r) PROVE SpentConsentIsStored'
  <2>1. \A k \in Conns : row'[k].session = row[k].session
    BY <1>21 DEF SyncBreaks, SetStatus, Row
  <2>2. \A q \in Requests : pc[q] = "bind" => pc'[q] = "bind" /\ req'[q] = req[q]
    BY <1>21 DEF SyncBreaks, SetStatus, EndSync, Finish, Goto
  <2>3. QED
    BY <1>21, <2>1, <2>2 DEF SyncBreaks
<1>22. ASSUME NEW r \in Requests, SyncOk(r) PROVE SpentConsentIsStored'
  BY <1>22 DEF SyncOk, SetStatus, EndSync, Finish, NoReq, Goto
<1>23. ASSUME NEW r \in Requests, ExchangeUnanswered(r)
      PROVE  SpentConsentIsStored'
  BY <1>23 DEF ExchangeUnanswered, NoAnswer, Valid, Spend, Finish, NoReq, Goto
<1>24. ASSUME NEW r \in Requests, AuthorizeBreaks(r)
      PROVE  SpentConsentIsStored'
  BY <1>24 DEF AuthorizeBreaks, Drop, Finish, NoReq, Goto
<1>25. QED
  BY <1>1, <1>2, <1>3, <1>4, <1>5, <1>6, <1>7, <1>8, <1>9, <1>10, <1>11,
     <1>12, <1>13, <1>14, <1>15, <1>16, <1>17, <1>18, <1>19, <1>20, <1>21,
     <1>22, <1>23, <1>24 DEF Next, Authorize, Sync

\* Alone, nobody else touches the row in hand.
LEMMA CurrentStep ==
  ASSUME TypeOK, AbsentIsBlank, CodeInHand, RowInHand, AloneUnlessRaced,
         InHandIsCurrentAlone, [Next]_vars
  PROVE  InHandIsCurrentAlone'
<1> USE ConnectionConstants DEF TypeOK, AbsentIsBlank, CodeInHand, RowInHand,
            AloneUnlessRaced, InHandIsCurrentAlone, HoldsRow
<1>1. CASE UNCHANGED vars
  BY <1>1 DEF vars
<1>2. CASE Crash
  BY <1>2 DEF Crash, NoReq
<1>3. ASSUME NEW k \in Conns, StartLink(k) PROVE InHandIsCurrentAlone'
  BY <1>3 DEF StartLink
<1>4. ASSUME NEW k \in Conns, BankDecides(k) PROVE InHandIsCurrentAlone'
  BY <1>4 DEF BankDecides
<1>5. ASSUME NEW r \in Requests, NEW k \in Conns, NEW code \in {k, BadCode},
             AuthorizeWithState(r, k, code)
      PROVE  InHandIsCurrentAlone'
  BY <1>5 DEF AuthorizeWithState, NoReq, Goto, Arrive
<1>6. ASSUME NEW r \in Requests, NEW code \in Conns \cup {BadCode},
             AuthorizeWithoutState(r, code)
      PROVE  InHandIsCurrentAlone'
  BY <1>6 DEF AuthorizeWithoutState, NoReq, Goto, Arrive
<1>7. ASSUME NEW r \in Requests, Exchange(r) PROVE InHandIsCurrentAlone'
  BY <1>7 DEF Exchange, Valid, Spend, Goto
<1>8. ASSUME NEW r \in Requests, ExchangeRefused(r) PROVE InHandIsCurrentAlone'
  BY <1>8 DEF ExchangeRefused, NoAnswer, Valid, Spend, Finish, NoReq, Goto
<1>9. ASSUME NEW r \in Requests, RecordFailedExchange(r)
      PROVE  InHandIsCurrentAlone'
  BY <1>9 DEF RecordFailedExchange, Finish, NoReq, Goto
<1>10. ASSUME NEW r \in Requests, Resolve(r) PROVE InHandIsCurrentAlone'
  BY <1>10 DEF Resolve, Linking, Drop, Finish, NoReq, Goto
<1>11. ASSUME NEW r \in Requests, Bind(r) PROVE InHandIsCurrentAlone'
  BY <1>11 DEF Bind, Finish, NoReq, Goto
<1>12. ASSUME NEW r \in Requests, WorkerStart(r) PROVE InHandIsCurrentAlone'
  BY <1>12 DEF WorkerStart, Eligible, NoReq, Goto, Arrive
<1>13. ASSUME NEW r \in Requests, WorkerNext(r) PROVE InHandIsCurrentAlone'
  BY <1>13 DEF WorkerNext, Goto
<1>14. ASSUME NEW r \in Requests, WorkerEnd(r) PROVE InHandIsCurrentAlone'
  BY <1>14 DEF WorkerEnd, Finish, NoReq, Goto
<1>15. ASSUME NEW r \in Requests, NEW k \in Conns, SyncStart(r, k)
      PROVE  InHandIsCurrentAlone'
  BY <1>15 DEF SyncStart, NoReq, Goto, Arrive
<1>16. ASSUME NEW r \in Requests, SyncFails(r) PROVE InHandIsCurrentAlone'
  BY <1>16 DEF SyncFails, SetStatus, EndSync, Finish, NoReq, Goto
<1>17. ASSUME NEW r \in Requests, ConsentEnded(r) PROVE InHandIsCurrentAlone'
  BY <1>17 DEF ConsentEnded, SetStatus, EndSync, Finish, NoReq, Goto
<1>18. ASSUME NEW r \in Requests, SessionActive(r) PROVE InHandIsCurrentAlone'
  BY <1>18 DEF SessionActive, Goto
<1>19. ASSUME NEW r \in Requests, LoadAccount(r) PROVE InHandIsCurrentAlone'
  BY <1>19 DEF LoadAccount, Loaded, Goto
<1>20. ASSUME NEW r \in Requests, NarrowWindow(r) PROVE InHandIsCurrentAlone'
  BY <1>20 DEF NarrowWindow
<1>21. ASSUME NEW r \in Requests, SyncBreaks(r) PROVE InHandIsCurrentAlone'
  BY <1>21 DEF SyncBreaks, SetStatus, EndSync, Finish, NoReq, Goto
<1>22. ASSUME NEW r \in Requests, SyncOk(r) PROVE InHandIsCurrentAlone'
  BY <1>22 DEF SyncOk, SetStatus, EndSync, Finish, NoReq, Goto
<1>23. ASSUME NEW r \in Requests, ExchangeUnanswered(r)
      PROVE  InHandIsCurrentAlone'
  BY <1>23 DEF ExchangeUnanswered, NoAnswer, Valid, Spend, Finish, NoReq, Goto
<1>24. ASSUME NEW r \in Requests, AuthorizeBreaks(r)
      PROVE  InHandIsCurrentAlone'
  BY <1>24 DEF AuthorizeBreaks, Drop, Finish, NoReq, Goto
<1> HIDE DEF TypeOK, AbsentIsBlank, CodeInHand, RowInHand, AloneUnlessRaced, HoldsRow
<1>25. QED
  BY <1>1, <1>2, <1>3, <1>4, <1>5, <1>6, <1>7, <1>8, <1>9, <1>10, <1>11,
     <1>12, <1>13, <1>14, <1>15, <1>16, <1>17, <1>18, <1>19, <1>20, <1>21,
     <1>22, <1>23, <1>24 DEF Next, Authorize, Sync

\* Alone, every update keeps the status in step with the session.
LEMMA TruthStep ==
  ASSUME TypeOK, AbsentIsBlank, CodeInHand, RowInHand, AloneUnlessRaced,
         InHandIsCurrentAlone, StatusTellsSessionAlone, [Next]_vars
  PROVE  StatusTellsSessionAlone'
<1> USE ConnectionConstants DEF TypeOK, AbsentIsBlank, CodeInHand, RowInHand,
            AloneUnlessRaced, InHandIsCurrentAlone, StatusTellsSessionAlone, HoldsRow
<1>1. CASE UNCHANGED vars
  BY <1>1 DEF vars
<1>2. CASE Crash
  BY <1>2 DEF Crash, NoReq
<1>3. ASSUME NEW k \in Conns, StartLink(k) PROVE StatusTellsSessionAlone'
  BY <1>3 DEF StartLink
<1>4. ASSUME NEW k \in Conns, BankDecides(k) PROVE StatusTellsSessionAlone'
  BY <1>4 DEF BankDecides
<1>5. ASSUME NEW r \in Requests, NEW k \in Conns, NEW code \in {k, BadCode},
             AuthorizeWithState(r, k, code)
      PROVE  StatusTellsSessionAlone'
  BY <1>5 DEF AuthorizeWithState, NoReq, Goto, Arrive
<1>6. ASSUME NEW r \in Requests, NEW code \in Conns \cup {BadCode},
             AuthorizeWithoutState(r, code)
      PROVE  StatusTellsSessionAlone'
  BY <1>6 DEF AuthorizeWithoutState, NoReq, Goto, Arrive
<1>7. ASSUME NEW r \in Requests, Exchange(r) PROVE StatusTellsSessionAlone'
  BY <1>7 DEF Exchange, Valid, Spend, Goto
<1>8. ASSUME NEW r \in Requests, ExchangeRefused(r)
      PROVE  StatusTellsSessionAlone'
  BY <1>8 DEF ExchangeRefused, NoAnswer, Valid, Spend, Finish, NoReq, Goto
<1>9. ASSUME NEW r \in Requests, RecordFailedExchange(r)
      PROVE  StatusTellsSessionAlone'
  <2>1. CASE row' = row
    BY <1>9, <2>1 DEF RecordFailedExchange, Finish, NoReq, Goto
  <2>2. CASE row' = [row EXCEPT ![req[r].conn].status = "error"]
    BY <1>9, <2>2 DEF RecordFailedExchange, Finish, NoReq, Goto
  <2>3. QED
    BY <1>9, <2>1, <2>2 DEF RecordFailedExchange
<1>10. ASSUME NEW r \in Requests, Resolve(r) PROVE StatusTellsSessionAlone'
  BY <1>10 DEF Resolve, Linking, Drop, Finish, NoReq, Goto
<1>11. ASSUME NEW r \in Requests, Bind(r) PROVE StatusTellsSessionAlone'
  BY <1>11 DEF Bind, Finish, NoReq, Goto
<1>12. ASSUME NEW r \in Requests, WorkerStart(r)
      PROVE  StatusTellsSessionAlone'
  BY <1>12 DEF WorkerStart, Eligible, NoReq, Goto, Arrive
<1>13. ASSUME NEW r \in Requests, WorkerNext(r) PROVE StatusTellsSessionAlone'
  BY <1>13 DEF WorkerNext, Goto
<1>14. ASSUME NEW r \in Requests, WorkerEnd(r) PROVE StatusTellsSessionAlone'
  BY <1>14 DEF WorkerEnd, Finish, NoReq, Goto
<1>15. ASSUME NEW r \in Requests, NEW k \in Conns, SyncStart(r, k)
      PROVE  StatusTellsSessionAlone'
  BY <1>15 DEF SyncStart, NoReq, Goto, Arrive
<1>16. ASSUME NEW r \in Requests, SyncFails(r) PROVE StatusTellsSessionAlone'
  BY <1>16 DEF SyncFails, SetStatus, EndSync, Finish, NoReq, Goto
<1>17. ASSUME NEW r \in Requests, ConsentEnded(r)
      PROVE  StatusTellsSessionAlone'
  BY <1>17 DEF ConsentEnded, SetStatus, EndSync, Finish, NoReq, Goto
<1>18. ASSUME NEW r \in Requests, SessionActive(r)
      PROVE  StatusTellsSessionAlone'
  BY <1>18 DEF SessionActive, Goto
<1>19. ASSUME NEW r \in Requests, LoadAccount(r)
      PROVE  StatusTellsSessionAlone'
  BY <1>19 DEF LoadAccount, Loaded, Goto
<1>20. ASSUME NEW r \in Requests, NarrowWindow(r)
      PROVE  StatusTellsSessionAlone'
  BY <1>20 DEF NarrowWindow
<1>21. ASSUME NEW r \in Requests, SyncBreaks(r) PROVE StatusTellsSessionAlone'
  <2>1. CASE row' = row
    BY <1>21, <2>1 DEF SyncBreaks
  <2>2. CASE req[r].worker /\ row' = [row EXCEPT ![req[r].conn].status = "authorized"]
    <3>1. ~raced => row[req[r].conn].session # None
      BY <1>21, <2>2 DEF SyncBreaks
    <3>2. QED
      BY <1>21, <2>2, <3>1 DEF SyncBreaks, Row
  <2>3. QED
    BY <1>21, <2>1, <2>2 DEF SyncBreaks, SetStatus
<1>22. ASSUME NEW r \in Requests, SyncOk(r) PROVE StatusTellsSessionAlone'
  BY <1>22 DEF SyncOk, SetStatus, EndSync, Finish, NoReq, Goto
<1>23. ASSUME NEW r \in Requests, ExchangeUnanswered(r)
      PROVE  StatusTellsSessionAlone'
  BY <1>23 DEF ExchangeUnanswered, NoAnswer, Valid, Spend, Finish, NoReq, Goto
<1>24. ASSUME NEW r \in Requests, AuthorizeBreaks(r)
      PROVE  StatusTellsSessionAlone'
  BY <1>24 DEF AuthorizeBreaks, Drop, Finish, NoReq, Goto
<1>25. QED
  BY <1>1, <1>2, <1>3, <1>4, <1>5, <1>6, <1>7, <1>8, <1>9, <1>10, <1>11,
     <1>12, <1>13, <1>14, <1>15, <1>16, <1>17, <1>18, <1>19, <1>20, <1>21,
     <1>22, <1>23, <1>24 DEF Next, Authorize, Sync

-----------------------------------------------------------------------------
(* The theorems *)

\* The initial state satisfies the invariant.
LEMMA InitInvariant == Init => IInv
<1> SUFFICES ASSUME Init PROVE IInv
  OBVIOUS
<1>1. TypeOK
  <2>1. row \in [Conns -> Row]
    <3>1. [status |-> "absent", state |-> FALSE, session |-> None] \in Row
      BY DEF Row, Statuses
    <3>2. QED
      BY <3>1 DEF Init
  <2>2. req \in [Requests -> Req]
    BY NoReqType DEF Init
  <2>3. pc \in [Requests -> Stages] /\ consent \in [Conns -> Consents]
    BY DEF Init, Stages, Syncing, Consents
  <2>4. lock \in Requests \cup {None} /\ \A r \in Requests : lock = r <=> pc[r] \in Syncing
    BY ConnectionConstants DEF Init, Syncing
  <2>5. /\ crashes \in Nat
        /\ raced \in BOOLEAN /\ lost \subseteq Conns /\ blind \subseteq Conns
    BY DEF Init
  <2>6. QED
    BY <2>1, <2>2, <2>3, <2>4, <2>5 DEF TypeOK, Req
<1>2. AbsentIsBlank /\ AuthorizedHasSession /\ SpentConsentIsStored
      /\ StatusTellsSessionAlone
  BY DEF Init, AbsentIsBlank, AuthorizedHasSession, SpentConsentIsStored,
         StatusTellsSessionAlone
<1>3. CodeInHand /\ RowInHand /\ ListedHasSession /\ LoadedInOneWindow
      /\ AloneUnlessRaced /\ InHandIsCurrentAlone
  BY DEF Init, CodeInHand, RowInHand, HoldsRow, Syncing, ListedHasSession,
         LoadedInOneWindow, AloneUnlessRaced, InHandIsCurrentAlone
<1>4. QED
  BY <1>1, <1>2, <1>3 DEF IInv

\* Every step preserves the invariant.
LEMMA InvariantStep == IInv /\ [Next]_vars => IInv'
  BY TypeStep, CodeStep, BlankStep, SessionStep, WindowStep, RacedStep, SpentStep,
     CurrentStep, TruthStep
  DEF IInv

\* IInv is an invariant of the connections.
THEOREM Invariance == Spec => []IInv
  BY InitInvariant, InvariantStep, PTL DEF Spec

\* The state keeps its shape, and only a sync holds refresh.lock.
THEOREM TypeCorrect == Spec => []TypeOK
<1>1. IInv => TypeOK
  BY DEF IInv
<1>2. QED
  BY <1>1, Invariance, PTL

\* No update by id, however stale the row it was decided on, calls a row
\* authorized that never got its session (record_sync_ok, record_error).
THEOREM AuthorizedIsSyncable == Spec => []AuthorizedHasSession
<1>1. IInv => AuthorizedHasSession
  BY DEF IInv
<1>2. QED
  BY <1>1, Invariance, PTL

\* What a single-use code bought is stored in the row that asked for it or about
\* to be, unless that session was itself lost, or its code or the one that took
\* the row over came without a state (authorize).
THEOREM SpentIsStored == Spec => []SpentConsentIsStored
<1>1. IInv => SpentConsentIsStored
  BY DEF IInv
<1>2. QED
  BY <1>1, Invariance, PTL

\* Requests that do not overlap keep the status in step with the session.
THEOREM StatusIsTruthful == Spec => []StatusTellsSessionAlone
<1>1. IInv => StatusTellsSessionAlone
  BY DEF IInv
<1>2. QED
  BY <1>1, Invariance, PTL

\* A sync that reports ok has every account for the window it ended with,
\* whatever windows WRONG_TRANSACTIONS_PERIOD refused.
THEOREM SyncIsComplete == Spec => []SyncCoversAllAccounts
<1>1. IInv => SyncCoversAllAccounts
  BY DEF IInv, TypeOK, LoadedInOneWindow, SyncCoversAllAccounts
<1>2. QED
  BY <1>1, Invariance, PTL
=============================================================================
