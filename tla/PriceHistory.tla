---------------------------- MODULE PriceHistory ----------------------------
(* End-of-day prices (ingest/prices): a run lists the instruments once,     *)
(* then fetches and stores one instrument after another, each in its own    *)
(* transaction and with no lock against another run.  Yahoo is external:    *)
(* it may answer nothing, fail, or restate a close it gave earlier.         *)
EXTENDS Integers, FiniteSetsExt

CONSTANTS Ids,        \* raw.instrument.id
          Suffixes,   \* mic -> Yahoo suffix, MIC_TO_YAHOO_SUFFIX
          Days,       \* days with a close
          Closes,     \* closes Yahoo may give
          Opening,    \* the close of every symbol and day at first
          Currencies, \* currencies an instrument can be listed in
          DefaultCurrency, \* of an instrument no holdings file has listed
          Runs,       \* invocations of the command, each made once at any time
          Reference,  \* holdings rows: the sequence of <<name, last price>>
          Threshold,  \* <<numerator, denominator>> of the tolerated discrepancy
          Catalog,    \* id -> [name, kind, ticker, dotted, mic], without the currency
          MaxChanges  \* bound on what changes outside the runs

VARIABLES currency, \* id -> raw.instrument.currency
          yahoo,    \* <<symbol, day>> -> close, Missing or NotFinite
          prices,   \* raw.price_history: <<id, day>> -> [close, currency], with the
                    \* history of the row: the age of its close and of the newest one
          run,      \* run -> its progress
          clock,    \* counts the changes outside the runs
          offered,  \* history: what some run had in hand to write
          overlapped \* history: two runs have been under way at once

priceVars == <<currency, yahoo, prices, run, clock, offered, overlapped>>

NoSymbol == <<>>
Missing == -1    \* no close on that day, or no last price in the holdings row
NotFinite == -2  \* a close that is not a finite number

\* resolve_yahoo_symbol: an unknown venue is taken for a US listing.
Symbol(id) ==
  LET i == Catalog[id]
  IN  IF i.ticker \in {"none", "blank"} THEN NoSymbol
      ELSE IF i.dotted \/ i.mic \notin DOMAIN Suffixes THEN <<i.ticker, "">>
      ELSE <<i.ticker, Suffixes[i.mic]>>

Symbols == {Symbol(id) : id \in Ids} \ {NoSymbol}

\* list_instruments: cash has no quoted price.
Listed == {id \in Ids : Catalog[id].kind # "cash"}

\* _build_nordnet_reference: the holdings file has no ISIN, so a row is matched to
\* the first instrument of that name (instruments are listed in no given order; ids
\* stand for it here), and the last row for an instrument wins.
Named(name) == {id \in Listed : Catalog[id].name = name}

ReferenceFor(id) ==
  LET rows == {k \in DOMAIN Reference :
                 /\ Reference[k][2] # Missing
                 /\ Named(Reference[k][1]) # {}
                 /\ id = CHOOSE first \in Named(Reference[k][1]) : TRUE}
  IN  IF rows = {} THEN Missing ELSE Reference[Max(rows)][2]

\* cross_check, of the most recent close of the rows fetched; a reference of zero
\* is skipped.
Discrepant(id, rows) ==
  LET latest == rows[Max(DOMAIN rows)]
      reference == ReferenceFor(id)
      gap == IF latest >= reference THEN latest - reference ELSE reference - latest
  IN  /\ reference \notin {Missing, 0}
      /\ gap * Threshold[2] > reference * Threshold[1]

\* fetch_history: the finite closes from the start date on.
Quoted(symbol, from) ==
  [d \in {e \in Days : e >= from /\ yahoo[symbol, e] \notin {Missing, NotFinite}} |-> yahoo[symbol, d]]

Idle == [pc |-> "idle", from |-> 0, todo |-> {}, listing |-> <<>>, id |-> "none", rows |-> <<>>,
         at |-> 0, warnings |-> 0]

Init ==
  /\ currency = [id \in Ids |-> DefaultCurrency]
  /\ yahoo = [q \in Symbols \X Days |-> Opening]
  /\ prices = <<>>
  /\ run = [r \in Runs |-> Idle]
  /\ clock = 0
  /\ offered = {}
  /\ overlapped = FALSE
-----------------------------------------------------------------------------
\* main and run, up to the loop: the instruments are read once.
Begin(r) ==
  /\ run[r].pc = "idle"
  /\ \E from \in Days :
       run' = [run EXCEPT ![r] = [Idle EXCEPT !.pc = "listed", !.from = from, !.todo = Listed,
                                              !.listing = currency]]
  /\ overlapped' = (overlapped \/ \E other \in Runs \ {r} : run[other].pc \notin {"idle", "ended"})
  /\ UNCHANGED <<currency, yahoo, prices, clock, offered>>

\* An instrument without a symbol, or for which Yahoo answers no rows, is passed
\* over: what is stored of it stays.
PassOver(r) ==
  /\ run[r].pc = "listed"
  /\ \E id \in run[r].todo : run' = [run EXCEPT ![r].todo = @ \ {id}]
  /\ UNCHANGED <<currency, yahoo, prices, clock, offered, overlapped>>

Fetch(r) ==
  /\ run[r].pc = "listed"
  /\ \E id \in {i \in run[r].todo : Symbol(i) # NoSymbol} :
       LET rows == Quoted(Symbol(id), run[r].from)
       IN  /\ rows # <<>>
           /\ run' = [run EXCEPT ![r].pc = "fetched", ![r].id = id, ![r].rows = rows,
                                 ![r].at = clock]
           /\ offered' = offered \cup
                {<<id, d, rows[d], run[r].listing[id]>> : d \in DOMAIN rows}
  /\ UNCHANGED <<currency, yahoo, prices, clock, overlapped>>

\* What a conflicting row becomes under upsert: close, currency and source are
\* refreshed; the alternative refreshes the close alone.
RefreshedCloseOnly(old, close, listing) == [close |-> close, currency |-> old.currency]

Refreshed(old, close, listing) == [close |-> close, currency |-> listing]

Upserted(r) ==
  LET mine == {<<run[r].id, d>> : d \in DOMAIN run[r].rows}
      at == run[r].at
      row(k) ==
        LET close == run[r].rows[k[2]]
            listing == run[r].listing[k[1]]
        IN  IF k \in DOMAIN prices
            THEN [row |-> Refreshed(prices[k].row, close, listing), at |-> at,
                  newest |-> Max({at, prices[k].newest})]
            ELSE [row |-> [close |-> close, currency |-> listing], at |-> at, newest |-> at]
  IN  [k \in DOMAIN prices \cup mine |-> IF k \in mine THEN row(k) ELSE prices[k]]

\* One iteration of run's loop: store, then compare with the broker's price.
Write(r) ==
  /\ run[r].pc = "fetched"
  /\ prices' = Upserted(r)
  /\ run' = [run EXCEPT ![r].pc = "listed", ![r].todo = @ \ {run[r].id}, ![r].rows = <<>>,
               ![r].id = "none", ![r].warnings = @ + IF Discrepant(run[r].id, run[r].rows) THEN 1 ELSE 0]
  /\ UNCHANGED <<currency, yahoo, clock, offered, overlapped>>

\* The loop ends, the fetch raises, or the process is killed: the instruments
\* written so far stay written.
End(r) ==
  /\ run[r].pc \in {"listed", "fetched"}
  /\ run' = [run EXCEPT ![r] = [Idle EXCEPT !.pc = "ended"]]
  /\ UNCHANGED <<currency, yahoo, prices, clock, offered, overlapped>>

\* Yahoo adds, restates or withdraws a close.
Restate ==
  /\ clock < MaxChanges
  /\ clock' = clock + 1
  /\ \E q \in Symbols \X Days, close \in Closes \cup {Missing, NotFinite} :
       /\ yahoo[q] # close
       /\ yahoo' = [yahoo EXCEPT ![q] = close]
  /\ UNCHANGED <<currency, prices, run, offered, overlapped>>

\* A Nordnet load rewrites the instrument's currency: that of the holdings file,
\* or DKK when it read transactions only (ingest/nordnet/loader.py).
Relist ==
  /\ clock < MaxChanges
  /\ clock' = clock + 1
  /\ \E id \in Listed, c \in Currencies :
       /\ currency[id] # c
       /\ currency' = [currency EXCEPT ![id] = c]
  /\ UNCHANGED <<yahoo, prices, run, offered, overlapped>>

Next ==
  \/ \E r \in Runs : Begin(r) \/ PassOver(r) \/ Fetch(r) \/ Write(r) \/ End(r)
  \/ Restate \/ Relist

Spec == Init /\ [][Next]_priceVars
-----------------------------------------------------------------------------
\* Whatever overlaps, fails or is relisted in between, the close and the currency of
\* a row are those one run had in hand together: a close in dollars is never labelled
\* with the currency of another run's listing (upsert's set_ names both).
RowsAreWhole ==
  \A k \in DOMAIN prices :
    <<k[1], k[2], prices[k].row.close, prices[k].row.currency>> \in offered

\* A restated close is never undone by an older one, as long as no two runs overlap;
\* nothing in the code keeps them apart, and two that do may leave the older.
NewestFetchStands ==
  ~overlapped => \A k \in DOMAIN prices : prices[k].at = prices[k].newest
=============================================================================
