---------------------------- MODULE DepotLoads ----------------------------
(* The Nordnet and growney loaders (ingest/nordnet, ingest/growney) on the  *)
(* tables they share: instrument names, transactions and holding snapshots. *)
(* One load is one database transaction: it is applied whole or refused.    *)
(* The marts carry the latest snapshot of a position forward from day to    *)
(* day, so a position ends only when a zero is written.                     *)
EXTENDS Integers, FiniteSetsExt, SequencesExt

CONSTANTS Isins,      \* securities
          Booked,     \* the rows of the Nordnet account, in booking order:
                      \* [date, value, text, isin, name, saldo]: text is the place of
                      \* its id among the ids as strings, saldo may be NoSaldo
          Files,      \* Nordnet holdings exports: [asOf, held], held a partial
                      \* function from instrument names to quantities
          Statements, \* growney statements: [asOf, held, names, cash, rows]
          MaxLoads    \* bound on the loads

VARIABLES db,         \* [names, txns, snaps, cash]: the four tables
          loads,      \* loads so far
          last,       \* history: the load applied last
          newest      \* history: date -> the holdings file loaded for it, for the
                      \* dates loaded after every earlier date

depotVars == <<db, loads, last, newest>>

NoSaldo == -1
Nordnet == "nordnet"
Growney == "growney"
NoName == "no name"
NoIsin == "no isin"
Refused == [names |-> <<>>, txns |-> {}, snaps |-> <<>>, cash |-> <<>>, refused |-> TRUE]

Upserted(f, g) == [x \in DOMAIN f \cup DOMAIN g |-> IF x \in DOMAIN g THEN g[x] ELSE f[x]]

\* A snapshot row of a position, and the row carried forward to a date.
Dated(account, i, rows, date) == {k \in DOMAIN rows : k[1] = account /\ k[2] = i /\ k[3] <= date}
Carried(account, i, rows, date) ==
  LET known == Dated(account, i, rows, date)
  IN  IF known = {} THEN 0 ELSE rows[CHOOSE k \in known : \A l \in known : l[3] <= k[3]]

-----------------------------------------------------------------------------
(* Nordnet *)

NamesIn(file) == DOMAIN file.held

\* Any named instrument, of whatever broker.
AccountHistoryOfAll(d) == {i \in Isins : d.names[i] # NoName}

\* Instruments of the account's own transactions and snapshots that carry a name.
AccountHistory(d) ==
  {i \in Isins : \/ \E t \in d.txns : t.account = Nordnet /\ t.isin = i
                 \/ \E k \in DOMAIN d.snaps : k[1] = Nordnet /\ k[2] = i}
Known(d, name) == {i \in AccountHistory(d) : d.names[i] = name}

\* _holding_instrument_maps: the ISINs a name may stand for in one load, from the
\* account's history and from the rows loaded with the file.
Meanings(d, rows, name) == Known(d, name) \cup {t.isin : t \in {r \in rows : r.name = name}}
Resolves(d, rows, file) ==
  /\ \A name \in NamesIn(file) : Cardinality(Meanings(d, rows, name)) = 1
  /\ \A t \in rows : t.isin # NoIsin =>
       /\ \A u \in rows : u.name = t.name => u.isin = t.isin
  /\ \A m, n \in NamesIn(file) : Meanings(d, rows, m) = Meanings(d, rows, n) => m = n
Resolved(d, rows, file) ==
  LET isinOf(name) == CHOOSE i \in Meanings(d, rows, name) : TRUE
  IN  [i \in {isinOf(n) : n \in NamesIn(file)} |->
        file.held[CHOOSE n \in NamesIn(file) : isinOf(n) = i]]

\* An export without rows needs a security snapshot on or before its date.
HasPrior(d, file) ==
  \E k \in DOMAIN d.snaps : k[1] = Nordnet /\ k[3] <= file.asOf

\* A complete snapshot: the file's rows, and a zero for every security carried
\* to its date that it leaves out.
Left(rows, file, held) ==
  {i \in Isins : i \notin DOMAIN held /\ Carried(Nordnet, i, rows, file.asOf) # 0}
Snapshot(rows, file, held) ==
  LET date == file.asOf
      zeros == Left(rows, file, held)
  IN  Upserted(rows, [k \in {<<Nordnet, i, date>> : i \in DOMAIN held \cup zeros} |->
                        IF k[2] \in DOMAIN held THEN held[k[2]] ELSE 0])

\* derive_cash_balances: the saldo of the row with the latest value date, of several
\* the one whose id comes last as a string: "10" comes before "9".
Later(t, u) == t.value > u.value \/ (t.value = u.value /\ t.text > u.text)
CashOf(rows) ==
  LET known == {t \in rows : t.saldo # NoSaldo}
      latest == {t \in known : \A u \in known : u = t \/ Later(t, u)}
  IN  [v \in {t.value : t \in latest} |-> (CHOOSE t \in latest : t.value = v).saldo]

Printed(rows) == {[account |-> Nordnet, id |-> <<t.id>>, isin |-> t.isin] : t \in rows}
Named(d, rows) == [i \in Isins |->
  LET ts == {t \in rows : t.isin = i}
  IN  IF ts = {} THEN d.names[i] ELSE (CHOOSE t \in ts : \A u \in ts : u.id <= t.id).name]

\* load_records: holdings files are written in the order of their dates, cash
\* after them.
NordnetLoaded(d, rows, files) ==
  LET sorted == SetToSortSeq(files, LAMBDA a, b : a.asOf < b.asOf)
      write(snaps, file) == Snapshot(snaps, file, Resolved(d, rows, file))
      fresh == {t.id : t \in Printed(rows)}
  IN  IF \/ \E f \in files : NamesIn(f) = {} /\ ~HasPrior(d, f)
         \/ \E f, g \in files : f # g /\ f.asOf = g.asOf
         \/ \E f \in files : ~Resolves(d, rows, f)
      THEN Refused
      ELSE [names |-> Named(d, rows),
            txns |-> {t \in d.txns : t.account # Nordnet \/ t.id \notin fresh} \cup Printed(rows),
            snaps |-> FoldLeft(write, d.snaps, sorted),
            cash |-> Upserted(d.cash, CashOf(rows)),
            refused |-> FALSE]

-----------------------------------------------------------------------------
(* growney *)

\* synthesize_external_id: the printed content of a row is its identity.
ExternalId(s, row) == <<row.date, row.isin, row.amount>>

\* Rows are linked to securities the statement (or an earlier one of the same
\* call) holds; two rows of one statement with one identity refuse the load.
GrowneyLoaded(d, s) ==
  LET linked(i) == IF i \in DOMAIN s.held THEN i ELSE NoIsin
      rows == {[account |-> Growney, id |-> ExternalId(s, r), isin |-> linked(r.isin)]
               : r \in s.rows}
      fresh == {t.id : t \in rows}
      cash == IF s.cash = 0 THEN <<>> ELSE [k \in {<<Growney, "cash", s.asOf>>} |-> s.cash]
  IN  [names |-> [i \in Isins |-> IF i \in DOMAIN s.held THEN s.names[i] ELSE d.names[i]],
       txns |-> {t \in d.txns : t.account # Growney \/ t.id \notin fresh} \cup rows,
       snaps |-> Upserted(Upserted(d.snaps,
                   [k \in {<<Growney, i, s.asOf>> : i \in DOMAIN s.held} |-> s.held[k[2]]]), cash),
       cash |-> d.cash,
       refused |-> FALSE]

-----------------------------------------------------------------------------
NoLoad == [broker |-> "none", rows |-> {}, files |-> {}]

Init ==
  /\ db = [names |-> [i \in Isins |-> NoName], txns |-> {}, snaps |-> <<>>, cash |-> <<>>,
           refused |-> FALSE]
  /\ loads = 0
  /\ last = NoLoad
  /\ newest = <<>>

Row(n) == [id |-> n, value |-> Booked[n].value, text |-> Booked[n].text,
           isin |-> Booked[n].isin, name |-> Booked[n].name, saldo |-> Booked[n].saldo]
\* A transactions export: the rows booked in a range of days, or none.
Exported(from, to) == {Row(n) : n \in {m \in DOMAIN Booked : Booked[m].date \in from..to}}
Days == {Booked[n].date : n \in DOMAIN Booked}

LoadNordnet(rows, files) ==
  LET d == NordnetLoaded(db, rows, files)
      dates == {f.asOf : f \in files}
  IN  /\ loads < MaxLoads
      /\ files # {} \/ rows # {}
      /\ loads' = loads + 1
      /\ IF d.refused
         THEN UNCHANGED <<db, last, newest>>
         ELSE /\ db' = d
              /\ last' = [broker |-> Nordnet, rows |-> rows, files |-> files]
              /\ newest' = Upserted([e \in {e \in DOMAIN newest : \A f \in dates : f >= e}
                                       |-> newest[e]],
                             [e \in dates |-> LET f == CHOOSE f \in files : f.asOf = e
                                              IN  Resolved(db, rows, f)])

LoadGrowney(s) ==
  /\ loads < MaxLoads
  /\ loads' = loads + 1
  /\ db' = GrowneyLoaded(db, s)
  /\ last' = [broker |-> Growney, rows |-> {}, files |-> {s}]
  /\ UNCHANGED newest

Next ==
  \/ \E rows \in {Exported(from, to) : from, to \in Days}, files \in SUBSET Files :
       Cardinality(files) <= 2 /\ LoadNordnet(rows, files)
  \/ \E s \in Statements : LoadGrowney(s)

Spec == Init /\ [][Next]_depotVars

-----------------------------------------------------------------------------
(* Properties *)

\* A holdings export is a complete snapshot: at the date of every export that was
\* loaded after all earlier ones, the positions carried forward are those of the
\* export, whatever was sold, restored or corrected in between.
CompleteSnapshotHolds ==
  \A e \in DOMAIN newest : \A i \in Isins :
    Carried(Nordnet, i, db.snaps, e) = (IF i \in DOMAIN newest[e] THEN newest[e][i] ELSE 0)

\* Loading the same exports or the same statement once more changes nothing.  An
\* export may be refused the second time: when a row renamed a security, the older
\* holdings file still names it as before.
ReloadIsNoop ==
  /\ last.broker = Nordnet => NordnetLoaded(db, last.rows, last.files) \in {db, Refused}
  /\ last.broker = Growney => \A s \in last.files : GrowneyLoaded(db, s) = db

\* A security is never held in the Nordnet account unless a row of this account
\* traded it: a name is never resolved from another account's history.
HeldWasTraded ==
  \A k \in DOMAIN db.snaps :
    k[1] = Nordnet => \E t \in db.txns : t.account = Nordnet /\ t.isin = k[2]

\* A growney row printed on two statements is stored once.
BookedOnce ==
  LET contents == {<<r.date, r.isin, r.amount>> : r \in UNION {s.rows : s \in Statements}}
  IN  Cardinality({t \in db.txns : t.account = Growney}) <= Cardinality(contents)

\* The cash carried for a day is the saldo after a row of that value date, and no row
\* booked on the same day, and so in every export that has this one, comes after it
\* unless its id is the smaller string.  An export that ends earlier may put the saldo
\* of an earlier booking day back.
CashIsTheLastSaldo ==
  \A v \in DOMAIN db.cash :
    \E n \in DOMAIN Booked :
      /\ Booked[n].value = v /\ Booked[n].saldo = db.cash[v]
      /\ \A m \in DOMAIN Booked :
           Booked[m].value = v /\ Booked[m].date = Booked[n].date /\ Booked[m].saldo # NoSaldo
             => m <= n \/ Booked[m].text < Booked[n].text
=============================================================================
