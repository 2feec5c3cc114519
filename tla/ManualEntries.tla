--------------------------- MODULE ManualEntries ---------------------------
(* Balances and property values entered by hand (penge/manual), from the    *)
(* command line or from a committed file of balances.  An entry is one      *)
(* transaction that looks its person and its instrument up and creates what *)
(* it does not find; neither table has a unique key for what is looked up,  *)
(* and a committed file writes its entries one transaction each.            *)
EXTENDS Integers, Sequences, FiniteSetsExt

CONSTANTS Files,      \* the sequences of entries that can be committed
          Writers,    \* processes that record entries
          Horizon,    \* days 1 .. Horizon
          MaxStarts   \* bound on the files one writer starts

VARIABLES people,    \* raw.entity: sequence of names; a row's id is its index
          accounts,  \* raw.account of the provider: <<person, name>> -> kind
          items,     \* raw.instrument: sequence of <<name, kind, currency>>
          snapshots, \* raw.holding_snapshot: <<account key, instrument, day>> -> value
          writer,    \* writer -> the file it is recording and how far it is
          entered,   \* history: <<person's name, account, item, day>> -> last value recorded
          raced      \* history: two entries have been under way at once

manualVars == <<people, accounts, items, snapshots, writer, entered, raced>>

None == 0

\* BalanceEntry and PropertyEntry: values are finite and not negative, names not
\* empty (the enumerated ones never are).  A balance's instrument is named after
\* the account, a property's after the property.
ValidEntry(e) == e.value >= 0 /\ e.day \in 1 .. Horizon

Item(e) ==
  IF e.kind = "cash" THEN <<e.account, "cash", e.currency>>
  ELSE <<e.property, "real_estate", e.currency>>

Idle == [pc |-> "idle", file |-> <<>>, next |-> 1, person |-> None, item |-> None,
         starts |-> 0]

Init ==
  /\ people = <<>> /\ accounts = <<>> /\ items = <<>> /\ snapshots = <<>>
  /\ writer = [w \in Writers |-> Idle]
  /\ entered = <<>>
  /\ raced = FALSE
-----------------------------------------------------------------------------
Entry(w) == writer[w].file[writer[w].next]

InTransaction(w) == writer[w].pc \in {"person", "item"}

\* A command line call is a file of one entry.
Start(w) ==
  /\ writer[w].pc = "idle"
  /\ writer[w].starts < MaxStarts
  /\ \E f \in Files :
       /\ \A k \in DOMAIN f : ValidEntry(f[k])
       /\ writer' = [writer EXCEPT ![w] = [Idle EXCEPT !.pc = "between", !.file = f,
                                                    !.starts = writer[w].starts + 1]]
  /\ UNCHANGED <<people, accounts, items, snapshots, entered, raced>>

\* SELECT ... LIMIT 1 without an order: any matching row, or none.
AnyRow(table, row) ==
  LET rows == {k \in DOMAIN table : table[k] = row}
  IN  IF rows = {} THEN {None} ELSE rows

\* _get_or_create_entity, the SELECT that opens the transaction.
FindPerson(w) ==
  /\ writer[w].pc = "between"
  /\ writer[w].next <= Len(writer[w].file)
  /\ \E p \in AnyRow(people, Entry(w).person) :
       writer' = [writer EXCEPT ![w].pc = "person", ![w].person = p]
  /\ raced' = (raced \/ \E other \in Writers \ {w} : InTransaction(other))
  /\ UNCHANGED <<people, accounts, items, snapshots, entered>>

\* _get_or_create_instrument's SELECT.
FindItem(w) ==
  /\ writer[w].pc = "person"
  /\ \E i \in AnyRow(items, Item(Entry(w))) :
       writer' = [writer EXCEPT ![w].pc = "item", ![w].item = i]
  /\ UNCHANGED <<people, accounts, items, snapshots, entered, raced>>

\* The inserts and the commit.  An account keeps the kind it was created with
\* (ON CONFLICT DO NOTHING on the person and the name).
Commit(w) ==
  /\ writer[w].pc = "item"
  /\ LET e == Entry(w)
         newPerson == writer[w].person = None
         newItem == writer[w].item = None
         person == IF newPerson THEN Len(people) + 1 ELSE writer[w].person
         item == IF newItem THEN Len(items) + 1 ELSE writer[w].item
         account == <<person, e.account>>
         key == <<account, item, e.day>>
         told == <<e.person, e.account, Item(e), e.day>>
     IN  /\ people' = IF newPerson THEN Append(people, e.person) ELSE people
         /\ items' = IF newItem THEN Append(items, Item(e)) ELSE items
         /\ accounts' = [k \in DOMAIN accounts \cup {account} |->
                           IF k \in DOMAIN accounts THEN accounts[k] ELSE e.kind]
         /\ snapshots' = [k \in DOMAIN snapshots \cup {key} |->
                            IF k = key THEN e.value ELSE snapshots[k]]
         /\ entered' = [k \in DOMAIN entered \cup {told} |->
                          IF k = told THEN e.value ELSE entered[k]]
  /\ writer' = [writer EXCEPT ![w].pc = "between", ![w].next = @ + 1]
  /\ UNCHANGED raced

\* The file is done, or the process is killed: an open transaction rolls back, the
\* entries before it stay.  A killed file may be started again.
Stop(w) ==
  /\ writer[w].pc # "idle"
  /\ writer' = [writer EXCEPT ![w] = [Idle EXCEPT !.starts = writer[w].starts]]
  /\ UNCHANGED <<people, accounts, items, snapshots, entered, raced>>

Next == \E w \in Writers : Start(w) \/ FindPerson(w) \/ FindItem(w) \/ Commit(w) \/ Stop(w)

Spec == Init /\ [][Next]_manualVars
-----------------------------------------------------------------------------
\* What mart_position_value_daily carries forward to a day: of each account and
\* instrument the newest value up to it.
Carried(table, series(_), dayOf(_), day) ==
  LET past == {k \in DOMAIN table : dayOf(k) <= day}
      newest == {k \in past : \A other \in past : series(other) = series(k) => dayOf(other) <= dayOf(k)}
  IN  MapThenSumSet(LAMBDA k : table[k], newest)

\* Every balance entered counts once on every day after it, however often a file was
\* killed half-way and committed again - unless two entries overlapped: then a person
\* or an instrument may exist twice, a later entry goes to either, and the value of
\* the other is carried forward beside it (service.py's SELECT, then INSERT).
EnteredCountsOnce ==
  ~raced => \A day \in 1 .. Horizon :
    Carried(snapshots, LAMBDA k : <<k[1], k[2]>>, LAMBDA k : k[3], day)
      = Carried(entered, LAMBDA k : <<k[1], k[2], k[3]>>, LAMBDA k : k[4], day)

\* Even then an account is one person's: entries of one person never reach an account
\* of another, though accounts and instruments share names.
AccountsArePersonal ==
  \A k \in DOMAIN snapshots :
    \E told \in DOMAIN entered :
      /\ told[1] = people[k[1][1]] /\ told[2] = k[1][2]
      /\ told[3] = items[k[2]] /\ told[4] = k[3]
=============================================================================
