---------------------------- MODULE ServiceProofs ----------------------------
(***************************************************************************)
(* Proofs about the programs of ServicePrograms, each with its inductive   *)
(* invariant, for any number of runs, writers, sessions and refreshes.     *)
(*                                                                         *)
(* Prices.  While no two runs overlap, the one under way has fetched after *)
(* everything that is stored.                                              *)
(*                                                                         *)
(* Entries by hand.  Rows are only added to the tables, so what a writer   *)
(* has looked up still is what it was when it commits.                     *)
(*                                                                         *)
(* Rows in review.  A flag can go stale by what another session loads, and *)
(* that is always later than the flag.                                     *)
(*                                                                         *)
(* Backups.  A job names an artefact of its own kind, so that two scripts  *)
(* never share one, and a sidecar is computed of a whole artefact.  The    *)
(* newest artefact listed of a bucket within its quota is never pruned: it *)
(* would be picked of every index it is in.                                *)
(*                                                                         *)
(* Merchant index.  A search keeps the number of a generation, not its     *)
(* records, and a promotion deletes only what an earlier one superseded.   *)
(*                                                                         *)
(* Syncs of an account.  A load that is still whole has fetched all that   *)
(* the bank has, since nothing happened after its first request; what the  *)
(* load stored last wrote is still there, but for what a person corrected. *)
(***************************************************************************)
EXTENDS ServicePrograms, Integers, Sequences, SumFacts

-----------------------------------------------------------------------------
(* Prices. *)

Active(r) == run[r].pc \notin {"idle", "ended"}

\* The progress of a run is one record, and what it has fetched is on offer.
PriceRun(r) ==
  /\ run[r] = [pc |-> run[r].pc, from |-> run[r].from, todo |-> run[r].todo,
               listing |-> run[r].listing, id |-> run[r].id, rows |-> run[r].rows,
               at |-> run[r].at, warnings |-> run[r].warnings]
  /\ run[r].pc = "fetched" =>
       /\ run[r].at \in Int /\ run[r].at <= clock
       /\ \A d \in DOMAIN run[r].rows :
            <<run[r].id, d, run[r].rows[d], run[r].listing[run[r].id]>> \in offered

\* A stored row is one run's, from a fetch that has been.
PriceRow(k) ==
  /\ k = <<k[1], k[2]>>
  /\ <<k[1], k[2], prices[k].row.close, prices[k].row.currency>> \in offered
  /\ prices[k].at \in Int /\ prices[k].newest \in Int /\ prices[k].newest <= clock

\* One run at a time has fetched after everything that is stored.
OneAtATime ==
  ~overlapped =>
    /\ \A r, other \in Runs : Active(r) /\ Active(other) => r = other
    /\ \A r \in Runs : run[r].pc = "fetched" =>
         \A k \in DOMAIN prices : prices[k].newest <= run[r].at
    /\ \A k \in DOMAIN prices : prices[k].at = prices[k].newest

PriceInv ==
  /\ clock \in Int
  /\ run = [r \in Runs |-> run[r]]
  /\ \A r \in Runs : PriceRun(r)
  /\ \A k \in DOMAIN prices : PriceRow(k)
  /\ OneAtATime

\* Of two times the later one.
LEMMA LaterOfTwo ==
  ASSUME NEW a \in Int, NEW b \in Int
  PROVE  /\ PriceRuns!Max({a, b}) \in Int
         /\ a <= PriceRuns!Max({a, b}) /\ b <= PriceRuns!Max({a, b})
         /\ PriceRuns!Max({a, b}) \in {a, b}
<1> DEFINE top(x) == x \in {a, b} /\ \A y \in {a, b} : x >= y
<1>1. top(a) \/ top(b)
  OBVIOUS
<1>2. PriceRuns!Max({a, b}) = CHOOSE x : top(x)
  BY DEF PriceRuns!Max
<1>3. \E x : top(x)
  BY <1>1
<1>4. top(CHOOSE x : top(x))
  BY <1>3
<1>5. top(PriceRuns!Max({a, b}))
  BY <1>2, <1>4
<1>6. QED
  BY <1>5

\* A step of the outside, or of a run that only its own progress changes.
LEMMA ProgressKeeps ==
  ASSUME PriceInv, NEW r \in Runs,
         PriceRuns!Begin(r) \/ PriceRuns!PassOver(r) \/ PriceRuns!Fetch(r) \/ PriceRuns!End(r)
  PROVE  PriceInv'
<1>1. UNCHANGED <<prices, clock>> /\ clock \in Int /\ run' = [q \in Runs |-> run'[q]]
  BY DEF PriceRuns!Begin, PriceRuns!PassOver, PriceRuns!Fetch, PriceRuns!End, PriceInv
<1>2. \A q \in Runs \ {r} : run'[q] = run[q]
  BY DEF PriceRuns!Begin, PriceRuns!PassOver, PriceRuns!Fetch, PriceRuns!End, PriceInv
<1>3. offered \subseteq offered'
  BY DEF PriceRuns!Begin, PriceRuns!PassOver, PriceRuns!Fetch, PriceRuns!End
<1>4. CASE PriceRuns!Begin(r)
  <2>1. PICK from \in PriceDays :
          run' = [run EXCEPT ![r] = [PriceRuns!Idle EXCEPT !.pc = "listed", !.from = from,
                                                           !.todo = PriceRuns!Listed,
                                                           !.listing = listedIn]]
    BY <1>4 DEF PriceRuns!Begin
  <2>2. run'[r] = [PriceRuns!Idle EXCEPT !.pc = "listed", !.from = from, !.todo = PriceRuns!Listed,
                                         !.listing = listedIn]
    BY <2>1 DEF PriceInv
  <2>3. run'[r].pc = "listed" /\ PriceRun(r)'
    BY <2>2 DEF PriceRuns!Idle, PriceRun
  <2>4. OneAtATime'
    BY <1>1, <1>2, <1>4, <2>3 DEF PriceRuns!Begin, OneAtATime, Active, PriceInv
  <2>5. QED
    BY <1>1, <1>2, <1>3, <2>3, <2>4 DEF PriceInv, PriceRun, PriceRow
<1>5. CASE PriceRuns!PassOver(r)
  <2>1. PICK id \in run[r].todo : run' = [run EXCEPT ![r].todo = @ \ {id}]
    BY <1>5 DEF PriceRuns!PassOver
  <2>2. run'[r] = [run[r] EXCEPT !.todo = @ \ {id}] /\ run[r].pc = "listed"
    BY <1>5, <2>1 DEF PriceInv, PriceRuns!PassOver
  <2>3. run'[r].pc = "listed" /\ PriceRun(r)'
    BY <2>2 DEF PriceInv, PriceRun
  <2>4. OneAtATime'
    BY <1>1, <1>2, <1>5, <2>2, <2>3 DEF PriceRuns!PassOver, OneAtATime, Active, PriceInv
  <2>5. QED
    BY <1>1, <1>2, <1>3, <2>3, <2>4 DEF PriceInv, PriceRun, PriceRow
<1>6. CASE PriceRuns!Fetch(r)
  <2> DEFINE closes(id) == PriceRuns!Quoted(PriceRuns!Symbol(id), run[r].from)
  <2>1. PICK id \in run[r].todo :
          /\ run' = [run EXCEPT ![r].pc = "fetched", ![r].id = id, ![r].rows = closes(id),
                                ![r].at = clock]
          /\ offered' = offered \cup
               {<<id, d, closes(id)[d], run[r].listing[id]>> : d \in DOMAIN closes(id)}
    BY <1>6 DEF PriceRuns!Fetch
  <2>2. run'[r] = [run[r] EXCEPT !.pc = "fetched", !.id = id, !.rows = closes(id), !.at = clock]
    BY <2>1 DEF PriceInv
  <2> HIDE DEF closes
  <2>3. /\ run'[r].pc = "fetched" /\ run'[r].id = id /\ run'[r].rows = closes(id)
        /\ run'[r].at = clock /\ run'[r].listing = run[r].listing /\ PriceRun(r)'
    <3>1. /\ run'[r].pc = "fetched" /\ run'[r].id = id /\ run'[r].rows = closes(id)
          /\ run'[r].at = clock /\ run'[r].listing = run[r].listing
          /\ run'[r] = [pc |-> run'[r].pc, from |-> run'[r].from, todo |-> run'[r].todo,
               listing |-> run'[r].listing, id |-> run'[r].id, rows |-> run'[r].rows,
               at |-> run'[r].at, warnings |-> run'[r].warnings]
      BY <2>2 DEF PriceInv, PriceRun
    <3>2. \A d \in DOMAIN run'[r].rows :
            <<run'[r].id, d, run'[r].rows[d], run'[r].listing[run'[r].id]>> \in offered'
      BY <2>1, <3>1
    <3>3. run'[r].at \in Int /\ run'[r].at <= clock'
      BY <1>1, <3>1
    <3>4. QED
      BY <3>1, <3>2, <3>3 DEF PriceRun
  <2>4. OneAtATime'
    <3>1. run[r].pc = "listed" /\ UNCHANGED overlapped
      BY <1>6 DEF PriceRuns!Fetch
    <3>2. \A k \in DOMAIN prices : prices[k].newest <= clock
      BY DEF PriceInv, PriceRow
    <3>3. QED
      BY <1>1, <1>2, <2>3, <3>1, <3>2 DEF OneAtATime, Active, PriceInv
  <2>5. QED
    BY <1>1, <1>2, <1>3, <2>3, <2>4 DEF PriceInv, PriceRun, PriceRow
<1>7. CASE PriceRuns!End(r)
  <2>1. run'[r] = [PriceRuns!Idle EXCEPT !.pc = "ended"]
    BY <1>7 DEF PriceRuns!End, PriceInv
  <2>2. run'[r].pc = "ended" /\ PriceRun(r)'
    BY <2>1 DEF PriceRuns!Idle, PriceRun
  <2>3. OneAtATime'
    BY <1>1, <1>2, <1>7, <2>2 DEF PriceRuns!End, OneAtATime, Active, PriceInv
  <2>4. QED
    BY <1>1, <1>2, <1>3, <2>2, <2>3 DEF PriceInv, PriceRun, PriceRow
<1>8. QED
  BY <1>4, <1>5, <1>6, <1>7

\* Rows written are the run's own, and the newest if no other run was under way.
LEMMA WriteKeeps ==
  ASSUME PriceInv, NEW r \in Runs, PriceRuns!Write(r)
  PROVE  PriceInv'
<1> DEFINE mine == {<<run[r].id, d>> : d \in DOMAIN run[r].rows}
<1>1. /\ run[r].pc = "fetched" /\ UNCHANGED <<clock, offered, overlapped>> /\ clock \in Int
      /\ run' = [q \in Runs |-> run'[q]]
      /\ \A q \in Runs \ {r} : run'[q] = run[q]
  BY DEF PriceRuns!Write, PriceInv
<1>2. run'[r].pc = "listed" /\ PriceRun(r)'
  <2>1. PICK w : run'[r] = [run[r] EXCEPT !.pc = "listed", !.todo = @ \ {run[r].id}, !.rows = <<>>,
                                         !.id = "none", !.warnings = w]
    BY DEF PriceRuns!Write, PriceInv
  <2>2. QED
    BY <2>1 DEF PriceInv, PriceRun
<1>3. /\ run[r].at \in Int /\ run[r].at <= clock
      /\ \A k \in mine : /\ k = <<k[1], k[2]>> /\ k[1] = run[r].id /\ k[2] \in DOMAIN run[r].rows
                         /\ <<k[1], k[2], run[r].rows[k[2]], run[r].listing[k[1]]>> \in offered
  BY <1>1 DEF PriceInv, PriceRun
<1>4. /\ DOMAIN prices' = DOMAIN prices \cup mine
      /\ \A k \in DOMAIN prices \ mine : prices'[k] = prices[k]
      /\ \A k \in mine :
           /\ prices'[k].row.close = run[r].rows[k[2]]
           /\ prices'[k].row.currency = run[r].listing[k[1]]
           /\ prices'[k].at = run[r].at
           /\ prices'[k].newest = IF k \in DOMAIN prices THEN PriceRuns!Max({run[r].at, prices[k].newest})
                                  ELSE run[r].at
  BY <1>3 DEF PriceRuns!Write, PriceRuns!Upserted, PriceRuns!Refreshed
<1> HIDE DEF mine
<1>5. \A k \in mine : /\ prices'[k].newest \in Int /\ prices'[k].newest <= clock
                      /\ (k \in DOMAIN prices => prices[k].newest <= run[r].at)
                           => prices'[k].newest = run[r].at
  <2> SUFFICES ASSUME NEW k \in mine
               PROVE  /\ prices'[k].newest \in Int /\ prices'[k].newest <= clock
                      /\ (k \in DOMAIN prices => prices[k].newest <= run[r].at)
                           => prices'[k].newest = run[r].at
    OBVIOUS
  <2>1. CASE k \in DOMAIN prices
    <3>1. prices[k].newest \in Int /\ prices[k].newest <= clock
      BY <2>1 DEF PriceInv, PriceRow
    <3> DEFINE m == PriceRuns!Max({run[r].at, prices[k].newest})
    <3>2. m \in Int /\ run[r].at <= m /\ m \in {run[r].at, prices[k].newest}
      BY <1>3, <3>1, LaterOfTwo
    <3>3. prices'[k].newest = m
      BY <1>4, <2>1
    <3> HIDE DEF m
    <3>4. QED
      BY <1>1, <1>3, <2>1, <3>1, <3>2, <3>3
  <2>2. CASE k \notin DOMAIN prices
    BY <1>3, <1>4, <2>2
  <2>3. QED
    BY <2>1, <2>2
<1>6. \A k \in DOMAIN prices' : PriceRow(k)'
  BY <1>1, <1>3, <1>4, <1>5 DEF PriceInv, PriceRow
<1>7. OneAtATime'
  <2> SUFFICES ASSUME ~overlapped
               PROVE  /\ \A q, other \in Runs : Active(q)' /\ Active(other)' => q = other
                      /\ \A q \in Runs : run'[q].pc = "fetched" =>
                           \A k \in DOMAIN prices' : prices'[k].newest <= run'[q].at
                      /\ \A k \in DOMAIN prices' : prices'[k].at = prices'[k].newest
    BY <1>1 DEF OneAtATime
  <2>1. /\ \A q \in Runs : Active(q) => q = r
        /\ \A k \in DOMAIN prices : prices[k].newest <= run[r].at
        /\ \A k \in DOMAIN prices : prices[k].at = prices[k].newest
    BY <1>1 DEF PriceInv, OneAtATime, Active
  <2>2. \A q \in Runs : q # r => run'[q].pc \in {"idle", "ended"}
    BY <1>1, <2>1 DEF Active
  <2>3. \A k \in DOMAIN prices' : prices'[k].at = prices'[k].newest
    <3> SUFFICES ASSUME NEW k \in DOMAIN prices'
                 PROVE  prices'[k].at = prices'[k].newest
      OBVIOUS
    <3>1. CASE k \in mine
      <4>1. prices'[k].newest = run[r].at
        BY <1>5, <2>1, <3>1
      <4>2. QED
        BY <1>4, <3>1, <4>1
    <3>2. CASE k \notin mine
      <4>1. k \in DOMAIN prices \ mine
        BY <1>4, <3>2
      <4>2. QED
        BY <1>4, <2>1, <4>1
    <3>3. QED
      BY <3>1, <3>2
  <2>4. QED
    BY <1>2, <2>2, <2>3 DEF Active
<1>8. QED
  BY <1>1, <1>2, <1>6, <1>7 DEF PriceInv, PriceRun

\* What Yahoo and the holdings files change is not what is stored.
LEMMA OutsideKeeps ==
  ASSUME PriceInv, PriceRuns!Restate \/ PriceRuns!Relist \/ UNCHANGED PriceRuns!priceVars
  PROVE  PriceInv'
<1>1. /\ UNCHANGED <<prices, run, offered, overlapped>>
      /\ clock \in Int /\ clock' \in Int /\ clock <= clock'
  BY DEF PriceRuns!Restate, PriceRuns!Relist, PriceRuns!priceVars, PriceInv
<1>2. \A r \in Runs : PriceRun(r)'
  BY <1>1 DEF PriceInv, PriceRun
<1>3. \A k \in DOMAIN prices : PriceRow(k)'
  BY <1>1 DEF PriceInv, PriceRow
<1>4. OneAtATime'
  BY <1>1 DEF PriceInv, OneAtATime, Active
<1>5. QED
  BY <1>1, <1>2, <1>3, <1>4 DEF PriceInv

\* Prices stay whole, step by step.
LEMMA PriceStep ==
  ASSUME PriceInv, [PriceRuns!Next]_(PriceRuns!priceVars)
  PROVE  PriceInv' 
  BY ProgressKeeps, WriteKeeps, OutsideKeeps DEF PriceRuns!Next

\* At first nothing is stored.
LEMMA PriceStart ==
  ASSUME PriceRuns!Init
  PROVE  PriceInv
<1>1. /\ clock = 0 /\ run = [r \in Runs |-> PriceRuns!Idle] /\ prices = <<>> /\ overlapped = FALSE
  BY DEF PriceRuns!Init
<1>2. \A r \in Runs : run[r] = PriceRuns!Idle
  BY <1>1
<1>3. DOMAIN prices = {}
  BY <1>1
<1>4. QED
  BY <1>1, <1>2, <1>3 DEF PriceInv, PriceRun, OneAtATime, Active, PriceRuns!Idle

\* What the invariant is for.
LEMMA PricesWhole ==
  ASSUME PriceInv
  PROVE  PriceRuns!RowsAreWhole /\ PriceRuns!NewestFetchStands
  BY DEF PriceInv, PriceRow, OneAtATime, PriceRuns!RowsAreWhole, PriceRuns!NewestFetchStands

-----------------------------------------------------------------------------
(* Entries by hand. *)

Entries == {f[k] : f \in ManualFiles, k \in Nat}

Names == {e.person : e \in Entries}

Holdings == {Manual!Item(e) : e \in Entries}

\* Rows are only ever added to a table: what an id names stays what it is.
Grown(old, new) == \A k \in DOMAIN old : k \in DOMAIN new /\ new[k] = old[k]

\* A writer in its transaction has what it looked up, or found nothing.
FoundPerson(it) ==
  \/ it.person = Manual!None
  \/ it.person \in DOMAIN people /\ people[it.person] = it.file[it.next].person

FoundItem(it) ==
  it.item = Manual!None \/ (it.item \in DOMAIN items /\ items[it.item] = Manual!Item(it.file[it.next]))

WriterFields == {"pc", "file", "next", "person", "item", "starts"}

Writing(it) ==
  /\ DOMAIN it = WriterFields
  /\ it.pc \in {"idle", "between", "person", "item"}
  /\ it.next \in Nat
  /\ it.pc # "idle" => it.file \in ManualFiles
  /\ it.pc \in {"person", "item"} => FoundPerson(it)
  /\ it.pc = "item" => FoundItem(it)

Snapshot(k) ==
  /\ k = <<<<k[1][1], k[1][2]>>, k[2], k[3]>>
  /\ k[1][1] \in DOMAIN people /\ k[2] \in DOMAIN items
  /\ <<people[k[1][1]], k[1][2], items[k[2]], k[3]>> \in DOMAIN entered

ManualInv ==
  /\ people \in Seq(Names) /\ items \in Seq(Holdings)
  /\ writer = [w \in Writers |-> writer[w]]
  /\ \A w \in Writers : Writing(writer[w])
  /\ \A k \in DOMAIN snapshots : Snapshot(k)

\* A table with a row appended.
LEMMA AppendGrows ==
  ASSUME NEW S, NEW table \in Seq(S), NEW x \in S
  PROVE  /\ Append(table, x) \in Seq(S)
         /\ Grown(table, Append(table, x))
         /\ Len(table) + 1 \in DOMAIN Append(table, x) /\ Append(table, x)[Len(table) + 1] = x
BY DEF Grown

\* A writer that moves, while the tables stay as they are.
LEMMA MovesKeep ==
  ASSUME ManualInv, NEW w \in Writers, NEW it, writer' = [writer EXCEPT ![w] = it], Writing(it),
         UNCHANGED <<people, accounts, items, snapshots, entered>>
  PROVE  ManualInv'
<1>1. /\ writer' = [q \in Writers |-> writer'[q]] /\ writer'[w] = it
      /\ \A q \in Writers \ {w} : writer'[q] = writer[q]
  BY DEF ManualInv
<1>2. \A q \in Writers : Writing(writer'[q])
  BY <1>1 DEF ManualInv
<1>3. \A q \in Writers : Writing(writer[q])'
  BY <1>2 DEF Writing, FoundPerson, FoundItem
<1>4. \A k \in DOMAIN snapshots : Snapshot(k)'
  BY DEF ManualInv, Snapshot
<1>5. QED
  BY <1>1, <1>3, <1>4 DEF ManualInv

\* What a SELECT finds is a row like the one it looks for.
LEMMA FoundIsLike ==
  ASSUME NEW table, NEW row, NEW k \in Manual!AnyRow(table, row)
  PROVE  k = Manual!None \/ (k \in DOMAIN table /\ table[k] = row)
BY DEF Manual!AnyRow

\* A file that is started has not been looked at.
LEMMA EntryStartKeeps ==
  ASSUME ManualInv, NEW w \in Writers, Manual!Start(w)
  PROVE  ManualInv'
<1> DEFINE it(f) == [Manual!Idle EXCEPT !.pc = "between", !.file = f, !.starts = writer[w].starts + 1]
<1>1. PICK f \in ManualFiles : writer' = [writer EXCEPT ![w] = it(f)]
  BY DEF Manual!Start
<1>2. Writing(it(f))
  <2>1. /\ DOMAIN it(f) = WriterFields
        /\ it(f).pc = "between" /\ it(f).file = f /\ it(f).next = 1
    BY DEF Manual!Idle, WriterFields
  <2> HIDE DEF it
  <2>2. QED
    BY <2>1 DEF Writing
<1>3. UNCHANGED <<people, accounts, items, snapshots, entered>>
  BY DEF Manual!Start
<1> HIDE DEF it
<1>4. QED
  BY <1>1, <1>2, <1>3, MovesKeep

\* A person looked up is in the table, or was not found.
LEMMA FindPersonKeeps ==
  ASSUME ManualInv, NEW w \in Writers, Manual!FindPerson(w)
  PROVE  ManualInv'
<1> DEFINE was == writer[w]
           it(p) == [was EXCEPT !.pc = "person", !.person = p]
<1>1. PICK p \in Manual!AnyRow(people, Manual!Entry(w).person) :
        writer' = [writer EXCEPT ![w].pc = "person", ![w].person = p]
  BY DEF Manual!FindPerson
<1>2. writer' = [writer EXCEPT ![w] = it(p)]
  BY <1>1 DEF ManualInv
<1>3. /\ UNCHANGED <<people, accounts, items, snapshots, entered>> /\ Writing(was) /\ was.pc = "between"
      /\ Manual!Entry(w) = was.file[was.next]
  BY DEF Manual!FindPerson, ManualInv, Manual!Entry
<1>4. p = Manual!None \/ (p \in DOMAIN people /\ people[p] = was.file[was.next].person)
  BY <1>1, <1>3, FoundIsLike
<1> HIDE DEF was
<1>5. Writing(it(p))
  <2>1. DOMAIN was = WriterFields
    BY <1>3 DEF Writing
  <2>2. /\ DOMAIN it(p) = WriterFields /\ it(p).pc = "person" /\ it(p).person = p
        /\ it(p).file = was.file /\ it(p).next = was.next
    BY <2>1 DEF WriterFields
  <2> HIDE DEF it
  <2>3. QED
    BY <1>3, <1>4, <2>2 DEF Writing, FoundPerson, FoundItem
<1> HIDE DEF it
<1>6. QED
  BY <1>2, <1>3, <1>5, MovesKeep

\* An instrument looked up is in the table, or was not found.
LEMMA FindItemKeeps ==
  ASSUME ManualInv, NEW w \in Writers, Manual!FindItem(w)
  PROVE  ManualInv'
<1> DEFINE was == writer[w]
           it(i) == [was EXCEPT !.pc = "item", !.item = i]
<1>1. PICK i \in Manual!AnyRow(items, Manual!Item(Manual!Entry(w))) :
        writer' = [writer EXCEPT ![w].pc = "item", ![w].item = i]
  BY DEF Manual!FindItem
<1>2. writer' = [writer EXCEPT ![w] = it(i)]
  BY <1>1 DEF ManualInv
<1>3. /\ UNCHANGED <<people, accounts, items, snapshots, entered>> /\ Writing(was) /\ was.pc = "person"
      /\ Manual!Entry(w) = was.file[was.next]
  BY DEF Manual!FindItem, ManualInv, Manual!Entry
<1>4. i = Manual!None \/ (i \in DOMAIN items /\ items[i] = Manual!Item(was.file[was.next]))
  BY <1>1, <1>3, FoundIsLike
<1> HIDE DEF was
<1>5. Writing(it(i))
  <2>1. DOMAIN was = WriterFields
    BY <1>3 DEF Writing
  <2>2. /\ DOMAIN it(i) = WriterFields /\ it(i).pc = "item" /\ it(i).item = i
        /\ it(i).file = was.file /\ it(i).next = was.next /\ it(i).person = was.person
    BY <2>1 DEF WriterFields
  <2> HIDE DEF it
  <2>3. QED
    BY <1>3, <1>4, <2>2 DEF Writing, FoundPerson, FoundItem
<1> HIDE DEF it
<1>6. QED
  BY <1>2, <1>3, <1>5, MovesKeep

\* A file that ends, or a killed writer, leaves the tables as they are.
LEMMA EntryStopKeeps ==
  ASSUME ManualInv, NEW w \in Writers, Manual!Stop(w)
  PROVE  ManualInv'
<1> DEFINE it == [Manual!Idle EXCEPT !.starts = writer[w].starts]
<1>1. writer' = [writer EXCEPT ![w] = it] /\ UNCHANGED <<people, accounts, items, snapshots, entered>>
  BY DEF Manual!Stop
<1>2. Writing(it)
  <2>1. DOMAIN it = WriterFields /\ it.pc = "idle" /\ it.next = 1
    BY DEF Manual!Idle, WriterFields
  <2> HIDE DEF it
  <2>2. QED
    BY <2>1 DEF Writing
<1> HIDE DEF it
<1>3. QED
  BY <1>1, <1>2, MovesKeep

\* A commit adds rows, and the entry goes to an account of the person it names.
LEMMA EntryCommitKeeps ==
  ASSUME ManualInv, NEW w \in Writers, Manual!Commit(w)
  PROVE  ManualInv'
<1> DEFINE was == writer[w]
           e == was.file[was.next]
           person == IF was.person = Manual!None THEN Len(people) + 1 ELSE was.person
           item == IF was.item = Manual!None THEN Len(items) + 1 ELSE was.item
           key == <<<<person, e.account>>, item, e.day>>
           input == <<e.person, e.account, Manual!Item(e), e.day>>
<1>1. /\ was.pc = "item"
      /\ people' = IF was.person = Manual!None THEN Append(people, e.person) ELSE people
      /\ items' = IF was.item = Manual!None THEN Append(items, Manual!Item(e)) ELSE items
      /\ DOMAIN snapshots' = DOMAIN snapshots \cup {key}
      /\ DOMAIN entered' = DOMAIN entered \cup {input}
      /\ writer' = [writer EXCEPT ![w].pc = "between", ![w].next = @ + 1]
  BY DEF Manual!Commit, Manual!Entry
<1>2. /\ Writing(was) /\ people \in Seq(Names) /\ items \in Seq(Holdings)
      /\ \A k \in DOMAIN snapshots : Snapshot(k)
  BY DEF ManualInv
<1>3. e \in Entries
  <2>1. was.file \in ManualFiles /\ was.next \in Nat
    BY <1>1, <1>2 DEF Writing
  <2> HIDE DEF was
  <2>2. QED
    BY <2>1 DEF Entries
<1>4. e.person \in Names /\ Manual!Item(e) \in Holdings
  BY <1>3 DEF Names, Holdings
<1>5. writer' = [writer EXCEPT ![w] = [was EXCEPT !.pc = "between", !.next = was.next + 1]]
  BY <1>1 DEF ManualInv
<1>6. /\ was.person # Manual!None => was.person \in DOMAIN people /\ people[was.person] = e.person
      /\ was.item # Manual!None => was.item \in DOMAIN items /\ items[was.item] = Manual!Item(e)
  BY <1>1, <1>2 DEF Writing, FoundPerson, FoundItem
<1> HIDE DEF e, was
<1>7. /\ people' \in Seq(Names) /\ Grown(people, people')
      /\ person \in DOMAIN people' /\ people'[person] = e.person
  <2>1. CASE was.person = Manual!None
    <3>1. /\ Append(people, e.person) \in Seq(Names) /\ Grown(people, Append(people, e.person))
          /\ Len(people) + 1 \in DOMAIN Append(people, e.person)
          /\ Append(people, e.person)[Len(people) + 1] = e.person
      BY <1>2, <1>4, AppendGrows
    <3>2. QED
      BY <1>1, <2>1, <3>1
  <2>2. CASE was.person # Manual!None
    BY <1>1, <1>2, <1>6, <2>2 DEF Grown
  <2>3. QED
    BY <2>1, <2>2
<1>8. /\ items' \in Seq(Holdings) /\ Grown(items, items')
      /\ item \in DOMAIN items' /\ items'[item] = Manual!Item(e)
  <2>1. CASE was.item = Manual!None
    <3>1. /\ Append(items, Manual!Item(e)) \in Seq(Holdings) /\ Grown(items, Append(items, Manual!Item(e)))
          /\ Len(items) + 1 \in DOMAIN Append(items, Manual!Item(e))
          /\ Append(items, Manual!Item(e))[Len(items) + 1] = Manual!Item(e)
      BY <1>2, <1>4, AppendGrows
    <3>2. QED
      BY <1>1, <2>1, <3>1
  <2>2. CASE was.item # Manual!None
    BY <1>1, <1>2, <1>6, <2>2 DEF Grown
  <2>3. QED
    BY <2>1, <2>2
<1> HIDE DEF person, item
<1>9. ASSUME NEW k, k = key PROVE Snapshot(k)'
  <2>1. /\ k = <<<<k[1][1], k[1][2]>>, k[2], k[3]>>
        /\ k[1][1] = person /\ k[1][2] = e.account /\ k[2] = item /\ k[3] = e.day
    BY <1>9
  <2>2. input \in DOMAIN entered'
    BY <1>1
  <2> HIDE DEF key
  <2>3. <<people'[k[1][1]], k[1][2], items'[k[2]], k[3]>> = input
    BY <1>7, <1>8, <2>1
  <2> HIDE DEF input
  <2>4. QED
    BY <1>7, <1>8, <2>1, <2>2, <2>3 DEF Snapshot
<1>10. \A k \in DOMAIN snapshots : Snapshot(k)'
  BY <1>1, <1>2, <1>7, <1>8 DEF Snapshot, Grown
<1> HIDE DEF key, input
<1>11. \A k \in DOMAIN snapshots' : Snapshot(k)'
  BY <1>1, <1>9, <1>10
<1>12. /\ writer' = [q \in Writers |-> writer'[q]]
       /\ \A q \in Writers \ {w} : writer'[q] = writer[q]
       /\ writer'[w] = [was EXCEPT !.pc = "between", !.next = was.next + 1]
  BY <1>5 DEF ManualInv
<1>13. Writing(writer[w])'
  <2>1. DOMAIN was = WriterFields
    BY <1>2 DEF Writing
  <2>2. /\ DOMAIN writer'[w] = WriterFields /\ writer'[w].pc = "between"
        /\ writer'[w].file = was.file /\ writer'[w].next = was.next + 1
    BY <1>12, <2>1 DEF WriterFields
  <2>3. was.next + 1 \in Nat /\ was.file \in ManualFiles
    BY <1>1, <1>2 DEF Writing
  <2>4. QED
    BY <2>2, <2>3 DEF Writing
<1>14. \A q \in Writers \ {w} : Writing(writer[q])'
  BY <1>7, <1>8, <1>12 DEF ManualInv, Writing, FoundPerson, FoundItem, Grown
<1>15. QED
  BY <1>7, <1>8, <1>11, <1>12, <1>13, <1>14 DEF ManualInv

\* Accounts stay personal, step by step.
LEMMA ManualStep ==
  ASSUME ManualInv, [Manual!Next]_(Manual!manualVars)
  PROVE  ManualInv'
<1>1. ASSUME UNCHANGED Manual!manualVars PROVE ManualInv'
  BY <1>1 DEF Manual!manualVars, ManualInv, Writing, FoundPerson, FoundItem, Snapshot
<1>2. QED
  BY <1>1, EntryStartKeeps, FindPersonKeeps, FindItemKeeps, EntryStopKeeps, EntryCommitKeeps
     DEF Manual!Next

\* At first there is nothing.
LEMMA ManualStart ==
  ASSUME Manual!Init
  PROVE  ManualInv
<1>1. /\ people = <<>> /\ items = <<>> /\ DOMAIN snapshots = {}
      /\ writer = [w \in Writers |-> Manual!Idle]
  BY DEF Manual!Init
<1>2. Writing(Manual!Idle)
  <2>1. DOMAIN Manual!Idle = WriterFields /\ Manual!Idle.pc = "idle" /\ Manual!Idle.next = 1
    BY DEF Manual!Idle, WriterFields
  <2>2. QED
    BY <2>1 DEF Writing
<1>3. QED
  BY <1>1, <1>2 DEF ManualInv

\* What the invariant is for.
LEMMA ManualPersonal ==
  ASSUME ManualInv
  PROVE  Manual!AccountsArePersonal
<1> SUFFICES ASSUME NEW k \in DOMAIN snapshots
             PROVE  \E input \in DOMAIN entered :
                      /\ input[1] = people[k[1][1]] /\ input[2] = k[1][2]
                      /\ input[3] = items[k[2]] /\ input[4] = k[3]
  BY DEF Manual!AccountsArePersonal
<1>1. <<people[k[1][1]], k[1][2], items[k[2]], k[3]>> \in DOMAIN entered
  BY DEF ManualInv, Snapshot
<1>2. QED
  BY <1>1

-----------------------------------------------------------------------------
(* Rows in review. *)

\* What a row in review says is so, and its flag can go stale only by a later commit.
Truthful(row, source, depot) ==
  LET key == Rows!Key(source, depot, row.payload)
  IN  /\ row.status # "error" => row.payload.valid
      /\ row.probed <= commits /\ row.probed \in Nat
      /\ row.status = "warning" => key \in DOMAIN imported
      /\ (row.status = "ok" /\ Rows!IsProbed(source) /\ key \in DOMAIN imported)
           => imported[key].since > row.probed
      /\ row = [payload |-> row.payload, status |-> row.status,
                excluded |-> row.excluded, probed |-> row.probed]

InOrder(rows) == \E n \in Nat : DOMAIN rows = 1 .. n

Reviewed(it) ==
  /\ it = [status |-> it.status, source |-> it.source, depot |-> it.depot, rows |-> it.rows]
  /\ it.status = "staged" =>
       /\ InOrder(it.rows)
       /\ \A k \in DOMAIN it.rows : Truthful(it.rows[k], it.source, it.depot)

LoadedRow(it) == it.payload.valid /\ it.since \in Nat /\ it.since <= commits

RowInv ==
  /\ commits \in Nat
  /\ session = [s \in Sessions |-> session[s]]
  /\ \A s \in Sessions : Reviewed(session[s])
  /\ \A k \in DOMAIN imported : LoadedRow(imported[k])

\* A row is what the model says of it and what the probe finds.
LEMMA StagedIsTrue ==
  ASSUME commits \in Nat, NEW source, NEW depot, NEW p
  PROVE  Truthful(Rows!Staged(source, depot, p), source, depot)
<1>1. Rows!Staged(source, depot, p) = [payload |-> p, status |-> Rows!RowStatus(source, depot, p),
                                  excluded |-> FALSE, probed |-> commits]
  BY DEF Rows!Staged
<1>2. QED
  BY <1>1 DEF Rows!RowStatus, Rows!Exists, Truthful

\* Whether a row is in says nothing about it.
LEMMA ExcludedIsTrue ==
  ASSUME NEW row, NEW source, NEW depot, Truthful(row, source, depot), NEW out
  PROVE  Truthful([row EXCEPT !.excluded = out], source, depot)
<1> DEFINE other == [row EXCEPT !.excluded = out]
<1>1. /\ other.payload = row.payload /\ other.status = row.status /\ other.probed = row.probed
      /\ other = [payload |-> other.payload, status |-> other.status,
                  excluded |-> other.excluded, probed |-> other.probed]
  BY DEF Truthful
<1> HIDE DEF other
<1>2. Truthful(other, source, depot)
  BY <1>1 DEF Truthful
<1>3. QED
  BY <1>2 DEF other

\* Later commits leave what a row says: what was loaded stays loaded.
LEMMA CommitIsLater ==
  ASSUME NEW row, NEW source, NEW depot, Truthful(row, source, depot), commits \in Nat,
         commits' \in Nat, commits <= commits',
         \A k \in DOMAIN imported : k \in DOMAIN imported' /\ imported'[k].since = imported[k].since,
         \A k \in DOMAIN imported' \ DOMAIN imported : imported'[k].since = commits + 1,
         NEW e, e = row
  PROVE  Truthful(e, source, depot)'
BY DEF Truthful

\* A step that changes one session and nothing that is loaded.
LEMMA OneSession ==
  ASSUME RowInv, NEW s \in Sessions, NEW it, session' = [session EXCEPT ![s] = it],
         Reviewed(it), UNCHANGED <<imported, commits>>
  PROVE  RowInv'
<1>1. /\ session' = [q \in Sessions |-> session'[q]] /\ session'[s] = it
      /\ \A q \in Sessions \ {s} : session'[q] = session[q]
  BY DEF RowInv
<1>2. \A q \in Sessions : Reviewed(session'[q])
  BY <1>1 DEF RowInv
<1>3. \A q \in Sessions : Reviewed(session[q])'
  <2> SUFFICES ASSUME NEW q \in Sessions
               PROVE  Reviewed(session[q])'
    OBVIOUS
  <2>1. Reviewed(session'[q]) /\ UNCHANGED <<imported, commits>>
    BY <1>2
  <2>2. QED
    BY ONLY <2>1 DEF Reviewed, Truthful
<1>4. \A k \in DOMAIN imported : LoadedRow(imported[k])'
  BY DEF RowInv, LoadedRow
<1>5. QED
  BY <1>1, <1>3, <1>4 DEF RowInv

\* Staging a file.
LEMMA StageKeeps ==
  ASSUME Rows!RowConstants, RowInv, NEW s \in Sessions, Rows!Stage(s)
  PROVE  RowInv'
<1> DEFINE rows(f, source) == [k \in DOMAIN f.rows |-> Rows!Staged(source, f.depot, f.rows[k])]
           it(f, source) == [status |-> "staged", source |-> source, depot |-> f.depot,
                             rows |-> rows(f, source)]
<1>1. PICK f \in Uploads :
        \E source \in Rows!KnownSources : session' = [session EXCEPT ![s] = it(f, source)]
  BY DEF Rows!Stage
<1>2. PICK source \in Rows!KnownSources : session' = [session EXCEPT ![s] = it(f, source)]
  BY <1>1
<1>3. f.rows \in Seq({f.rows[k] : k \in DOMAIN f.rows})
  BY DEF Rows!RowConstants
<1>4. Len(f.rows) \in Nat /\ DOMAIN f.rows = 1 .. Len(f.rows)
  BY <1>3
<1>5. InOrder(rows(f, source))
  BY <1>4 DEF InOrder
<1>6. commits \in Nat
  BY DEF RowInv
<1>7. \A k \in DOMAIN rows(f, source) : Truthful(rows(f, source)[k], source, f.depot)
  BY <1>6, StagedIsTrue
<1> HIDE DEF rows
<1>8. Reviewed(it(f, source))
  BY <1>5, <1>7 DEF Reviewed
<1>9. UNCHANGED <<imported, commits>>
  BY DEF Rows!Stage
<1> HIDE DEF it
<1>10. QED
  BY <1>2, <1>8, <1>9, OneSession

\* A correction is looked at as a staged row is.
LEMMA CorrectKeeps ==
  ASSUME RowInv, NEW s \in Sessions, Rows!Correct(s)
  PROVE  RowInv'
<1> DEFINE was == session[s]
           mine(k, p) == [Rows!Staged(was.source, was.depot, p) EXCEPT !.excluded = was.rows[k].excluded]
           it(k, p) == [was EXCEPT !.rows = [was.rows EXCEPT ![k] = mine(k, p)]]
<1>1. PICK k \in DOMAIN was.rows : \E p \in Payloads :
        session' = [session EXCEPT ![s].rows[k] = mine(k, p)]
  BY DEF Rows!Correct
<1>2. PICK p \in Payloads : session' = [session EXCEPT ![s].rows[k] = mine(k, p)]
  BY <1>1
<1>3. session' = [session EXCEPT ![s] = it(k, p)]
  BY <1>2 DEF RowInv
<1>4. UNCHANGED <<imported, commits>> /\ was.status = "staged"
  BY DEF Rows!Correct
<1>5. commits \in Nat /\ Reviewed(was)
  BY DEF RowInv
<1> HIDE DEF was
<1>6. Truthful(mine(k, p), was.source, was.depot)
  BY <1>5, StagedIsTrue, ExcludedIsTrue
<1> HIDE DEF mine
<1>7. /\ it(k, p) = [status |-> was.status, source |-> was.source, depot |-> was.depot,
                     rows |-> [was.rows EXCEPT ![k] = mine(k, p)]]
      /\ InOrder(was.rows) /\ \A n \in DOMAIN was.rows : Truthful(was.rows[n], was.source, was.depot)
  BY <1>4, <1>5 DEF Reviewed
<1>8. Reviewed(it(k, p))
  BY <1>6, <1>7 DEF Reviewed, InOrder
<1> HIDE DEF it
<1>9. QED
  BY <1>3, <1>4, <1>8, OneSession

\* Taking a row out or in leaves what is said of it.
LEMMA ExcludeKeeps ==
  ASSUME RowInv, NEW s \in Sessions, Rows!Exclude(s)
  PROVE  RowInv'
<1> DEFINE was == session[s]
           mine(k) == [was.rows[k] EXCEPT !.excluded = ~was.rows[k].excluded]
           it(k) == [was EXCEPT !.rows = [was.rows EXCEPT ![k] = mine(k)]]
<1>1. PICK k \in DOMAIN was.rows : session' = [session EXCEPT ![s].rows[k].excluded = ~@]
  BY DEF Rows!Exclude
<1>2. session' = [session EXCEPT ![s] = it(k)]
  BY <1>1 DEF RowInv
<1>3. UNCHANGED <<imported, commits>> /\ was.status = "staged"
  BY DEF Rows!Exclude
<1>4. Reviewed(was)
  BY DEF RowInv
<1> HIDE DEF was
<1>5. Truthful(mine(k), was.source, was.depot)
  BY <1>3, <1>4, ExcludedIsTrue DEF Reviewed
<1> HIDE DEF mine
<1>6. Reviewed(it(k))
  BY <1>3, <1>4, <1>5 DEF Reviewed, InOrder
<1> HIDE DEF it
<1>7. QED
  BY <1>2, <1>3, <1>6, OneSession

\* The row of some rows that comes last in the file is one of them.
LEMMA LastIsOne ==
  ASSUME NEW n \in Nat, NEW S, S \in SUBSET (1 .. n), S # {}
  PROVE  Rows!Max(S) \in S
<1>1. IsFiniteSet(1 .. n)
  BY FS_Interval
<1>2. IsFiniteSet(S)
  BY <1>1, FS_Subset
<1>3. S \in SUBSET Int
  OBVIOUS
<1>4. PICK x \in S : \A y \in S : y <= x
  BY <1>2, <1>3, HasGreatest
<1>5. x \in S /\ \A y \in S : x >= y
  BY <1>3, <1>4
<1> DEFINE top(z) == z \in S /\ \A y \in S : z >= y
<1>6. Rows!Max(S) = CHOOSE z : top(z)
  BY DEF Rows!Max
<1>7. top(x)
  BY <1>5
<1>8. top(CHOOSE z : top(z))
  BY <1>7
<1>9. QED
  BY <1>6, <1>8

\* A commit loads the rows that are in, none of them with an error.
LEMMA RowCommitKeeps ==
  ASSUME RowInv, NEW s \in Sessions, Rows!Commit(s)
  PROVE  RowInv'
<1> DEFINE was == session[s]
           rows == was.rows
           keys == {Rows!KeyOf(s, rows[j]) : j \in Rows!Included(s)}
           those(k) == {j \in Rows!Included(s) : Rows!KeyOf(s, rows[j]) = k}
<1>1. /\ was.status = "staged" /\ commits' = commits + 1
      /\ \A j \in Rows!Included(s) : rows[j].status # "error"
      /\ session' = [session EXCEPT ![s].status = "committed"]
  BY DEF Rows!Commit, Rows!Committable
<1>2. /\ DOMAIN imported' = DOMAIN imported \cup keys
      /\ \A k \in DOMAIN imported \ keys : imported'[k] = imported[k]
      /\ \A k \in keys : imported'[k] = [payload |-> rows[Rows!Max(those(k))].payload, since |-> Rows!Since(k)]
  BY DEF Rows!Commit
<1>3. commits \in Nat /\ Reviewed(was) /\ InOrder(rows)
  BY <1>1 DEF RowInv, Reviewed
<1>4. \A k \in keys : Rows!Max(those(k)) \in Rows!Included(s)
  <2> SUFFICES ASSUME NEW k \in keys PROVE Rows!Max(those(k)) \in Rows!Included(s)
    OBVIOUS
  <2>1. PICK n \in Nat : DOMAIN rows = 1 .. n
    BY <1>3 DEF InOrder
  <2>2. those(k) \in SUBSET (1 .. n) /\ those(k) # {} /\ those(k) \subseteq Rows!Included(s)
    BY <2>1 DEF Rows!Included
  <2> HIDE DEF those
  <2>3. Rows!Max(those(k)) \in those(k)
    BY <2>2, LastIsOne
  <2>4. QED
    BY <2>2, <2>3
<1>5. \A j \in Rows!Included(s) : rows[j].payload.valid
  BY <1>1, <1>3 DEF Rows!Included, Reviewed, Truthful
<1>6. \A k \in DOMAIN imported : LoadedRow(imported[k])
  BY DEF RowInv
<1> DEFINE last(k) == Rows!Max(those(k))
<1> HIDE DEF keys, those, last
<1>7. \A k \in keys :
        /\ imported'[k].payload.valid
        /\ imported'[k].since = IF k \in DOMAIN imported THEN imported[k].since ELSE commits + 1
  <2> SUFFICES ASSUME NEW k \in keys
               PROVE  /\ imported'[k].payload.valid
                      /\ imported'[k].since = IF k \in DOMAIN imported THEN imported[k].since ELSE commits + 1
    OBVIOUS
  <2>1. last(k) \in Rows!Included(s)
    BY <1>4 DEF last
  <2>2. imported'[k] = [payload |-> rows[last(k)].payload, since |-> Rows!Since(k)]
    BY <1>2 DEF last
  <2>3. QED
    BY <1>5, <2>1, <2>2 DEF Rows!Since
<1>8. \A k \in DOMAIN imported' : LoadedRow(imported[k])'
  BY <1>1, <1>2, <1>3, <1>6, <1>7 DEF LoadedRow
<1>9. \A k \in DOMAIN imported : k \in DOMAIN imported' /\ imported'[k].since = imported[k].since
  BY <1>2, <1>7
<1>10. \A k \in DOMAIN imported' \ DOMAIN imported : imported'[k].since = commits + 1
  BY <1>2, <1>7
<1>11. /\ session' = [q \in Sessions |-> session'[q]]
       /\ \A q \in Sessions \ {s} : session'[q] = session[q]
       /\ session'[s] = [was EXCEPT !.status = "committed"]
  BY <1>1 DEF RowInv
<1>12. Reviewed(session[s])'
  BY <1>3, <1>11 DEF Reviewed
<1>13. commits' \in Nat /\ commits <= commits'
  BY <1>1, <1>3
<1>14. ASSUME NEW q \in Sessions \ {s}
       PROVE  Reviewed(session[q])'
  <2> DEFINE its == session[q]
  <2>1. Reviewed(its) /\ session'[q] = its
    BY <1>11 DEF RowInv
  <2>2. ASSUME its.status = "staged", NEW k \in DOMAIN its.rows
        PROVE  Truthful(session[q].rows[k], session[q].source, session[q].depot)'
    <3>1. Truthful(its.rows[k], its.source, its.depot)
      BY <2>1, <2>2 DEF Reviewed
    <3>2. ASSUME NEW row, NEW source, NEW depot, Truthful(row, source, depot)
          PROVE  Truthful(row, source, depot)'
      BY <3>2, <1>3, <1>9, <1>10, <1>13, CommitIsLater
    <3>3. QED
      BY <3>1, <3>2, <2>1 DEF Truthful
  <2>3. QED
    BY <2>1, <2>2 DEF Reviewed
<1>15. \A q \in Sessions : Reviewed(session[q])'
  BY <1>12, <1>14
<1>16. QED
  BY <1>1, <1>3, <1>8, <1>11, <1>15 DEF RowInv

\* Rows in review stay truthful, step by step.
LEMMA RowStep ==
  ASSUME Rows!RowConstants, RowInv, [Rows!Next]_(Rows!rowVars)
  PROVE  RowInv'
<1>1. ASSUME UNCHANGED Rows!rowVars PROVE RowInv'
  BY <1>1 DEF Rows!rowVars, RowInv, Reviewed, Truthful, LoadedRow
<1>2. QED
  BY <1>1, StageKeeps, CorrectKeeps, ExcludeKeeps, RowCommitKeeps DEF Rows!Next

\* At first there is nothing.
LEMMA RowStart ==
  ASSUME Rows!Init
  PROVE  RowInv
<1>1. session = [s \in Sessions |-> Rows!NoSession] /\ DOMAIN imported = {} /\ commits = 0
  BY DEF Rows!Init
<1>2. QED
  BY <1>1 DEF RowInv, Reviewed, Rows!NoSession

\* What the invariant is for.
LEMMA RowsTrue ==
  ASSUME RowInv
  PROVE  Rows!FlagsAreTrue /\ Rows!OnlyValidRowsLoaded
BY DEF RowInv, Reviewed, Truthful, LoadedRow, Rows!FlagsAreTrue, Rows!InReview, Rows!KeyOf,
   Rows!OnlyValidRowsLoaded

-----------------------------------------------------------------------------
(* Backups. *)

\* A script's job names an artefact of its own kind.
Job(k, j) ==
  \/ j = Artefacts!Off
  \/ /\ j = [step |-> j.step, name |-> j.name, run |-> j.run]
     /\ j.step \in {"started", "writing", "written"}
     /\ j.name = <<k, j.name[2]>>

WrittenIsWhole(j) ==
  j.step = "written" /\ j.name \in DOMAIN files => files[j.name].whole

BackupInv ==
  /\ jobs = [k \in Artefacts!Kinds |-> jobs[k]]
  /\ \A k \in Artefacts!Kinds : Job(k, jobs[k]) /\ (jobs[k] # Artefacts!Off => WrittenIsWhole(jobs[k]))
  /\ \A n \in DOMAIN sidecars : sidecars[n].whole
  /\ \A n \in DOMAIN files : files[n] = [run |-> files[n].run, whole |-> files[n].whole]
  /\ Artefacts!NothingTornStays

\* What is under way is told apart by its step, and by its kind.
LEMMA JobsApart ==
  ASSUME BackupInv, NEW k \in Artefacts!Kinds
  PROVE  /\ jobs[k].step # "off" => jobs[k] # Artefacts!Off
         /\ \A other \in Artefacts!Kinds : jobs[k] # Artefacts!Off /\ jobs[other] # Artefacts!Off /\ k # other
                                   => jobs[k].name # jobs[other].name
BY DEF BackupInv, Job, Artefacts!Off

\* Beginning a backup.
LEMMA BackupBegins ==
  ASSUME BackupInv, NEW k \in Artefacts!Kinds, NEW second, Artefacts!Start(k, second)
  PROVE  BackupInv'
<1>1. /\ jobs[k] = Artefacts!Off /\ UNCHANGED <<files, sidecars, killed>>
      /\ jobs' = [jobs EXCEPT ![k] = [step |-> "started", name |-> <<k, second>>, run |-> events']]
  BY DEF Artefacts!Start
<1>2. /\ jobs' = [j \in Artefacts!Kinds |-> jobs'[j]] /\ \A j \in Artefacts!Kinds \ {k} : jobs'[j] = jobs[j]
      /\ jobs'[k] = [step |-> "started", name |-> <<k, second>>, run |-> events']
  BY <1>1 DEF BackupInv
<1>3. Job(k, jobs'[k]) /\ jobs'[k] # Artefacts!Off /\ jobs'[k].step = "started"
  BY <1>2 DEF Job, Artefacts!Off
<1>4. \A j \in Artefacts!Kinds :
        Job(j, jobs'[j]) /\ (jobs'[j] # Artefacts!Off => WrittenIsWhole(jobs[j])')
  BY <1>1, <1>2, <1>3 DEF BackupInv, WrittenIsWhole
<1>5. Artefacts!NothingTornStays'
  BY <1>1, <1>2 DEF BackupInv, Artefacts!NothingTornStays
<1>6. QED
  BY <1>1, <1>2, <1>4, <1>5 DEF BackupInv, Job

\* What a step of a job does to it.
LEMMA StepOf ==
  ASSUME BackupInv, NEW k \in Artefacts!Kinds, jobs[k] # Artefacts!Off,
         NEW step \in {"writing", "written"}, Artefacts!Step(k, step)
  PROVE  /\ jobs' = [j \in Artefacts!Kinds |-> jobs'[j]]
         /\ \A j \in Artefacts!Kinds \ {k} : jobs'[j] = jobs[j]
         /\ jobs'[k].step = step /\ jobs'[k].name = jobs[k].name
         /\ Job(k, jobs'[k]) /\ jobs'[k] # Artefacts!Off
BY DEF BackupInv, Job, Artefacts!Step, Artefacts!Off

\* The output is opened, and torn until it is closed.
LEMMA OpenKeeps ==
  ASSUME BackupInv, NEW k \in Artefacts!Kinds, Artefacts!Open(k)
  PROVE  BackupInv'
<1>1. /\ jobs[k].step = "started" /\ UNCHANGED <<sidecars, killed>> /\ Artefacts!Step(k, "writing")
      /\ files' = Artefacts!With(files, jobs[k].name, [run |-> jobs[k].run, whole |-> FALSE])
  BY DEF Artefacts!Open
<1>2. jobs[k] # Artefacts!Off
  BY <1>1, JobsApart
<1>3. /\ jobs' = [j \in Artefacts!Kinds |-> jobs'[j]]
      /\ \A j \in Artefacts!Kinds \ {k} : jobs'[j] = jobs[j]
      /\ jobs'[k].step = "writing" /\ jobs'[k].name = jobs[k].name
      /\ Job(k, jobs'[k]) /\ jobs'[k] # Artefacts!Off
  BY <1>1, <1>2, StepOf
<1> DEFINE name == jobs[k].name
<1>4. /\ DOMAIN files' = DOMAIN files \cup {name}
      /\ files'[name] = [run |-> jobs[k].run, whole |-> FALSE]
      /\ \A n \in DOMAIN files \ {name} : files'[n] = files[n]
  BY <1>1 DEF Artefacts!With
<1>5. \A j \in Artefacts!Kinds \ {k} : jobs[j] # Artefacts!Off => jobs[j].name # name
  BY <1>2, JobsApart
<1> HIDE DEF name
<1>6. \A j \in Artefacts!Kinds :
        Job(j, jobs'[j]) /\ (jobs'[j] # Artefacts!Off => WrittenIsWhole(jobs[j])')
  BY <1>3, <1>4, <1>5 DEF BackupInv, WrittenIsWhole
<1>7. Artefacts!NothingTornStays'
  <2>1. jobs'[k].name = name /\ jobs'[k] # Artefacts!Off
    BY <1>3 DEF name
  <2> SUFFICES ASSUME ~killed, NEW n \in DOMAIN files, n # name
               PROVE  \/ files[n].whole
                      \/ \E j \in Artefacts!Kinds : jobs'[j] # Artefacts!Off /\ jobs'[j].name = n
    BY <1>1, <1>4, <2>1 DEF Artefacts!NothingTornStays
  <2>2. files[n].whole \/ \E j \in Artefacts!Kinds : jobs[j] # Artefacts!Off /\ jobs[j].name = n
    BY DEF BackupInv, Artefacts!NothingTornStays
  <2>3. \A j \in Artefacts!Kinds : jobs[j] # Artefacts!Off /\ jobs[j].name = n => j # k
    BY DEF name
  <2>4. QED
    BY <1>3, <2>2, <2>3
<1>8. \A n \in DOMAIN files' : files'[n] = [run |-> files'[n].run, whole |-> files'[n].whole]
  BY <1>4 DEF BackupInv
<1>9. QED
  BY <1>1, <1>3, <1>6, <1>7, <1>8 DEF BackupInv, Job

\* The output is whole.
LEMMA CloseKeeps ==
  ASSUME BackupInv, NEW k \in Artefacts!Kinds, Artefacts!Close(k)
  PROVE  BackupInv'
<1> DEFINE name == jobs[k].name
<1>1. /\ jobs[k].step = "writing" /\ UNCHANGED <<sidecars, killed>> /\ Artefacts!Step(k, "written")
      /\ name \in DOMAIN files /\ files' = [files EXCEPT ![name].whole = TRUE]
  BY DEF Artefacts!Close
<1>2. jobs[k] # Artefacts!Off
  BY <1>1, JobsApart
<1>3. /\ jobs' = [j \in Artefacts!Kinds |-> jobs'[j]]
      /\ \A j \in Artefacts!Kinds \ {k} : jobs'[j] = jobs[j]
      /\ jobs'[k].step = "written" /\ jobs'[k].name = name
      /\ Job(k, jobs'[k]) /\ jobs'[k] # Artefacts!Off
  BY <1>1, <1>2, StepOf
<1> HIDE DEF name
<1>4. /\ DOMAIN files' = DOMAIN files
      /\ files'[name].whole = TRUE
      /\ \A n \in DOMAIN files \ {name} : files'[n] = files[n]
      /\ files'[name] = [run |-> files'[name].run, whole |-> files'[name].whole]
  <2>1. files[name] = [run |-> files[name].run, whole |-> files[name].whole]
    BY <1>1 DEF BackupInv
  <2>2. files'[name] = [files[name] EXCEPT !.whole = TRUE]
    BY <1>1
  <2>3. files'[name] = [run |-> files[name].run, whole |-> TRUE]
    BY <2>1, <2>2
  <2>4. QED
    BY <1>1, <2>3
<1>5. \A j \in Artefacts!Kinds :
        Job(j, jobs'[j]) /\ (jobs'[j] # Artefacts!Off => WrittenIsWhole(jobs[j])')
  BY <1>3, <1>4 DEF BackupInv, WrittenIsWhole
<1>6. Artefacts!NothingTornStays'
  <2> SUFFICES ASSUME ~killed, NEW n \in DOMAIN files, n # name
               PROVE  \/ files[n].whole
                      \/ \E j \in Artefacts!Kinds : jobs'[j] # Artefacts!Off /\ jobs'[j].name = n
    BY <1>1, <1>4 DEF Artefacts!NothingTornStays
  <2>1. files[n].whole \/ \E j \in Artefacts!Kinds : jobs[j] # Artefacts!Off /\ jobs[j].name = n
    BY DEF BackupInv, Artefacts!NothingTornStays
  <2>2. \A j \in Artefacts!Kinds : jobs[j] # Artefacts!Off /\ jobs[j].name = n => j # k
    BY DEF name
  <2>3. QED
    BY <1>3, <2>1, <2>2
<1>7. QED
  BY <1>1, <1>3, <1>4, <1>5, <1>6 DEF BackupInv, Job

\* A sidecar is computed of a whole artefact.
LEMMA ChecksumKeeps ==
  ASSUME BackupInv, NEW k \in Artefacts!Kinds, Artefacts!Checksum(k)
  PROVE  BackupInv'
<1> DEFINE name == jobs[k].name
<1>1. /\ jobs[k].step = "written" /\ UNCHANGED <<files, killed>> /\ jobs' = [jobs EXCEPT ![k] = Artefacts!Off]
      /\ name \in DOMAIN files /\ sidecars' = Artefacts!With(sidecars, name, files[name])
  BY DEF Artefacts!Checksum
<1>2. jobs[k] # Artefacts!Off
  BY <1>1, JobsApart
<1>3. files[name].whole
  BY <1>1, <1>2 DEF BackupInv, WrittenIsWhole
<1>4. /\ jobs' = [j \in Artefacts!Kinds |-> jobs'[j]]
      /\ \A j \in Artefacts!Kinds \ {k} : jobs'[j] = jobs[j]
      /\ jobs'[k] = Artefacts!Off
  BY <1>1 DEF BackupInv
<1>5. \A n \in DOMAIN sidecars' : sidecars'[n].whole
  BY <1>1, <1>3 DEF BackupInv, Artefacts!With
<1>6. Artefacts!NothingTornStays'
  <2> SUFFICES ASSUME ~killed, NEW n \in DOMAIN files, n # name
               PROVE  \/ files[n].whole
                      \/ \E j \in Artefacts!Kinds : jobs'[j] # Artefacts!Off /\ jobs'[j].name = n
    BY <1>1, <1>3 DEF Artefacts!NothingTornStays
  <2>1. QED
    BY <1>4 DEF BackupInv, Artefacts!NothingTornStays
<1>7. QED
  BY <1>1, <1>4, <1>5, <1>6 DEF BackupInv, Job, WrittenIsWhole

\* What a script removes, it does not leave torn.
LEMMA GiveUpKeeps ==
  ASSUME BackupInv, NEW k \in Artefacts!Kinds, Artefacts!GiveUp(k)
  PROVE  BackupInv'
<1> DEFINE name == jobs[k].name
<1>1. /\ UNCHANGED killed /\ jobs' = [jobs EXCEPT ![k] = Artefacts!Off]
      /\ files' = Artefacts!Without(files, {name}) /\ sidecars' = Artefacts!Without(sidecars, {name})
  BY DEF Artefacts!GiveUp, Artefacts!Leaves
<1>2. /\ DOMAIN files' = DOMAIN files \ {name} /\ \A n \in DOMAIN files' : files'[n] = files[n]
      /\ DOMAIN sidecars' = DOMAIN sidecars \ {name}
      /\ \A n \in DOMAIN sidecars' : sidecars'[n] = sidecars[n]
  BY <1>1 DEF Artefacts!Without
<1>3. /\ jobs' = [j \in Artefacts!Kinds |-> jobs'[j]]
      /\ \A j \in Artefacts!Kinds \ {k} : jobs'[j] = jobs[j]
      /\ jobs'[k] = Artefacts!Off
  BY <1>1 DEF BackupInv
<1>4. Artefacts!NothingTornStays'
  <2> SUFFICES ASSUME ~killed, NEW n \in DOMAIN files, n # name
               PROVE  \/ files[n].whole
                      \/ \E j \in Artefacts!Kinds : jobs'[j] # Artefacts!Off /\ jobs'[j].name = n
    BY <1>1, <1>2 DEF Artefacts!NothingTornStays
  <2>1. QED
    BY <1>3 DEF BackupInv, Artefacts!NothingTornStays
<1>5. \A j \in Artefacts!Kinds :
        Job(j, jobs'[j]) /\ (jobs'[j] # Artefacts!Off => WrittenIsWhole(jobs[j])')
  <2> SUFFICES ASSUME NEW j \in Artefacts!Kinds
               PROVE  Job(j, jobs'[j]) /\ (jobs'[j] # Artefacts!Off => WrittenIsWhole(jobs[j])')
    OBVIOUS
  <2>1. CASE j = k
    BY <1>3, <2>1 DEF Job
  <2>2. CASE j # k
    BY <1>2, <1>3, <2>2 DEF BackupInv, WrittenIsWhole
  <2>3. QED
    BY <2>1, <2>2
<1> HIDE DEF name
<1>6. /\ \A n \in DOMAIN sidecars' : sidecars'[n].whole
      /\ \A n \in DOMAIN files' : files'[n] = [run |-> files'[n].run, whole |-> files'[n].whole]
  BY <1>2 DEF BackupInv
<1>7. QED
  BY <1>3, <1>4, <1>5, <1>6 DEF BackupInv

\* A prune removes artefacts with their sidecars, and writes none.
LEMMA PruneKeeps ==
  ASSUME BackupInv, Artefacts!List \/ Artefacts!Remove \/ Artefacts!Finish
  PROVE  BackupInv'
<1>1. UNCHANGED <<jobs, killed>>
  BY DEF Artefacts!List, Artefacts!Remove, Artefacts!Finish
<1>2. /\ DOMAIN files' \subseteq DOMAIN files /\ \A n \in DOMAIN files' : files'[n] = files[n]
      /\ DOMAIN sidecars' \subseteq DOMAIN sidecars
      /\ \A n \in DOMAIN sidecars' : sidecars'[n] = sidecars[n]
  BY DEF Artefacts!List, Artefacts!Remove, Artefacts!Finish, Artefacts!Without
<1>3. QED
  BY <1>1, <1>2 DEF BackupInv, Job, WrittenIsWhole, Artefacts!NothingTornStays

\* Backups stay whole, step by step.
LEMMA BackupStep ==
  ASSUME BackupInv, [Artefacts!Next]_(Artefacts!backupVars)
  PROVE  BackupInv'
<1>1. ASSUME Artefacts!Kill PROVE BackupInv'
  BY <1>1 DEF Artefacts!Kill, BackupInv, Job, Artefacts!NothingTornStays
<1>2. ASSUME UNCHANGED Artefacts!backupVars PROVE BackupInv'
  BY <1>2 DEF Artefacts!backupVars, BackupInv, Job, WrittenIsWhole, Artefacts!NothingTornStays
<1>3. QED
  BY <1>1, <1>2, BackupBegins, OpenKeeps, CloseKeeps, ChecksumKeeps, GiveUpKeeps, PruneKeeps
     DEF Artefacts!Next

\* At first there is nothing.
LEMMA BackupStart ==
  ASSUME Artefacts!Init
  PROVE  BackupInv
<1>1. jobs = [k \in Artefacts!Kinds |-> Artefacts!Off] /\ DOMAIN files = {} /\ DOMAIN sidecars = {}
  BY DEF Artefacts!Init
<1>2. QED
  BY <1>1 DEF BackupInv, Job, Artefacts!NothingTornStays

\* What the invariant is for.
LEMMA BackupsWhole ==
  ASSUME BackupInv
  PROVE  Artefacts!RestoreIsWhole /\ Artefacts!NothingTornStays
BY DEF BackupInv, Artefacts!RestoreIsWhole, Artefacts!Verified

-----------------------------------------------------------------------------
(* Retention. *)

\* An artefact is named by its kind and its second.
ArtefactNames == {<<k, t>> : k \in Artefacts!Kinds, t \in Artefacts!Timestamps}

\* Counting and finiteness are the library's.
LEMMA BackupCounts ==
  ASSUME NEW S
  PROVE  Artefacts!Cardinality(S) = Cardinality(S)
  BY DEF Artefacts!Cardinality, Cardinality

\* A name is a kind and a second.
LEMMA NameParts ==
  ASSUME Artefacts!Timestamps \subseteq Int, NEW n \in ArtefactNames
  PROVE  n[1] \in {"pg", "duckdb"} /\ n[2] \in Int /\ n = <<n[1], n[2]>>
<1>1. PICK k \in Artefacts!Kinds, t \in Artefacts!Timestamps : n = <<k, t>>
  BY DEF ArtefactNames
<1>2. n[1] = k /\ n[2] = t
  BY <1>1
<1>3. QED
  BY <1>1, <1>2 DEF Artefacts!Kinds

\* Of two artefacts one is the newer.
LEMMA NewerIsTotal ==
  ASSUME Artefacts!Timestamps \subseteq Int, NEW a \in ArtefactNames, NEW b \in ArtefactNames
  PROVE  /\ ~Artefacts!Newer(a, b) /\ ~Artefacts!Newer(b, a) => a = b
         /\ ~(Artefacts!Newer(a, b) /\ Artefacts!Newer(b, a))
         /\ \A c \in ArtefactNames : ~Artefacts!Newer(a, b) /\ ~Artefacts!Newer(b, c) => ~Artefacts!Newer(a, c)
         /\ ~Artefacts!Newer(a, b) => a[2] <= b[2]
<1>1. \A n \in ArtefactNames : n[1] \in {"pg", "duckdb"} /\ n[2] \in Int /\ n = <<n[1], n[2]>>
  BY NameParts
<1>2. ~Artefacts!Newer(a, b) /\ ~Artefacts!Newer(b, a) => a = b
  <2>1. ~Artefacts!Newer(a, b) /\ ~Artefacts!Newer(b, a) => a[2] = b[2] /\ a[1] = b[1]
    BY <1>1 DEF Artefacts!Newer
  <2>2. QED
    BY <1>1, <2>1
<1>3. QED
  BY <1>1, <1>2 DEF Artefacts!Newer

\* The image of a finite set is finite.
LEMMA ImageIsFinite ==
  ASSUME NEW S, IsFiniteSet(S), NEW f, DOMAIN f = S, f = [x \in S |-> f[x]]
  PROVE  IsFiniteSet({f[x] : x \in S})
<1> DEFINE T == {f[x] : x \in S}
<1>1. f \in Surjection(S, T)
  BY DEF Surjection
<1>2. QED
  BY <1>1, FS_Surjection

\* Artefacts that are some have a newest one.
LEMMA NewestOf ==
  ASSUME Artefacts!Timestamps \subseteq Int, NEW S \in SUBSET ArtefactNames, IsFiniteSet(S), S # {}
  PROVE  \E n \in S : \A m \in S : ~Artefacts!Newer(m, n)
<1> DEFINE seconds == {n[2] : n \in S}
<1>1. IsFiniteSet(seconds) /\ seconds \in SUBSET Int /\ seconds # {}
  <2> DEFINE second == [n \in S |-> n[2]]
  <2>1. IsFiniteSet({second[n] : n \in S})
    <3>1. DOMAIN second = S /\ second = [n \in S |-> second[n]]
      OBVIOUS
    <3> HIDE DEF second
    <3>2. QED
      BY <3>1, ImageIsFinite
  <2>2. {second[n] : n \in S} = seconds
    OBVIOUS
  <2>3. QED
    BY <2>1, <2>2, NameParts
<1>2. PICK t \in seconds : \A u \in seconds : u <= t
  <2> HIDE DEF seconds
  <2>1. QED
    BY <1>1, HasGreatest
<1>3. PICK n \in S : n[2] = t
  BY DEF seconds
<1>4. \A m \in S : m[2] <= t
  BY <1>2
<1>5. t \in Int
  BY <1>1
<1> HIDE DEF seconds
<1>6. CASE <<"pg", t>> \in S
  <2>1. \A m \in S : m[2] \in Int
    BY DEF ArtefactNames
  <2>2. \A m \in S : ~Artefacts!Newer(m, <<"pg", t>>)
    BY <1>4, <1>5, <2>1 DEF Artefacts!Newer
  <2>3. QED
    BY <1>6, <2>2
<1>7. CASE <<"pg", t>> \notin S
  <2>1. ASSUME NEW m \in S PROVE ~Artefacts!Newer(m, n)
    <3>1. m \in S /\ m = <<m[1], m[2]>> /\ m[2] \in Int
      BY NameParts
    <3>2. m[2] = t => m[1] # "pg"
      BY <1>7, <3>1
    <3>3. QED
      BY <1>3, <1>4, <1>5, <3>1, <3>2 DEF Artefacts!Newer
  <2>2. QED
    BY <2>1
<1>8. QED
  BY <1>6, <1>7

\* The buckets of some artefacts are finitely many numbers.
Buckets(B, S) == {B[n[2]] : n \in S}

IsCalendar(B) == \A t \in Artefacts!Timestamps : B[t] \in Int

BucketsAbove(D, d) == {e \in D : e > d}

LEMMA BucketsAreFinite ==
  ASSUME NEW B, IsCalendar(B), NEW S \in SUBSET ArtefactNames, IsFiniteSet(S)
  PROVE  IsFiniteSet(Buckets(B, S)) /\ Buckets(B, S) \in SUBSET Int
<1> DEFINE bucket == [n \in S |-> B[n[2]]]
<1>1. IsFiniteSet(Buckets(B, S))
  <2>1. IsFiniteSet({bucket[n] : n \in S})
    <3>1. DOMAIN bucket = S /\ bucket = [n \in S |-> bucket[n]]
      OBVIOUS
    <3> HIDE DEF bucket
    <3>2. QED
      BY <3>1, ImageIsFinite
  <2>2. {bucket[n] : n \in S} = Buckets(B, S)
    BY DEF Buckets
  <2>3. QED
    BY <2>1, <2>2
<1>2. QED
  BY <1>1 DEF Buckets, IsCalendar, ArtefactNames

\* Fewer buckets, fewer above.
LEMMA FewerAbove ==
  ASSUME NEW D, IsFiniteSet(D), NEW C \in SUBSET D, NEW d
  PROVE  /\ Cardinality(BucketsAbove(C, d)) \in Nat /\ Cardinality(BucketsAbove(D, d)) \in Nat
         /\ Cardinality(BucketsAbove(C, d)) <= Cardinality(BucketsAbove(D, d))
<1>1. IsFiniteSet(BucketsAbove(D, d)) /\ IsFiniteSet(BucketsAbove(C, d)) /\ BucketsAbove(C, d) \subseteq BucketsAbove(D, d)
  <2>1. BucketsAbove(D, d) \subseteq D /\ BucketsAbove(C, d) \subseteq D /\ BucketsAbove(C, d) \subseteq BucketsAbove(D, d)
    BY DEF BucketsAbove
  <2>2. QED
    BY <2>1, FS_Subset
<1>2. QED
  BY <1>1, FS_Subset, FS_CardinalityType

\* Of the newest buckets the newest artefact listed is there.
Covers(B, q, F, L) ==
  \A d \in Buckets(B, L) : Cardinality(BucketsAbove(Buckets(B, L), d)) < q =>
    \E n \in F : /\ n \in L /\ B[n[2]] = d
                 /\ \A m \in L : B[m[2]] = d => ~Artefacts!Newer(m, n)

\* A prune lists what is there.
LEMMA ListCovers ==
  ASSUME Artefacts!BackupConstants, NEW B, IsCalendar(B), NEW q \in Nat,
         NEW F \in SUBSET ArtefactNames, NEW L \in SUBSET ArtefactNames, IsFiniteSet(F), IsFiniteSet(L),
         Covers(B, q, F, L)
  PROVE  Covers(B, q, F, L \cup F)
<1> DEFINE all == L \cup F
<1>1. all \in SUBSET ArtefactNames /\ IsFiniteSet(all)
  BY FS_Union
<1>2. IsFiniteSet(Buckets(B, all)) /\ Buckets(B, L) \in SUBSET Buckets(B, all)
  <2>1. Buckets(B, L) \in SUBSET Buckets(B, all)
    BY DEF Buckets
  <2>2. QED
    BY <1>1, <2>1, BucketsAreFinite
<1>3. SUFFICES ASSUME NEW d \in Buckets(B, all), Cardinality(BucketsAbove(Buckets(B, all), d)) < q
               PROVE  \E n \in F : /\ n \in all /\ B[n[2]] = d
                                   /\ \A m \in all : B[m[2]] = d => ~Artefacts!Newer(m, n)
  BY DEF Covers
<1>4. Cardinality(BucketsAbove(Buckets(B, L), d)) < q
  BY <1>2, <1>3, FewerAbove
<1> DEFINE here == {n \in F : B[n[2]] = d}
<1>5. \/ d \notin Buckets(B, L)
      \/ \E n \in F : /\ n \in L /\ B[n[2]] = d
                      /\ \A m \in L : B[m[2]] = d => ~Artefacts!Newer(m, n)
  BY <1>4 DEF Covers
<1>6. here # {}
  <2>1. PICK m \in all : B[m[2]] = d
    BY <1>3 DEF Buckets
  <2>2. m \in F \/ d \in Buckets(B, L)
    BY <2>1 DEF Buckets
  <2>3. QED
    BY <1>5, <2>1, <2>2
<1>7. here \in SUBSET ArtefactNames /\ IsFiniteSet(here)
  BY FS_Subset
<1>8. PICK n \in here : \A m \in here : ~Artefacts!Newer(m, n)
  <2> HIDE DEF here
  <2>1. QED
    BY <1>6, <1>7, NewestOf DEF Artefacts!BackupConstants
<1>9. ASSUME NEW m \in L, B[m[2]] = d PROVE ~Artefacts!Newer(m, n)
  <2>1. d \in Buckets(B, L)
    BY <1>9 DEF Buckets
  <2>2. PICK k \in F : /\ k \in L /\ B[k[2]] = d
                       /\ \A o \in L : B[o[2]] = d => ~Artefacts!Newer(o, k)
    BY <1>5, <2>1
  <2>3. ~Artefacts!Newer(m, k) /\ ~Artefacts!Newer(k, n)
    BY <1>8, <1>9, <2>2
  <2>4. m \in ArtefactNames /\ k \in ArtefactNames /\ n \in ArtefactNames
    BY <1>7, <1>8
  <2>5. QED
    BY <2>3, <2>4, NewerIsTotal DEF Artefacts!BackupConstants
<1>10. QED
  BY <1>8, <1>9

\* What a prune removes of its index is not what covers a bucket.
LEMMA RemoveCovers ==
  ASSUME Artefacts!BackupConstants, NEW B, IsCalendar(B), NEW q \in Nat,
         NEW F \in SUBSET ArtefactNames, NEW L \in SUBSET ArtefactNames, IsFiniteSet(L),
         Covers(B, q, F, L), NEW I \in SUBSET L, NEW x \in I, x \notin Artefacts!Picked(I, B, q)
  PROVE  Covers(B, q, F \ {x}, L)
<1>1. SUFFICES ASSUME NEW d \in Buckets(B, L), Cardinality(BucketsAbove(Buckets(B, L), d)) < q
               PROVE  \E n \in F \ {x} : /\ n \in L /\ B[n[2]] = d
                                   /\ \A m \in L : B[m[2]] = d => ~Artefacts!Newer(m, n)
  BY DEF Covers
<1>2. PICK n \in F : /\ n \in L /\ B[n[2]] = d
                     /\ \A m \in L : B[m[2]] = d => ~Artefacts!Newer(m, n)
  BY <1>1 DEF Covers
<1>3. ASSUME n = x PROVE FALSE
  <2> DEFINE buckets == Buckets(B, I)
  <2>1. IsFiniteSet(Buckets(B, L)) /\ buckets \in SUBSET Buckets(B, L) /\ d \in buckets
    <3>1. buckets \in SUBSET Buckets(B, L) /\ d \in buckets
      BY <1>2, <1>3 DEF Buckets
    <3>2. QED
      BY <3>1, BucketsAreFinite
  <2>2. Cardinality(BucketsAbove(buckets, d)) < q
    <3> HIDE DEF buckets
    <3>1. QED
      BY <1>1, <2>1, FewerAbove
  <2>3. Artefacts!Cardinality({c \in buckets : c > d}) < q
    BY <2>2, BackupCounts DEF BucketsAbove
  <2>4. x \in Artefacts!Picked(I, B, q)
    BY <1>2, <1>3, <2>1, <2>3 DEF Artefacts!Picked, Buckets
  <2>5. QED
    BY <2>4
<1>4. QED
  BY <1>2, <1>3
\* What pick_bucket picks.
LEMMA PickedIs ==
  ASSUME NEW B, NEW q, NEW S, NEW n
  PROVE  n \in Artefacts!Picked(S, B, q) <=>
           /\ n \in S
           /\ Cardinality(BucketsAbove(Buckets(B, S), B[n[2]])) < q
           /\ \A m \in S : B[m[2]] = B[n[2]] => ~Artefacts!Newer(m, n)
<1> DEFINE buckets == {B[k[2]] : k \in S}
<1>1. \A d : Cardinality(BucketsAbove(Buckets(B, S), d)) = Artefacts!Cardinality({c \in buckets : c > d})
  BY BackupCounts DEF BucketsAbove, Buckets
<1>2. n \in S => B[n[2]] \in buckets
  OBVIOUS
<1> HIDE DEF buckets
<1>3. n \in Artefacts!Picked(S, B, q) <=>
        /\ n \in S
        /\ B[n[2]] \in {b \in buckets : Artefacts!Cardinality({c \in buckets : c > b}) < q}
        /\ \A m \in S : B[m[2]] = B[n[2]] => ~Artefacts!Newer(m, n)
  BY DEF Artefacts!Picked, buckets
<1>4. QED
  BY <1>1, <1>2, <1>3

\* Of every bucket within the quota one is picked.
LEMMA OneIsPicked ==
  ASSUME Artefacts!BackupConstants, NEW B, NEW q \in Nat, NEW S \in SUBSET ArtefactNames, IsFiniteSet(S),
         NEW d \in Buckets(B, S), Cardinality(BucketsAbove(Buckets(B, S), d)) < q
  PROVE  \E p \in Artefacts!Picked(S, B, q) : B[p[2]] = d
<1> DEFINE here == {n \in S : B[n[2]] = d}
<1>1. here \in SUBSET ArtefactNames /\ IsFiniteSet(here) /\ here # {}
  BY FS_Subset DEF Buckets
<1>2. PICK p \in here : \A m \in here : ~Artefacts!Newer(m, p)
  <2> HIDE DEF here
  <2>1. QED
    BY <1>1, NewestOf DEF Artefacts!BackupConstants
<1>3. QED
  BY <1>2, PickedIs

\* What is left with what is picked is picked from again.
LEMMA PickedStay ==
  ASSUME Artefacts!BackupConstants, NEW B, IsCalendar(B), NEW q \in Nat,
         NEW I \in SUBSET ArtefactNames, IsFiniteSet(I), NEW X \in SUBSET I,
         Artefacts!Picked(I, B, q) \subseteq X
  PROVE  Artefacts!Picked(X, B, q) = Artefacts!Picked(I, B, q)
<1> DEFINE D == Buckets(B, I)
           C == Buckets(B, X)
<1>1. IsFiniteSet(D) /\ D \in SUBSET Int /\ C \in SUBSET D
  <2>1. C \in SUBSET D
    BY DEF Buckets
  <2>2. QED
    BY <2>1, BucketsAreFinite
<1>2. \A d \in D : Cardinality(BucketsAbove(D, d)) < q => \E p \in X : /\ p \in Artefacts!Picked(I, B, q)
                                                              /\ B[p[2]] = d
  BY OneIsPicked
<1>3. \A d \in D : Cardinality(BucketsAbove(D, d)) < q => d \in C
  BY <1>2 DEF Buckets
<1> HIDE DEF C, D
<1>4. ASSUME NEW d \in D, Cardinality(BucketsAbove(C, d)) < q, ~(Cardinality(BucketsAbove(D, d)) < q)
      PROVE  FALSE
  <2> DEFINE U == {c \in D : c >= d /\ ~(Cardinality(BucketsAbove(D, c)) < q)}
  <2>1. U \in SUBSET D /\ U \in SUBSET Int /\ d \in U
    <3>1. d \in Int /\ d >= d
      BY <1>1
    <3>2. QED
      BY <1>1, <1>4, <3>1
  <2>2. IsFiniteSet(U) /\ U # {}
    BY <1>1, <2>1, FS_Subset
  <2>3. PICK c \in U : \A e \in U : e <= c
    <3> HIDE DEF U
    <3>1. QED
      BY <2>1, <2>2, HasGreatest
  <2>4. BucketsAbove(D, c) \subseteq BucketsAbove(C, d)
    <3>1. SUFFICES ASSUME NEW e \in D, e > c
                   PROVE  e \in C /\ e > d
      BY DEF BucketsAbove
    <3>2. e \in Int /\ c \in Int /\ d \in Int /\ c >= d
      BY <1>1, <2>3
    <3>3. e > d /\ e \notin U
      BY <2>3, <3>1, <3>2
    <3>4. QED
      BY <1>3, <3>2, <3>3
  <2>5. IsFiniteSet(BucketsAbove(C, d)) /\ Cardinality(BucketsAbove(C, d)) \in Nat
    <3>1. BucketsAbove(C, d) \in SUBSET D
      BY <1>1 DEF BucketsAbove
    <3>2. QED
      BY <1>1, <3>1, FS_Subset, FS_CardinalityType
  <2>6. Cardinality(BucketsAbove(D, c)) <= Cardinality(BucketsAbove(C, d)) /\ Cardinality(BucketsAbove(D, c)) \in Nat
    <3>1. IsFiniteSet(BucketsAbove(D, c))
      BY <2>4, <2>5, FS_Subset
    <3>2. QED
      BY <2>4, <2>5, <3>1, FS_Subset, FS_CardinalityType
  <2>7. ~(Cardinality(BucketsAbove(D, c)) < q)
    BY <2>3
  <2>8. QED
    BY <1>4, <2>5, <2>6, <2>7
<1>5. ASSUME NEW n, n \in Artefacts!Picked(X, B, q) PROVE n \in Artefacts!Picked(I, B, q)
  <2>1. /\ n \in X /\ Cardinality(BucketsAbove(C, B[n[2]])) < q
        /\ \A m \in X : B[m[2]] = B[n[2]] => ~Artefacts!Newer(m, n)
    BY <1>5, PickedIs DEF C
  <2>2. B[n[2]] \in D
    BY <2>1 DEF D, Buckets
  <2>3. Cardinality(BucketsAbove(D, B[n[2]])) < q
    BY <1>4, <2>1, <2>2
  <2>4. PICK p \in X : p \in Artefacts!Picked(I, B, q) /\ B[p[2]] = B[n[2]]
    BY <1>2, <2>2, <2>3
  <2>5. ~Artefacts!Newer(p, n) /\ \A m \in I : B[m[2]] = B[n[2]] => ~Artefacts!Newer(m, p)
    BY <2>1, <2>4, PickedIs
  <2>6. ASSUME NEW m \in I, B[m[2]] = B[n[2]] PROVE ~Artefacts!Newer(m, n)
    BY <2>1, <2>4, <2>5, <2>6, NewerIsTotal DEF Artefacts!BackupConstants
  <2>7. QED
    BY <2>1, <2>3, <2>6, PickedIs DEF D
<1>6. ASSUME NEW n, n \in Artefacts!Picked(I, B, q) PROVE n \in Artefacts!Picked(X, B, q)
  <2>1. /\ n \in X /\ Cardinality(BucketsAbove(D, B[n[2]])) < q
        /\ \A m \in I : B[m[2]] = B[n[2]] => ~Artefacts!Newer(m, n)
    BY <1>6, PickedIs DEF D
  <2>2. Cardinality(BucketsAbove(C, B[n[2]])) < q
    <3> DEFINE d == B[n[2]]
    <3>1. /\ Cardinality(BucketsAbove(C, d)) \in Nat /\ Cardinality(BucketsAbove(D, d)) \in Nat
          /\ Cardinality(BucketsAbove(C, d)) <= Cardinality(BucketsAbove(D, d))
      <4> HIDE DEF d
      <4>1. QED
        BY <1>1, FewerAbove
    <3>2. Cardinality(BucketsAbove(D, d)) < q
      BY <2>1
    <3> HIDE DEF d
    <3>3. Cardinality(BucketsAbove(C, d)) < q
      BY <3>1, <3>2
    <3>4. QED
      BY <3>3 DEF d
  <2>3. QED
    BY <2>1, <2>2, PickedIs DEF C
<1>7. QED
  BY <1>5, <1>6
BucketQuotas == {<<BackupDay, Daily>>, <<BackupWeek, Weekly>>, <<BackupMonth, Monthly>>}

\* What every prune has listed, and what it is about to remove of it.
RetentionInv ==
  /\ DOMAIN files \in SUBSET ArtefactNames /\ IsFiniteSet(DOMAIN files)
  /\ listed \in SUBSET ArtefactNames /\ IsFiniteSet(listed)
  /\ \A k \in Artefacts!Kinds : jobs[k] # Artefacts!Off => jobs[k].name \in ArtefactNames
  /\ prune # Artefacts!Off => prune.index \in SUBSET listed
  /\ \A b \in BucketQuotas : blurred \/ Covers(b[1], b[2], DOMAIN files, listed)

\* Every bucket is a calendar's, within a quota.
LEMMA QuotaParts ==
  ASSUME Artefacts!BackupConstants, NEW b \in BucketQuotas
  PROVE  IsCalendar(b[1]) /\ b[2] \in Nat
  BY DEF Artefacts!BackupConstants, BucketQuotas, IsCalendar

\* What is picked of one bucket is kept.
LEMMA KeepIs ==
  ASSUME NEW S, NEW n
  PROVE  n \in Artefacts!Keep(S) <=> \E b \in BucketQuotas : n \in Artefacts!Picked(S, b[1], b[2])
  BY DEF Artefacts!Keep, BucketQuotas

\* What is kept, with anything condemned beside it, is kept again.
LEMMA KeepStays ==
  ASSUME Artefacts!BackupConstants, NEW I \in SUBSET ArtefactNames, IsFiniteSet(I), NEW left \in SUBSET I
  PROVE  Artefacts!Keep(Artefacts!Keep(I) \cup left) = Artefacts!Keep(I)
<1> DEFINE X == Artefacts!Keep(I) \cup left
<1>1. X \in SUBSET I
  BY KeepIs, PickedIs
<1>2. ASSUME NEW b \in BucketQuotas
      PROVE  Artefacts!Picked(X, b[1], b[2]) = Artefacts!Picked(I, b[1], b[2])
  <2>1. Artefacts!Picked(I, b[1], b[2]) \subseteq X
    BY KeepIs
  <2> HIDE DEF X
  <2>2. QED
    BY <1>1, <2>1, QuotaParts, PickedStay
<1> HIDE DEF X
<1>3. QED
  BY <1>2, KeepIs DEF X

\* The invariant gives what retention promises.
LEMMA RetentionHolds ==
  ASSUME Artefacts!BackupConstants, RetentionInv
  PROVE  Artefacts!RetentionCovers /\ Artefacts!PruneIsStable
<1>1. ASSUME NEW b \in BucketQuotas, ~blurred,
             NEW d \in {b[1][n[2]] : n \in listed},
             Artefacts!Cardinality({e \in {b[1][n[2]] : n \in listed} : e > d}) < b[2]
      PROVE  \E n \in DOMAIN files : /\ b[1][n[2]] = d
                                   /\ \A m \in listed : b[1][m[2]] = d => m[2] <= n[2]
  <2>1. Covers(b[1], b[2], DOMAIN files, listed)
    BY <1>1 DEF RetentionInv
  <2>2. d \in Buckets(b[1], listed) /\ Cardinality(BucketsAbove(Buckets(b[1], listed), d)) < b[2]
    BY <1>1, BackupCounts DEF Buckets, BucketsAbove
  <2>3. PICK n \in DOMAIN files : /\ n \in listed /\ b[1][n[2]] = d
                                  /\ \A m \in listed : b[1][m[2]] = d => ~Artefacts!Newer(m, n)
    BY <2>1, <2>2 DEF Covers
  <2>4. \A m \in listed : ~Artefacts!Newer(m, n) => m[2] <= n[2]
    BY NewerIsTotal DEF RetentionInv, Artefacts!BackupConstants
  <2>5. QED
    BY <2>3, <2>4
<1>2. Artefacts!RetentionCovers
  BY <1>1 DEF Artefacts!RetentionCovers, BucketQuotas
<1>3. ASSUME prune # Artefacts!Off, NEW left \in SUBSET Artefacts!Condemned
      PROVE  Artefacts!Keep(Artefacts!Keep(prune.index) \cup left) = Artefacts!Keep(prune.index)
  <2>1. prune.index \in SUBSET ArtefactNames /\ IsFiniteSet(prune.index)
    BY <1>3, FS_Subset DEF RetentionInv
  <2>2. left \in SUBSET prune.index
    BY DEF Artefacts!Condemned
  <2>3. QED
    BY <2>1, <2>2, KeepStays
<1>4. QED
  BY <1>2, <1>3 DEF Artefacts!PruneIsStable

\* A step that only takes up, or away, what no prune has listed.
LEMMA UnlistedKeeps ==
  ASSUME RetentionInv, UNCHANGED <<prune, listed>>, NEW x \in ArtefactNames,
         \/ DOMAIN files' = DOMAIN files \cup {x}
         \/ DOMAIN files' = DOMAIN files
         \/ DOMAIN files' = DOMAIN files \ {x} /\ (x \in listed => blurred'),
         blurred => blurred',
         \A k \in Artefacts!Kinds : jobs'[k] # Artefacts!Off => jobs'[k].name \in ArtefactNames
  PROVE  RetentionInv'
<1>1. DOMAIN files' \in SUBSET ArtefactNames /\ IsFiniteSet(DOMAIN files')
  BY FS_AddElement, FS_RemoveElement DEF RetentionInv
<1>2. ASSUME NEW b \in BucketQuotas, ~blurred' PROVE Covers(b[1], b[2], DOMAIN files', listed)
  <2>1. Covers(b[1], b[2], DOMAIN files, listed)
    BY <1>2 DEF RetentionInv
  <2>2. \A n \in DOMAIN files : n \in listed => n \in DOMAIN files'
    BY <1>2
  <2>3. QED
    BY <2>1, <2>2 DEF Covers
<1>3. \A b \in BucketQuotas : (blurred \/ Covers(b[1], b[2], DOMAIN files, listed))'
  BY <1>2 DEF Covers, BucketQuotas
<1>4. QED
  BY <1>1, <1>3 DEF RetentionInv, BucketQuotas
\* A script's own progress keeps the names in use.
LEMMA ScriptKeeps ==
  ASSUME BackupInv, RetentionInv, NEW k \in Artefacts!Kinds,
         \/ \E second \in Artefacts!Timestamps : Artefacts!Start(k, second)
         \/ Artefacts!Open(k) \/ Artefacts!Close(k) \/ Artefacts!Checksum(k) \/ Artefacts!GiveUp(k)
  PROVE  RetentionInv'
<1>1. UNCHANGED <<prune, listed>>
  BY DEF Artefacts!Start, Artefacts!Open, Artefacts!Close, Artefacts!Checksum, Artefacts!GiveUp
<1>2. \A j \in Artefacts!Kinds \ {k} : jobs'[j] = jobs[j]
  BY DEF Artefacts!Start, Artefacts!Open, Artefacts!Close, Artefacts!Checksum, Artefacts!GiveUp,
         Artefacts!Step, BackupInv
<1>3. ASSUME NEW second \in Artefacts!Timestamps, Artefacts!Start(k, second) PROVE RetentionInv'
  <2>1. /\ jobs'[k].name = <<k, second>> /\ <<k, second>> \in ArtefactNames
        /\ UNCHANGED <<files, blurred>>
    BY <1>3 DEF Artefacts!Start, BackupInv, ArtefactNames
  <2>2. \A j \in Artefacts!Kinds : jobs'[j] # Artefacts!Off => jobs'[j].name \in ArtefactNames
    BY <1>2, <2>1 DEF RetentionInv
  <2>3. QED
    BY <1>1, <2>1, <2>2, UnlistedKeeps
<1>4. ASSUME jobs[k].step # "off",
             jobs'[k] = Artefacts!Off \/ jobs'[k].name = jobs[k].name
      PROVE  /\ jobs[k].name \in ArtefactNames
             /\ \A j \in Artefacts!Kinds : jobs'[j] # Artefacts!Off => jobs'[j].name \in ArtefactNames
  <2>1. jobs[k].name \in ArtefactNames
    BY <1>4 DEF RetentionInv, Artefacts!Off
  <2>2. QED
    BY <1>2, <1>4, <2>1 DEF RetentionInv
<1>5. CASE Artefacts!Open(k)
  <2>1. /\ jobs[k].step = "started" /\ jobs' = [jobs EXCEPT ![k].step = "writing"]
        /\ DOMAIN files' = DOMAIN files \cup {jobs[k].name} /\ UNCHANGED blurred
    BY <1>5 DEF Artefacts!Open, Artefacts!Step, Artefacts!With
  <2>2. jobs'[k].name = jobs[k].name
    <3>1. jobs[k] = [step |-> jobs[k].step, name |-> jobs[k].name, run |-> jobs[k].run]
      BY <2>1 DEF BackupInv, Job, Artefacts!Off
    <3>2. jobs'[k] = [jobs[k] EXCEPT !.step = "writing"]
      BY <2>1 DEF BackupInv
    <3>3. QED
      BY <3>1, <3>2
  <2>3. QED
    BY <1>1, <1>4, <2>1, <2>2, UnlistedKeeps
<1>6. CASE Artefacts!Close(k)
  <2>1. /\ jobs[k].step = "writing" /\ jobs' = [jobs EXCEPT ![k].step = "written"]
        /\ DOMAIN files' = DOMAIN files /\ UNCHANGED blurred
    BY <1>6 DEF Artefacts!Close, Artefacts!Step
  <2>2. jobs'[k].name = jobs[k].name
    <3>1. jobs[k] = [step |-> jobs[k].step, name |-> jobs[k].name, run |-> jobs[k].run]
      BY <2>1 DEF BackupInv, Job, Artefacts!Off
    <3>2. jobs'[k] = [jobs[k] EXCEPT !.step = "written"]
      BY <2>1 DEF BackupInv
    <3>3. QED
      BY <3>1, <3>2
  <2>3. QED
    BY <1>1, <1>4, <2>1, <2>2, UnlistedKeeps
<1>7. CASE Artefacts!Checksum(k)
  <2>1. /\ jobs[k].step = "written" /\ jobs'[k] = Artefacts!Off
        /\ DOMAIN files' = DOMAIN files /\ UNCHANGED blurred
    BY <1>7 DEF Artefacts!Checksum, BackupInv
  <2>2. QED
    BY <1>1, <1>4, <2>1, UnlistedKeeps
<1>8. CASE Artefacts!GiveUp(k)
  <2>1. /\ jobs[k] # Artefacts!Off /\ jobs'[k] = Artefacts!Off
        /\ DOMAIN files' = DOMAIN files \ {jobs[k].name}
        /\ blurred' = (blurred \/ jobs[k].name \in listed)
    BY <1>8 DEF Artefacts!GiveUp, Artefacts!Leaves, Artefacts!Without, BackupInv
  <2>2. jobs[k].step # "off"
    BY <2>1 DEF BackupInv, Job
  <2>3. QED
    BY <1>1, <1>4, <2>1, <2>2, UnlistedKeeps
<1>9. QED
  BY <1>3, <1>5, <1>6, <1>7, <1>8

\* A prune that lists what is there.
LEMMA ListKeeps ==
  ASSUME Artefacts!BackupConstants, RetentionInv, Artefacts!List
  PROVE  RetentionInv'
<1>1. /\ UNCHANGED <<files, jobs>> /\ listed' = listed \cup DOMAIN files
      /\ prune'.index = DOMAIN files /\ (blurred => blurred')
  BY DEF Artefacts!List
<1>2. listed' \in SUBSET ArtefactNames /\ IsFiniteSet(listed')
  BY <1>1, FS_Union DEF RetentionInv
<1>3. ASSUME NEW b \in BucketQuotas, ~blurred'
      PROVE  Covers(b[1], b[2], DOMAIN files, listed \cup DOMAIN files)
  BY <1>1, <1>3, ListCovers, QuotaParts DEF RetentionInv
<1>4. \A b \in BucketQuotas : (blurred \/ Covers(b[1], b[2], DOMAIN files, listed))'
  BY <1>1, <1>3 DEF Covers, BucketQuotas
<1>5. prune'.index \in SUBSET listed' /\ DOMAIN files' = DOMAIN files
  BY <1>1
<1>6. \A k \in Artefacts!Kinds : (jobs[k] # Artefacts!Off => jobs[k].name \in ArtefactNames)'
  BY <1>1 DEF RetentionInv
<1>7. QED
  BY <1>2, <1>4, <1>5, <1>6 DEF RetentionInv, BucketQuotas

\* A prune that removes what it does not keep.
LEMMA RemoveKeeps ==
  ASSUME Artefacts!BackupConstants, RetentionInv, Artefacts!Remove
  PROVE  RetentionInv'
<1>1. UNCHANGED <<jobs, prune, listed, blurred>> /\ prune # Artefacts!Off
  BY DEF Artefacts!Remove
<1>2. PICK x \in Artefacts!Condemned \cap DOMAIN files : files' = Artefacts!Without(files, {x})
  BY DEF Artefacts!Remove
<1>3. DOMAIN files' = DOMAIN files \ {x}
  BY <1>2 DEF Artefacts!Without
<1>4. prune.index \in SUBSET listed /\ x \in prune.index /\ x \notin Artefacts!Keep(prune.index)
  BY <1>1, <1>2 DEF RetentionInv, Artefacts!Condemned
<1>5. ASSUME NEW b \in BucketQuotas, ~blurred PROVE Covers(b[1], b[2], DOMAIN files \ {x}, listed)
  <2>1. x \notin Artefacts!Picked(prune.index, b[1], b[2])
    BY <1>4, KeepIs
  <2>2. QED
    BY <1>4, <1>5, <2>1, QuotaParts, RemoveCovers DEF RetentionInv
<1>6. \A b \in BucketQuotas : (blurred \/ Covers(b[1], b[2], DOMAIN files, listed))'
  BY <1>1, <1>3, <1>5 DEF Covers, BucketQuotas
<1>7. DOMAIN files' \in SUBSET ArtefactNames /\ IsFiniteSet(DOMAIN files')
  BY <1>3, FS_RemoveElement DEF RetentionInv
<1>8. QED
  BY <1>1, <1>6, <1>7 DEF RetentionInv, BucketQuotas

\* Retention, step by step.
LEMMA RetentionStep ==
  ASSUME Artefacts!BackupConstants, BackupInv, RetentionInv, [Artefacts!Next]_(Artefacts!backupVars)
  PROVE  RetentionInv'
<1>1. ASSUME UNCHANGED <<files, listed, blurred>>,
             prune' = Artefacts!Off \/ UNCHANGED prune,
             UNCHANGED jobs \/ jobs' = [k \in Artefacts!Kinds |-> Artefacts!Off]
      PROVE  RetentionInv'
  <2>1. \A b \in BucketQuotas : (blurred \/ Covers(b[1], b[2], DOMAIN files, listed))'
    BY <1>1 DEF RetentionInv, Covers, BucketQuotas
  <2>2. \A k \in Artefacts!Kinds : (jobs[k] # Artefacts!Off => jobs[k].name \in ArtefactNames)'
    BY <1>1 DEF RetentionInv
  <2>3. QED
    BY <1>1, <2>1, <2>2 DEF RetentionInv, BucketQuotas
<1>2. ASSUME Artefacts!Kill \/ Artefacts!Finish \/ UNCHANGED Artefacts!backupVars
      PROVE  RetentionInv'
  BY <1>1, <1>2 DEF Artefacts!Kill, Artefacts!Finish, Artefacts!backupVars
<1>3. QED
  BY <1>2, ScriptKeeps, ListKeeps, RemoveKeeps DEF Artefacts!Next

\* At first nothing is listed.
LEMMA RetentionStart ==
  ASSUME Artefacts!Init
  PROVE  RetentionInv
<1>1. DOMAIN files = {} /\ listed = {} /\ prune = Artefacts!Off
      /\ jobs = [k \in Artefacts!Kinds |-> Artefacts!Off]
  BY DEF Artefacts!Init
<1>2. IsFiniteSet({})
  BY FS_EmptySet
<1>3. QED
  BY <1>1, <1>2 DEF RetentionInv, Covers, Buckets

-----------------------------------------------------------------------------
(* The merchant index. *)

Statuses == {Index!None, "refreshing", "current", "stale", "failed"}
Steps == {"idle", "started", "released", "unchanged", "fetch", "promote", "failed"}

IndexShape ==
  /\ state \in [status : Statuses, active : Nat, candidate : Index!Versions \cup {Index!None},
                error : BOOLEAN]
  /\ gens \in [DOMAIN gens -> [version : Index!Versions, status : {"active", "superseded"}]]
  /\ DOMAIN gens \subseteq Nat \ {0}
  /\ refresh \in [step : Steps, release : Index!Versions \cup {Index!None}]
  /\ refresh.step \in {"released", "unchanged", "fetch", "promote"} =>
       refresh.release \in Index!Versions
  /\ upstream \in Index!Versions /\ aged \in BOOLEAN /\ passed \in Nat

\* The records of a generation are those of its version.
IndexStored ==
  DOMAIN records = DOMAIN gens /\ \A g \in DOMAIN gens : records[g] = IndexCatalog[gens[g].version]

\* The active generation is the newest, and all others are superseded.
NewestIsActive ==
  /\ state.active # Index!NoGeneration => state.active \in DOMAIN gens
  /\ \A g \in DOMAIN gens : /\ gens[g].status = "active" <=> g = state.active
                            /\ g <= state.active

\* Beside the active generation there is the one before it, if any.
TwoAtMost == \E old \in Nat : DOMAIN gens \subseteq {state.active, old}

\* The generation a search has chosen is kept through one promotion.
Pinned ==
  (search.step = "chosen" /\ search.generation # Index!NoGeneration) =>
    /\ passed = 0 => search.generation = state.active
    /\ passed < 2 => search.generation \in DOMAIN gens

\* What the refresh row says is so: without a catalog it is not current or stale.
Honest ==
  /\ state.status \in {Index!None, "failed"} => state.active = Index!NoGeneration
  /\ state.status = "current" => state.active # Index!NoGeneration /\ ~state.error
  /\ refresh.step = "unchanged" => state.active # Index!NoGeneration

\* A search under way knows its limit.
SearchInv ==
  /\ search.step \in {"none", "chosen", "done"}
  /\ search.step = "chosen" => search.limit \in Limits

IndexCore == IndexShape /\ IndexStored /\ NewestIsActive /\ TwoAtMost /\ Pinned /\ Honest

IndexInv == IndexCore /\ SearchInv /\ Index!SearchReadsOneCatalog /\ Index!UniqueIsUnique

\* With a newest generation, the next number is one more than its.
LEMMA NextNumber ==
  ASSUME IndexShape, NewestIsActive
  PROVE  Index!Max({0} \cup DOMAIN gens) = state.active
<1> DEFINE S == {0} \cup DOMAIN gens
<1>1. state.active \in S /\ \A y \in S : y <= state.active /\ y \in Nat
  BY DEF IndexShape, NewestIsActive, Index!NoGeneration
<1> HIDE DEF S
<1>2. \A x \in S : (\A y \in S : x >= y) => x = state.active
  BY <1>1
<1>3. \A y \in S : state.active >= y
  BY <1>1
<1>4. Index!Max(S) = state.active
  BY <1>1, <1>2, <1>3 DEF Index!Max
<1>5. QED
  BY <1>4 DEF S

\* A promotion leaves the new generation and the one it replaces, whole.
LEMMA PromoteCore ==
  ASSUME IndexCore, Index!Promote
  PROVE  IndexCore'
<1> DEFINE latest == 1 + state.active
           old == state.active
<1>1. 1 + Index!Max({0} \cup DOMAIN gens) = latest /\ latest \in Nat \ {0} /\ old \in Nat
  BY NextNumber DEF IndexCore, IndexShape
<1>2. \A g \in DOMAIN gens : g \in Index!Deleted(old) <=> g # old
  BY DEF Index!Deleted, IndexCore, NewestIsActive, IndexShape
<1>3. Index!Deleted(old) = DOMAIN gens \ {old}
  BY <1>2 DEF Index!Deleted
<1> DEFINE superseded == [g \in DOMAIN gens |->
             IF g = state.active THEN [gens[g] EXCEPT !.status = "superseded"] ELSE gens[g]]
           kept == Index!Without(superseded, Index!Deleted(old))
<1>4. /\ refresh.step = "promote"
      /\ gens' = [g \in DOMAIN kept \cup {latest} |->
                    IF g = latest THEN [version |-> refresh.release, status |-> "active"]
                    ELSE kept[g]]
      /\ records' = [g \in DOMAIN gens' |->
                       IF g = latest THEN IndexCatalog[refresh.release] ELSE records[g]]
      /\ state' = [status |-> "current", active |-> latest, candidate |-> Index!None, error |-> FALSE]
      /\ refresh' = Index!Idle
      /\ passed' = IF search.step = "chosen" THEN passed + 1 ELSE passed
      /\ UNCHANGED <<aged, upstream, search>>
  BY <1>1 DEF Index!Promote
<1>5. /\ DOMAIN kept = DOMAIN gens \cap {old}
      /\ \A g \in DOMAIN kept : kept[g] = [gens[g] EXCEPT !.status = "superseded"]
  BY <1>3 DEF Index!Without
<1> HIDE DEF kept, superseded, latest, old
<1>6. /\ DOMAIN gens' = (DOMAIN gens \cap {old}) \cup {latest}
      /\ gens'[latest] = [version |-> refresh.release, status |-> "active"]
      /\ \A g \in DOMAIN gens' : g # latest =>
           gens'[g] = [gens[g] EXCEPT !.status = "superseded"] /\ g = old /\ g \in DOMAIN gens
  BY <1>4, <1>5
<1>7. refresh.release \in Index!Versions
  BY <1>4 DEF IndexCore, IndexShape
<1>8. old # latest /\ old <= latest
  BY <1>1 DEF latest, old
<1>9. \A g \in DOMAIN gens' :
        /\ gens'[g] \in [version : Index!Versions, status : {"active", "superseded"}]
        /\ gens'[g].version = IF g = latest THEN refresh.release ELSE gens[g].version
        /\ gens'[g].status = IF g = latest THEN "active" ELSE "superseded"
  <2> SUFFICES ASSUME NEW g \in DOMAIN gens'
               PROVE  /\ gens'[g] \in [version : Index!Versions, status : {"active", "superseded"}]
                      /\ gens'[g].version = IF g = latest THEN refresh.release
                                            ELSE gens[g].version
                      /\ gens'[g].status = IF g = latest THEN "active" ELSE "superseded"
    OBVIOUS
  <2>1. CASE g = latest
    BY <1>6, <1>7, <2>1
  <2>2. CASE g # latest
    <3>1. gens[g] \in [version : Index!Versions, status : {"active", "superseded"}]
      BY <1>6, <2>2 DEF IndexCore, IndexShape
    <3>2. gens'[g] = [gens[g] EXCEPT !.status = "superseded"]
      BY <1>6, <2>2
    <3>3. QED
      BY <2>2, <3>1, <3>2
  <2>3. QED
    BY <2>1, <2>2
<1>10. IndexShape'
  <2>1. gens' \in [DOMAIN gens' -> [version : Index!Versions, status : {"active", "superseded"}]]
    BY <1>4, <1>9
  <2>2. DOMAIN gens' \subseteq Nat \ {0}
    BY <1>1, <1>6 DEF IndexCore, IndexShape
  <2>3. passed' \in Nat
    BY <1>4 DEF IndexCore, IndexShape
  <2>4. QED
    BY <1>1, <1>4, <2>1, <2>2, <2>3 DEF IndexCore, IndexShape, Index!Idle, Statuses, Steps
<1>11. IndexStored'
  <2>1. DOMAIN records' = DOMAIN gens'
    BY <1>4
  <2>2. \A g \in DOMAIN gens' : records'[g] = IF g = latest THEN IndexCatalog[refresh.release]
                                             ELSE records[g]
    BY <1>4
  <2>3. \A g \in DOMAIN gens' : records'[g] = IndexCatalog[gens'[g].version]
    BY <1>6, <1>9, <2>2 DEF IndexCore, IndexStored
  <2>4. QED
    BY <2>1, <2>3 DEF IndexStored
<1>12. NewestIsActive' /\ TwoAtMost'
  <2>1. state'.active = latest
    BY <1>4
  <2>2. NewestIsActive'
    BY <1>6, <1>8, <1>9, <2>1, <1>1 DEF NewestIsActive
  <2>3. DOMAIN gens' \subseteq {state'.active, old}
    BY <1>6, <2>1
  <2>4. QED
    BY <1>1, <2>2, <2>3 DEF TwoAtMost
<1>13. Pinned'
  <2> SUFFICES ASSUME search.step = "chosen", search.generation # Index!NoGeneration
               PROVE  /\ passed' = 0 => search.generation = state'.active
                      /\ passed' < 2 => search.generation \in DOMAIN gens'
    BY <1>4 DEF Pinned
  <2>1. passed' = passed + 1 /\ passed \in Nat
    BY <1>4 DEF IndexCore, IndexShape
  <2>2. passed' < 2 => search.generation = old /\ old \in DOMAIN gens
    BY <2>1 DEF IndexCore, Pinned, NewestIsActive, old
  <2>3. QED
    BY <1>6, <2>1, <2>2
<1>14. Honest'
  BY <1>1, <1>4 DEF Honest, Index!NoGeneration, Index!Idle, Index!None
<1>15. QED
  BY <1>10, <1>11, <1>12, <1>13, <1>14 DEF IndexCore

\* Every other step of the refresh and of a search leaves the generations.
LEMMA OtherCore ==
  ASSUME IndexCore, [Index!Next]_(Index!referenceVars), ~Index!Promote
  PROVE  IndexCore'
<1> USE DEF IndexCore, IndexShape, IndexStored, NewestIsActive, TwoAtMost, Pinned, Honest
<1>1. ASSUME Index!Start PROVE IndexCore'
  BY <1>1 DEF Index!Start, Statuses, Steps, Index!None
<1>2. ASSUME Index!Discover PROVE IndexCore'
  BY <1>2 DEF Index!Discover, Steps
<1>3. ASSUME Index!MarkCandidate PROVE IndexCore'
  BY <1>3 DEF Index!MarkCandidate, Index!Unchanged, Steps
<1>4. ASSUME Index!MarkUnchanged PROVE IndexCore'
  BY <1>4 DEF Index!MarkUnchanged, Index!Idle, Statuses, Steps, Index!None
<1>5. ASSUME Index!Fetch PROVE IndexCore'
  BY <1>5 DEF Index!Fetch, Steps
<1>6. ASSUME Index!Fails PROVE IndexCore'
  BY <1>6 DEF Index!Fails, Steps
<1>7. ASSUME Index!MarkFailure PROVE IndexCore'
  BY <1>7 DEF Index!MarkFailure, Index!Idle, Statuses, Steps, Index!None
<1>8. ASSUME Index!Crash PROVE IndexCore'
  BY <1>8 DEF Index!Crash, Index!Idle, Steps
<1>9. ASSUME Index!Age \/ Index!NewRelease PROVE IndexCore'
  BY <1>9 DEF Index!Age, Index!NewRelease
<1>10. ASSUME NEW q \in Queries, NEW n \in Limits, Index!ChooseGeneration(q, n) PROVE IndexCore'
  BY <1>10 DEF Index!ChooseGeneration
<1>11. ASSUME Index!ReadMatches PROVE IndexCore'
  BY <1>11 DEF Index!ReadMatches
<1>12. ASSUME UNCHANGED Index!referenceVars PROVE IndexCore'
  BY <1>12 DEF Index!referenceVars
<1>13. QED
  BY <1>1, <1>2, <1>3, <1>4, <1>5, <1>6, <1>7, <1>8, <1>9, <1>10, <1>11, <1>12 DEF Index!Next

\* Counting in the index is counting.
LEMMA IndexCounts ==
  ASSUME NEW S
  PROVE  Index!Cardinality(S) = Cardinality(S) /\ (Index!IsFiniteSet(S) <=> IsFiniteSet(S))
  BY DEF Index!Cardinality, Cardinality, Index!IsFiniteSet, IsFiniteSet

\* Asking for one row more than is shown tells one match from several.
LEMMA FoundCounts ==
  ASSUME NEW rows, IsFiniteSet(rows), NEW query, NEW limit \in Nat \ {0}
  PROVE  LET best == IF Index!Exact(rows, query) # {} THEN Index!Exact(rows, query)
                     ELSE Index!Substring(rows, query)
         IN  Index!Found(rows, query, limit) = "unique" <=> Index!Cardinality(best) = 1
<1> DEFINE best == IF Index!Exact(rows, query) # {} THEN Index!Exact(rows, query)
                   ELSE Index!Substring(rows, query)
           n == Index!Cardinality(best)
           fetched == Index!Least(n, Index!Asked(limit))
           shown == Index!Least(fetched, limit)
<1>1. best \subseteq rows
  BY DEF Index!Exact, Index!Substring
<1>2. n \in Nat
  <2>1. IsFiniteSet(best)
    BY <1>1, FS_Subset
  <2> HIDE DEF best
  <2>2. QED
    BY <2>1, FS_CardinalityType, IndexCounts
<1>3. Index!Found(rows, query, limit) = CASE shown = 0 -> "no_match"
                                    [] shown = 1 /\ fetched <= limit -> "unique"
                                    [] OTHER -> "ambiguous"
  BY DEF Index!Found
<1> HIDE DEF n
<1>4. fetched = IF n < limit + 1 THEN n ELSE limit + 1
  BY DEF Index!Least, Index!Asked
<1>5. shown = IF fetched < limit THEN fetched ELSE limit
  BY DEF Index!Least
<1> HIDE DEF fetched, shown
<1>6. (shown = 1 /\ fetched <= limit) <=> n = 1
  BY <1>2, <1>4, <1>5
<1>7. n = 1 => shown # 0
  BY <1>2, <1>4, <1>5
<1>8. Index!Found(rows, query, limit) = "unique" <=> n = 1
  BY <1>3, <1>6, <1>7
<1>9. QED
  BY <1>8 DEF n

\* What a search reads is what it chose, and it says unique when it is.
LEMMA ReadStep ==
  ASSUME Index!ReferenceConstants, IndexInv, Index!ReadMatches
  PROVE  SearchInv' /\ Index!SearchReadsOneCatalog' /\ Index!UniqueIsUnique'
<1> DEFINE g == search.generation
           rows == IF g \in DOMAIN records THEN records[g] ELSE {}
<1>1. /\ search.step = "chosen" /\ UNCHANGED <<gens, records, passed>>
      /\ search' = [step |-> "done", query |-> search.query, generation |-> g,
                    status |-> search.status, rows |-> rows,
                    result |-> Index!Found(rows, search.query, search.limit)]
  BY DEF Index!ReadMatches
<1>2. g \in DOMAIN records => \E v \in Index!Versions : records[g] = IndexCatalog[v]
  BY DEF IndexInv, IndexCore, IndexStored, IndexShape
<1>3. IsFiniteSet(rows)
  BY <1>2, FS_EmptySet, IndexCounts DEF Index!ReferenceConstants
<1>4. search.limit \in Nat \ {0}
  BY <1>1 DEF IndexInv, SearchInv, Index!ReferenceConstants
<1>5. Index!SearchReadsOneCatalog'
  <2> SUFFICES ASSUME g # Index!NoGeneration, passed < 2
               PROVE  \E v \in Index!Versions : rows = IndexCatalog[v]
    BY <1>1 DEF Index!SearchReadsOneCatalog
  <2>1. g \in DOMAIN records
    BY <1>1 DEF IndexInv, IndexCore, IndexStored, Pinned
  <2>2. QED
    BY <1>2, <2>1
<1> HIDE DEF rows
<1>6. Index!UniqueIsUnique'
  <2>1. /\ search'.rows = rows /\ search'.query = search.query
        /\ search'.result = Index!Found(rows, search.query, search.limit)
    BY <1>1
  <2>2. QED
    BY <1>3, <1>4, <2>1, FoundCounts DEF Index!UniqueIsUnique
<1>7. SearchInv'
  BY <1>1 DEF SearchInv
<1>8. QED
  BY <1>5, <1>6, <1>7

\* Every step keeps the invariant.
LEMMA IndexStep ==
  ASSUME Index!ReferenceConstants, IndexInv, [Index!Next]_(Index!referenceVars)
  PROVE  IndexInv'
<1>1. IndexCore'
  BY PromoteCore, OtherCore DEF IndexInv
<1>2. CASE Index!ReadMatches
  BY <1>1, <1>2, ReadStep DEF IndexInv
<1>3. CASE \E q \in Queries, n \in Limits : Index!ChooseGeneration(q, n)
  <2>1. search'.step = "chosen" /\ search'.limit \in Limits
    BY <1>3 DEF Index!ChooseGeneration
  <2>2. QED
    BY <1>1, <2>1 DEF IndexInv, SearchInv, Index!SearchReadsOneCatalog, Index!UniqueIsUnique
<1>4. CASE search' = search /\ (search.step = "done" => passed' = passed)
  BY <1>1, <1>4 DEF IndexInv, SearchInv, Index!SearchReadsOneCatalog, Index!UniqueIsUnique
<1>5. \/ Index!ReadMatches \/ \E q \in Queries, n \in Limits : Index!ChooseGeneration(q, n)
      \/ search' = search /\ (search.step = "done" => passed' = passed)
  BY DEF Index!Next, Index!referenceVars, Index!Start, Index!Discover, Index!MarkCandidate,
     Index!MarkUnchanged, Index!Fetch, Index!Fails, Index!MarkFailure, Index!Promote,
     Index!Crash, Index!Age, Index!NewRelease
<1>6. QED
  BY <1>2, <1>3, <1>4, <1>5

\* Nothing was ever refreshed or searched.
LEMMA IndexStart == Index!Init => IndexInv
<1> SUFFICES ASSUME Index!Init PROVE IndexInv
  OBVIOUS
<1>1. /\ state = [status |-> Index!None, active |-> 0, candidate |-> Index!None, error |-> FALSE]
      /\ DOMAIN gens = {} /\ DOMAIN records = {} /\ refresh = [step |-> "idle", release |-> Index!None]
      /\ aged = FALSE /\ upstream \in Index!Versions /\ passed = 0 /\ search.step = "none"
  BY DEF Index!Init, Index!Idle, Index!NoSearch, Index!NoGeneration
<1>2. gens \in [DOMAIN gens -> [version : Index!Versions, status : {"active", "superseded"}]]
  BY DEF Index!Init
<1>3. IndexShape
  BY <1>1, <1>2 DEF IndexShape, Statuses, Steps
<1>4. IndexStored /\ NewestIsActive /\ TwoAtMost /\ Pinned
  BY <1>1 DEF IndexStored, NewestIsActive, TwoAtMost, Pinned, Index!NoGeneration
<1>5. Honest
  BY <1>1 DEF Honest, Index!None, Index!NoGeneration
<1>6. QED
  BY <1>1, <1>3, <1>4, <1>5 DEF IndexInv, IndexCore, SearchInv, Index!SearchReadsOneCatalog,
           Index!UniqueIsUnique

\* There is one active generation, and its records are those of its version.
LEMMA IndexWhole ==
  ASSUME IndexInv
  PROVE  Index!ActiveIsWhole
<1>1. {g \in DOMAIN gens : gens[g].status = "active"} = {state.active} \ {Index!NoGeneration}
  BY DEF IndexInv, IndexCore, IndexShape, NewestIsActive, Index!NoGeneration
<1>2. \A g \in DOMAIN gens : records[g] = IndexCatalog[gens[g].version]
  BY DEF IndexInv, IndexCore, IndexStored
<1>3. Cardinality(DOMAIN gens) <= 2
  <2>1. PICK old \in Nat : DOMAIN gens \subseteq {state.active, old}
    BY DEF IndexInv, IndexCore, TwoAtMost
  <2> DEFINE one == {old}
             two == one \cup {state.active}
  <2>2. IsFiniteSet(one) /\ Cardinality(one) = 1
    BY FS_Singleton
  <2>3. IsFiniteSet(two) /\ Cardinality(two) <= 2
    <3> HIDE DEF one
    <3>1. QED
      BY <2>2, FS_AddElement
  <2>4. DOMAIN gens \subseteq two
    BY <2>1
  <2> HIDE DEF two
  <2>5. IsFiniteSet(DOMAIN gens) /\ Cardinality(DOMAIN gens) <= Cardinality(two)
    BY <2>3, <2>4, FS_Subset
  <2>6. Cardinality(DOMAIN gens) \in Nat /\ Cardinality(two) \in Nat
    BY <2>3, <2>5, FS_CardinalityType
  <2>7. QED
    BY <2>3, <2>5, <2>6
<1>4. QED
  BY <1>1, <1>2, <1>3, IndexCounts DEF Index!ActiveIsWhole

-----------------------------------------------------------------------------
(* The syncs of an account. *)

\* An entry of the bank, as it books it.
Movement == [identity : BankIdentities, day : Int, amount : Int]

\* What the bank has booked, on the first day or later, and never in the future.
BookingInv ==
  /\ bankDay \in Nat \ {0} /\ uid \in Nat
  /\ entries \in Seq(Movement)
  /\ \A i \in DOMAIN entries : entries[i].day \in 1 .. bankDay
  /\ provider \in {"bank", "paypal"} /\ dating \in {"dated", "dateless", "missing"}
  /\ provider = "paypal" => dating = "missing"

IsTable(f) == f = [k \in DOMAIN f |-> f[k]]

IsAccount(row) ==
  row = [owner |-> row.owner, ownerOverride |-> row.ownerOverride, kind |-> row.kind,
         kindOverride |-> row.kindOverride, profile |-> row.profile]

\* Rows belong to accounts that there are, and are dated as the bank dates its balances.
TableInv ==
  /\ raw = [people |-> raw.people, accounts |-> raw.accounts, txns |-> raw.txns,
            snapshots |-> raw.snapshots, details |-> raw.details]
  /\ Bank!None \notin raw.people
  /\ IsTable(raw.accounts) /\ IsTable(raw.txns) /\ IsTable(raw.snapshots) /\ IsTable(raw.details)
  /\ \A u \in DOMAIN raw.accounts : u \in 0 .. uid /\ IsAccount(raw.accounts[u])
  /\ \A k \in DOMAIN raw.txns : k = <<k[1], k[2]>> /\ k[1] \in DOMAIN raw.accounts
  /\ \A k \in DOMAIN raw.snapshots :
       /\ k = <<k[1], k[2], k[3]>> /\ k[1] \in 0 .. uid /\ k[3] \in Int
       /\ k[3] <= IF dating = "dated" THEN bankDay - 1 ELSE bankDay
  /\ dating = "missing" => raw.snapshots = <<>>

\* What the load under way has fetched; while it is whole, nothing has happened since.
SyncShape ==
  \/ sync = Bank!Idle
  \/ sync = [step |-> "fetched", uid |-> sync.uid, owner |-> sync.owner, profile |-> sync.profile,
             rows |-> sync.rows, whole |-> sync.whole]
  \/ sync = [step |-> "balanced", uid |-> sync.uid, owner |-> sync.owner,
             profile |-> sync.profile, rows |-> sync.rows, whole |-> sync.whole,
             balance |-> sync.balance]

AsBooked(rows) ==
  /\ DOMAIN rows = DOMAIN entries
  /\ \A i \in DOMAIN entries : rows[i].day = entries[i].day /\ rows[i].amount = entries[i].amount

FetchedInv ==
  /\ sync.owner # Bank!None /\ sync.uid \in 0 .. uid /\ sync.whole \in BOOLEAN
  /\ Bank!Identified => \A i \in DOMAIN sync.rows : i \in DOMAIN entries /\ sync.rows[i].id = <<"entry", i>>
  /\ sync.whole => sync.uid = uid /\ sync.profile = profile /\ AsBooked(sync.rows)

BalancedInv ==
  /\ provider = "bank"
  /\ dating = "missing" => sync.balance = Bank!NoBalance
  /\ dating = "dated" =>
       /\ sync.balance.day \in 0 .. bankDay - 1
       /\ \A k \in DOMAIN raw.snapshots : k[3] <= sync.balance.day
       /\ sync.whole => sync.balance.amount = Bank!BookedBy(sync.balance.day)
  /\ dating = "dateless" =>
       /\ sync.balance.day = Bank!Dateless
       /\ sync.whole => sync.balance.amount = Bank!BookedBy(bankDay)

SyncInv ==
  /\ SyncShape
  /\ sync.step # "idle" => FetchedInv
  /\ sync.step = "balanced" => BalancedInv

\* What the load stored last wrote is still there, but for an owner since corrected.
Kept(rows, table) == \A k \in DOMAIN rows : k \in DOMAIN table /\ table[k] = rows[k]

StoredInv ==
  LET r == answered.load IN
  /\ r.owner \in raw.people /\ r.uid \in DOMAIN raw.accounts
  /\ raw.accounts[r.uid].profile = r.profile
  /\ raw.accounts[r.uid].ownerOverride = Bank!None => raw.accounts[r.uid].owner = r.owner
  /\ Kept(Bank!TransactionRows(r), raw.txns)
  /\ Kept(Bank!SnapshotRows(r, answered.day), raw.snapshots)

DetailedInv ==
  \A id \in Bank!Ids(answered.load) :
    id \in DOMAIN raw.details /\ raw.details[id].facts = Bank!RowOf(answered.load, id)

AnsweredInv ==
  /\ answered.step \in {"idle", "stored", "detailed"}
  /\ answered.step = "stored" => StoredInv
  /\ answered.step = "detailed" => DetailedInv

EntryId(i) == <<"entry", i>>

\* With entries all identified, what is stored is of the entries, and fresh, all of them.
StockInv ==
  Bank!Identified =>
    /\ \A k \in DOMAIN raw.txns : \E i \in DOMAIN entries : k[2] = EntryId(i)
    /\ \A id \in DOMAIN raw.details : \E i \in DOMAIN entries : id = EntryId(i)

AllLoaded ==
  \A i \in DOMAIN entries :
    /\ <<uid, EntryId(i)>> \in DOMAIN raw.txns
    /\ raw.txns[<<uid, EntryId(i)>>].day = entries[i].day
    /\ raw.txns[<<uid, EntryId(i)>>].amount = entries[i].amount

LastSnapshot(k) ==
  /\ k[1] = uid /\ k[2] = profile.currency /\ raw.snapshots[k] = Bank!BookedBy(k[3])
  /\ \A o \in DOMAIN raw.snapshots : o[3] <= k[3]

AllDetailed ==
  \A i \in DOMAIN entries :
    /\ EntryId(i) \in DOMAIN raw.details
    /\ raw.details[EntryId(i)].facts.amount = entries[i].amount

FreshInv ==
  fresh =>
    /\ Bank!Identified /\ provider = "bank" => AllLoaded
    /\ provider = "bank" /\ dating # "missing" => \E k \in DOMAIN raw.snapshots : LastSnapshot(k)
    /\ Bank!Identified /\ provider = "paypal" => AllDetailed

BankInv ==
  /\ BookingInv /\ TableInv /\ SyncInv /\ AnsweredInv /\ StockInv /\ FreshInv
  /\ Bank!CorrectionsStand /\ Bank!HouseholdWasTold

\* Adding up and counting are the library's.
LEMMA BankSums ==
  ASSUME NEW S, NEW f
  PROVE  Bank!SumFunctionOnSet(f, S) = Sum(f, S) /\ Bank!Cardinality(S) = Cardinality(S)
  BY DEF Bank!SumFunctionOnSet, Bank!FoldFunctionOnSet, Bank!MapThenFoldSet, Sum,
         FoldFunctionOnSet, MapThenFoldSet, Bank!Cardinality, Cardinality

\* Storing rows keeps them, and what they do not replace.
Stores(f, rows, g) ==
  /\ DOMAIN g = DOMAIN f \cup DOMAIN rows /\ IsTable(g)
  /\ Kept(rows, g)
  /\ \A k \in DOMAIN f \ DOMAIN rows : g[k] = f[k]

LEMMA UpsertedIs ==
  ASSUME NEW f, NEW rows
  PROVE  Stores(f, rows, Bank!Upserted(f, rows))
  BY DEF Bank!Upserted, IsTable, Kept, Stores

LEMMA EmptyTable ==
  ASSUME NEW f, IsTable(f), DOMAIN f = {}
  PROVE  f = <<>>
  BY DEF IsTable

\* Storing what is there changes nothing, and counts nothing.
LEMMA KeptIsNoWrite ==
  ASSUME NEW f, NEW rows, IsTable(f), Kept(rows, f)
  PROVE  Bank!Upserted(f, rows) = f /\ Bank!Cardinality(Bank!Differing(f, rows)) = 0
<1>1. DOMAIN f \cup DOMAIN rows = DOMAIN f /\ Bank!Differing(f, rows) = {}
  BY DEF Kept, Bank!Differing
<1>2. \A k \in DOMAIN f : (IF k \in DOMAIN rows THEN rows[k] ELSE f[k]) = f[k]
  BY DEF Kept
<1>3. Bank!Upserted(f, rows) = f
  BY <1>1, <1>2 DEF Bank!Upserted, IsTable
<1>4. QED
  BY <1>1, <1>3, BankSums, FS_EmptySet

\* The rows of a load are its own account's.
LEMMA LoadRows ==
  ASSUME NEW r
  PROVE  /\ DOMAIN Bank!TransactionRows(r) = {<<r.uid, id>> : id \in Bank!Ids(r)}
         /\ \A k \in DOMAIN Bank!TransactionRows(r) :
              /\ k = <<k[1], k[2]>> /\ k[1] = r.uid /\ k[2] \in Bank!Ids(r)
              /\ Bank!TransactionRows(r)[k].day = Bank!RowOf(r, k[2]).day
              /\ Bank!TransactionRows(r)[k].amount = Bank!RowOf(r, k[2]).amount
  BY DEF Bank!TransactionRows

\* Of identified rows each is its entry's.
LEMMA RowsByEntry ==
  ASSUME NEW r, \A i \in DOMAIN r.rows : i \in DOMAIN entries /\ r.rows[i].id = <<"entry", i>>,
         DOMAIN entries \subseteq Int
  PROVE  /\ Bank!Ids(r) = {EntryId(i) : i \in DOMAIN r.rows}
         /\ \A i \in DOMAIN r.rows : Bank!RowOf(r, EntryId(i)) = r.rows[i]
<1>1. \A i \in DOMAIN r.rows : r.rows[i].id = EntryId(i) /\ EntryId(i) # <<>>
  BY DEF EntryId
<1>2. Bank!Ids(r) = {EntryId(i) : i \in DOMAIN r.rows}
  BY <1>1 DEF Bank!Ids
<1>3. ASSUME NEW i \in DOMAIN r.rows PROVE Bank!RowOf(r, EntryId(i)) = r.rows[i]
  <2>1. {j \in DOMAIN r.rows : r.rows[j].id = EntryId(i)} = {i}
    BY DEF EntryId
  <2>2. i \in Int
    OBVIOUS
  <2>3. Bank!Max({i}) = i
    BY <2>2 DEF Bank!Max
  <2>4. QED
    BY <2>1, <2>3 DEF Bank!RowOf
<1>4. QED
  BY <1>2, <1>3

\* Two fields of an account are set one after the other.
LEMMA OwnerEdit ==
  ASSUME NEW row, IsAccount(row), NEW p, NEW q
  PROVE  [row EXCEPT !.owner = p, !.ownerOverride = q]
           = [owner |-> p, ownerOverride |-> q, kind |-> row.kind,
              kindOverride |-> row.kindOverride, profile |-> row.profile]
<1>1. PICK a, b, c, d, e : row = [owner |-> a, ownerOverride |-> b, kind |-> c,
                                  kindOverride |-> d, profile |-> e]
  BY DEF IsAccount
<1>2. PICK half : half = [row EXCEPT !.owner = p]
  OBVIOUS
<1>3. half = [owner |-> p, ownerOverride |-> b, kind |-> c, kindOverride |-> d, profile |-> e]
  BY ONLY <1>1, <1>2
<1>4. [half EXCEPT !.ownerOverride = q]
        = [owner |-> p, ownerOverride |-> q, kind |-> c, kindOverride |-> d, profile |-> e]
  BY ONLY <1>3
<1>5. [row EXCEPT !.owner = p, !.ownerOverride = q] = [half EXCEPT !.ownerOverride = q]
  BY ONLY <1>2
<1>6. QED
  BY <1>1, <1>4, <1>5

LEMMA KindEdit ==
  ASSUME NEW row, IsAccount(row), NEW p, NEW q
  PROVE  [row EXCEPT !.kind = p, !.kindOverride = q]
           = [owner |-> row.owner, ownerOverride |-> row.ownerOverride, kind |-> p,
              kindOverride |-> q, profile |-> row.profile]
<1>1. PICK a, b, c, d, e : row = [owner |-> a, ownerOverride |-> b, kind |-> c,
                                  kindOverride |-> d, profile |-> e]
  BY DEF IsAccount
<1>2. PICK half : half = [row EXCEPT !.kind = p]
  OBVIOUS
<1>3. half = [owner |-> a, ownerOverride |-> b, kind |-> p, kindOverride |-> d, profile |-> e]
  BY ONLY <1>1, <1>2
<1>4. [half EXCEPT !.kindOverride = q]
        = [owner |-> a, ownerOverride |-> b, kind |-> p, kindOverride |-> q, profile |-> e]
  BY ONLY <1>3
<1>5. [row EXCEPT !.kind = p, !.kindOverride = q] = [half EXCEPT !.kindOverride = q]
  BY ONLY <1>2
<1>6. QED
  BY <1>1, <1>4, <1>5

LEMMA ProfileEdit ==
  ASSUME NEW row, IsAccount(row), NEW p, NEW q
  PROVE  [row EXCEPT !.owner = p, !.profile = q]
           = [owner |-> p, ownerOverride |-> row.ownerOverride, kind |-> row.kind,
              kindOverride |-> row.kindOverride, profile |-> q]
<1>1. PICK a, b, c, d, e : row = [owner |-> a, ownerOverride |-> b, kind |-> c,
                                  kindOverride |-> d, profile |-> e]
  BY DEF IsAccount
<1>2. PICK half : half = [row EXCEPT !.owner = p]
  OBVIOUS
<1>3. half = [owner |-> p, ownerOverride |-> b, kind |-> c, kindOverride |-> d, profile |-> e]
  BY ONLY <1>1, <1>2
<1>4. [half EXCEPT !.profile = q]
        = [owner |-> p, ownerOverride |-> b, kind |-> c, kindOverride |-> d, profile |-> q]
  BY ONLY <1>3
<1>5. [row EXCEPT !.owner = p, !.profile = q] = [half EXCEPT !.profile = q]
  BY ONLY <1>2
<1>6. QED
  BY <1>1, <1>4, <1>5

\* Without a write, what is stored is as true as it was.
LEMMA UnwrittenKeeps ==
  ASSUME BankInv, UNCHANGED <<raw, told, answered>>
  PROVE  AnsweredInv' /\ Bank!CorrectionsStand' /\ Bank!HouseholdWasTold'
<1>1. AnsweredInv'
  <2>1. /\ (answered' = answered)
        /\ (raw' = raw)
        /\ Bank!TransactionRows(answered.load)' = Bank!TransactionRows(answered.load)
        /\ Bank!SnapshotRows(answered.load, answered.day)'
           = Bank!SnapshotRows(answered.load, answered.day)
        /\ Bank!Ids(answered.load)' = Bank!Ids(answered.load)
    BY DEF Bank!TransactionRows, Bank!SnapshotRows, Bank!BalanceDay, Bank!Ids, Bank!RowOf,
           Bank!NoBalance, Bank!Dateless
  <2>2. \A id : Bank!RowOf(answered.load, id)' = Bank!RowOf(answered.load, id)
    BY DEF Bank!RowOf
  <2>3. StoredInv => StoredInv'
    BY <2>1 DEF StoredInv, Kept, Bank!None
  <2>4. DetailedInv => DetailedInv'
    BY <2>1, <2>2 DEF DetailedInv
  <2>5. QED
    BY <2>1, <2>3, <2>4 DEF BankInv, AnsweredInv
<1>2. Bank!CorrectionsStand' /\ Bank!HouseholdWasTold'
  BY DEF BankInv, Bank!CorrectionsStand, Bank!HouseholdWasTold, Bank!SourceFacts
<1>3. QED
  BY <1>1, <1>2

\* The bank books, restates, renames, or has a new consent: no load is whole any more.
LEMMA MovedKeeps ==
  ASSUME BankInv, Bank!Moved, BookingInv', uid' \in Nat, uid <= uid',
         UNCHANGED <<provider, dating, bankDay, raw, answered, told>>,
         DOMAIN entries \subseteq DOMAIN entries', Bank!Identified' => Bank!Identified
  PROVE  BankInv'
<1>1. TableInv'
  BY DEF BankInv, TableInv, BookingInv, IsTable, IsAccount, Bank!None
<1>2. fresh' = FALSE /\ FreshInv'
  BY DEF Bank!Moved, FreshInv
<1>3. StockInv'
  BY DEF BankInv, StockInv, EntryId
<1>4. SyncInv'
  <2>1. CASE sync = Bank!Idle
    <3>1. sync' = Bank!Idle /\ sync'.step = "idle"
      BY <2>1 DEF Bank!Moved, Bank!Idle
    <3>2. QED
      BY <3>1 DEF SyncInv, SyncShape, Bank!Idle
  <2>2. CASE sync # Bank!Idle
    <3>1. sync' = [sync EXCEPT !.whole = FALSE] /\ SyncShape
      BY <2>2 DEF Bank!Moved, BankInv, SyncInv
    <3>2. /\ sync.step # "idle" /\ SyncShape'
          /\ sync'.step = sync.step /\ sync'.uid = sync.uid /\ sync'.owner = sync.owner
          /\ sync'.rows = sync.rows /\ sync'.whole = FALSE
          /\ sync.step = "balanced" => sync'.balance = sync.balance
      <4>1. CASE sync.step = "fetched" /\ sync = [step |-> "fetched", uid |-> sync.uid,
                   owner |-> sync.owner, profile |-> sync.profile, rows |-> sync.rows,
                   whole |-> sync.whole]
        BY <3>1, <4>1 DEF SyncShape
      <4>2. CASE sync.step = "balanced" /\ sync = [step |-> "balanced", uid |-> sync.uid,
                   owner |-> sync.owner, profile |-> sync.profile, rows |-> sync.rows,
                   whole |-> sync.whole, balance |-> sync.balance]
        BY <3>1, <4>2 DEF SyncShape
      <4>3. QED
        BY <2>2, <3>1, <4>1, <4>2 DEF SyncShape
    <3>3. FetchedInv /\ uid \in Nat
      BY <3>2 DEF BankInv, SyncInv, BookingInv
    <3>4. FetchedInv'
      <4>1. sync.uid \in 0 .. uid'
        BY <3>3 DEF FetchedInv
      <4>2. sync'.whole \in BOOLEAN /\ ~sync'.whole
        BY <3>2
      <4>3. Bank!Identified' =>
              \A i \in DOMAIN sync'.rows : i \in DOMAIN entries' /\ sync'.rows[i].id = <<"entry", i>>
        BY <3>2, <3>3 DEF FetchedInv
      <4>4. sync'.owner # Bank!None'
        BY <3>2, <3>3 DEF FetchedInv, Bank!None
      <4>5. QED
        BY <3>2, <4>1, <4>2, <4>3, <4>4 DEF FetchedInv
    <3>5. ASSUME sync.step = "balanced" PROVE BalancedInv'
      <4>1. BalancedInv
        BY <3>5 DEF BankInv, SyncInv
      <4>2. QED
        BY <3>2, <3>5, <4>1 DEF BalancedInv, Bank!NoBalance, Bank!Dateless
    <3>6. QED
      BY <3>2, <3>4, <3>5 DEF SyncInv
  <2>3. QED
    BY <2>1, <2>2
<1>5. QED
  BY <1>1, <1>2, <1>3, <1>4, UnwrittenKeeps DEF BankInv

LEMMA BankMoves ==
  ASSUME Bank!BankConstants, BankInv,
         \/ \E identity \in BankIdentities, amount \in BankAmounts : Bank!Book(identity, amount)
         \/ \E i \in DOMAIN entries, amount \in BankRestated : Bank!Restate(i, amount)
         \/ \E p \in BankProfiles : Bank!Rename(p)
         \/ Bank!Reconsent
  PROVE  BankInv'
<1>1. BookingInv /\ entries \in Seq(Movement) /\ bankDay \in Nat /\ bankDay >= 1 /\ uid \in Nat
  BY DEF BankInv, BookingInv
<1>2. ASSUME NEW identity \in BankIdentities, NEW amount \in BankAmounts,
             Bank!Book(identity, amount)
      PROVE  BankInv'
  <2> DEFINE new == [identity |-> identity, day |-> bankDay, amount |-> amount]
  <2>1. /\ entries' = Append(entries, new) /\ Bank!Moved
        /\ UNCHANGED <<provider, dating, bankDay, uid, raw, answered, told>>
    BY <1>2 DEF Bank!Book
  <2>2. new \in Movement /\ new.day = bankDay
    BY <1>1 DEF Movement, Bank!BankConstants
  <2> HIDE DEF new
  <2>3. /\ entries' \in Seq(Movement) /\ DOMAIN entries = 1 .. Len(entries) /\ Len(entries) \in Nat
        /\ DOMAIN entries' = 1 .. (Len(entries) + 1)
        /\ \A i \in DOMAIN entries : entries'[i] = entries[i]
        /\ entries'[Len(entries) + 1] = new
    BY <1>1, <2>1, <2>2
  <2>4. \A i \in DOMAIN entries' : entries'[i].day \in 1 .. bankDay
    <3>1. \A i \in DOMAIN entries' : i \in DOMAIN entries \/ i = Len(entries) + 1
      BY <2>3
    <3>2. QED
      BY <1>1, <2>2, <2>3, <3>1 DEF BookingInv
  <2>5. BookingInv'
    BY <1>1, <2>1, <2>3, <2>4 DEF BookingInv, Movement
  <2>6. DOMAIN entries \subseteq DOMAIN entries' /\ (Bank!Identified' => Bank!Identified)
    BY <2>3 DEF Bank!Identified
  <2>7. QED
    BY <1>1, <2>1, <2>5, <2>6, MovedKeeps
<1>3. ASSUME NEW i \in DOMAIN entries, NEW amount \in BankRestated, Bank!Restate(i, amount)
      PROVE  BankInv'
  <2>1. /\ entries' = [entries EXCEPT ![i].amount = amount] /\ Bank!Moved
        /\ UNCHANGED <<provider, dating, bankDay, uid, raw, answered, told>>
    BY <1>3 DEF Bank!Restate
  <2>2. [entries[i] EXCEPT !.amount = amount] \in Movement
        /\ [entries[i] EXCEPT !.amount = amount].day = entries[i].day
        /\ [entries[i] EXCEPT !.amount = amount].identity = entries[i].identity
    <3>1. entries[i] \in Movement /\ amount \in Int
      BY <1>1 DEF Bank!BankConstants
    <3>2. QED
      BY <3>1 DEF Movement
  <2>3. /\ entries' \in Seq(Movement) /\ DOMAIN entries' = DOMAIN entries
        /\ \A j \in DOMAIN entries : /\ entries'[j].day = entries[j].day
                                     /\ entries'[j].identity = entries[j].identity
    BY <1>1, <2>1, <2>2
  <2>4. BookingInv'
    BY <1>1, <2>1, <2>3 DEF BookingInv, Movement
  <2>5. QED
    BY <1>1, <2>1, <2>3, <2>4, MovedKeeps DEF Bank!Identified
<1>4. ASSUME NEW p \in BankProfiles, Bank!Rename(p) PROVE BankInv'
  <2>1. Bank!Moved /\ UNCHANGED <<provider, dating, bankDay, entries, uid, raw, answered, told>>
    BY <1>4 DEF Bank!Rename
  <2>2. BookingInv' /\ (Bank!Identified' => Bank!Identified)
    BY <1>1, <2>1 DEF BookingInv, Movement, Bank!Identified
  <2>3. QED
    BY <1>1, <2>1, <2>2, MovedKeeps
<1>5. ASSUME Bank!Reconsent PROVE BankInv'
  <2>1. /\ Bank!Moved /\ uid' = uid + 1
        /\ UNCHANGED <<provider, dating, bankDay, entries, raw, answered, told>>
    BY <1>5 DEF Bank!Reconsent
  <2>2. BookingInv' /\ (Bank!Identified' => Bank!Identified)
    BY <1>1, <2>1 DEF BookingInv, Movement, Bank!Identified
  <2>3. QED
    BY <1>1, <2>1, <2>2, MovedKeeps
<1>6. QED
  BY <1>2, <1>3, <1>4, <1>5

\* A day passes; entries of the new day are still to come.
LEMMA MidnightKeeps ==
  ASSUME BankInv, Bank!Midnight
  PROVE  BankInv'
<1>1. /\ bankDay' = bankDay + 1 /\ bankDay \in Nat /\ BookingInv
      /\ UNCHANGED <<provider, entries, dating, uid, profile, raw, sync, answered, told, fresh>>
  BY DEF Bank!Midnight, BankInv, BookingInv
<1>2. BookingInv' /\ (Bank!Identified' <=> Bank!Identified)
  <2>1. \A i \in DOMAIN entries : entries[i].day \in 1 .. bankDay + 1
    BY <1>1 DEF BookingInv
  <2>2. QED
    BY <1>1, <2>1 DEF BookingInv, Movement, Bank!Identified
<1>3. TableInv'
  BY <1>1 DEF BankInv, TableInv, IsTable, IsAccount, Bank!None
<1>4. \A d : Bank!BookedBy(d)' = Bank!BookedBy(d)
  BY <1>1, BankSums DEF Bank!BookedBy
<1>5. Bank!BookedBy(bankDay + 1) = Bank!BookedBy(bankDay)
  <2>1. {i \in DOMAIN entries : entries[i].day <= bankDay + 1}
        = {i \in DOMAIN entries : entries[i].day <= bankDay}
    BY <1>1 DEF BookingInv
  <2>2. QED
    BY <2>1, BankSums DEF Bank!BookedBy
<1>6. SyncInv'
  <2>1. SyncShape' /\ (sync.step # "idle" => FetchedInv')
    BY <1>1, <1>2 DEF BankInv, SyncInv, SyncShape, FetchedInv, AsBooked, Bank!Idle, Bank!None
  <2>2. ASSUME sync.step = "balanced" PROVE BalancedInv'
    <3>1. BalancedInv
      BY <2>2 DEF BankInv, SyncInv
    <3>2. QED
      BY <1>1, <1>4, <1>5, <3>1 DEF BalancedInv, Bank!NoBalance, Bank!Dateless
  <2>3. QED
    BY <1>1, <2>1, <2>2 DEF SyncInv
<1>7. StockInv'
  BY <1>1, <1>2 DEF BankInv, StockInv, EntryId
<1>8. FreshInv'
  BY <1>1, <1>2, <1>4 DEF BankInv, FreshInv, AllLoaded, AllDetailed, LastSnapshot, EntryId
<1>9. QED
  BY <1>1, <1>2, <1>3, <1>6, <1>7, <1>8, UnwrittenKeeps DEF BankInv

\* A person corrects an account between two loads.
LEMMA CorrectedKeeps ==
  ASSUME Bank!BankConstants, BankInv, NEW u \in DOMAIN raw.accounts,
         \/ \E p \in raw.people : Bank!Correct(u, "owner", p)
         \/ \E k \in {"checking", "savings"} : Bank!Correct(u, "kind", k)
  PROVE  BankInv'
<1> DEFINE row == raw.accounts[u]
           new == raw'.accounts[u]
<1>1. /\ UNCHANGED <<provider, bankDay, entries, dating, uid, profile, sync, answered, told, fresh>>
      /\ TableInv /\ row = [owner |-> row.owner, ownerOverride |-> row.ownerOverride,
                            kind |-> row.kind, kindOverride |-> row.kindOverride,
                            profile |-> row.profile]
  BY DEF Bank!Correct, BankInv, TableInv, IsAccount
<1>2. /\ raw' = [people |-> raw.people, accounts |-> raw'.accounts, txns |-> raw.txns,
                 snapshots |-> raw.snapshots, details |-> raw.details]
      /\ raw'.accounts = [w \in DOMAIN raw.accounts |-> IF w = u THEN new ELSE raw.accounts[w]]
      /\ IsAccount(new) /\ new.profile = row.profile
      /\ \/ /\ new.owner = row.owner /\ new.ownerOverride = row.ownerOverride
            /\ new.kind = new.kindOverride
         \/ /\ new.owner = new.ownerOverride /\ new.ownerOverride # Bank!None
            /\ new.kind = row.kind /\ new.kindOverride = row.kindOverride
  <2>1. ASSUME NEW value, raw' = [raw EXCEPT !.accounts[u] = value]
        PROVE  /\ raw' = [people |-> raw.people, accounts |-> raw'.accounts, txns |-> raw.txns,
                          snapshots |-> raw.snapshots, details |-> raw.details]
               /\ raw'.accounts = [w \in DOMAIN raw.accounts |-> IF w = u THEN new ELSE raw.accounts[w]]
               /\ new = value
    <3>1. raw = [people |-> raw.people, accounts |-> raw.accounts, txns |-> raw.txns,
                 snapshots |-> raw.snapshots, details |-> raw.details]
          /\ raw.accounts = [w \in DOMAIN raw.accounts |-> raw.accounts[w]]
      BY <1>1 DEF TableInv, IsTable
    <3>2. raw'.accounts = [raw.accounts EXCEPT ![u] = value]
      BY <2>1, <3>1
    <3>3. QED
      BY <2>1, <3>1, <3>2
  <2>2. ASSUME NEW p \in raw.people, Bank!Correct(u, "owner", p)
        PROVE  raw' = [raw EXCEPT !.accounts[u] = [row EXCEPT !.owner = p, !.ownerOverride = p]]
    BY <2>2, <1>1 DEF Bank!Correct
  <2>3. ASSUME NEW k, Bank!Correct(u, "kind", k)
        PROVE  raw' = [raw EXCEPT !.accounts[u] = [row EXCEPT !.kind = k, !.kindOverride = k]]
    BY <2>3, <1>1 DEF Bank!Correct
  <2> HIDE DEF new, row
  <2>4. IsAccount(row)
    BY <1>1 DEF TableInv, row
  <2>5. \A p \in raw.people : p # Bank!None
    BY <1>1 DEF TableInv
  <2>6. CASE \E p \in raw.people : Bank!Correct(u, "owner", p)
    <3>1. PICK p \in raw.people : Bank!Correct(u, "owner", p)
      BY <2>6
    <3>2. raw' = [raw EXCEPT !.accounts[u] = [row EXCEPT !.owner = p, !.ownerOverride = p]]
      BY <3>1, <2>2
    <3>3. /\ raw' = [people |-> raw.people, accounts |-> raw'.accounts, txns |-> raw.txns,
                     snapshots |-> raw.snapshots, details |-> raw.details]
          /\ raw'.accounts = [w \in DOMAIN raw.accounts |-> IF w = u THEN new ELSE raw.accounts[w]]
          /\ new = [row EXCEPT !.owner = p, !.ownerOverride = p]
      BY <3>2, <2>1
    <3>4. new = [owner |-> p, ownerOverride |-> p, kind |-> row.kind,
                 kindOverride |-> row.kindOverride, profile |-> row.profile]
      <4>1. [row EXCEPT !.owner = p, !.ownerOverride = p]
              = [owner |-> p, ownerOverride |-> p, kind |-> row.kind,
                 kindOverride |-> row.kindOverride, profile |-> row.profile]
        BY ONLY <2>4, OwnerEdit
      <4>2. QED
        BY ONLY <3>3, <4>1
    <3>5. QED
      BY <3>1, <3>3, <3>4, <2>5 DEF IsAccount
  <2>7. CASE \E k \in {"checking", "savings"} : Bank!Correct(u, "kind", k)
    <3>1. PICK k \in {"checking", "savings"} : Bank!Correct(u, "kind", k)
      BY <2>7
    <3>2. raw' = [raw EXCEPT !.accounts[u] = [row EXCEPT !.kind = k, !.kindOverride = k]]
      BY <3>1, <2>3
    <3>3. /\ raw' = [people |-> raw.people, accounts |-> raw'.accounts, txns |-> raw.txns,
                     snapshots |-> raw.snapshots, details |-> raw.details]
          /\ raw'.accounts = [w \in DOMAIN raw.accounts |-> IF w = u THEN new ELSE raw.accounts[w]]
          /\ new = [row EXCEPT !.kind = k, !.kindOverride = k]
      BY <3>2, <2>1
    <3>4. new = [owner |-> row.owner, ownerOverride |-> row.ownerOverride, kind |-> k,
                 kindOverride |-> k, profile |-> row.profile]
      BY <3>3, <2>4, KindEdit
    <3>5. QED
      BY <3>3, <3>4 DEF IsAccount
  <2>8. QED
    BY <2>6, <2>7
<1>3. /\ raw'.people = raw.people /\ raw'.txns = raw.txns /\ raw'.snapshots = raw.snapshots
      /\ raw'.details = raw.details
  BY <1>2
<1>4. /\ DOMAIN raw'.accounts = DOMAIN raw.accounts /\ IsTable(raw'.accounts)
      /\ \A w \in DOMAIN raw.accounts : /\ w # u => raw'.accounts[w] = raw.accounts[w]
                                        /\ raw'.accounts[w].profile = raw.accounts[w].profile
  BY <1>2 DEF IsTable
<1> HIDE DEF new, row
<1>5. TableInv'
  <2>1. \A w \in DOMAIN raw.accounts : w \in 0 .. uid /\ IsAccount(raw'.accounts[w])
    BY <1>1, <1>2, <1>4 DEF TableInv, new
  <2>2. QED
    BY <1>1, <1>2, <1>3, <1>4, <2>1 DEF TableInv, IsTable, IsAccount, Bank!None
<1>6. SyncInv'
  <2>1. sync = Bank!Idle
    BY DEF Bank!Correct
  <2>2. sync' = Bank!Idle /\ sync'.step = "idle"
    BY <1>1, <2>1 DEF Bank!Idle
  <2>3. QED
    BY <2>2 DEF SyncInv, SyncShape, Bank!Idle
<1>7. AnsweredInv'
  <2>1. /\ Bank!TransactionRows(answered.load)' = Bank!TransactionRows(answered.load)
        /\ Bank!SnapshotRows(answered.load, answered.day)'
           = Bank!SnapshotRows(answered.load, answered.day)
        /\ Bank!Ids(answered.load)' = Bank!Ids(answered.load)
        /\ \A id : Bank!RowOf(answered.load, id)' = Bank!RowOf(answered.load, id)
    BY <1>1 DEF Bank!TransactionRows, Bank!SnapshotRows, Bank!BalanceDay, Bank!Ids, Bank!RowOf,
           Bank!NoBalance, Bank!Dateless
  <2>2. ASSUME StoredInv PROVE StoredInv'
    <3>1. LET r == answered.load IN
          /\ r.uid \in DOMAIN raw'.accounts /\ raw'.accounts[r.uid].profile = r.profile
          /\ raw'.accounts[r.uid].ownerOverride = Bank!None => raw'.accounts[r.uid].owner = r.owner
      BY <1>2, <1>4, <2>2 DEF StoredInv, new, row
    <3>2. QED
      BY <1>1, <1>3, <2>1, <2>2, <3>1 DEF StoredInv, Kept, Bank!None
  <2>3. DetailedInv => DetailedInv'
    BY <1>1, <1>3, <2>1 DEF DetailedInv
  <2>4. QED
    BY <1>1, <2>2, <2>3 DEF BankInv, AnsweredInv
<1>8. Bank!CorrectionsStand'
  <2>1. ASSUME NEW w \in DOMAIN raw.accounts
        PROVE  /\ raw'.accounts[w].ownerOverride # Bank!None
                    => raw'.accounts[w].owner = raw'.accounts[w].ownerOverride
               /\ raw'.accounts[w].kindOverride # Bank!None
                    => raw'.accounts[w].kind = raw'.accounts[w].kindOverride
    BY <1>2, <1>4 DEF BankInv, Bank!CorrectionsStand, new, row
  <2>2. QED
    BY <1>4, <2>1 DEF Bank!CorrectionsStand, Bank!None
<1>9. Bank!HouseholdWasTold'
  <2>1. \A k \in DOMAIN raw.txns : raw'.accounts[k[1]].profile = raw.accounts[k[1]].profile
    BY <1>1, <1>4 DEF TableInv
  <2>2. QED
    BY <1>1, <1>3, <2>1 DEF BankInv, Bank!HouseholdWasTold, Bank!SourceFacts
<1>10. BookingInv' /\ (Bank!Identified' <=> Bank!Identified)
  BY <1>1 DEF BankInv, BookingInv, Movement, Bank!Identified
<1>11. StockInv'
  BY <1>1, <1>3, <1>10 DEF BankInv, StockInv, EntryId
<1>12. FreshInv'
  <2>1. \A d : Bank!BookedBy(d)' = Bank!BookedBy(d)
    BY <1>1, BankSums DEF Bank!BookedBy
  <2>2. QED
    BY <1>1, <1>3, <1>10, <2>1
       DEF BankInv, FreshInv, AllLoaded, AllDetailed, LastSnapshot, EntryId
<1>13. QED
  BY <1>5, <1>6, <1>7, <1>8, <1>9, <1>10, <1>11, <1>12 DEF BankInv

\* A load fetches, or fails before it has stored anything.
LEMMA FetchedKeeps ==
  ASSUME BankInv, SyncInv',
         UNCHANGED <<provider, bankDay, entries, dating, uid, profile, raw, answered, told, fresh>>
  PROVE  BankInv'
<1>1. BookingInv' /\ TableInv' /\ StockInv'
  BY DEF BankInv, BookingInv, Movement, TableInv, IsTable, IsAccount, StockInv, EntryId,
         Bank!None, Bank!Identified
<1>2. \A d : Bank!BookedBy(d)' = Bank!BookedBy(d)
  BY BankSums DEF Bank!BookedBy
<1>3. FreshInv'
  BY <1>2 DEF BankInv, FreshInv, AllLoaded, AllDetailed, LastSnapshot, EntryId, Bank!Identified
<1>4. QED
  BY <1>1, <1>3, UnwrittenKeeps DEF BankInv

LEMMA FailKeeps ==
  ASSUME BankInv, Bank!Fail
  PROVE  BankInv'
<1>1. sync' = Bank!Idle /\ sync'.step = "idle"
  BY DEF Bank!Fail, Bank!Idle
<1>2. SyncInv'
  BY <1>1 DEF SyncInv, SyncShape, Bank!Idle
<1>3. QED
  BY <1>2, FetchedKeeps DEF Bank!Fail

\* The first request: the movements of a window.
LEMMA FetchTransactionsKeeps ==
  ASSUME Bank!BankConstants, BankInv, NEW owner \in BankOwners, NEW from \in {1, bankDay},
         Bank!FetchTransactions(owner, from)
  PROVE  BankInv'
<1> DEFINE rows == Bank!Listed(from, requests')
<1>1. /\ sync' = [step |-> "fetched", uid |-> uid, owner |-> owner, profile |-> profile,
                  rows |-> rows, whole |-> from = 1]
      /\ UNCHANGED <<provider, bankDay, entries, dating, uid, profile, raw, answered, told, fresh>>
  BY DEF Bank!FetchTransactions
<1>2. /\ DOMAIN rows = {j \in DOMAIN entries : entries[j].day >= from}
      /\ \A i \in DOMAIN rows : /\ rows[i].id = Bank!ExternalId(i, requests')
                                /\ rows[i].day = entries[i].day /\ rows[i].amount = entries[i].amount
  BY DEF Bank!Listed
<1>3. Bank!Identified => \A i \in DOMAIN rows : i \in DOMAIN entries /\ rows[i].id = <<"entry", i>>
  BY <1>2 DEF Bank!Identified, Bank!ExternalId
<1>4. from = 1 => AsBooked(rows)
  <2>1. \A j \in DOMAIN entries : entries[j].day \in Int /\ entries[j].day >= 1
    BY DEF BankInv, BookingInv
  <2>2. QED
    BY <1>2, <2>1 DEF AsBooked
<1> HIDE DEF rows
<1>5. /\ sync'.step = "fetched" /\ sync'.uid = uid /\ sync'.owner = owner
      /\ sync'.profile = profile /\ sync'.rows = rows /\ sync'.whole \in BOOLEAN
      /\ sync'.whole <=> from = 1
  BY <1>1
<1>6. SyncShape'
  BY <1>1 DEF SyncShape, Bank!Idle
<1>7. FetchedInv'
  <2>1. owner # Bank!None /\ uid \in 0 .. uid
    BY DEF Bank!BankConstants, BankInv, BookingInv
  <2>2. QED
    BY <1>1, <1>3, <1>4, <1>5, <2>1 DEF FetchedInv, AsBooked, Bank!Identified, Bank!None
<1>8. SyncInv'
  BY <1>5, <1>6, <1>7 DEF SyncInv
<1>9. QED
  BY <1>1, <1>8, FetchedKeeps

\* The second: a balance, dated as this bank dates them.
LEMMA FetchBalancesKeeps ==
  ASSUME BankInv, Bank!FetchBalances
  PROVE  BankInv'
<1>1. /\ sync' = [step |-> "balanced", uid |-> sync.uid, owner |-> sync.owner,
                  profile |-> sync.profile, rows |-> sync.rows, whole |-> sync.whole,
                  balance |-> Bank!Balance]
      /\ sync.step = "fetched" /\ provider = "bank"
      /\ UNCHANGED <<provider, bankDay, entries, dating, uid, profile, raw, answered, told, fresh>>
  BY DEF Bank!FetchBalances
<1>2. /\ sync'.step = "balanced" /\ sync'.uid = sync.uid /\ sync'.owner = sync.owner
      /\ sync'.profile = sync.profile /\ sync'.rows = sync.rows /\ sync'.whole = sync.whole
      /\ sync'.balance = Bank!Balance
  BY <1>1
<1>3. SyncShape'
  BY <1>1, <1>2 DEF SyncShape, Bank!Idle
<1>4. FetchedInv'
  BY <1>1, <1>2 DEF BankInv, SyncInv, FetchedInv, AsBooked, Bank!Identified, Bank!None
<1>5. \A d : Bank!BookedBy(d)' = Bank!BookedBy(d)
  BY <1>1, BankSums DEF Bank!BookedBy
<1>6. BalancedInv'
  <2>1. CASE dating = "missing"
    BY <1>1, <1>2, <2>1 DEF BalancedInv, Bank!Balance, Bank!NoBalance
  <2>2. CASE dating = "dated"
    <3>1. Bank!Balance = [day |-> bankDay - 1, amount |-> Bank!BookedBy(bankDay - 1)]
      BY <2>2 DEF Bank!Balance
    <3>2. bankDay - 1 \in 0 .. bankDay - 1
      BY DEF BankInv, BookingInv
    <3>3. \A k \in DOMAIN raw.snapshots : k[3] <= bankDay - 1
      BY <2>2 DEF BankInv, TableInv
    <3>4. QED
      BY <1>1, <1>2, <1>5, <2>2, <3>1, <3>2, <3>3 DEF BalancedInv
  <2>3. CASE dating = "dateless"
    <3>1. Bank!Balance = [day |-> Bank!Dateless, amount |-> Bank!BookedBy(bankDay)]
      BY <2>3 DEF Bank!Balance
    <3>2. QED
      BY <1>1, <1>2, <1>5, <2>3, <3>1 DEF BalancedInv, Bank!Dateless
  <2>4. QED
    BY <2>1, <2>2, <2>3 DEF BankInv, BookingInv
<1>7. SyncInv'
  BY <1>2, <1>3, <1>4, <1>6 DEF SyncInv
<1>8. QED
  BY <1>1, <1>7, FetchedKeeps

\* The four tables a load of movements writes.
LEMMA PersistedIs ==
  ASSUME NEW r, NEW today, NEW tables,
         tables = [people |-> tables.people, accounts |-> tables.accounts, txns |-> tables.txns,
                   snapshots |-> tables.snapshots, details |-> tables.details]
  PROVE  Bank!Persisted(r, today, tables) =
           [people |-> tables.people \cup {r.owner},
            accounts |-> Bank!Upserted(tables.accounts, Bank!AccountRow(r, tables.accounts)),
            txns |-> Bank!Upserted(tables.txns, Bank!TransactionRows(r)),
            snapshots |-> Bank!Upserted(tables.snapshots, Bank!SnapshotRows(r, today)),
            details |-> tables.details]
<1>1. PICK p, a, t, s, d : tables = [people |-> p, accounts |-> a, txns |-> t, snapshots |-> s,
                                     details |-> d]
  OBVIOUS
<1>2. /\ tables.people = p /\ tables.accounts = a /\ tables.txns = t /\ tables.snapshots = s
      /\ tables.details = d
  BY ONLY <1>1
<1> DEFINE accountRows == Bank!Upserted(a, Bank!AccountRow(r, a))
           movementRows == Bank!Upserted(t, Bank!TransactionRows(r))
           balanceRows == Bank!Upserted(s, Bank!SnapshotRows(r, today))
<1> HIDE DEF accountRows, movementRows, balanceRows
<1>3. PICK one : one = [tables EXCEPT !.people = p \cup {r.owner}]
  OBVIOUS
<1>4. one = [people |-> p \cup {r.owner}, accounts |-> a, txns |-> t, snapshots |-> s, details |-> d]
  BY ONLY <1>1, <1>3
<1>5. PICK two : two = [one EXCEPT !.accounts = accountRows]
  OBVIOUS
<1>6. two = [people |-> p \cup {r.owner}, accounts |-> accountRows, txns |-> t, snapshots |-> s,
             details |-> d]
  BY ONLY <1>4, <1>5
<1>7. PICK three : three = [two EXCEPT !.txns = movementRows]
  OBVIOUS
<1>8. three = [people |-> p \cup {r.owner}, accounts |-> accountRows, txns |-> movementRows,
               snapshots |-> s, details |-> d]
  BY ONLY <1>6, <1>7
<1>9. [three EXCEPT !.snapshots = balanceRows]
        = [people |-> p \cup {r.owner}, accounts |-> accountRows, txns |-> movementRows,
           snapshots |-> balanceRows, details |-> d]
  BY ONLY <1>8
<1>10. Bank!Persisted(r, today, tables)
         = [tables EXCEPT !.people = p \cup {r.owner}, !.accounts = accountRows,
                          !.txns = movementRows, !.snapshots = balanceRows]
  BY <1>2 DEF Bank!Persisted, accountRows, movementRows, balanceRows
<1>11. [tables EXCEPT !.people = p \cup {r.owner}, !.accounts = accountRows,
                      !.txns = movementRows, !.snapshots = balanceRows]
         = [three EXCEPT !.snapshots = balanceRows]
  BY ONLY <1>3, <1>5, <1>7
<1>12. QED
  BY <1>2, <1>9, <1>10, <1>11 DEF accountRows, movementRows, balanceRows

\* The account a load names follows it, but for what a person corrected.
LEMMA AccountRowIs ==
  ASSUME TableInv, Bank!CorrectionsStand, NEW r
  PROVE  LET new == Bank!AccountRow(r, raw.accounts)[r.uid] IN
         /\ DOMAIN Bank!AccountRow(r, raw.accounts) = {r.uid}
         /\ IsAccount(new) /\ new.profile = r.profile
         /\ new.ownerOverride = Bank!None => new.owner = r.owner
         /\ new.ownerOverride # Bank!None => new.owner = new.ownerOverride
         /\ new.kindOverride # Bank!None => new.kind = new.kindOverride
<1> DEFINE new == Bank!AccountRow(r, raw.accounts)[r.uid]
<1>1. /\ DOMAIN Bank!AccountRow(r, raw.accounts) = {r.uid}
      /\ r.uid \notin DOMAIN raw.accounts => new = Bank!NewAccount(r)
      /\ r.uid \in DOMAIN raw.accounts => LET row == raw.accounts[r.uid] IN
           new = [row EXCEPT !.owner = IF row.ownerOverride = Bank!None THEN r.owner
                                       ELSE row.ownerOverride,
                             !.profile = r.profile]
  BY DEF Bank!AccountRow
<1> HIDE DEF new
<1>2. CASE r.uid \notin DOMAIN raw.accounts
  BY <1>1, <1>2 DEF Bank!NewAccount, IsAccount, new
<1>3. CASE r.uid \in DOMAIN raw.accounts
  <2> DEFINE row == raw.accounts[r.uid]
             owner == IF row.ownerOverride = Bank!None THEN r.owner ELSE row.ownerOverride
  <2>1. IsAccount(row) /\ new = [row EXCEPT !.owner = owner, !.profile = r.profile]
    BY <1>1, <1>3 DEF TableInv
  <2>2. /\ row.ownerOverride = Bank!None => owner = r.owner
        /\ row.ownerOverride # Bank!None => owner = row.ownerOverride
        /\ row.kindOverride # Bank!None => row.kind = row.kindOverride
    BY <1>3 DEF Bank!CorrectionsStand
  <2> HIDE DEF row, owner
  <2>3. new = [owner |-> owner, ownerOverride |-> row.ownerOverride, kind |-> row.kind,
               kindOverride |-> row.kindOverride, profile |-> r.profile]
    BY ONLY <2>1, ProfileEdit
  <2>4. /\ IsAccount(new) /\ new.profile = r.profile
        /\ new.owner = owner /\ new.ownerOverride = row.ownerOverride
        /\ new.kind = row.kind /\ new.kindOverride = row.kindOverride
    BY ONLY <2>3 DEF IsAccount
  <2>5. QED
    BY <1>1, <2>2, <2>4 DEF new
<1>4. QED
  BY <1>2, <1>3

\* A balance is stored at the day it is of, or today.
LEMMA BalanceRows ==
  ASSUME BankInv, sync.step = "balanced"
  PROVE  LET key(d) == <<sync.uid, sync.profile.currency, d>>
             rows == Bank!SnapshotRows(sync, bankDay)
         IN  /\ dating = "missing" => rows = <<>>
             /\ dating = "dated" => /\ DOMAIN rows = {key(sync.balance.day)}
                                    /\ rows[key(sync.balance.day)] = sync.balance.amount
             /\ dating = "dateless" => /\ DOMAIN rows = {key(bankDay)}
                                       /\ rows[key(bankDay)] = sync.balance.amount
<1>1. BalancedInv
  BY DEF BankInv, SyncInv
<1>2. CASE dating = "missing"
  BY <1>1, <1>2 DEF BalancedInv, Bank!SnapshotRows
<1>3. CASE dating = "dated"
  <2>1. sync.balance.day \in Int /\ sync.balance.day >= 0
    BY <1>1, <1>3 DEF BalancedInv, BankInv, BookingInv
  <2>2. sync.balance # Bank!NoBalance /\ Bank!BalanceDay(sync, bankDay) = sync.balance.day
    BY <2>1 DEF Bank!NoBalance, Bank!BalanceDay, Bank!Dateless
  <2>3. QED
    BY <1>3, <2>2 DEF Bank!SnapshotRows
<1>4. CASE dating = "dateless"
  <2>1. sync.balance # Bank!NoBalance /\ Bank!BalanceDay(sync, bankDay) = bankDay
    BY <1>1, <1>4 DEF BalancedInv, Bank!NoBalance, Bank!BalanceDay, Bank!Dateless
  <2>2. QED
    BY <1>4, <2>1 DEF Bank!SnapshotRows
<1>5. QED
  BY <1>2, <1>3, <1>4 DEF BankInv, BookingInv

\* What a load of movements does.
LEMMA PersistIs ==
  ASSUME BankInv, Bank!Persist
  PROVE  /\ UNCHANGED <<provider, bankDay, entries, dating, uid, profile>>
         /\ sync.step = "balanced" /\ FetchedInv /\ BalancedInv
         /\ sync' = Bank!Idle /\ fresh' = sync.whole
         /\ answered' = [step |-> "stored", load |-> sync, day |-> bankDay]
         /\ raw' = [people |-> raw'.people, accounts |-> raw'.accounts, txns |-> raw'.txns,
                    snapshots |-> raw'.snapshots, details |-> raw'.details]
         /\ raw'.people = raw.people \cup {sync.owner}
         /\ Stores(raw.accounts, Bank!AccountRow(sync, raw.accounts), raw'.accounts)
         /\ Stores(raw.txns, Bank!TransactionRows(sync), raw'.txns)
         /\ Stores(raw.snapshots, Bank!SnapshotRows(sync, bankDay), raw'.snapshots)
         /\ raw'.details = raw.details
<1>1. raw' = Bank!Persisted(sync, bankDay, raw)
  BY DEF Bank!Persist
<1>2. raw' = [people |-> raw.people \cup {sync.owner},
              accounts |-> Bank!Upserted(raw.accounts, Bank!AccountRow(sync, raw.accounts)),
              txns |-> Bank!Upserted(raw.txns, Bank!TransactionRows(sync)),
              snapshots |-> Bank!Upserted(raw.snapshots, Bank!SnapshotRows(sync, bankDay)),
              details |-> raw.details]
  BY <1>1, PersistedIs DEF BankInv, TableInv
<1> DEFINE accountRows == Bank!Upserted(raw.accounts, Bank!AccountRow(sync, raw.accounts))
           movementRows == Bank!Upserted(raw.txns, Bank!TransactionRows(sync))
           balanceRows == Bank!Upserted(raw.snapshots, Bank!SnapshotRows(sync, bankDay))
<1>3. /\ Stores(raw.accounts, Bank!AccountRow(sync, raw.accounts), accountRows)
      /\ Stores(raw.txns, Bank!TransactionRows(sync), movementRows)
      /\ Stores(raw.snapshots, Bank!SnapshotRows(sync, bankDay), balanceRows)
  BY UpsertedIs
<1> HIDE DEF accountRows, movementRows, balanceRows
<1>4. /\ raw' = [people |-> raw'.people, accounts |-> raw'.accounts, txns |-> raw'.txns,
                 snapshots |-> raw'.snapshots, details |-> raw'.details]
      /\ raw'.people = raw.people \cup {sync.owner} /\ raw'.accounts = accountRows
      /\ raw'.txns = movementRows /\ raw'.snapshots = balanceRows /\ raw'.details = raw.details
  BY ONLY <1>2 DEF accountRows, movementRows, balanceRows
<1>5. QED
  BY <1>3, <1>4 DEF Bank!Persist, Bank!Stored, BankInv, SyncInv

LEMMA PersistTables ==
  ASSUME BankInv, Bank!Persist
  PROVE  TableInv' /\ Bank!CorrectionsStand'
<1> DEFINE r == sync
           new == Bank!AccountRow(r, raw.accounts)[r.uid]
<1>1. /\ raw' = [people |-> raw'.people, accounts |-> raw'.accounts, txns |-> raw'.txns,
                 snapshots |-> raw'.snapshots, details |-> raw'.details]
      /\ raw'.people = raw.people \cup {r.owner} /\ r.owner # Bank!None /\ r.uid \in 0 .. uid
      /\ UNCHANGED <<bankDay, dating, uid>> /\ raw'.details = raw.details
      /\ TableInv /\ Bank!CorrectionsStand
  BY PersistIs DEF FetchedInv, BankInv
<1>2. /\ DOMAIN raw'.accounts = DOMAIN raw.accounts \cup {r.uid} /\ IsTable(raw'.accounts)
      /\ raw'.accounts[r.uid] = new
      /\ \A u \in DOMAIN raw.accounts : u # r.uid => raw'.accounts[u] = raw.accounts[u]
  <2>1. Stores(raw.accounts, Bank!AccountRow(r, raw.accounts), raw'.accounts)
    BY PersistIs
  <2>2. DOMAIN Bank!AccountRow(r, raw.accounts) = {r.uid}
    BY <1>1, AccountRowIs
  <2> HIDE DEF r
  <2>3. QED
    BY ONLY <2>1, <2>2 DEF Stores, Kept, new
<1>3. /\ IsAccount(new)
      /\ new.ownerOverride # Bank!None => new.owner = new.ownerOverride
      /\ new.kindOverride # Bank!None => new.kind = new.kindOverride
  BY <1>1, AccountRowIs
<1> HIDE DEF new
<1>4. \A u \in DOMAIN raw'.accounts : u \in 0 .. uid /\ IsAccount(raw'.accounts[u])
  BY <1>1, <1>2, <1>3 DEF TableInv
<1>5. IsTable(raw'.txns) /\ \A k \in DOMAIN raw'.txns : k = <<k[1], k[2]>> /\ k[1] \in DOMAIN raw'.accounts
  <2>1. IsTable(raw'.txns) /\ DOMAIN raw'.txns = DOMAIN raw.txns \cup DOMAIN Bank!TransactionRows(r)
    BY PersistIs DEF Stores
  <2>2. \A k \in DOMAIN Bank!TransactionRows(r) : k = <<k[1], k[2]>> /\ k[1] = r.uid
    BY LoadRows
  <2>3. QED
    BY <1>1, <1>2, <2>1, <2>2 DEF TableInv
<1>6. /\ IsTable(raw'.snapshots)
      /\ \A k \in DOMAIN raw'.snapshots :
           /\ k = <<k[1], k[2], k[3]>> /\ k[1] \in 0 .. uid /\ k[3] \in Int
           /\ k[3] <= IF dating = "dated" THEN bankDay - 1 ELSE bankDay
      /\ dating = "missing" => raw'.snapshots = <<>>
  <2> DEFINE rows == Bank!SnapshotRows(r, bankDay)
  <2>1. IsTable(raw'.snapshots) /\ DOMAIN raw'.snapshots = DOMAIN raw.snapshots \cup DOMAIN rows
    BY PersistIs DEF Stores
  <2>2. \A k \in DOMAIN rows :
          /\ k = <<k[1], k[2], k[3]>> /\ k[1] \in 0 .. uid /\ k[3] \in Int
          /\ k[3] <= IF dating = "dated" THEN bankDay - 1 ELSE bankDay
    <3>1. sync.step = "balanced" /\ BalancedInv /\ bankDay \in Nat
      BY PersistIs DEF BankInv, BookingInv
    <3>2. CASE dating = "missing"
      BY <3>1, <3>2, BalanceRows
    <3>3. CASE dating = "dated"
      <4>1. DOMAIN rows = {<<r.uid, r.profile.currency, r.balance.day>>}
        BY <3>1, <3>3, BalanceRows
      <4>2. r.balance.day \in Int /\ r.balance.day <= bankDay - 1
        BY <3>1, <3>3 DEF BalancedInv
      <4> HIDE DEF rows
      <4>3. QED
        BY <1>1, <3>3, <4>1, <4>2
    <3>4. CASE dating = "dateless"
      <4>1. DOMAIN rows = {<<r.uid, r.profile.currency, bankDay>>}
        BY <3>1, <3>4, BalanceRows
      <4> HIDE DEF rows
      <4>2. QED
        BY <1>1, <3>1, <3>4, <4>1
    <3>5. QED
      BY <3>2, <3>3, <3>4 DEF BankInv, BookingInv
  <2>3. ASSUME dating = "missing" PROVE raw'.snapshots = <<>>
    <3>1. rows = <<>> /\ raw.snapshots = <<>>
      BY <1>1, <2>3, PersistIs, BalanceRows DEF TableInv
    <3>2. DOMAIN raw'.snapshots = {}
      BY <2>1, <3>1
    <3>3. QED
      BY ONLY <2>1, <3>2, EmptyTable
  <2> HIDE DEF rows
  <2>4. QED
    BY <1>1, <2>1, <2>2, <2>3 DEF TableInv
<1>7. TableInv'
  BY <1>1, <1>2, <1>4, <1>5, <1>6 DEF TableInv, IsTable, IsAccount, Bank!None
<1>8. Bank!CorrectionsStand'
  BY <1>1, <1>2, <1>3 DEF Bank!CorrectionsStand, Bank!None
<1>9. QED
  BY <1>7, <1>8

\* The household hears of the movements whose facts a load has changed.
LEMMA PersistTold ==
  ASSUME BankInv, Bank!Persist
  PROVE  Bank!HouseholdWasTold'
<1> DEFINE rows == Bank!TransactionRows(sync)
           account == Bank!AccountRow(sync, raw.accounts)
           differing == Bank!Differing(raw.txns, rows)
           reviewed == IF Bank!Differing(raw.accounts, account) = {} THEN {}
                       ELSE {k \in DOMAIN raw'.txns : k[1] = sync.uid}
<1>1. /\ Stores(raw.txns, rows, raw'.txns) /\ Stores(raw.accounts, account, raw'.accounts)
      /\ DOMAIN account = {sync.uid} /\ Bank!HouseholdWasTold /\ TableInv
  BY PersistIs, AccountRowIs DEF BankInv
<1>2. /\ DOMAIN told' = DOMAIN told \cup differing \cup reviewed
      /\ \A k \in DOMAIN told' :
           /\ told'[k].facts = IF k \in differing \cup reviewed THEN Bank!SourceFacts(k, raw')
                               ELSE told[k].facts
           /\ told'[k].inserted = (IF k \in differing \ DOMAIN raw.txns THEN 1 ELSE 0)
                                  + IF k \in DOMAIN told THEN told[k].inserted ELSE 0
  BY DEF Bank!Persist, Bank!Announced
<1>3. /\ differing = {k \in DOMAIN rows : k \notin DOMAIN raw.txns \/ raw.txns[k] # rows[k]}
      /\ reviewed \subseteq DOMAIN raw'.txns
      /\ \A k \in DOMAIN raw'.txns \ reviewed :
           k[1] = sync.uid => sync.uid \in DOMAIN raw.accounts /\ raw.accounts[sync.uid] = account[sync.uid]
  BY <1>1 DEF Bank!Differing
<1> HIDE DEF rows, account, differing, reviewed
<1>4. /\ DOMAIN told = DOMAIN raw.txns
      /\ \A k \in DOMAIN told : told[k].inserted = 1 /\ told[k].facts = Bank!SourceFacts(k, raw)
  BY <1>1 DEF Bank!HouseholdWasTold
<1>5. DOMAIN told' = DOMAIN raw'.txns
  BY <1>1, <1>2, <1>3, <1>4 DEF Stores
<1>6. ASSUME NEW k \in DOMAIN told' PROVE told'[k].inserted = 1
  BY <1>1, <1>2, <1>3, <1>4, <1>5, <1>6 DEF Stores
<1>7. ASSUME NEW k \in DOMAIN told' PROVE told'[k].facts = Bank!SourceFacts(k, raw')
  <2>1. CASE k \in differing \cup reviewed
    BY <1>2, <2>1
  <2>2. CASE k \notin differing \cup reviewed
    <3>1. k \in DOMAIN told /\ told'[k].facts = Bank!SourceFacts(k, raw)
      BY <1>2, <1>4, <2>2
    <3>2. raw'.txns[k] = raw.txns[k]
      BY <1>1, <1>3, <1>4, <2>2, <3>1 DEF Stores, Kept
    <3>3. k[1] \in DOMAIN raw.accounts /\ raw'.accounts[k[1]] = raw.accounts[k[1]]
      <4>1. k[1] \in DOMAIN raw.accounts
        BY <1>1, <1>4, <3>1 DEF TableInv
      <4>2. CASE k[1] = sync.uid
        BY <1>1, <1>3, <1>5, <2>2, <4>1, <4>2 DEF Stores, Kept
      <4>3. CASE k[1] # sync.uid
        BY <1>1, <4>1, <4>3 DEF Stores
      <4>4. QED
        BY <4>1, <4>2, <4>3
    <3>4. QED
      BY <3>1, <3>2, <3>3 DEF Bank!SourceFacts
  <2>3. QED
    BY <2>1, <2>2
<1>8. QED
  BY <1>5, <1>6, <1>7 DEF Bank!HouseholdWasTold, Bank!SourceFacts

\* What the load wrote is what it answered with.
LEMMA PersistAnswered ==
  ASSUME BankInv, Bank!Persist
  PROVE  AnsweredInv'
<1> DEFINE account == Bank!AccountRow(sync, raw.accounts)
           new == account[sync.uid]
<1>1. /\ answered' = [step |-> "stored", load |-> sync, day |-> bankDay]
      /\ raw'.people = raw.people \cup {sync.owner}
      /\ Stores(raw.accounts, account, raw'.accounts)
      /\ Stores(raw.txns, Bank!TransactionRows(sync), raw'.txns)
      /\ Stores(raw.snapshots, Bank!SnapshotRows(sync, bankDay), raw'.snapshots)
  BY PersistIs
<1>2. /\ DOMAIN account = {sync.uid} /\ new.profile = sync.profile
      /\ new.ownerOverride = Bank!None => new.owner = sync.owner
  BY AccountRowIs DEF BankInv
<1> HIDE DEF account
<1>3. sync.uid \in DOMAIN raw'.accounts /\ raw'.accounts[sync.uid] = new
  BY <1>1, <1>2 DEF Stores, Kept
<1>4. answered'.step = "stored" /\ answered'.load = sync /\ answered'.day = bankDay
  BY <1>1
<1>5. /\ Kept(Bank!TransactionRows(sync), raw'.txns)
      /\ Kept(Bank!SnapshotRows(sync, bankDay), raw'.snapshots)
  BY <1>1 DEF Stores
<1>6. /\ Bank!TransactionRows(answered.load)' = Bank!TransactionRows(sync)
      /\ Bank!SnapshotRows(answered.load, answered.day)' = Bank!SnapshotRows(sync, bankDay)
  BY <1>4 DEF Bank!TransactionRows, Bank!SnapshotRows, Bank!BalanceDay, Bank!Ids, Bank!RowOf,
         Bank!NoBalance, Bank!Dateless
<1>7. StoredInv'
  BY <1>1, <1>2, <1>3, <1>4, <1>5, <1>6 DEF StoredInv, Kept, Bank!None
<1>8. QED
  BY <1>4, <1>7 DEF AnsweredInv

\* A whole load leaves the account as the bank has it.
LEMMA PersistFresh ==
  ASSUME BankInv, Bank!Persist
  PROVE  StockInv' /\ FreshInv'
<1> DEFINE rows == Bank!TransactionRows(sync)
           balances == Bank!SnapshotRows(sync, bankDay)
<1>1. /\ UNCHANGED <<provider, bankDay, entries, dating, uid, profile>> /\ fresh' = sync.whole
      /\ sync.step = "balanced" /\ FetchedInv /\ BalancedInv /\ raw'.details = raw.details
      /\ Stores(raw.txns, rows, raw'.txns) /\ Stores(raw.snapshots, balances, raw'.snapshots)
      /\ TableInv /\ StockInv /\ DOMAIN entries \subseteq Int
  BY PersistIs DEF BankInv, BookingInv
<1>2. ASSUME Bank!Identified
      PROVE  /\ Bank!Ids(sync) = {EntryId(i) : i \in DOMAIN sync.rows}
             /\ DOMAIN sync.rows \subseteq DOMAIN entries
             /\ \A i \in DOMAIN sync.rows : Bank!RowOf(sync, EntryId(i)) = sync.rows[i]
  BY <1>1, <1>2, RowsByEntry DEF FetchedInv
<1>3. DOMAIN rows = {<<sync.uid, id>> : id \in Bank!Ids(sync)}
      /\ \A id \in Bank!Ids(sync) : /\ rows[<<sync.uid, id>>].day = Bank!RowOf(sync, id).day
                                    /\ rows[<<sync.uid, id>>].amount = Bank!RowOf(sync, id).amount
  BY DEF Bank!TransactionRows
<1> HIDE DEF rows, balances
<1>4. (Bank!Identified' <=> Bank!Identified) /\ \A d : Bank!BookedBy(d)' = Bank!BookedBy(d)
  BY <1>1, BankSums DEF Bank!Identified, Bank!BookedBy
<1>5. StockInv'
  <2>1. ASSUME Bank!Identified, NEW k \in DOMAIN raw'.txns
        PROVE  \E i \in DOMAIN entries : k[2] = EntryId(i)
    <3>1. CASE k \in DOMAIN raw.txns
      BY <1>1, <2>1, <3>1 DEF StockInv
    <3>2. CASE k \in DOMAIN rows
      <4>1. PICK i \in DOMAIN sync.rows : k = <<sync.uid, EntryId(i)>>
        BY <1>2, <1>3, <2>1, <3>2
      <4>2. QED
        BY <1>2, <2>1, <4>1
    <3>3. QED
      BY <1>1, <2>1, <3>1, <3>2 DEF Stores
  <2>2. QED
    BY <1>1, <1>4, <2>1 DEF StockInv, EntryId
<1>6. ASSUME sync.whole, Bank!Identified PROVE AllLoaded'
  <2>1. sync.uid = uid /\ AsBooked(sync.rows)
    BY <1>1, <1>6 DEF FetchedInv
  <2>2. ASSUME NEW i \in DOMAIN entries
        PROVE  LET k == <<uid, EntryId(i)>> IN
               /\ k \in DOMAIN raw'.txns
               /\ raw'.txns[k].day = entries[i].day /\ raw'.txns[k].amount = entries[i].amount
    <3>1. i \in DOMAIN sync.rows /\ EntryId(i) \in Bank!Ids(sync)
          /\ Bank!RowOf(sync, EntryId(i)) = sync.rows[i]
      BY <1>2, <1>6, <2>1 DEF AsBooked
    <3>2. <<uid, EntryId(i)>> \in DOMAIN rows
          /\ rows[<<uid, EntryId(i)>>].day = entries[i].day
          /\ rows[<<uid, EntryId(i)>>].amount = entries[i].amount
      BY <1>3, <2>1, <3>1 DEF AsBooked
    <3>3. QED
      BY <1>1, <3>2 DEF Stores, Kept
  <2>3. QED
    BY <1>1, <2>2 DEF AllLoaded, EntryId
<1>7. ASSUME sync.whole, dating # "missing"
      PROVE  \E k \in DOMAIN raw'.snapshots :
               /\ k[1] = uid /\ k[2] = profile.currency /\ raw'.snapshots[k] = Bank!BookedBy(k[3])
               /\ \A o \in DOMAIN raw'.snapshots : o[3] <= k[3]
  <2>1. sync.uid = uid /\ sync.profile = profile
    BY <1>1, <1>7 DEF FetchedInv
  <2>2. PICK d \in Int : /\ DOMAIN balances = {<<uid, profile.currency, d>>}
                         /\ balances[<<uid, profile.currency, d>>] = Bank!BookedBy(d)
                         /\ \A o \in DOMAIN raw.snapshots : o[3] <= d
    <3>1. CASE dating = "dated"
      BY <1>1, <1>7, <2>1, <3>1, BalanceRows DEF BalancedInv, balances
    <3>2. CASE dating = "dateless"
      <4>1. bankDay \in Int /\ \A o \in DOMAIN raw.snapshots : o[3] <= bankDay
        BY <1>1, <3>2 DEF BankInv, BookingInv, TableInv
      <4>2. QED
        BY <1>1, <1>7, <2>1, <3>2, <4>1, BalanceRows DEF BalancedInv, balances
    <3>3. QED
      BY <1>7, <3>1, <3>2 DEF BankInv, BookingInv
  <2> DEFINE key == <<uid, profile.currency, d>>
  <2>3. /\ key \in DOMAIN raw'.snapshots /\ raw'.snapshots[key] = Bank!BookedBy(d)
        /\ \A o \in DOMAIN raw'.snapshots : o[3] <= d
    BY <1>1, <2>2 DEF Stores, Kept
  <2>4. key[1] = uid /\ key[2] = profile.currency /\ key[3] = d
    OBVIOUS
  <2> HIDE DEF key
  <2>5. QED
    BY <2>3, <2>4
<1>8. FreshInv'
  BY <1>1, <1>4, <1>6, <1>7 DEF FreshInv, BalancedInv, LastSnapshot
<1>9. QED
  BY <1>5, <1>8

\* A load of movements is stored.
LEMMA PersistKeeps ==
  ASSUME BankInv, Bank!Persist
  PROVE  BankInv'
<1>1. UNCHANGED <<provider, bankDay, entries, dating, uid>> /\ sync' = Bank!Idle /\ BookingInv
  BY PersistIs DEF BankInv
<1>2. sync' = Bank!Idle /\ sync'.step = "idle"
  BY <1>1 DEF Bank!Idle
<1>3. SyncInv'
  BY <1>2 DEF SyncInv, SyncShape, Bank!Idle
<1>4. BookingInv'
  BY <1>1 DEF BookingInv, Movement
<1>5. QED
  BY <1>3, <1>4, PersistTables, PersistTold, PersistAnswered, PersistFresh DEF BankInv

\* A load of payment details is refused, or stores every fact it fetched.
LEMMA DetailsAre ==
  ASSUME NEW r, NEW details
  PROVE  /\ DOMAIN Bank!DetailRows(r, details) = Bank!Ids(r)
         /\ \A id \in Bank!Ids(r) : Bank!DetailRows(r, details)[id].facts = Bank!RowOf(r, id)
  BY DEF Bank!DetailRows

LEMMA DetailsIs ==
  ASSUME BankInv, Bank!LoadDetails, ~Bank!DetailRefused(sync)
  PROVE  /\ UNCHANGED <<provider, bankDay, entries, dating, uid, profile, told>>
         /\ provider = "paypal" /\ FetchedInv /\ sync' = Bank!Idle /\ fresh' = sync.whole
         /\ answered' = [step |-> "detailed", load |-> sync, day |-> bankDay]
         /\ raw' = [people |-> raw.people, accounts |-> raw.accounts, txns |-> raw.txns,
                    snapshots |-> raw.snapshots, details |-> raw'.details]
         /\ Stores(raw.details, Bank!DetailRows(sync, raw.details), raw'.details)
<1> DEFINE details == Bank!Upserted(raw.details, Bank!DetailRows(sync, raw.details))
<1>1. Stores(raw.details, Bank!DetailRows(sync, raw.details), details)
  BY UpsertedIs
<1>2. raw' = [raw EXCEPT !.details = details]
  BY DEF Bank!LoadDetails
<1>3. raw = [people |-> raw.people, accounts |-> raw.accounts, txns |-> raw.txns,
             snapshots |-> raw.snapshots, details |-> raw.details]
  BY DEF BankInv, TableInv
<1> HIDE DEF details
<1>4. /\ raw' = [people |-> raw.people, accounts |-> raw.accounts, txns |-> raw.txns,
                 snapshots |-> raw.snapshots, details |-> raw'.details]
      /\ raw'.details = details
  BY ONLY <1>2, <1>3
<1>5. FetchedInv
  BY DEF Bank!LoadDetails, BankInv, SyncInv
<1>6. QED
  BY <1>1, <1>4, <1>5 DEF Bank!LoadDetails, Bank!Stored

LEMMA DetailsKeep ==
  ASSUME BankInv, Bank!LoadDetails
  PROVE  BankInv'
<1>1. SyncInv'
  <2>1. sync' = Bank!Idle /\ sync'.step = "idle"
    BY DEF Bank!LoadDetails, Bank!Stored, Bank!Idle
  <2>2. QED
    BY <2>1 DEF SyncInv, SyncShape, Bank!Idle
<1>2. CASE Bank!DetailRefused(sync)
  BY <1>1, <1>2, FetchedKeeps DEF Bank!LoadDetails
<1>3. CASE ~Bank!DetailRefused(sync)
  <2> DEFINE rows == Bank!DetailRows(sync, raw.details)
  <2>1. /\ UNCHANGED <<provider, bankDay, entries, dating, uid, profile, told>>
        /\ provider = "paypal" /\ FetchedInv /\ fresh' = sync.whole
        /\ answered' = [step |-> "detailed", load |-> sync, day |-> bankDay]
        /\ raw' = [people |-> raw.people, accounts |-> raw.accounts, txns |-> raw.txns,
                   snapshots |-> raw.snapshots, details |-> raw'.details]
        /\ Stores(raw.details, rows, raw'.details) /\ TableInv /\ StockInv
        /\ DOMAIN entries \subseteq Int
    BY <1>3, DetailsIs DEF BankInv, BookingInv
  <2>2. DOMAIN rows = Bank!Ids(sync)
        /\ \A id \in Bank!Ids(sync) : rows[id].facts = Bank!RowOf(sync, id)
    BY DetailsAre
  <2>3. ASSUME Bank!Identified
        PROVE  /\ Bank!Ids(sync) = {EntryId(i) : i \in DOMAIN sync.rows}
               /\ DOMAIN sync.rows \subseteq DOMAIN entries
               /\ \A i \in DOMAIN sync.rows : Bank!RowOf(sync, EntryId(i)) = sync.rows[i]
    BY <2>1, <2>3, RowsByEntry DEF FetchedInv
  <2> HIDE DEF rows
  <2>4. /\ raw'.people = raw.people /\ raw'.accounts = raw.accounts /\ raw'.txns = raw.txns
        /\ raw'.snapshots = raw.snapshots
    BY <2>1
  <2>5. TableInv'
    BY <2>1, <2>4 DEF TableInv, Stores, IsTable, IsAccount, Bank!None
  <2>6. AnsweredInv'
    <3>1. answered'.step = "detailed" /\ answered'.load = sync
      BY <2>1
    <3>2. Bank!Ids(answered.load)' = Bank!Ids(sync)
          /\ \A id : Bank!RowOf(answered.load, id)' = Bank!RowOf(sync, id)
      BY <3>1 DEF Bank!Ids, Bank!RowOf
    <3>3. DetailedInv'
      BY <2>1, <2>2, <3>1, <3>2 DEF DetailedInv, Stores, Kept
    <3>4. QED
      BY <3>1, <3>3 DEF AnsweredInv
  <2>7. Bank!CorrectionsStand' /\ Bank!HouseholdWasTold'
    BY <2>1, <2>4 DEF BankInv, Bank!CorrectionsStand, Bank!HouseholdWasTold, Bank!SourceFacts,
                      Bank!None
  <2>8. BookingInv' /\ (Bank!Identified' <=> Bank!Identified)
    BY <2>1 DEF BankInv, BookingInv, Movement, Bank!Identified
  <2>9. StockInv'
    <3>1. ASSUME Bank!Identified, NEW id \in DOMAIN raw'.details
          PROVE  \E i \in DOMAIN entries : id = EntryId(i)
      BY <2>1, <2>2, <2>3, <3>1 DEF StockInv, Stores
    <3>2. QED
      BY <2>1, <2>4, <2>8, <3>1 DEF StockInv, EntryId
  <2>10. ASSUME sync.whole, Bank!Identified, NEW i \in DOMAIN entries
         PROVE  /\ EntryId(i) \in DOMAIN raw'.details
                /\ raw'.details[EntryId(i)].facts.amount = entries[i].amount
    <3>1. i \in DOMAIN sync.rows /\ sync.rows[i].amount = entries[i].amount
      BY <2>1, <2>10 DEF FetchedInv, AsBooked
    <3>2. EntryId(i) \in Bank!Ids(sync) /\ Bank!RowOf(sync, EntryId(i)) = sync.rows[i]
      BY <2>3, <2>10, <3>1
    <3>3. QED
      BY <2>1, <2>2, <3>1, <3>2 DEF Stores, Kept
  <2>11. FreshInv'
    BY <2>1, <2>8, <2>10 DEF FreshInv, AllDetailed, EntryId
  <2>12. QED
    BY <1>1, <2>5, <2>6, <2>7, <2>8, <2>9, <2>11 DEF BankInv
<1>4. QED
  BY <1>2, <1>3

LEMMA BankStart ==
  ASSUME Bank!BankConstants, Bank!Init
  PROVE  BankInv
<1>1. /\ bankDay = 1 /\ entries = <<>> /\ uid = 0 /\ sync = Bank!Idle /\ answered = Bank!Idle
      /\ told = <<>> /\ fresh = FALSE /\ provider \in {"bank", "paypal"}
      /\ dating \in {"dated", "dateless", "missing"} /\ (provider = "paypal" => dating = "missing")
      /\ raw = [people |-> BankPeople, accounts |-> <<>>, txns |-> <<>>, snapshots |-> <<>>,
                details |-> <<>>]
      /\ Bank!None \notin BankPeople
  BY DEF Bank!Init, Bank!BankConstants
<1>2. /\ raw.people = BankPeople /\ raw.accounts = <<>> /\ raw.txns = <<>>
      /\ raw.snapshots = <<>> /\ raw.details = <<>>
  BY <1>1
<1>3. BookingInv
  BY <1>1 DEF BookingInv, Movement
<1>4. TableInv
  <2>1. DOMAIN <<>> = {} /\ IsTable(<<>>)
    BY DEF IsTable
  <2>2. QED
    BY <1>1, <1>2, <2>1 DEF TableInv
<1>5. sync.step = "idle" /\ answered.step = "idle"
  BY <1>1 DEF Bank!Idle
<1>6. SyncInv /\ AnsweredInv /\ FreshInv
  BY <1>1, <1>5 DEF SyncInv, SyncShape, AnsweredInv, FreshInv
<1>7. StockInv /\ Bank!CorrectionsStand /\ Bank!HouseholdWasTold
  BY <1>1, <1>2 DEF StockInv, Bank!CorrectionsStand, Bank!HouseholdWasTold
<1>8. QED
  BY <1>3, <1>4, <1>6, <1>7 DEF BankInv

LEMMA BankStep ==
  ASSUME Bank!BankConstants, BankInv, [Bank!Next]_(Bank!bankVars)
  PROVE  BankInv'
<1>1. ASSUME UNCHANGED Bank!bankVars PROVE BankInv'
  <2>1. UNCHANGED <<provider, bankDay, entries, dating, uid, profile, raw, answered, told, fresh, sync>>
    BY <1>1 DEF Bank!bankVars
  <2>2. \A d : Bank!BookedBy(d)' = Bank!BookedBy(d)
    BY <2>1, BankSums DEF Bank!BookedBy
  <2>3. SyncInv'
    BY <2>1, <2>2 DEF BankInv, SyncInv, SyncShape, FetchedInv, AsBooked, BalancedInv, Bank!Idle,
                      Bank!None, Bank!Identified, Bank!NoBalance, Bank!Dateless
  <2>4. QED
    BY <2>1, <2>3, FetchedKeeps
<1>2. ASSUME Bank!Next PROVE BankInv'
  <2>1. CASE \/ \E identity \in BankIdentities, amount \in BankAmounts : Bank!Book(identity, amount)
             \/ \E i \in DOMAIN entries, amount \in BankRestated : Bank!Restate(i, amount)
             \/ \E p \in BankProfiles : Bank!Rename(p)
             \/ Bank!Reconsent
    BY <2>1, BankMoves
  <2>2. CASE \E owner \in BankOwners, from \in {1, bankDay} : Bank!FetchTransactions(owner, from)
    BY <2>2, FetchTransactionsKeeps
  <2>3. CASE \E u \in DOMAIN raw.accounts :
               \/ \E p \in raw.people : Bank!Correct(u, "owner", p)
               \/ \E k \in {"checking", "savings"} : Bank!Correct(u, "kind", k)
    BY <2>3, CorrectedKeeps
  <2>4. CASE Bank!Midnight \/ Bank!FetchBalances \/ Bank!Fail \/ Bank!Persist \/ Bank!LoadDetails
    BY <2>4, MidnightKeeps, FetchBalancesKeeps, FailKeeps, PersistKeeps, DetailsKeep
  <2>5. QED
    BY <1>2, <2>1, <2>2, <2>3, <2>4 DEF Bank!Next
<1>3. QED
  BY <1>1, <1>2

\* The load stored last finds its account as it would write it.
LEMMA AccountStands ==
  ASSUME TableInv, Bank!CorrectionsStand, NEW r, r.uid \in DOMAIN raw.accounts,
         raw.accounts[r.uid].profile = r.profile,
         raw.accounts[r.uid].ownerOverride = Bank!None => raw.accounts[r.uid].owner = r.owner
  PROVE  Kept(Bank!AccountRow(r, raw.accounts), raw.accounts)
<1> DEFINE row == raw.accounts[r.uid]
           owner == IF row.ownerOverride = Bank!None THEN r.owner ELSE row.ownerOverride
<1>1. /\ DOMAIN Bank!AccountRow(r, raw.accounts) = {r.uid}
      /\ Bank!AccountRow(r, raw.accounts)[r.uid] = [row EXCEPT !.owner = owner, !.profile = r.profile]
  BY DEF Bank!AccountRow
<1>2. IsAccount(row) /\ row.owner = owner /\ row.profile = r.profile
  BY DEF TableInv, Bank!CorrectionsStand
<1> HIDE DEF row, owner
<1>3. [row EXCEPT !.owner = owner, !.profile = r.profile]
        = [owner |-> owner, ownerOverride |-> row.ownerOverride, kind |-> row.kind,
           kindOverride |-> row.kindOverride, profile |-> r.profile]
  BY ONLY <1>2, ProfileEdit
<1>4. Bank!AccountRow(r, raw.accounts)[r.uid] = row
  BY ONLY <1>1, <1>2, <1>3 DEF IsAccount
<1>5. QED
  BY <1>1, <1>4 DEF Kept, row

LEMMA RepeatHolds ==
  ASSUME BankInv
  PROVE  Bank!RepeatIsNoWrite
<1> DEFINE r == answered.load
<1>1. ASSUME answered.step = "stored"
      PROVE  /\ Bank!Persisted(r, answered.day, raw) = raw
             /\ Bank!Writes(r, answered.day, raw) = 0
  <2>1. StoredInv /\ TableInv /\ Bank!CorrectionsStand
    BY <1>1 DEF BankInv, AnsweredInv
  <2>2. /\ Kept(Bank!AccountRow(r, raw.accounts), raw.accounts)
        /\ Kept(Bank!TransactionRows(r), raw.txns)
        /\ Kept(Bank!SnapshotRows(r, answered.day), raw.snapshots)
        /\ r.owner \in raw.people
    BY <2>1, AccountStands DEF StoredInv
  <2>3. /\ raw = [people |-> raw.people, accounts |-> raw.accounts, txns |-> raw.txns,
                  snapshots |-> raw.snapshots, details |-> raw.details]
        /\ IsTable(raw.accounts) /\ IsTable(raw.txns) /\ IsTable(raw.snapshots)
    BY <2>1 DEF TableInv
  <2>4. /\ raw.people \cup {r.owner} = raw.people /\ {r.owner} \ raw.people = {}
    BY <2>2
  <2> HIDE DEF r
  <2>5. Bank!Persisted(r, answered.day, raw) =
          [people |-> raw.people \cup {r.owner},
           accounts |-> Bank!Upserted(raw.accounts, Bank!AccountRow(r, raw.accounts)),
           txns |-> Bank!Upserted(raw.txns, Bank!TransactionRows(r)),
           snapshots |-> Bank!Upserted(raw.snapshots, Bank!SnapshotRows(r, answered.day)),
           details |-> raw.details]
    BY ONLY <2>3, PersistedIs
  <2>6. /\ Bank!Upserted(raw.accounts, Bank!AccountRow(r, raw.accounts)) = raw.accounts
        /\ Bank!Cardinality(Bank!Differing(raw.accounts, Bank!AccountRow(r, raw.accounts))) = 0
    BY <2>2, <2>3, KeptIsNoWrite
  <2>7. /\ Bank!Upserted(raw.txns, Bank!TransactionRows(r)) = raw.txns
        /\ Bank!Cardinality(Bank!Differing(raw.txns, Bank!TransactionRows(r))) = 0
    BY <2>2, <2>3, KeptIsNoWrite
  <2>8. /\ Bank!Upserted(raw.snapshots, Bank!SnapshotRows(r, answered.day)) = raw.snapshots
        /\ Bank!Cardinality(Bank!Differing(raw.snapshots, Bank!SnapshotRows(r, answered.day))) = 0
    BY <2>2, <2>3, KeptIsNoWrite
  <2>9. Bank!Persisted(r, answered.day, raw) = raw
    BY ONLY <2>3, <2>4, <2>5, <2>6, <2>7, <2>8
  <2>10. Bank!Cardinality({r.owner} \ raw.people) = 0
    BY <2>4, BankSums, FS_EmptySet
  <2>11. Bank!Writes(r, answered.day, raw) = 0
    BY <2>6, <2>7, <2>8, <2>10 DEF Bank!Writes
  <2>12. QED
    BY <2>9, <2>11
<1>2. ASSUME answered.step = "detailed"
      PROVE  Bank!Upserted(raw.details, Bank!DetailRows(r, raw.details)) = raw.details
  <2>1. DetailedInv /\ IsTable(raw.details)
    BY <1>2 DEF BankInv, AnsweredInv, TableInv
  <2>2. Kept(Bank!DetailRows(r, raw.details), raw.details)
    BY <2>1 DEF DetailedInv, Bank!DetailRows, Kept
  <2>3. QED
    BY <2>1, <2>2, KeptIsNoWrite
<1>3. QED
  BY <1>1, <1>2 DEF BankInv, AnsweredInv, Bank!RepeatIsNoWrite

\* Entries are finitely many, and amounts are whole numbers.
LEMMA EntriesAddUp ==
  ASSUME BookingInv
  PROVE  /\ IsFiniteSet(DOMAIN entries) /\ Cardinality(DOMAIN entries) = Len(entries)
         /\ \A i \in DOMAIN entries : entries[i].amount \in Int /\ entries[i].day <= bankDay
<1>1. DOMAIN entries = 1 .. Len(entries) /\ Len(entries) \in Nat
      /\ \A i \in DOMAIN entries : entries[i] \in Movement
  BY DEF BookingInv
<1>2. IsFiniteSet(1 .. Len(entries)) /\ Cardinality(1 .. Len(entries)) = Len(entries)
  BY <1>1, FS_Interval
<1>3. \A i \in DOMAIN entries : entries[i].amount \in Int /\ entries[i].day <= bankDay
  BY <1>1 DEF BookingInv, Movement
<1>4. QED
  BY <1>1, <1>2, <1>3

LEMMA LedgerHolds ==
  ASSUME BankInv
  PROVE  Bank!LedgerMatchesBalance
<1> DEFINE currencies == {raw.txns[k].currency : k \in DOMAIN raw.txns}
                         \cup {k[2] : k \in DOMAIN raw.snapshots}
           newest == CHOOSE k \in DOMAIN raw.snapshots : \A o \in DOMAIN raw.snapshots : o[3] <= k[3]
           until == {k \in DOMAIN raw.txns : raw.txns[k].day <= newest[3]}
           stored == [k \in DOMAIN raw.txns |-> raw.txns[k].amount]
<1> SUFFICES ASSUME fresh, raw.snapshots # <<>>, uid = 0, Bank!Identified,
                    currencies = {profile.currency}
             PROVE  raw.snapshots[newest] = Bank!SumFunctionOnSet(stored, until)
  BY DEF Bank!LedgerMatchesBalance
<1>1. BookingInv /\ TableInv /\ StockInv /\ FreshInv
  BY DEF BankInv
<1>2. provider = "bank" /\ dating # "missing"
  BY <1>1 DEF BookingInv, TableInv
<1>3. AllLoaded /\ \E k \in DOMAIN raw.snapshots : LastSnapshot(k)
  BY <1>1, <1>2 DEF FreshInv
<1>4. PICK k \in DOMAIN raw.snapshots : LastSnapshot(k)
  BY <1>3
<1>5. newest \in DOMAIN raw.snapshots /\ \A o \in DOMAIN raw.snapshots : o[3] <= newest[3]
  BY <1>4 DEF LastSnapshot
<1>6. \A o \in DOMAIN raw.snapshots : o[2] = profile.currency
  BY DEF currencies
<1> HIDE DEF newest, currencies
<1>7. newest = k
  <2>1. /\ newest = <<newest[1], newest[2], newest[3]>> /\ newest[1] \in 0 .. 0 /\ newest[3] \in Int
        /\ k = <<k[1], k[2], k[3]>> /\ k[1] \in 0 .. 0 /\ k[3] \in Int
    BY <1>1, <1>5 DEF TableInv
  <2>2. newest[3] = k[3]
    BY <1>4, <1>5, <2>1 DEF LastSnapshot
  <2>3. newest[1] = 0 /\ k[1] = 0
    BY <2>1
  <2>4. newest[2] = k[2]
    BY <1>5, <1>6
  <2>5. QED
    BY <2>1, <2>2, <2>3, <2>4
<1> DEFINE S == {i \in DOMAIN entries : entries[i].day <= newest[3]}
           amounts == [i \in DOMAIN entries |-> entries[i].amount]
           name == [i \in S |-> <<0, EntryId(i)>>]
<1>8. raw.snapshots[newest] = Sum(amounts, S)
  BY <1>4, <1>7, BankSums DEF LastSnapshot, Bank!BookedBy
<1>9. until = {name[i] : i \in S}
  <2>1. ASSUME NEW m \in DOMAIN raw.txns
        PROVE  \E i \in DOMAIN entries : m = <<0, EntryId(i)>>
    <3>1. m = <<m[1], m[2]>> /\ m[1] \in 0 .. 0
      BY <1>1 DEF TableInv
    <3>2. PICK i \in DOMAIN entries : m[2] = EntryId(i)
      BY <1>1 DEF StockInv
    <3>3. m[1] = 0
      BY <3>1
    <3>4. QED
      BY <3>1, <3>2, <3>3
  <2>2. \A i \in DOMAIN entries : <<0, EntryId(i)>> \in DOMAIN raw.txns
                                  /\ raw.txns[<<0, EntryId(i)>>].day = entries[i].day
    BY <1>3 DEF AllLoaded
  <2>3. ASSUME NEW m \in until PROVE m \in {name[i] : i \in S}
    <3>1. PICK i \in DOMAIN entries : m = <<0, EntryId(i)>>
      BY <2>1
    <3>2. i \in S
      BY <2>2, <3>1
    <3>3. QED
      BY <3>1, <3>2
  <2>4. \A i \in S : name[i] \in until
    BY <2>2
  <2> HIDE DEF until, name, S
  <2>5. QED
    BY <2>3, <2>4
<1>10. \A i \in S : amounts[i] \in Int /\ stored[name[i]] = amounts[i]
  BY <1>1, <1>3, EntriesAddUp DEF AllLoaded
<1>11. \A i, j \in S : name[i] = name[j] => i = j
  BY DEF EntryId
<1>12. IsFiniteSet(S)
  BY <1>1, EntriesAddUp, FS_Subset
<1> HIDE DEF S, amounts, name, until, stored
<1>13. Renames(name, S, until)
  BY <1>9, <1>11 DEF Renames
<1>14. Sum(stored, until) = Sum(amounts, S)
  BY <1>10, <1>12, <1>13, SumOfRenamed
<1>15. QED
  BY <1>8, <1>14, BankSums

LEMMA DetailsHold ==
  ASSUME BankInv
  PROVE  Bank!DetailsKeepIdentity
<1> DEFINE facts == [d \in DOMAIN raw.details |-> raw.details[d].facts.amount]
<1> SUFFICES ASSUME provider = "paypal", fresh, Bank!Identified
             PROVE  /\ Bank!Cardinality(DOMAIN raw.details) = Len(entries)
                    /\ Bank!SumFunctionOnSet(facts, DOMAIN raw.details) = Bank!BookedBy(bankDay)
  BY DEF Bank!DetailsKeepIdentity
<1>1. BookingInv /\ StockInv /\ AllDetailed
  BY DEF BankInv, FreshInv
<1> DEFINE S == DOMAIN entries
           amounts == [i \in DOMAIN entries |-> entries[i].amount]
           name == [i \in S |-> EntryId(i)]
<1>2. Bank!BookedBy(bankDay) = Sum(amounts, S)
  <2>1. {i \in DOMAIN entries : entries[i].day <= bankDay} = S
    BY <1>1, EntriesAddUp
  <2>2. QED
    BY <2>1, BankSums DEF Bank!BookedBy
<1>3. DOMAIN raw.details = {name[i] : i \in S}
  BY <1>1 DEF StockInv, AllDetailed
<1>4. \A i \in S : amounts[i] \in Int /\ facts[name[i]] = amounts[i]
  BY <1>1, EntriesAddUp DEF AllDetailed
<1>5. \A i, j \in S : name[i] = name[j] => i = j
  BY DEF EntryId
<1>6. IsFiniteSet(S) /\ Cardinality(S) = Len(entries)
  BY <1>1, EntriesAddUp
<1> HIDE DEF S, amounts, name, facts
<1>7. Renames(name, S, DOMAIN raw.details)
  BY <1>3, <1>5 DEF Renames
<1>8. Cardinality(DOMAIN raw.details) = Cardinality(S)
  BY <1>6, <1>7, SizeOfRenamed
<1>9. Sum(facts, DOMAIN raw.details) = Sum(amounts, S)
  BY <1>4, <1>6, <1>7, SumOfRenamed
<1>10. QED
  BY <1>2, <1>6, <1>8, <1>9, BankSums

LEMMA BankHolds ==
  ASSUME BankInv
  PROVE  /\ Bank!RepeatIsNoWrite /\ Bank!CorrectionsStand /\ Bank!HouseholdWasTold
         /\ Bank!LedgerMatchesBalance /\ Bank!DetailsKeepIdentity
  BY RepeatHolds, LedgerHolds, DetailsHold DEF BankInv

-----------------------------------------------------------------------------
(* The programs together. *)

\* What each program's state is while it runs.
ServiceInv ==
  /\ program = "prices" => PriceInv
  /\ program = "manual" => ManualInv
  /\ program = "staging" => RowInv
  /\ program = "backups" => BackupInv /\ RetentionInv
  /\ program = "index" => IndexInv
  /\ program = "bank" => BankInv

\* Every program begins within its invariant.
LEMMA ProgramsBegin == ServiceInit => ServiceInv
<1> SUFFICES ASSUME ServiceInit PROVE ServiceInv
  OBVIOUS
<1>1. ASSUME program = "prices" PROVE PriceInv
  BY <1>1, PriceStart DEF ServiceInit, Starts
<1>2. ASSUME program = "manual" PROVE ManualInv
  BY <1>2, ManualStart DEF ServiceInit, Starts
<1>3. ASSUME program = "staging" PROVE RowInv
  BY <1>3, RowStart DEF ServiceInit, Starts
<1>4. ASSUME program = "backups" PROVE BackupInv /\ RetentionInv
  BY <1>4, BackupStart, RetentionStart DEF ServiceInit, Starts
<1>5. ASSUME program = "index" PROVE IndexInv
  BY <1>5, IndexStart DEF ServiceInit, Starts
<1>6. ASSUME program = "bank" PROVE BankInv
  BY <1>6, BankStart, ServiceAssumption DEF ServiceInit, Starts
<1>7. QED
  BY <1>1, <1>2, <1>3, <1>4, <1>5, <1>6 DEF ServiceInv

\* A step of the programs is one of the program that runs, or none of its.
LEMMA ProgramSteps ==
  ASSUME [ServiceNext]_serviceVars
  PROVE  /\ program' = program
         /\ program = "prices" => [PriceRuns!Next]_(PriceRuns!priceVars)
         /\ program = "manual" => [Manual!Next]_(Manual!manualVars)
         /\ program = "staging" => [Rows!Next]_(Rows!rowVars)
         /\ program = "backups" => [Artefacts!Next]_(Artefacts!backupVars)
         /\ program = "index" => [Index!Next]_(Index!referenceVars)
         /\ program = "bank" => [Bank!Next]_(Bank!bankVars)
<1>1. CASE ServiceNext
  BY <1>1 DEF ServiceNext
<1>2. CASE UNCHANGED serviceVars
  BY <1>2 DEF serviceVars, PriceRuns!priceVars, Manual!manualVars, Rows!rowVars,
              Artefacts!backupVars, Index!referenceVars, Bank!bankVars
<1>3. QED
  BY <1>1, <1>2

\* Every program stays within its invariant.
LEMMA ProgramsKeep == ServiceInv /\ [ServiceNext]_serviceVars => ServiceInv'
<1> SUFFICES ASSUME ServiceInv, [ServiceNext]_serviceVars PROVE ServiceInv'
  OBVIOUS
<1>1. program' = program
  BY ProgramSteps
<1>2. ASSUME program = "prices" PROVE PriceInv'
  BY <1>2, ProgramSteps, PriceStep DEF ServiceInv
<1>3. ASSUME program = "manual" PROVE ManualInv'
  BY <1>3, ProgramSteps, ManualStep DEF ServiceInv
<1>4. ASSUME program = "staging" PROVE RowInv'
  BY <1>4, ProgramSteps, RowStep, ServiceAssumption DEF ServiceInv
<1>5. ASSUME program = "backups" PROVE BackupInv' /\ RetentionInv'
  BY <1>5, ProgramSteps, BackupStep, RetentionStep, ServiceAssumption DEF ServiceInv
<1>6. ASSUME program = "index" PROVE IndexInv'
  BY <1>6, ProgramSteps, IndexStep, ServiceAssumption DEF ServiceInv
<1>7. ASSUME program = "bank" PROVE BankInv'
  BY <1>7, ProgramSteps, BankStep, ServiceAssumption DEF ServiceInv
<1>8. QED
  BY <1>1, <1>2, <1>3, <1>4, <1>5, <1>6, <1>7 DEF ServiceInv

\* The inductive invariant holds throughout, whichever program runs.
THEOREM ServiceInvariance == ServiceSpec => []ServiceInv
  BY ProgramsBegin, ProgramsKeep, PTL DEF ServiceSpec

\* However price runs overlap, fail and are killed, every stored row is one run's own, and
\* of two runs in turn the newer close stands (ingest/prices/db.py, upsert).
THEOREM PricesStayWhole ==
  ServiceSpec => [](program = "prices" => PriceRuns!RowsAreWhole /\ PriceRuns!NewestFetchStands)
<1>1. ServiceInv => (program = "prices" => PriceRuns!RowsAreWhole /\ PriceRuns!NewestFetchStands)
  BY PricesWhole DEF ServiceInv
<1>2. QED
  BY <1>1, ServiceInvariance, PTL

\* Entries of one person never reach an account of another, whichever writers overlap
\* (manual/service.py).
THEOREM AccountsStayPersonal ==
  ServiceSpec => [](program = "manual" => Manual!AccountsArePersonal)
<1>1. ServiceInv => (program = "manual" => Manual!AccountsArePersonal)
  BY ManualPersonal DEF ServiceInv
<1>2. QED
  BY <1>1, ServiceInvariance, PTL

\* What a row in review is flagged as is so, but for what was loaded since, and nothing
\* invalid is loaded (api/imports/staging.py).
THEOREM FlagsStayTrue ==
  ServiceSpec => [](program = "staging" => Rows!FlagsAreTrue /\ Rows!OnlyValidRowsLoaded)
<1>1. ServiceInv => (program = "staging" => Rows!FlagsAreTrue /\ Rows!OnlyValidRowsLoaded)
  BY RowsTrue DEF ServiceInv
<1>2. QED
  BY <1>1, ServiceInvariance, PTL

\* A truncated backup is never replayed, and without a power cut none outlives the script
\* that wrote it (scripts/restore.sh, backup.sh, snapshot.sh).
THEOREM BackupsStayWhole ==
  ServiceSpec => [](program = "backups" => Artefacts!RestoreIsWhole /\ Artefacts!NothingTornStays)
<1>1. ServiceInv => (program = "backups" => Artefacts!RestoreIsWhole /\ Artefacts!NothingTornStays)
  BY BackupsWhole DEF ServiceInv
<1>2. QED
  BY <1>1, ServiceInvariance, PTL

\* Of the quota newest days, weeks and months that ever had an artefact, the newest one
\* listed survives every prune, and pruning again removes nothing more
\* (scripts/prune.sh), for any calendar and quotas.
THEOREM RetentionStaysCovered ==
  ServiceSpec => [](program = "backups" => Artefacts!RetentionCovers /\ Artefacts!PruneIsStable)
<1>1. ServiceInv => (program = "backups" => Artefacts!RetentionCovers /\ Artefacts!PruneIsStable)
  BY RetentionHolds, ServiceAssumption DEF ServiceInv
<1>2. QED
  BY <1>1, ServiceInvariance, PTL

\* However the bank books, restates and renames, whatever a person corrects, and whichever
\* loads fail: a repeated load writes nothing and undoes no correction, the household hears
\* of every movement as new once, a whole load leaves movements that add up to the balance,
\* and payment details are kept once under every consent (ingest/enablebanking,
\* ingest/paypal, api/account_metadata.py).
THEOREM SyncsStayTrue ==
  ServiceSpec => [](program = "bank" => /\ Bank!RepeatIsNoWrite /\ Bank!CorrectionsStand
                                        /\ Bank!HouseholdWasTold /\ Bank!LedgerMatchesBalance
                                        /\ Bank!DetailsKeepIdentity)
<1>1. ServiceInv => (program = "bank" => /\ Bank!RepeatIsNoWrite /\ Bank!CorrectionsStand
                                         /\ Bank!HouseholdWasTold /\ Bank!LedgerMatchesBalance
                                         /\ Bank!DetailsKeepIdentity)
  BY BankHolds DEF ServiceInv
<1>2. QED
  BY <1>1, ServiceInvariance, PTL

\* All of these together: the run's invariant.
THEOREM StoredStaysWhole == ServiceSpec => []StoredIsWhole
<1>1. /\ program = "prices" => PriceRuns!RowsAreWhole /\ PriceRuns!NewestFetchStands
      /\ program = "manual" => Manual!AccountsArePersonal
      /\ program = "staging" => Rows!FlagsAreTrue /\ Rows!OnlyValidRowsLoaded
      /\ program = "backups" => Artefacts!RestoreIsWhole /\ Artefacts!NothingTornStays
      /\ program = "backups" => Artefacts!RetentionCovers /\ Artefacts!PruneIsStable
      /\ program = "bank" => /\ Bank!RepeatIsNoWrite /\ Bank!CorrectionsStand
                             /\ Bank!HouseholdWasTold /\ Bank!LedgerMatchesBalance
                             /\ Bank!DetailsKeepIdentity
      => StoredIsWhole
  BY DEF StoredIsWhole
<1>2. QED
  BY <1>1, PricesStayWhole, AccountsStayPersonal, FlagsStayTrue, BackupsStayWhole,
     RetentionStaysCovered, SyncsStayTrue, PTL

\* There is one active generation, and its records are those of its version
\* (api/merchant_reference, promote).
THEOREM OneActive == ServiceSpec => [](program = "index" => Index!ActiveIsWhole)
<1>1. ServiceInv => (program = "index" => Index!ActiveIsWhole)
  BY IndexWhole DEF ServiceInv
<1>2. QED
  BY <1>1, ServiceInvariance, PTL

\* A refresh that failed, crashed or is too old never hides the catalog
\* (api/merchant_reference, effective_status).
THEOREM FailureHidesNothing ==
  ServiceSpec => [](program = "index" => Index!FailureKeepsCatalog)
<1>1. ServiceInv => (program = "index" => Index!FailureKeepsCatalog)
  BY DEF ServiceInv, IndexInv, IndexCore, IndexShape, Honest, Statuses, Index!FailureKeepsCatalog,
         Index!EffectiveStatus, Index!None
<1>2. QED
  BY <1>1, ServiceInvariance, PTL

\* A search answers from one whole catalog, and a match it calls unique is the only one
\* of its quality: the run's invariant, for any catalogs, queries and limits.
THEOREM SearchIsConsistent == ServiceSpec => []SearchReadsOneCatalog
<1>1. ServiceInv => (program = "index" => Index!SearchReadsOneCatalog /\ Index!UniqueIsUnique)
  BY DEF ServiceInv, IndexInv
<1>2. /\ program = "index" => Index!SearchReadsOneCatalog /\ Index!UniqueIsUnique
      /\ program = "index" => Index!ActiveIsWhole
      /\ program = "index" => Index!FailureKeepsCatalog
      => SearchReadsOneCatalog
  BY DEF SearchReadsOneCatalog
<1>3. QED
  BY <1>1, <1>2, ServiceInvariance, OneActive, FailureHidesNothing, PTL
=============================================================================
