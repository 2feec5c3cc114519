------------------------------ MODULE BankLoads ------------------------------
(* What the syncs of one account store (ingest/enablebanking with the       *)
(* wrappers of the banks, ingest/paypal), each under the refresh lock:      *)
(* movements and balances of a bank account, payment details of PayPal.     *)
(* Between two syncs the bank books, restates and renames, a new consent    *)
(* changes the account's uid, and a person corrects its owner or kind       *)
(* (api/account_metadata.py).  Which movements the household rules are told *)
(* of is here, what they make of it in HouseholdRules.                      *)
EXTENDS Integers, Sequences, FiniteSetsExt, Functions

CONSTANTS Owners,          \* persons a sync may name as the account's owner
          Known,           \* persons on file before the first sync
          Profiles,        \* what the bank may call the account: [name, currency]
          Amounts,         \* amounts the bank books
          Restated,        \* amounts it restates an entry to
          Identities,      \* how an entry is identified: own, shared, volatile or none
          LastDay,         \* bound on the days
          MaxEntries,      \* bound on the account's entries
          MaxChanges,      \* bound on restatements, renamings, consents and corrections
          MaxRequests      \* bound on the syncs

VARIABLES provider,  \* bank, whose loads store movements, or paypal, whose loads store details
          day,
          booked,    \* the bank: sequence of [identity, day, amount]
          dating,    \* its balances are dated, dateless or missing
          uid,       \* the account's uid under the consent of today
          profile,   \* what the bank calls the account
          db,        \* the raw tables: [people, accounts, txns, snapshots, details]
          sync,      \* the load under way, or Idle
          last,      \* history: the load stored last
          told,      \* history: movement -> [facts, inserted], as the household heard it
          fresh,     \* history: all of the account is loaded as the bank has it
          changes, requests

bankVars ==
  <<provider, day, booked, dating, uid, profile, db, sync, last, told, fresh, changes, requests>>

None == "none"
Idle == [step |-> "idle"]

\* Amounts are whole numbers of the smallest unit; a person has a name.
BankConstants ==
  /\ Amounts \subseteq Int /\ Restated \subseteq Int
  /\ None \notin Known \cup Owners

Init ==
  /\ day = 1
  /\ booked = <<>>
  /\ \/ provider = "bank" /\ dating \in {"dated", "dateless", "missing"}
     \/ provider = "paypal" /\ dating = "missing"
  /\ uid = 0
  /\ profile = CHOOSE p \in Profiles : TRUE
  /\ db = [people |-> Known, accounts |-> <<>>, txns |-> <<>>, snapshots |-> <<>>, details |-> <<>>]
  /\ sync = Idle
  /\ last = Idle
  /\ told = <<>>
  /\ fresh = FALSE
  /\ changes = 0
  /\ requests = 0
-----------------------------------------------------------------------------
(* The bank and the person.                                                 *)

\* The bank changes the account; a load that is under way may miss that.
Moved ==
  /\ fresh' = FALSE
  /\ sync' = IF sync = Idle THEN Idle ELSE [sync EXCEPT !.whole = FALSE]

Book(identity, amount) ==
  /\ Len(booked) < MaxEntries
  /\ identity = "shared" => booked # <<>>
  /\ booked' = Append(booked, [identity |-> identity, day |-> day, amount |-> amount])
  /\ Moved
  /\ UNCHANGED <<provider, day, dating, uid, profile, db, last, told, changes, requests>>

\* The bank restates the amount of an entry it has booked.
Restate(i, amount) ==
  /\ changes < MaxChanges
  /\ booked[i].amount # amount
  /\ booked' = [booked EXCEPT ![i].amount = amount]
  /\ Moved
  /\ changes' = changes + 1
  /\ UNCHANGED <<provider, day, dating, uid, profile, db, last, told, requests>>

Rename(p) ==
  /\ changes < MaxChanges
  /\ profile # p
  /\ profile' = p
  /\ Moved
  /\ changes' = changes + 1
  /\ UNCHANGED <<provider, day, booked, dating, uid, db, last, told, requests>>

\* The consent has run out and a new one is given: its session names another uid.
Reconsent ==
  /\ changes < MaxChanges
  /\ uid' = uid + 1
  /\ Moved
  /\ changes' = changes + 1
  /\ UNCHANGED <<provider, day, booked, dating, profile, db, last, told, requests>>

Midnight ==
  /\ day < LastDay
  /\ day' = day + 1
  /\ UNCHANGED <<provider, booked, dating, uid, profile, db, sync, last, told, fresh, changes,
                 requests>>

\* correct_account_metadata, which holds the refresh lock as a load does.
Correct(u, field, value) ==
  /\ changes < MaxChanges /\ sync = Idle
  /\ db' = [db EXCEPT !.accounts[u] =
              IF field = "owner" THEN [@ EXCEPT !.owner = value, !.ownerOverride = value]
              ELSE [@ EXCEPT !.kind = value, !.kindOverride = value]]
  /\ changes' = changes + 1
  /\ UNCHANGED <<provider, day, booked, dating, uid, profile, sync, last, told, fresh, requests>>
-----------------------------------------------------------------------------
(* The load: two requests to the bank, then one transaction.                *)

\* external_id: entry_reference, which two entries may share, or else the
\* transaction_id, which may be another one at every request.
ExternalId(i, request) ==
  CASE booked[i].identity = "own" -> <<"entry", i>>
    [] booked[i].identity = "shared" -> <<"entry", i - 1>>
    [] booked[i].identity = "volatile" -> <<"transaction", i, request>>
    [] booked[i].identity = "none" -> <<>>

\* The transaction_id, a source fact of a payment detail.
SourceFact(i, request) == IF booked[i].identity \in {"shared", "volatile"} THEN request ELSE 0

\* get_account_transactions: the booked entries of the window, all pages of it.
Listed(from, request) ==
  [i \in {j \in DOMAIN booked : booked[j].day >= from} |->
     [id |-> ExternalId(i, request), day |-> booked[i].day, amount |-> booked[i].amount,
      source |-> SourceFact(i, request)]]

FetchTransactions(owner, from) ==
  /\ sync = Idle /\ requests < MaxRequests
  /\ requests' = requests + 1
  /\ sync' = [step |-> "fetched", uid |-> uid, owner |-> owner, profile |-> profile,
              rows |-> Listed(from, requests'), whole |-> from = 1]
  /\ UNCHANGED <<provider, day, booked, dating, uid, profile, db, last, told, fresh, changes>>

BookedBy(d) == SumFunctionOnSet([i \in DOMAIN booked |-> booked[i].amount],
                                {i \in DOMAIN booked : booked[i].day <= d})

Dateless == -1
NoBalance == [day |-> -2, amount |-> 0]

\* get_account_balances and the pick of balance_to_market_value: a closing balance of
\* the day before, the current one without a date, or none of a usable type.
Balance ==
  CASE dating = "dated" -> [day |-> day - 1, amount |-> BookedBy(day - 1)]
    [] dating = "dateless" -> [day |-> Dateless, amount |-> BookedBy(day)]
    [] dating = "missing" -> NoBalance

FetchBalances ==
  /\ provider = "bank" /\ sync.step = "fetched"
  /\ sync' = [step |-> "balanced", uid |-> sync.uid, owner |-> sync.owner,
              profile |-> sync.profile, rows |-> sync.rows, whole |-> sync.whole,
              balance |-> Balance]
  /\ UNCHANGED <<provider, day, booked, dating, uid, profile, db, last, told, fresh, changes,
                 requests>>

\* The bank refuses, or the process is killed: nothing has been stored.
Fail ==
  /\ sync # Idle
  /\ sync' = Idle
  /\ UNCHANGED <<provider, day, booked, dating, uid, profile, db, last, told, fresh, changes,
                 requests>>

Upserted(f, rows) ==
  [k \in DOMAIN f \cup DOMAIN rows |-> IF k \in DOMAIN rows THEN rows[k] ELSE f[k]]

\* The upserts' WHERE: rows that differ from what is stored; the others are no write.
Differing(f, rows) == {k \in DOMAIN rows : k \notin DOMAIN f \/ f[k] # rows[k]}

NewAccount(r) ==
  [owner |-> r.owner, ownerOverride |-> None, kind |-> "checking", kindOverride |-> None,
   profile |-> r.profile]

\* _get_or_create_account: owner and name follow the sync, a corrected owner stays; the
\* alternative takes the sync's owner whatever was corrected.
AccountRowOfSync(r, accounts) ==
  [u \in {r.uid} |->
     IF u \notin DOMAIN accounts THEN NewAccount(r)
     ELSE [accounts[u] EXCEPT !.owner = r.owner, !.profile = r.profile]]

AccountRow(r, accounts) ==
  [u \in {r.uid} |->
     IF u \notin DOMAIN accounts THEN NewAccount(r)
     ELSE [accounts[u] EXCEPT !.owner = IF accounts[u].ownerOverride = None THEN r.owner
                                        ELSE accounts[u].ownerOverride,
                              !.profile = r.profile]]

\* _upsert_transactions: entries without an id are skipped; of two with one id the last.
Ids(r) == {r.rows[i].id : i \in DOMAIN r.rows} \ {<<>>}

RowOf(r, id) == r.rows[Max({i \in DOMAIN r.rows : r.rows[i].id = id})]

TransactionRows(r) ==
  [k \in {<<r.uid, id>> : id \in Ids(r)} |->
     [day |-> RowOf(r, k[2]).day, amount |-> RowOf(r, k[2]).amount,
      currency |-> r.profile.currency]]

\* _upsert_balance_snapshot, on the cash instrument of the account's currency; a
\* balance without a date is today's.
BalanceDay(r, today) == IF r.balance.day = Dateless THEN today ELSE r.balance.day

SnapshotRows(r, today) ==
  IF r.balance = NoBalance THEN <<>>
  ELSE [k \in {<<r.uid, r.profile.currency, BalanceDay(r, today)>>} |-> r.balance.amount]

\* _persist: what a load makes of the tables.
Persisted(r, today, tables) ==
  [tables EXCEPT !.people = @ \cup {r.owner},
                 !.accounts = Upserted(@, AccountRow(r, @)),
                 !.txns = Upserted(@, TransactionRows(r)),
                 !.snapshots = Upserted(@, SnapshotRows(r, today))]

\* LoadResult.writes, without the household's own.
Writes(r, today, tables) ==
  Cardinality(Differing(tables.txns, TransactionRows(r)))
  + Cardinality(Differing(tables.snapshots, SnapshotRows(r, today)))
  + Cardinality({r.owner} \ tables.people)
  + Cardinality(Differing(tables.accounts, AccountRow(r, tables.accounts)))

\* What a movement's classification depends on: the row and its account's currency.
SourceFacts(k, tables) ==
  [row |-> tables.txns[k], currency |-> tables.accounts[k[1]].profile.currency]

\* on_bank_sync and invalidate_account_sources: the household hears of the inserted and
\* the changed movements, and of all of an account whose row changed.
Announced(r, tables, now) ==
  LET differing == Differing(tables.txns, TransactionRows(r))
      reviewed == IF Differing(tables.accounts, AccountRow(r, tables.accounts)) = {} THEN {}
                  ELSE {k \in DOMAIN now.txns : k[1] = r.uid}
      inserted(k) == IF k \in differing \ DOMAIN tables.txns THEN 1 ELSE 0
  IN  [k \in DOMAIN told \cup differing \cup reviewed |->
         [facts |-> IF k \in differing \cup reviewed THEN SourceFacts(k, now) ELSE told[k].facts,
          inserted |-> inserted(k) + IF k \in DOMAIN told THEN told[k].inserted ELSE 0]]

Stored(step) ==
  /\ last' = [step |-> step, load |-> sync, day |-> day]
  /\ fresh' = sync.whole
  /\ sync' = Idle

Persist ==
  /\ sync.step = "balanced"
  /\ db' = Persisted(sync, day, db)
  /\ told' = Announced(sync, db, db')
  /\ Stored("stored")
  /\ UNCHANGED <<provider, day, booked, dating, uid, profile, changes, requests>>
-----------------------------------------------------------------------------
(* PayPal: no balances; an entry without a reference refuses the whole load. *)

DetailRefused(r) == \E i \in DOMAIN r.rows : r.rows[i].id = <<>> \/ r.rows[i].id[1] # "entry"

\* payment_detail_from_transaction and upsert_payment_detail: a detail belongs to the
\* account's identification hash, not to its uid; a change is a new revision.
DetailRows(r, details) ==
  LET new == [id \in Ids(r) |-> RowOf(r, id)]
  IN  [id \in DOMAIN new |->
         IF id \notin DOMAIN details THEN [facts |-> new[id], revision |-> 1]
         ELSE IF details[id].facts = new[id] THEN details[id]
         ELSE [facts |-> new[id], revision |-> details[id].revision + 1]]

LoadDetails ==
  /\ provider = "paypal" /\ sync.step = "fetched"
  /\ IF DetailRefused(sync) THEN sync' = Idle /\ UNCHANGED <<db, last, fresh>>
     ELSE /\ db' = [db EXCEPT !.details = Upserted(@, DetailRows(sync, @))]
          /\ Stored("detailed")
  /\ UNCHANGED <<provider, day, booked, dating, uid, profile, told, changes, requests>>

Next ==
  \/ \E identity \in Identities, amount \in Amounts : Book(identity, amount)
  \/ \E i \in DOMAIN booked, amount \in Restated : Restate(i, amount)
  \/ \E p \in Profiles : Rename(p)
  \/ \E owner \in Owners, from \in {1, day} : FetchTransactions(owner, from)
  \/ \E u \in DOMAIN db.accounts :
       \/ \E p \in db.people : Correct(u, "owner", p)
       \/ \E k \in {"checking", "savings"} : Correct(u, "kind", k)
  \/ Reconsent \/ Midnight \/ FetchBalances \/ Fail \/ Persist \/ LoadDetails

Spec == Init /\ [][Next]_bankVars
-----------------------------------------------------------------------------
(* Properties                                                               *)

\* The same load again is no write, also after a person has corrected the account
\* meanwhile: repeated syncs trigger no refresh and undo no correction (_persist's
\* "idempotent", _existing_revision's "no false refresh").
RepeatIsNoWrite ==
  CASE last.step = "stored" -> /\ Persisted(last.load, last.day, db) = db
                               /\ Writes(last.load, last.day, db) = 0
    [] last.step = "detailed" ->
         Upserted(db.details, DetailRows(last.load, db.details)) = db.details
    [] last.step = "idle" -> TRUE

\* What a person corrected stays, whatever a later sync calls the account.
CorrectionsStand ==
  \A u \in DOMAIN db.accounts : LET row == db.accounts[u] IN
    /\ row.ownerOverride # None => row.owner = row.ownerOverride
    /\ row.kindOverride # None => row.kind = row.kindOverride

\* The household rules were told of every movement as new exactly once, and of its
\* facts as they are stored now (_upsert_transactions, on_bank_sync).
HouseholdWasTold ==
  /\ DOMAIN told = DOMAIN db.txns
  /\ \A k \in DOMAIN told : told[k].inserted = 1 /\ told[k].facts = SourceFacts(k, db)

Identified == \A i \in DOMAIN booked : booked[i].identity = "own"

\* Once a bank account is loaded whole and the bank has been quiet since, the movements
\* stored of it add up to the balance stored last, whatever was loaded in whichever
\* windows before - unless a new consent changed its uid, its currency changed, or
\* entries came without their own reference.
LedgerMatchesBalance ==
  LET currencies == {db.txns[k].currency : k \in DOMAIN db.txns}
                    \cup {k[2] : k \in DOMAIN db.snapshots}
  IN  (fresh /\ db.snapshots # <<>> /\ uid = 0 /\ Identified /\ currencies = {profile.currency}) =>
        LET newest == CHOOSE k \in DOMAIN db.snapshots : \A o \in DOMAIN db.snapshots : o[3] <= k[3]
            until == {k \in DOMAIN db.txns : db.txns[k].day <= newest[3]}
        IN  db.snapshots[newest] =
              SumFunctionOnSet([k \in DOMAIN db.txns |-> db.txns[k].amount], until)

\* A payment detail is kept once under every consent: after a whole load the details
\* are the bank's entries (paypal.md: re-consent rotates the uid).
DetailsKeepIdentity ==
  (provider = "paypal" /\ fresh /\ Identified) =>
    /\ Cardinality(DOMAIN db.details) = Len(booked)
    /\ SumFunctionOnSet([d \in DOMAIN db.details |-> db.details[d].facts.amount],
                        DOMAIN db.details) = BookedBy(day)
=============================================================================
