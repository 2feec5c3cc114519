---------------------------- MODULE HouseholdRules ----------------------------
(***************************************************************************)
(* Household classifications and the rules learned from them.              *)
(*                                                                         *)
(* Every write takes one advisory lock for its whole transaction, so a     *)
(* write is one action here.  What races is what was read before it: an    *)
(* editor opens a transaction and saves later against the revision it saw; *)
(* a preview is computed now and applied later; a bank sync changes the    *)
(* movement under both.  Every write is audited, and rules are learned     *)
(* from the audit, not from the current rows.                              *)
(*                                                                         *)
(* Abstracted: amounts are whole cents; the facts of a movement are its    *)
(* amount and its label (currency, time and kind behave like the label);   *)
(* the audit keeps what learning and undo read of it; a category's         *)
(* financial type fixes the treatment; one page of a preview covers all    *)
(* movements; links to other movements are left out, links to payment      *)
(* details are kept.  A form for a category, merchant or alias is saved as *)
(* it was read: a stale one is refused and changes nothing.                *)
(***************************************************************************)
EXTENDS Integers, FiniteSets, FiniteSetsExt

CONSTANTS
    Txns,       \* bank movements
    Fresh,      \* those the bank may not have sent yet
    Labels,     \* counterparty labels, one provider
    Merchants,
    Cats,       \* categories
    IncomeCats, \* those of kind income
    Amounts,    \* signed amounts the bank may send
    Opening,    \* the one it sends first
    Editors,    \* open forms
    None,
    MaxWrites   \* bound: committed writes

ASSUME HouseholdConstants ==
    /\ Fresh \subseteq Txns /\ IncomeCats \subseteq Cats
    /\ Amounts \subseteq Int \ {0} /\ Opening \in Amounts /\ MaxWrites \in Nat
    /\ IsFiniteSet(Cats)
    /\ None \notin Txns \cup Labels \cup Merchants \cup Cats

VARIABLES
    source,   \* raw.transaction: facts of each movement, None if not sent
    archived, \* categories archived
    merchant, \* merchant rows: confirmed, archived
    alias,    \* alias row of each label
    detail,   \* revision of the payment detail
    record,   \* classification row of each movement
    rule,     \* latest rule version of each merchant
    evidence, \* what the audit says of each merchant: see NoEvidence
    prior,    \* decisions the audit can restore, per movement
    preview,  \* the stored preview
    draft,    \* what each editor has open: movement and the row it saw
    writes    \* committed writes so far

book == <<record, rule, evidence, prior>>
vars == <<source, archived, merchant, alias, detail, book, preview, draft, writes>>

Facts == [amount : Amounts, label : Labels]
Treatments == {"expense", "income", "transfer", "unclassified"}
RuleStates == {"none", "insufficient", "active", "conflict", "disabled"}

(***************************************************************************)
(* What a form submits: the treatment, the merchant and whether the        *)
(* identity is confirmed, the split, and the revision of a linked detail   *)
(* (0 for no link).                                                        *)
(***************************************************************************)
NoSplit == [c \in Cats |-> 0]
Blank == [treatment |-> "unclassified", merchant |-> None, identity |-> FALSE,
          split |-> NoSplit, detail |-> 0]

Say == [treatment : Treatments, merchant : Merchants \cup {None}, identity : BOOLEAN,
        split : [Cats -> Int], detail : Nat]

\* household_classification: what was said, who said it, of which movement.
Rows == [say : Say, by : {"manual", "rule"}, version : Nat, revision : Nat \ {0},
         review : {"classified", "unclassified", "needs_review"}, source : Facts]

ASSUME NoRowAssumption == None \notin Rows

Used(split) == {c \in Cats : split[c] # 0}
Total(split) == FoldFunction(LAMBDA x, y : x + y, 0, split)

NoEvidence == [count |-> 0, choices |-> {}, mixed |-> FALSE]
NoRule == [version |-> 0, state |-> "none", choice |-> None, count |-> 0, why |-> "none"]

Reasons == {"none", "learned", "undone", "alias corrected", "source changed",
            "disabled by household", "re-evaluation"}
Rules == [version : Nat, state : RuleStates, choice : Cats \cup {None}, count : Nat,
          why : Reasons]
Evidences == [count : Nat, choices : SUBSET Cats, mixed : BOOLEAN]
Books == [record : [Txns -> Rows \cup {None}], rule : [Merchants -> Rules],
          evidence : [Merchants -> Evidences], prior : [Txns -> SUBSET Say]]

Manual(t) == record[t] # None /\ record[t].by = "manual"

\* classification_out: drift of the movement or of a linked detail shows as review.
SourceChanged(t) == record[t].source # source[t]
DetailChanged(t) == record[t].say.detail \notin {0, detail}
Settled(t) ==
    /\ record[t] # None /\ record[t].review = "classified"
    /\ ~SourceChanged(t) /\ ~DetailChanged(t)

Revision(r) == IF r = None THEN 0 ELSE r.revision
CheckRevisionExists(t, seen) == (record[t] = None) = (seen = None)
CheckRevision(t, seen) == Revision(record[t]) = Revision(seen)

-----------------------------------------------------------------------------
(* Rules: functions of the book, a record of the four variables of that name. *)

Book == [record |-> record, rule |-> rule, evidence |-> evidence, prior |-> prior]

Commit(b) ==
    /\ writes' = writes + 1
    /\ record' = b.record /\ rule' = b.rule
    /\ evidence' = b.evidence /\ prior' = b.prior

UnsettleMisspelt(r) == [r EXCEPT !.review = "review", !.revision = @ + 1]
Unsettle(r) == [r EXCEPT !.review = "needs_review", !.revision = @ + 1]

\* Sends work to review only when the household disables the rule.
NewRuleQuiet(b, m, r) ==
    LET undone == {t \in Txns : /\ r.state = "disabled"
                                /\ b.record[t] # None
                                /\ b.record[t].say.merchant = m
                                /\ b.record[t].by = "rule"}
    IN [b EXCEPT
          !.rule[m] = [r EXCEPT !.version = b.rule[m].version + 1],
          !.record = [t \in Txns |-> IF t \in undone THEN Unsettle(@[t]) ELSE @[t]]]

\* A version that is not active sends the rule's own work to review.
NewRule(b, m, r) ==
    LET undone == {t \in Txns : /\ r.state # "active"
                                /\ b.record[t] # None
                                /\ b.record[t].say.merchant = m
                                /\ b.record[t].by = "rule"
                                /\ b.record[t].review # "needs_review"}
    IN [b EXCEPT
          !.rule[m] = [r EXCEPT !.version = b.rule[m].version + 1],
          !.record = [t \in Txns |-> IF t \in undone THEN Unsettle(@[t]) ELSE @[t]],
          !.prior = [t \in Txns |-> IF t \in undone THEN @[t] \cup {b.record[t].say}
                                                    ELSE @[t]]]

\* people: the merchant rows as the write leaves them.
Judge(b, people, m) ==
    LET past == b.evidence[m]
        old == b.rule[m]
        is(state, choice, why) == [version |-> old.version, state |-> state,
              choice |-> choice, count |-> past.count, why |-> why]
    IN IF old.state = "disabled" THEN is("disabled", None, old.why)
       ELSE IF past.mixed \/ Cardinality(past.choices) > 1
            THEN is("conflict", None, "learned")
       ELSE IF people[m].confirmed /\ ~people[m].archived /\ past.choices # {}
            THEN is("active", CHOOSE c \in past.choices : TRUE, "learned")
       ELSE is("insufficient", None, "learned")

Learn(b, people, m) ==
    IF Judge(b, people, m) = b.rule[m] THEN b
    ELSE NewRule(b, m, Judge(b, people, m))

DisableRule(b, m, why) ==
    NewRule(b, m, [NoRule EXCEPT !.state = "disabled", !.count = b.rule[m].count,
                                 !.why = why])

-----------------------------------------------------------------------------
(* save_classification *)

ValidSplitUnsummed(t, say, kept) ==
    say.treatment \in {"expense", "income"} =>
        \A c \in Used(say.split) : (say.split[c] > 0) = (source[t].amount > 0)

\* kept: the categories of the row being replaced.
ValidSplit(t, say, kept) ==
    IF say.treatment \in {"expense", "income"}
    THEN /\ Total(say.split) = source[t].amount
         /\ \A c \in Used(say.split) :
               /\ (say.split[c] > 0) = (source[t].amount > 0)
               /\ (c \in IncomeCats) = (say.treatment = "income")
               /\ c \notin archived \/ c \in kept
         /\ (say.treatment = "expense") = (source[t].amount < 0)
    ELSE say.split = NoSplit

Valid(t, say) ==
    /\ ValidSplit(t, say, IF record[t] = None THEN {} ELSE Used(record[t].say.split))
    /\ say.identity => say.merchant # None
    /\ say.merchant # None => ~merchant[say.merchant].archived
    /\ say.detail \in {0, detail}

\* The audit entry as evidence: a confirmed human decision about a merchant.
Witness(b, r) ==
    IF r.by # "manual" \/ ~r.say.identity \/ r.say.merchant = None THEN b
    ELSE LET plain == /\ Cardinality(Used(r.say.split)) = 1
                      /\ r.say.treatment \in {"expense", "income"}
         IN [b EXCEPT !.evidence[r.say.merchant] =
               [count |-> @.count + 1,
                choices |-> IF plain THEN @.choices \cup Used(r.say.split) ELSE @.choices,
                mixed |-> @.mixed \/ ~plain]]

\* The row as written; version is that of the rule that writes, 0 for a person.
Row(t, src, say, version) ==
    [say |-> say, by |-> IF version = 0 THEN "manual" ELSE "rule", version |-> version,
     revision |-> Revision(record[t]) + 1,
     review |-> IF say.treatment = "unclassified" THEN "unclassified" ELSE "classified",
     source |-> src[t]]

\* What the audit keeps of the row before it.
Said(t) == IF record[t] = None THEN Blank ELSE record[t].say

\* say: the form of each movement in todo, written under the rule's version.
PutByRule(todo, src, say, version) ==
    [Book EXCEPT
       !.record = [t \in Txns |-> IF t \in todo THEN Row(t, src, say[t], version) ELSE @[t]],
       !.prior = [t \in Txns |-> IF t \in todo THEN @[t] \cup {Said(t)} ELSE @[t]]]

\* A manual save teaches both the merchant it leaves and the one it names.
PutManual(t, say) ==
    LET row == Row(t, source, say, 0)
        left == Said(t).merchant
        once == Witness([Book EXCEPT !.record[t] = row, !.prior[t] = @ \cup {Said(t)}], row)
        twice == IF left = None THEN once ELSE Learn(once, merchant, left)
    IN IF say.merchant \in {None, left} THEN twice
       ELSE Learn(twice, merchant, say.merchant)

Open(e, t) ==
    /\ draft[e] = None /\ source[t] # None
    /\ draft' = [draft EXCEPT ![e] = [txn |-> t, seen |-> record[t]]]
    /\ UNCHANGED <<source, archived, merchant, alias, detail, book, preview, writes>>

\* What the editors submit: one category or a split over two, with or without
\* a merchant, with its identity confirmed or not; a linked detail; a transfer.
Kind(t) == IF source[t].amount < 0 THEN "expense" ELSE "income"
Sign(t) == IF source[t].amount < 0 THEN -1 ELSE 1
Plain(t) == {[Blank EXCEPT !.treatment = Kind(t), !.split[c] = source[t].amount] : c \in Cats}
Over(t, c, d) == [Blank EXCEPT !.treatment = Kind(t), !.split[c] = source[t].amount - Sign(t),
                               !.split[d] = Sign(t)]
Mixed(t) == {Over(t, c, d) : c, d \in Cats}

Naming(say, m, sure) == [say EXCEPT !.merchant = m, !.identity = sure]
Confirming(say, m) == Naming(say, m, TRUE)

Forms(t) ==
    Plain(t) \cup {[Blank EXCEPT !.treatment = "transfer"]}
    \cup {[say EXCEPT !.detail = detail] : say \in Plain(t)}
    \cup {Naming(say, m, sure) : say \in Plain(t), m \in Merchants, sure \in BOOLEAN}
    \cup {Confirming(say, m) : say \in Mixed(t), m \in Merchants}

SaveClassification(e, say) ==
    LET t == draft[e].txn
    IN /\ draft[e] # None
       /\ CheckRevision(t, draft[e].seen)
       /\ Valid(t, say)
       /\ Commit(PutManual(t, say))
       /\ draft' = [draft EXCEPT ![e] = None]
       /\ UNCHANGED <<source, archived, merchant, alias, detail, preview>>

\* Restores an audited decision as a manual one, then disables the rule of
\* the merchant the row had.
UndoClassification(e, say) ==
    LET t == draft[e].txn
        left == record[t].say.merchant
        b == PutManual(t, say)
    IN /\ draft[e] # None
       /\ record[t] # None /\ CheckRevision(t, draft[e].seen)
       /\ say \in prior[t] /\ Valid(t, say)
       /\ Commit(IF left = None THEN b ELSE DisableRule(b, left, "undone"))
       /\ draft' = [draft EXCEPT ![e] = None]
       /\ UNCHANGED <<source, archived, merchant, alias, detail, preview>>

-----------------------------------------------------------------------------
(* The household's own tables *)

\* Of a category only the archived flag matters here.
SaveCategory(c) ==
    /\ archived' = IF c \in archived THEN archived \ {c} ELSE archived \cup {c}
    /\ Commit(Book)
    /\ UNCHANGED <<source, merchant, alias, detail, preview, draft>>

SaveMerchantUntaught(m, row) ==
    /\ row # merchant[m]
    /\ merchant' = [merchant EXCEPT ![m] = row]
    /\ Commit(Book)
    /\ UNCHANGED <<source, archived, alias, detail, preview, draft>>

SaveMerchant(m, row) ==
    /\ row # merchant[m]
    /\ merchant' = [merchant EXCEPT ![m] = row]
    /\ Commit(Learn(Book, merchant', m))
    /\ UNCHANGED <<source, archived, alias, detail, preview, draft>>

SaveAlias(l, m, confirmed) ==
    /\ alias' = [alias EXCEPT ![l] = [merchant |-> m, confirmed |-> confirmed,
                                      revision |-> @.revision + 1]]
    /\ Commit(IF alias[l].merchant \in {None, m} THEN Book
              ELSE DisableRule(Book, alias[l].merchant, "alias corrected"))
    /\ UNCHANGED <<source, archived, merchant, detail, preview, draft>>

\* Disables the current rule, or puts it through learning again.
ControlRule(m, disabled) ==
    /\ rule[m].version # 0
    /\ Commit(IF disabled THEN DisableRule(Book, m, "disabled by household")
              ELSE Learn(NewRule(Book, m, [NoRule EXCEPT !.state = "insufficient",
                                             !.count = rule[m].count,
                                             !.why = "re-evaluation"]),
                         merchant, m))
    /\ UNCHANGED <<source, archived, merchant, alias, detail, preview, draft>>

UpsertPaymentDetail ==
    /\ detail' = detail + 1
    /\ Commit(Book)
    /\ UNCHANGED <<source, archived, merchant, alias, preview, draft>>

-----------------------------------------------------------------------------
(* Previews *)

\* src: the movements as the write sees them.
Matches(src, m, t) ==
    /\ src[t] # None
    /\ record[t] # None => /\ record[t].by # "manual"
                           /\ record[t].say.merchant = m => record[t].version # rule[m].version
                           /\ record[t].say.detail = 0
    /\ (rule[m].choice \in IncomeCats) = (src[t].amount > 0)
    /\ alias[src[t].label].merchant = m /\ alias[src[t].label].confirmed

Candidate(t) == [revision |-> Revision(record[t]), source |-> source[t],
                 alias |-> alias[source[t].label].revision]

Candidates(m) == {t \in Txns : Matches(source, m, t)}

PreviewRule(m) ==
    /\ rule[m].state = "active" /\ rule[m].choice \notin archived
    /\ preview' = [merchant |-> m, version |-> rule[m].version, applied |-> FALSE,
                   rows |-> [t \in Candidates(m) |-> Candidate(t)]]
    /\ Commit(Book)
    /\ UNCHANGED <<source, archived, merchant, alias, detail, draft>>

RuleForm(m, c, amount) ==
    [Blank EXCEPT !.treatment = IF c \in IncomeCats THEN "income" ELSE "expense",
                  !.merchant = m, !.split[c] = amount]

StillCandidateByRule(t) == t \in Candidates(preview.merchant)
StillCandidate(t) ==
    /\ t \in Candidates(preview.merchant)
    /\ Candidate(t) = preview.rows[t]

ApplyPreview ==
    LET m == preview.merchant
        todo == DOMAIN preview.rows
        say == [t \in todo |-> RuleForm(m, rule[m].choice, preview.rows[t].source.amount)]
    IN /\ preview # None /\ ~preview.applied
       /\ preview.version = rule[m].version /\ rule[m].state = "active"
       /\ \A t \in todo : StillCandidate(t) /\ Valid(t, say[t])
       /\ Commit(PutByRule(todo, source, say, rule[m].version))
       /\ preview' = [preview EXCEPT !.applied = TRUE]
       /\ UNCHANGED <<source, archived, merchant, alias, detail, draft>>

-----------------------------------------------------------------------------
(* on_bank_sync: changed movements first, then the inserted ones *)

Invalidate(t) ==
    LET r == record[t]
        noted == Witness([Book EXCEPT !.record[t] = Unsettle(r),
                                      !.prior[t] = @ \cup {r.say}], r)
    IN IF r.say.merchant = None THEN noted
       ELSE DisableRule(noted, r.say.merchant, "source changed")

ClassifyNew(src, t) ==
    LET m == alias[src[t].label].merchant
        c == rule[m].choice
    IN IF m # None /\ alias[src[t].label].confirmed /\ rule[m].state = "active"
          /\ Matches(src, m, t) /\ c \notin archived
       THEN PutByRule({t}, src, [x \in {t} |-> RuleForm(m, c, src[t].amount)],
                      rule[m].version)
       ELSE Book

\* t changes to new if it is known, is inserted with it otherwise.
BankSync(t, new) ==
    /\ source[t] # new
    /\ source' = [source EXCEPT ![t] = new]
    /\ Commit(IF source[t] = None THEN ClassifyNew(source', t)
              ELSE IF record[t] = None \/ record[t].source = new THEN Book
              ELSE Invalidate(t))
    /\ UNCHANGED <<archived, merchant, alias, detail, preview, draft>>

-----------------------------------------------------------------------------
\* A household set up: merchants and aliases saved, nothing classified.
Init ==
    /\ source \in [Txns -> Facts \cup {None}]
    /\ \A t \in Txns : IF source[t] = None THEN t \in Fresh
                       ELSE source[t].amount = Opening
    /\ archived = {}
    /\ merchant = [m \in Merchants |-> [confirmed |-> TRUE, archived |-> FALSE]]
    /\ alias \in [Labels -> [merchant : Merchants \cup {None}, confirmed : {TRUE},
                             revision : {1}]]
    /\ detail = 1
    /\ record = [t \in Txns |-> None]
    /\ rule = [m \in Merchants |-> [NoRule EXCEPT !.version = 1,
                                      !.state = "insufficient", !.why = "learned"]]
    /\ evidence = [m \in Merchants |-> NoEvidence]
    /\ prior = [t \in Txns |-> {}]
    /\ preview = None
    /\ draft = [e \in Editors |-> None]
    /\ writes = 0

Write ==
    \/ \E e \in Editors, t \in Txns : Open(e, t)
    \/ \E e \in Editors : draft[e] # None /\
          \E say \in Forms(draft[e].txn) : SaveClassification(e, say)
    \/ \E e \in Editors : draft[e] # None /\
          \E say \in prior[draft[e].txn] : UndoClassification(e, say)
    \/ \E c \in Cats : SaveCategory(c)
    \/ \E m \in Merchants, row \in [confirmed : BOOLEAN, archived : BOOLEAN] :
          SaveMerchant(m, row)
    \/ \E l \in Labels, m \in Merchants, ok \in BOOLEAN : SaveAlias(l, m, ok)
    \/ \E m \in Merchants, disabled \in BOOLEAN : ControlRule(m, disabled)
    \/ UpsertPaymentDetail
    \/ \E m \in Merchants : PreviewRule(m)
    \/ ApplyPreview
    \/ \E t \in Txns, new \in Facts : BankSync(t, new)

\* Nothing is written past the bound, and nothing is opened to be saved then.
Next == writes < MaxWrites /\ Write

Spec == Init /\ [][Next]_vars

-----------------------------------------------------------------------------
(* The state's shape: whatever was saved, learned, undone, applied or      *)
(* synced, every row, rule, decision, draft and preview is a whole one.    *)
TypeOK ==
    /\ source \in [Txns -> Facts \cup {None}]
    /\ archived \subseteq Cats /\ detail \in Nat /\ writes \in 0..MaxWrites
    /\ merchant \in [Merchants -> [confirmed : BOOLEAN, archived : BOOLEAN]]
    /\ alias \in [Labels -> [merchant : Merchants \cup {None}, confirmed : BOOLEAN,
                             revision : Nat]]
    /\ Book \in Books
    /\ draft \in [Editors -> [txn : Txns, seen : Rows \cup {None}] \cup {None}]
    /\ preview # None =>
          /\ preview \in [merchant : Merchants, version : Nat, applied : BOOLEAN,
                          rows : {preview.rows}]
          /\ \A t \in DOMAIN preview.rows : t \in Txns /\ preview.rows[t].source \in Facts

(* A row a rule wrote and nobody has been asked to review stands under a   *)
(* rule that is still active and still says the same category, whatever    *)
(* was learned, disabled, corrected or re-evaluated since.                 *)
RuleWorkIsCurrent ==
    \A t \in Txns : (Settled(t) /\ record[t].by = "rule") =>
        LET m == record[t].say.merchant
        IN rule[m].state = "active" /\ Used(record[t].say.split) = {rule[m].choice}

(* A spending or income row that asks for no review splits exactly the     *)
(* amount the bank reports today.                                          *)
ConservesSource ==
    \A t \in Txns : (Settled(t) /\ record[t].say.treatment \in {"expense", "income"}) =>
        Total(record[t].say.split) = source[t].amount

(* An active rule has no confirmed human decision against it anywhere in   *)
(* the audit, and its merchant may have one.                               *)
ActiveIsUnanimous ==
    \A m \in Merchants : rule[m].state = "active" =>
        /\ evidence[m].choices = {rule[m].choice} /\ ~evidence[m].mixed
        /\ merchant[m].confirmed /\ ~merchant[m].archived

(* A decision a person made changes only by an editor that has seen it as  *)
(* it is; no rule, preview, sync or stale form replaces it.                *)
DecisionsAreSeen ==
    [][\A t \in Txns : (Manual(t) /\ record'[t].say # record[t].say) =>
          \E e \in Editors : /\ draft[e] # None /\ draft'[e] = None
                             /\ draft[e] = [txn |-> t, seen |-> record[t]]]_vars

(* Applying a preview classifies exactly the movements it listed, each as  *)
(* it was listed: none edited, resynced or given another alias since.      *)
AppliedAsPreviewed ==
    [][(preview # None /\ preview' # None /\ ~preview.applied /\ preview'.applied) =>
          \A t \in Txns :
             IF t \in DOMAIN preview.rows
             THEN /\ source[t] = preview.rows[t].source
                  /\ Revision(record[t]) = preview.rows[t].revision
                  /\ alias[source[t].label].revision = preview.rows[t].alias
                  /\ record'[t].by = "rule"
             ELSE record'[t] = record[t]]_vars

=============================================================================
