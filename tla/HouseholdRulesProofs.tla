------------------------- MODULE HouseholdRulesProofs -------------------------
(***************************************************************************)
(* Proofs about HouseholdRules.                                            *)
(*                                                                         *)
(* A write composes up to four rewrites of the book (the row, the audit,   *)
(* then one or two rules that learn), so what must hold between writes is  *)
(* stated of a book b: Sound(b).  Each rewrite is a lemma, and an action   *)
(* follows from those it calls.                                            *)
(***************************************************************************)
EXTENDS HouseholdRules, SumFacts, FiniteSetTheorems, TLAPS

\* Rule versions count from 1: version 0 is a person's.
Numbered(b) == \A m \in Merchants : b.rule[m].version > 0

\* The category of an active rule was confirmed by a person.
Backed(b) ==
    \A m \in Merchants : b.rule[m].state = "active" =>
        b.rule[m].choice \in b.evidence[m].choices

\* A row a rule wrote, and nobody has been asked to review.
RuleRow(r) == r # None /\ r.by = "rule" /\ r.review # "needs_review"

\* It says what the active rule of its merchant says.
RuleWork(b) ==
    \A t \in Txns : RuleRow(b.record[t]) =>
        LET m == b.record[t].say.merchant
        IN  /\ m \in Merchants /\ b.rule[m].state = "active"
            /\ Used(b.record[t].say.split) = {b.rule[m].choice}

Sound(b) == Numbered(b) /\ Backed(b) /\ RuleWork(b)

\* Nobody disagrees with what an active rule says.
Unanimous(b, people, m) ==
    b.rule[m].state = "active" =>
        /\ b.evidence[m].choices = {b.rule[m].choice} /\ ~b.evidence[m].mixed
        /\ people[m].confirmed /\ ~people[m].archived

\* Row s is row r, or r as the system sent it to review.
Kept(r, s) ==
    \/ s = r
    \/ /\ r # None /\ s # None
       /\ s.say = r.say /\ s.by = r.by /\ s.source = r.source
       /\ s.review = "needs_review" /\ s.revision > r.revision

\* A spending or income row not under review splits the amount it was saved for.
Balanced(r) ==
    (/\ r # None /\ r.review = "classified"
     /\ r.say.treatment \in {"expense", "income"})
    => Total(r.say.split) = r.source.amount

\* Row s is row r, or one written over it since.
Follows(r, s) ==
    \/ Kept(r, s)
    \/ \E w \in Rows : Balanced(w) /\ w.revision > Revision(r) /\ Kept(w, s)

\* A form is of a movement the bank sent, and holds its row or an older one.
DraftsAge ==
    \A e \in Editors : draft[e] # None =>
        /\ source[draft[e].txn] \in Facts
        /\ \/ draft[e].seen = record[draft[e].txn]
           \/ Revision(draft[e].seen) < Revision(record[draft[e].txn])

IInv ==
    /\ TypeOK /\ ActiveIsUnanimous /\ DraftsAge
    /\ Sound(Book) /\ \A t \in Txns : Balanced(record[t])

\* Being sent to review twice is being sent to review.
LEMMA KeptTrans ==
  ASSUME NEW a \in Rows \cup {None}, NEW b \in Rows \cup {None}, NEW c \in Rows \cup {None},
         Kept(a, b), Kept(b, c)
  PROVE  Kept(a, c)
  BY DEF Kept, Rows

-----------------------------------------------------------------------------
(* New versions of a rule *)

\* Sending a row to review changes its review state and counts a revision.
LEMMA UnsettleRow ==
  ASSUME NEW r \in Rows
  PROVE  /\ Unsettle(r) \in Rows /\ Unsettle(r).say = r.say /\ Unsettle(r).by = r.by
         /\ Unsettle(r).source = r.source
         /\ Unsettle(r).review = "needs_review" /\ Unsettle(r).revision > r.revision
<1>1. r.revision + 1 \in Nat \ {0} /\ r.revision + 1 > r.revision
  BY DEF Rows
<1>2. Unsettle(r) = [r EXCEPT !.review = "needs_review", !.revision = r.revision + 1]
  BY DEF Unsettle, Rows
<1>3. QED
  BY <1>1, <1>2 DEF Rows

\* The movements whose settled row the version r of the rule of m undoes.
Undone(b, m, r) ==
    {t \in Txns : /\ r.state # "active"
                  /\ b.record[t] # None
                  /\ b.record[t].say.merchant = m
                  /\ b.record[t].by = "rule"
                  /\ b.record[t].review # "needs_review"}

\* The book n is b with the rule of m replaced by the next version, r.
Renewed(n, b, m, r) ==
    LET U == Undone(b, m, r)
    IN  /\ n \in Books /\ n.evidence = b.evidence
        /\ n.rule[m].state = r.state /\ n.rule[m].choice = r.choice
        /\ n.rule[m].version = b.rule[m].version + 1
        /\ \A k \in Merchants \ {m} : n.rule[k] = b.rule[k]
        /\ n.record = [t \in Txns |-> IF t \in U THEN Unsettle(b.record[t]) ELSE b.record[t]]
        /\ n.prior = [t \in Txns |-> IF t \in U THEN b.prior[t] \cup {b.record[t].say}
                                                 ELSE b.prior[t]]

\* What a new version leaves in the book, field by field.
LEMMA NewRuleFields ==
  ASSUME NEW b \in Books, NEW m \in Merchants, NEW r \in Rules
  PROVE  Renewed(NewRule(b, m, r), b, m, r)
<1> DEFINE U == Undone(b, m, r)
           new == [r EXCEPT !.version = b.rule[m].version + 1]
           recs == [t \in Txns |-> IF t \in U THEN Unsettle(b.record[t]) ELSE b.record[t]]
           priors == [t \in Txns |-> IF t \in U THEN b.prior[t] \cup {b.record[t].say}
                                                ELSE b.prior[t]]
<1>1. NewRule(b, m, r) = [b EXCEPT !.rule = [b.rule EXCEPT ![m] = new],
                                   !.record = recs, !.prior = priors]
  BY DEF NewRule, Undone, Books
<1>2. new \in Rules
  BY DEF Rules, Books
<1>3. recs \in [Txns -> Rows \cup {None}]
  BY UnsettleRow DEF Undone, Books
<1>4. priors \in [Txns -> SUBSET Say]
  BY DEF Undone, Books, Rows
<1> DEFINE n == NewRule(b, m, r)
<1>5. n.rule = [b.rule EXCEPT ![m] = new] /\ n.record = recs /\ n.prior = priors
      /\ n.evidence = b.evidence
  <2> HIDE DEF new, recs, priors
  <2>1. QED
    BY <1>1 DEF Books
<1>6. n \in Books
  <2> HIDE DEF new, recs, priors
  <2>1. QED
    BY <1>1, <1>2, <1>3, <1>4 DEF Books
<1>7. new.state = r.state /\ new.choice = r.choice /\ new.version = b.rule[m].version + 1
  BY DEF Rules
<1>8. /\ n.rule[m] = new
      /\ \A k \in Merchants \ {m} : n.rule[k] = b.rule[k]
  <2> HIDE DEF new, recs, priors, n
  <2>1. QED
    BY <1>5 DEF Books
<1> HIDE DEF new
<1>9. /\ n.rule[m].state = r.state /\ n.rule[m].choice = r.choice
      /\ n.rule[m].version = b.rule[m].version + 1
  BY <1>7, <1>8
<1> HIDE DEF n
<1>10. QED
  BY <1>5, <1>6, <1>8, <1>9 DEF Renewed, n

\* The book n is sound, and b but for the rule of m, now in state s with choice
\* c, and for the rows that its last version settled.
Succeeds(n, b, m, s, c) ==
    /\ n \in Books /\ Sound(n)
    /\ n.rule[m].state = s /\ n.rule[m].choice = c
    /\ \A k \in Merchants \ {m} : n.rule[k] = b.rule[k]
    /\ n.evidence = b.evidence
    /\ \A t \in Txns : Kept(b.record[t], n.record[t])

\* A new version that is active says what the active one before it said; one
\* that is not leaves no work of the rule unreviewed.
LEMMA NewRuleSound ==
  ASSUME NEW b \in Books, Sound(b), NEW m \in Merchants, NEW r \in Rules,
         r.state = "active" =>
           /\ r.choice \in b.evidence[m].choices
           /\ b.rule[m].state = "active" => b.rule[m].choice = r.choice
  PROVE  Succeeds(NewRule(b, m, r), b, m, r.state, r.choice)
<1> DEFINE n == NewRule(b, m, r)
           U == Undone(b, m, r)
<1>1. Renewed(n, b, m, r)
  BY NewRuleFields
<1> HIDE DEF n
<1>2. /\ n \in Books /\ n.evidence = b.evidence
      /\ n.rule[m].state = r.state /\ n.rule[m].choice = r.choice
      /\ n.rule[m].version = b.rule[m].version + 1
      /\ \A k \in Merchants \ {m} : n.rule[k] = b.rule[k]
      /\ \A t \in Txns : n.record[t] = IF t \in U THEN Unsettle(b.record[t]) ELSE b.record[t]
  BY <1>1 DEF Renewed
<1>3. \A t \in U : b.record[t] \in Rows
  BY DEF Undone, Books
<1>4. \A t \in Txns : Kept(b.record[t], n.record[t])
  BY <1>2, <1>3, UnsettleRow, NoRowAssumption DEF Kept
<1>5. Numbered(n)
  BY <1>2 DEF Sound, Numbered, Books, Rules
<1>6. Backed(n)
  BY <1>2 DEF Sound, Backed
<1>7. RuleWork(n)
  <2> SUFFICES ASSUME NEW t \in Txns, RuleRow(n.record[t])
               PROVE  LET k == n.record[t].say.merchant
                      IN  /\ k \in Merchants /\ n.rule[k].state = "active"
                          /\ Used(n.record[t].say.split) = {n.rule[k].choice}
    BY DEF RuleWork
  <2>1. t \notin U
    BY <1>2, <1>3, UnsettleRow DEF RuleRow
  <2>2. n.record[t] = b.record[t] /\ RuleRow(b.record[t])
    BY <1>2, <2>1
  <2> DEFINE k == b.record[t].say.merchant
  <2>3. k \in Merchants /\ b.rule[k].state = "active"
        /\ Used(b.record[t].say.split) = {b.rule[k].choice}
    BY <2>2 DEF Sound, RuleWork
  <2>4. CASE k = m
    <3>1. r.state = "active"
      BY <2>1, <2>2, <2>4 DEF Undone, RuleRow
    <3>2. QED
      BY <1>2, <2>2, <2>3, <2>4, <3>1
  <2>5. CASE k # m
    BY <1>2, <2>2, <2>3, <2>5
  <2>6. QED
    BY <2>4, <2>5
<1>8. QED
  BY <1>2, <1>4, <1>5, <1>6, <1>7 DEF Sound, Succeeds, n

\* A disabled rule is not active.
LEMMA DisableSound ==
  ASSUME NEW b \in Books, Sound(b), NEW m \in Merchants, NEW why \in Reasons
  PROVE  Succeeds(DisableRule(b, m, why), b, m, "disabled", None)
<1> DEFINE r == [NoRule EXCEPT !.state = "disabled", !.count = b.rule[m].count, !.why = why]
<1>1. r \in Rules /\ r.state = "disabled" /\ r.choice = None
  BY DEF NoRule, Rules, RuleStates, Reasons, Books
<1>2. DisableRule(b, m, why) = NewRule(b, m, r)
  BY DEF DisableRule
<1> HIDE DEF r
<1>3. QED
  BY <1>1, <1>2, NewRuleSound

-----------------------------------------------------------------------------
(* Learning *)

\* A set of at most one category is a singleton unless empty.
LEMMA AtMostOne ==
  ASSUME NEW S \in SUBSET Cats, S # {}, ~(Cardinality(S) > 1)
  PROVE  S = {CHOOSE c \in S : TRUE}
<1>1. IsFiniteSet(S)
  BY HouseholdConstants, FS_Subset
<1>2. Cardinality(S) \in Nat /\ Cardinality(S) # 0
  BY <1>1, FS_CardinalityType, FS_EmptySet
<1>3. Cardinality(S) = 1
  BY <1>2
<1>4. PICK x : S = {x}
  BY <1>1, <1>3, FS_Singleton
<1>5. QED
  BY <1>4

Person == [confirmed : BOOLEAN, archived : BOOLEAN]

\* A verdict that is active has every confirmed decision behind it.
LEMMA JudgeActive ==
  ASSUME NEW b \in Books, NEW people \in [Merchants -> Person], NEW m \in Merchants
  PROVE  LET v == Judge(b, people, m)
         IN  /\ v \in Rules
             /\ v.state = "active" =>
                  /\ b.evidence[m].choices = {v.choice} /\ ~b.evidence[m].mixed
                  /\ people[m].confirmed /\ ~people[m].archived
<1> DEFINE past == b.evidence[m]
           old == b.rule[m]
           is(state, choice, why) == [version |-> old.version, state |-> state,
              choice |-> choice, count |-> past.count, why |-> why]
           one == CHOOSE c \in past.choices : TRUE
<1>1. past.count \in Nat /\ past.choices \subseteq Cats
      /\ old.version \in Nat /\ old.why \in Reasons
  BY DEF Books, Evidences, Rules
<1>2. \A state \in RuleStates, choice \in Cats \cup {None}, why \in Reasons :
        /\ is(state, choice, why) \in Rules
        /\ is(state, choice, why).state = state
        /\ is(state, choice, why).choice = choice
  <2> HIDE DEF past, old
  <2>1. QED
    BY <1>1 DEF Rules
<1>3. {"disabled", "conflict", "active", "insufficient"} \subseteq RuleStates
      /\ "learned" \in Reasons
  BY DEF RuleStates, Reasons
<1>4. CASE old.state = "disabled"
  <2>1. Judge(b, people, m) = is("disabled", None, old.why)
    BY <1>4 DEF Judge
  <2> HIDE DEF is, old, past
  <2>2. QED
    BY <1>1, <1>2, <1>3, <2>1
<1>5. CASE old.state # "disabled" /\ (past.mixed \/ Cardinality(past.choices) > 1)
  <2>1. Judge(b, people, m) = is("conflict", None, "learned")
    BY <1>5 DEF Judge
  <2> HIDE DEF is, old, past
  <2>2. QED
    BY <1>2, <1>3, <2>1
<1>6. CASE /\ old.state # "disabled" /\ ~past.mixed /\ ~(Cardinality(past.choices) > 1)
           /\ people[m].confirmed /\ ~people[m].archived /\ past.choices # {}
  <2>1. Judge(b, people, m) = is("active", one, "learned")
    BY <1>6 DEF Judge
  <2>2. past.choices = {one} /\ one \in Cats
    BY <1>1, <1>6, AtMostOne
  <2> HIDE DEF one, is, old
  <2>3. QED
    BY <1>2, <1>3, <1>6, <2>1, <2>2
<1>7. CASE /\ old.state # "disabled" /\ ~past.mixed /\ ~(Cardinality(past.choices) > 1)
           /\ ~(people[m].confirmed /\ ~people[m].archived /\ past.choices # {})
  <2>1. Judge(b, people, m) = is("insufficient", None, "learned")
    BY <1>7 DEF Judge
  <2> HIDE DEF is, old, past
  <2>2. QED
    BY <1>2, <1>3, <2>1
<1>8. QED
  <2> HIDE DEF old, past
  <2>1. QED
    BY <1>4, <1>5, <1>6, <1>7

\* Learning leaves the merchant's rule with nobody against it.
LEMMA LearnSound ==
  ASSUME NEW b \in Books, Sound(b), NEW people \in [Merchants -> Person],
         NEW m \in Merchants
  PROVE  LET n == Learn(b, people, m)
         IN  /\ n \in Books /\ Sound(n) /\ Unanimous(n, people, m)
             /\ \A k \in Merchants \ {m} : n.rule[k] = b.rule[k]
             /\ n.evidence = b.evidence
             /\ \A t \in Txns : Kept(b.record[t], n.record[t])
<1> DEFINE v == Judge(b, people, m)
<1>1. v \in Rules
      /\ (v.state = "active" => /\ b.evidence[m].choices = {v.choice}
                                /\ ~b.evidence[m].mixed
                                /\ people[m].confirmed /\ ~people[m].archived)
  BY JudgeActive
<1> HIDE DEF v
<1>2. CASE v = b.rule[m]
  <2>1. Learn(b, people, m) = b
    BY <1>2 DEF Learn, v
  <2>2. QED
    BY <1>1, <1>2, <2>1 DEF Unanimous, Kept
<1>3. CASE v # b.rule[m]
  <2>1. Learn(b, people, m) = NewRule(b, m, v)
    BY <1>3 DEF Learn, v
  <2>2. b.rule[m].state = "active" /\ v.state = "active" => b.rule[m].choice = v.choice
    BY <1>1 DEF Sound, Backed
  <2>3. Succeeds(NewRule(b, m, v), b, m, v.state, v.choice)
    BY <1>1, <2>2, NewRuleSound
  <2>4. QED
    BY <1>1, <2>1, <2>3 DEF Succeeds, Unanimous
<1>4. QED
  BY <1>2, <1>3

-----------------------------------------------------------------------------
(* Evidence and decisions *)

\* A split uses categories.
LEMMA UsedCats == ASSUME NEW split PROVE Used(split) \subseteq Cats
  BY DEF Used

\* A decision is only ever added to the evidence.
LEMMA WitnessFields ==
  ASSUME NEW b \in Books, NEW r \in Rows
  PROVE  LET n == Witness(b, r)
         IN  /\ n \in Books /\ n.record = b.record /\ n.rule = b.rule
             /\ \A k \in Merchants : b.evidence[k].choices \subseteq n.evidence[k].choices
             /\ \A k \in Merchants : k # r.say.merchant => n.evidence[k] = b.evidence[k]
<1> DEFINE m == r.say.merchant
           plain == /\ Cardinality(Used(r.say.split)) = 1
                    /\ r.say.treatment \in {"expense", "income"}
           old == b.evidence[m]
           new == [count |-> old.count + 1,
                   choices |-> IF plain THEN old.choices \cup Used(r.say.split)
                                        ELSE old.choices,
                   mixed |-> old.mixed \/ ~plain]
<1>1. CASE r.by # "manual" \/ ~r.say.identity \/ m = None
  <2>1. Witness(b, r) = b
    BY <1>1 DEF Witness
  <2>2. QED
    BY <2>1
<1>2. CASE ~(r.by # "manual" \/ ~r.say.identity \/ m = None)
  <2>1. m \in Merchants
    BY <1>2 DEF Rows, Say
  <2>2. old \in Evidences
    BY <2>1 DEF Books
  <2>3. new \in Evidences /\ old.choices \subseteq new.choices
    <3> HIDE DEF plain, old
    <3>1. QED
      BY <2>2, UsedCats DEF Evidences
  <2>4. Witness(b, r) = [b EXCEPT !.evidence = [b.evidence EXCEPT ![m] = new]]
    BY <1>2 DEF Witness, Books
  <2> HIDE DEF new, m, old
  <2>5. [b.evidence EXCEPT ![m] = new] \in [Merchants -> Evidences]
    BY <2>3 DEF Books
  <2>6. QED
    BY <2>1, <2>3, <2>4, <2>5 DEF Books, old, m
<1>3. QED
  BY <1>1, <1>2

\* More evidence leaves a sound book sound.
LEMMA WitnessSound ==
  ASSUME NEW b \in Books, NEW r \in Rows, Sound(b)
  PROVE  Sound(Witness(b, r))
<1> DEFINE n == Witness(b, r)
<1>1. /\ n.record = b.record /\ n.rule = b.rule
      /\ \A k \in Merchants : b.evidence[k].choices \subseteq n.evidence[k].choices
  BY WitnessFields
<1> HIDE DEF n
<1>2. Sound(n)
  BY <1>1 DEF Sound, Numbered, Backed, RuleWork
<1>3. QED
  BY <1>2 DEF n

\* An empty form is a form.
LEMMA BlankSay == Blank \in Say
  BY DEF Blank, NoSplit, Say, Treatments

\* A row as written is one revision further than the row it replaces.
LEMMA RowType ==
  ASSUME TypeOK, NEW t \in Txns, NEW src, src[t] \in Facts, NEW say \in Say,
         NEW version \in Nat
  PROVE  LET row == Row(t, src, say, version)
         IN  /\ row \in Rows /\ row.say = say
             /\ row.revision = Revision(record[t]) + 1
             /\ row.by = IF version = 0 THEN "manual" ELSE "rule"
<1>1. Revision(record[t]) \in Nat
  BY DEF TypeOK, Book, Books, Rows, Revision
<1>2. QED
  BY <1>1 DEF Row, Rows

\* What the audit keeps of a row is a form.
LEMMA SaidType == ASSUME TypeOK, NEW t \in Txns PROVE Said(t) \in Say
  BY BlankSay DEF Said, TypeOK, Book, Books, Rows

\* What Book holds.
LEMMA BookFields ==
  /\ Book.record = record /\ Book.rule = rule
  /\ Book.evidence = evidence /\ Book.prior = prior
  BY DEF Book

\* A manual save leaves no active rule with anybody against it.
LEMMA PutManualSound ==
  ASSUME TypeOK, Sound(Book), ActiveIsUnanimous,
         NEW t \in Txns, source[t] \in Facts, NEW say \in Say
  PROVE  LET n == PutManual(t, say)
         IN  /\ n \in Books /\ Sound(n)
             /\ \A m \in Merchants : Unanimous(n, merchant, m)
             /\ \A u \in Txns \ {t} : Kept(record[u], n.record[u])
             /\ Kept(Row(t, source, say, 0), n.record[t])
<1> DEFINE row == Row(t, source, say, 0)
           left == Said(t).merchant
           first == [Book EXCEPT !.record[t] = row, !.prior[t] = @ \cup {Said(t)}]
           once == Witness(first, row)
           twice == IF left = None THEN once ELSE Learn(once, merchant, left)
           n == PutManual(t, say)
<1>1. n = IF say.merchant \in {None, left} THEN twice
          ELSE Learn(twice, merchant, say.merchant)
  BY DEF PutManual
<1>2. row \in Rows /\ row.say = say /\ row.by = "manual"
  BY RowType
<1>3. left \in Merchants \cup {None} /\ say.merchant \in Merchants \cup {None}
  BY SaidType DEF Say
<1>4. merchant \in [Merchants -> Person]
  BY DEF TypeOK, Person
<1> HIDE DEF row, left, n
<1>5. /\ first \in Books /\ first.rule = rule /\ first.evidence = evidence
      /\ first.record = [record EXCEPT ![t] = row]
  <2>1. Book \in Books /\ Said(t) \in Say
    BY SaidType DEF TypeOK
  <2>2. first = [Book EXCEPT !.record = [Book.record EXCEPT ![t] = row],
                             !.prior = [Book.prior EXCEPT ![t] = @ \cup {Said(t)}]]
    BY <2>1 DEF Books
  <2>3. [Book.record EXCEPT ![t] = row] \in [Txns -> Rows \cup {None}]
    BY <1>2, <2>1 DEF Books
  <2>4. [Book.prior EXCEPT ![t] = @ \cup {Said(t)}] \in [Txns -> SUBSET Say]
    BY <2>1 DEF Books
  <2> HIDE DEF first
  <2>5. QED
    BY <2>1, <2>2, <2>3, <2>4, BookFields DEF Books
<1> HIDE DEF first
<1>6. Sound(first)
  <2>1. Numbered(first) /\ Backed(first)
    BY <1>5, BookFields DEF Sound, Numbered, Backed
  <2>2. \A u \in Txns : RuleRow(first.record[u]) =>
                          first.record[u] = Book.record[u] /\ RuleRow(Book.record[u])
    BY <1>2, <1>5, BookFields DEF RuleRow, Books
  <2>3. RuleWork(first)
    BY <1>5, <2>2, BookFields DEF Sound, RuleWork
  <2>4. QED
    BY <2>1, <2>3 DEF Sound
<1>7. /\ once \in Books /\ Sound(once) /\ once.rule = rule
      /\ once.record = [record EXCEPT ![t] = row]
      /\ \A m \in Merchants : m # say.merchant => once.evidence[m] = evidence[m]
  BY <1>2, <1>5, <1>6, WitnessFields, WitnessSound
<1> HIDE DEF once
<1>8. /\ \A u \in Txns \ {t} : once.record[u] = record[u]
      /\ once.record[t] = row
  BY <1>7, BookFields DEF TypeOK, Books
<1>9. \A m \in Merchants : m # say.merchant => Unanimous(once, merchant, m)
  BY <1>7 DEF ActiveIsUnanimous, Unanimous
<1>10. /\ twice \in Books /\ Sound(twice)
       /\ \A m \in Merchants : m # say.merchant \/ m = left => Unanimous(twice, merchant, m)
       /\ \A u \in Txns : Kept(once.record[u], twice.record[u])
  <2>1. CASE left = None
    BY <1>7, <1>9, <2>1, HouseholdConstants DEF Kept
  <2>2. CASE left # None
    <3>1. left \in Merchants /\ twice = Learn(once, merchant, left)
      BY <1>3, <2>2
    <3> HIDE DEF twice
    <3>2. LET l == Learn(once, merchant, left)
          IN  /\ l \in Books /\ Sound(l) /\ Unanimous(l, merchant, left)
              /\ \A k \in Merchants \ {left} : l.rule[k] = once.rule[k]
              /\ l.evidence = once.evidence
              /\ \A u \in Txns : Kept(once.record[u], l.record[u])
      BY <1>4, <1>7, <3>1, LearnSound
    <3>3. QED
      BY <1>9, <3>1, <3>2 DEF Unanimous
  <2>3. QED
    BY <2>1, <2>2
<1> HIDE DEF twice
<1>11. /\ n \in Books /\ Sound(n)
       /\ \A m \in Merchants : Unanimous(n, merchant, m)
       /\ \A u \in Txns : Kept(twice.record[u], n.record[u])
  <2>1. CASE say.merchant \in {None, left}
    BY <1>1, <1>10, <2>1, HouseholdConstants DEF Kept
  <2>2. CASE say.merchant \notin {None, left}
    <3>1. n = Learn(twice, merchant, say.merchant) /\ say.merchant \in Merchants
      BY <1>1, <1>3, <2>2
    <3>2. /\ n \in Books /\ Sound(n) /\ Unanimous(n, merchant, say.merchant)
          /\ \A k \in Merchants \ {say.merchant} : n.rule[k] = twice.rule[k]
          /\ n.evidence = twice.evidence
          /\ \A u \in Txns : Kept(twice.record[u], n.record[u])
      BY <1>4, <1>10, <3>1, LearnSound
    <3>3. QED
      BY <1>10, <3>2 DEF Unanimous
  <2>3. QED
    BY <2>1, <2>2
<1>12. \A u \in Txns : once.record[u] \in Rows \cup {None} /\ twice.record[u] \in Rows \cup {None}
                       /\ n.record[u] \in Rows \cup {None}
  BY <1>7, <1>10, <1>11 DEF Books
<1>13. \A u \in Txns : Kept(once.record[u], n.record[u])
  BY <1>10, <1>11, <1>12, KeptTrans
<1>14. QED
  BY <1>8, <1>11, <1>13 DEF n, row

-----------------------------------------------------------------------------
(* Rows a rule writes *)

\* One category takes the whole of a split over one.
LEMMA OneCategory ==
  ASSUME NEW c \in Cats, NEW n \in Int \ {0}
  PROVE  LET split == [NoSplit EXCEPT ![c] = n]
         IN  split \in [Cats -> Int] /\ Used(split) = {c} /\ Total(split) = n
<1> DEFINE split == [NoSplit EXCEPT ![c] = n]
<1>1. split \in [Cats -> Int] /\ split[c] = n /\ \A d \in Cats \ {c} : split[d] = 0
  BY DEF NoSplit
<1> HIDE DEF split
<1>2. Used(split) = {c}
  BY <1>1 DEF Used
<1>3. Total(split) = Sum(split, Cats)
  BY <1>1 DEF Total, Sum, FoldFunction
<1>4. Sum(split, Cats) = n
  BY <1>1, HouseholdConstants, SumOne
<1>5. QED
  BY <1>1, <1>2, <1>3, <1>4 DEF split

\* The form w puts the amount n, and no other, in category c for merchant m.
SaysWhole(w, m, c, n) == /\ w \in Say /\ w.merchant = m
                         /\ w.treatment \in {"expense", "income"}
                         /\ Used(w.split) = {c} /\ Total(w.split) = n

\* What a rule says of a movement: its category takes the whole amount.
LEMMA RuleFormSays ==
  ASSUME NEW m \in Merchants, NEW c \in Cats, NEW n \in Int \ {0}
  PROVE  SaysWhole(RuleForm(m, c, n), m, c, n)
<1> DEFINE split == [NoSplit EXCEPT ![c] = n]
<1>1. split \in [Cats -> Int] /\ Used(split) = {c} /\ Total(split) = n
  BY OneCategory
<1>2. RuleForm(m, c, n) =
        [treatment |-> IF c \in IncomeCats THEN "income" ELSE "expense", merchant |-> m,
         identity |-> FALSE, split |-> split, detail |-> 0]
  <2>1. RuleForm(m, c, n) =
          [Blank EXCEPT !.treatment = IF c \in IncomeCats THEN "income" ELSE "expense",
                        !.merchant = m, !.split = [Blank.split EXCEPT ![c] = n]]
    BY DEF RuleForm, Blank
  <2>2. Blank.split = NoSplit
    BY DEF Blank
  <2> HIDE DEF split
  <2>3. QED
    BY <2>1, <2>2 DEF Blank, split
<1> HIDE DEF split
<1>3. QED
  BY <1>1, <1>2 DEF SaysWhole, Say, Treatments

\* The forms of the movements in todo say what the rule of merchant m says.
SaidByRule(todo, src, say, m) ==
    \A t \in todo : /\ src[t] \in Facts /\ say[t] \in Say /\ say[t].merchant = m
                    /\ say[t].treatment \in {"expense", "income"}
                    /\ Used(say[t].split) = {rule[m].choice}
                    /\ Total(say[t].split) = src[t].amount

\* Rows written under an active rule that say what it says keep the book sound.
LEMMA PutByRuleSound ==
  ASSUME TypeOK, Sound(Book), NEW todo \in SUBSET Txns, NEW src, NEW say,
         NEW m \in Merchants, rule[m].state = "active",
         SaidByRule(todo, src, say, m)
  PROVE  LET n == PutByRule(todo, src, say, rule[m].version)
         IN  /\ n \in Books /\ Sound(n) /\ n.rule = rule /\ n.evidence = evidence
             /\ \A t \in Txns : Follows(record[t], n.record[t])
             /\ \A t \in todo : n.record[t].by = "rule"
             /\ \A t \in Txns \ todo : n.record[t] = record[t]
<1> DEFINE version == rule[m].version
           n == PutByRule(todo, src, say, version)
           row(t) == Row(t, src, say[t], version)
           recs == [t \in Txns |-> IF t \in todo THEN row(t) ELSE record[t]]
           priors == [t \in Txns |-> IF t \in todo THEN prior[t] \cup {Said(t)}
                                                   ELSE prior[t]]
<1>0. \A t \in todo : /\ src[t] \in Facts /\ say[t] \in Say /\ say[t].merchant = m
                      /\ say[t].treatment \in {"expense", "income"}
                      /\ Used(say[t].split) = {rule[m].choice}
                      /\ Total(say[t].split) = src[t].amount
  BY DEF SaidByRule
<1>1. Book \in Books /\ version \in Nat /\ version > 0
  BY BookFields DEF TypeOK, Sound, Numbered, Books, Rules
<1>2. \A t \in todo : /\ row(t) \in Rows /\ row(t).say = say[t] /\ row(t).by = "rule"
                      /\ row(t).revision = Revision(record[t]) + 1
                      /\ row(t).review = "classified" /\ row(t).source = src[t]
  <2> SUFFICES ASSUME NEW t \in todo
               PROVE  /\ row(t) \in Rows /\ row(t).say = say[t] /\ row(t).by = "rule"
                      /\ row(t).revision = Revision(record[t]) + 1
                      /\ row(t).review = "classified" /\ row(t).source = src[t]
    OBVIOUS
  <2>1. row(t) \in Rows /\ row(t).say = say[t] /\ row(t).by = "rule"
        /\ row(t).revision = Revision(record[t]) + 1
    BY <1>0, <1>1, RowType
  <2>2. row(t).review = "classified" /\ row(t).source = src[t]
    BY <1>0 DEF Row
  <2>3. QED
    BY <2>1, <2>2
<1>3. \A t \in Txns : Said(t) \in Say
  BY SaidType
<1>4. n = [Book EXCEPT !.record = recs, !.prior = priors]
  BY BookFields DEF PutByRule, Book
<1> HIDE DEF version, n, row
<1>5. recs \in [Txns -> Rows \cup {None}]
  BY <1>1, <1>2, BookFields DEF Books
<1>6. priors \in [Txns -> SUBSET Say]
  BY <1>1, <1>3, BookFields DEF Books
<1>7. /\ \A t \in todo : recs[t] = row(t)
      /\ \A t \in Txns \ todo : recs[t] = record[t]
  OBVIOUS
<1> HIDE DEF recs, priors
<1>8. n \in Books /\ n.record = recs /\ n.rule = rule /\ n.evidence = evidence
  BY <1>1, <1>4, <1>5, <1>6, BookFields DEF Books
<1>9. \A t \in Txns : Follows(record[t], recs[t])
  <2> SUFFICES ASSUME NEW t \in Txns PROVE Follows(record[t], recs[t])
    OBVIOUS
  <2>1. CASE t \in todo
    <3>1. Revision(record[t]) \in Nat
      BY <1>1, BookFields DEF Books, Rows, Revision
    <3>2. Balanced(row(t))
      BY <1>0, <1>2, <2>1 DEF Balanced
    <3>3. QED
      BY <1>2, <1>7, <2>1, <3>1, <3>2 DEF Follows, Kept
  <2>2. CASE t \notin todo
    BY <1>7, <2>2 DEF Follows, Kept
  <2>3. QED
    BY <2>1, <2>2
<1>10. Sound(n)
  <2>1. Numbered(n) /\ Backed(n)
    BY <1>8, BookFields DEF Sound, Numbered, Backed
  <2>2. ASSUME NEW t \in Txns, RuleRow(recs[t])
        PROVE  LET k == recs[t].say.merchant
               IN  /\ k \in Merchants /\ rule[k].state = "active"
                   /\ Used(recs[t].say.split) = {rule[k].choice}
    <3>1. CASE t \in todo
      BY <1>0, <1>2, <1>7, <3>1
    <3>2. CASE t \notin todo
      BY <1>7, <2>2, <3>2, BookFields DEF Sound, RuleWork
    <3>3. QED
      BY <3>1, <3>2
  <2>3. RuleWork(n)
    BY <1>8, <2>2 DEF RuleWork
  <2>4. QED
    BY <2>1, <2>3 DEF Sound
<1>11. QED
  BY <1>2, <1>7, <1>8, <1>9, <1>10 DEF n, version

-----------------------------------------------------------------------------
(* A committed book *)

\* The shape of what is not in the book.
Shape ==
    /\ source \in [Txns -> Facts \cup {None}]
    /\ archived \subseteq Cats /\ detail \in Nat
    /\ merchant \in [Merchants -> Person]
    /\ alias \in [Labels -> [merchant : Merchants \cup {None}, confirmed : BOOLEAN,
                             revision : Nat]]
    /\ draft \in [Editors -> [txn : Txns, seen : Rows \cup {None}] \cup {None}]
    /\ preview # None =>
          /\ preview \in [merchant : Merchants, version : Nat, applied : BOOLEAN,
                          rows : {preview.rows}]
          /\ \A t \in DOMAIN preview.rows : t \in Txns /\ preview.rows[t].source \in Facts

\* The state's shape is that of the book and that of the rest.
LEMMA ShapeOfState ==
  TypeOK <=> Shape /\ Book \in Books /\ writes \in 0..MaxWrites
  BY DEF TypeOK, Shape, Person

\* A row that follows another is that row, or newer; it is as balanced.
LEMMA FollowsAge ==
  ASSUME NEW r \in Rows \cup {None}, NEW s \in Rows \cup {None}, Follows(r, s)
  PROVE  /\ s = r \/ Revision(r) < Revision(s)
         /\ Balanced(r) => Balanced(s)
<1>1. Revision(r) \in Nat /\ Revision(s) \in Nat
  BY DEF Revision, Rows
<1>2. CASE Kept(r, s)
  BY <1>2 DEF Kept, Balanced, Revision
<1>3. CASE ~Kept(r, s)
  <2>1. PICK w \in Rows : Balanced(w) /\ w.revision > Revision(r) /\ Kept(w, s)
    BY <1>3 DEF Follows
  <2>2. s \in Rows /\ Revision(s) >= w.revision /\ w.revision \in Nat
    BY <2>1, NoRowAssumption DEF Kept, Revision, Rows
  <2>3. Balanced(s)
    BY <2>1 DEF Kept, Balanced
  <2>4. QED
    BY <1>1, <2>1, <2>2, <2>3
<1>4. QED
  BY <1>2, <1>3

\* Committing a sound book nobody disagrees with keeps the invariant.
LEMMA CommitSound ==
  ASSUME IInv, writes < MaxWrites, NEW b \in Books, Commit(b), Sound(b),
         \A m \in Merchants : Unanimous(b, merchant', m),
         \A t \in Txns : Follows(record[t], b.record[t]),
         Shape',
         \A t \in Txns : source[t] \in Facts => source'[t] \in Facts,
         \A e \in Editors : draft'[e] \in {None, draft[e]}
  PROVE  IInv'
<1>1. /\ record' = b.record /\ rule' = b.rule /\ evidence' = b.evidence
      /\ prior' = b.prior /\ writes' = writes + 1
  BY DEF Commit
<1>2. Book' = b
  BY <1>1 DEF Book, Books
<1>3. TypeOK'
  <2>1. writes' \in 0..MaxWrites
    BY <1>1, HouseholdConstants DEF IInv, TypeOK
  <2>2. QED
    BY <1>2, <2>1, ShapeOfState DEF Shape, TypeOK, Person
<1>4. ActiveIsUnanimous'
  BY <1>1 DEF ActiveIsUnanimous, Unanimous
<1>5. \A t \in Txns : record[t] \in Rows \cup {None} /\ b.record[t] \in Rows \cup {None}
  BY BookFields DEF IInv, TypeOK, Books
<1>6. DraftsAge'
  <2> SUFFICES ASSUME NEW e \in Editors, draft'[e] # None
               PROVE  /\ source'[draft'[e].txn] \in Facts
                      /\ \/ draft'[e].seen = record'[draft'[e].txn]
                         \/ Revision(draft'[e].seen) < Revision(record'[draft'[e].txn])
    BY DEF DraftsAge
  <2> DEFINE d == draft[e]
  <2>1. draft'[e] = d /\ d # None /\ d.txn \in Txns /\ d.seen \in Rows \cup {None}
    BY DEF IInv, TypeOK
  <2>2. /\ source[d.txn] \in Facts
        /\ d.seen = record[d.txn] \/ Revision(d.seen) < Revision(record[d.txn])
    BY <2>1 DEF IInv, DraftsAge
  <2>3. b.record[d.txn] = record[d.txn] \/ Revision(record[d.txn]) < Revision(b.record[d.txn])
    BY <1>5, <2>1, FollowsAge
  <2>4. /\ Revision(d.seen) \in Nat /\ Revision(record[d.txn]) \in Nat
        /\ Revision(b.record[d.txn]) \in Nat
    BY <1>5, <2>1 DEF Revision, Rows
  <2> HIDE DEF d
  <2>5. QED
    BY <1>1, <2>1, <2>2, <2>3, <2>4
<1>7. \A t \in Txns : Balanced(record'[t])
  BY <1>1, <1>5, FollowsAge DEF IInv
<1>8. Sound(Book')
  BY <1>2
<1>9. QED
  BY <1>3, <1>4, <1>6, <1>7, <1>8, <1>2 DEF IInv

\* What a person decided is said of a movement until an editor changes it.
SeenStep ==
    \A t \in Txns : (Manual(t) /\ record'[t].say # record[t].say) =>
        \E e \in Editors : /\ draft[e] # None /\ draft'[e] = None
                           /\ draft[e] = [txn |-> t, seen |-> record[t]]

\* A preview that comes to be applied is applied as it was listed.
AppliedStep ==
    (preview # None /\ preview' # None /\ ~preview.applied /\ preview'.applied) =>
        \A t \in Txns :
           IF t \in DOMAIN preview.rows
           THEN /\ source[t] = preview.rows[t].source
                /\ Revision(record[t]) = preview.rows[t].revision
                /\ alias[source[t].label].revision = preview.rows[t].alias
                /\ record'[t].by = "rule"
           ELSE record'[t] = record[t]

\* A row that is kept says what it said.
LEMMA KeptSays ==
  ASSUME NEW r, NEW s, Kept(r, s)
  PROVE  s.say = r.say /\ Follows(r, s)
  BY DEF Kept, Follows

-----------------------------------------------------------------------------
(* The actions *)

\* A form with a detail linked, or with a merchant named, is a form.
LEMMA FormParts ==
  ASSUME NEW say \in Say
  PROVE  /\ \A n \in Nat : [say EXCEPT !.detail = n] \in Say
         /\ \A m \in Merchants, sure \in BOOLEAN :
              [say EXCEPT !.merchant = m, !.identity = sure] \in Say
  BY DEF Say

\* What an editor submits is a form.
LEMMA FormsSay ==
  ASSUME TypeOK, NEW t \in Txns, source[t] \in Facts
  PROVE  Forms(t) \subseteq Say
<1>1. detail \in Nat /\ source[t].amount \in Int /\ Sign(t) \in Int /\ Kind(t) \in Treatments
  BY HouseholdConstants DEF TypeOK, Facts, Sign, Kind, Treatments
<1>2. /\ Blank = [treatment |-> "unclassified", merchant |-> None, identity |-> FALSE,
                  split |-> NoSplit, detail |-> 0]
      /\ NoSplit \in [Cats -> Int]
  BY DEF Blank, NoSplit
<1>3. Plain(t) \subseteq Say
  <2> SUFFICES ASSUME NEW c \in Cats
               PROVE  [Blank EXCEPT !.treatment = Kind(t), !.split[c] = source[t].amount] \in Say
    BY DEF Plain
  <2> DEFINE n == source[t].amount
             split == [NoSplit EXCEPT ![c] = n]
  <2>1. split \in [Cats -> Int]
    BY <1>1, <1>2
  <2>2. [Blank EXCEPT !.treatment = Kind(t), !.split[c] = n]
          = [Blank EXCEPT !.treatment = Kind(t), !.split = split]
    BY DEF Blank
  <2> HIDE DEF split, n
  <2>3. [Blank EXCEPT !.treatment = Kind(t), !.split = split] \in Say
    BY <1>1, <2>1, BlankSay DEF Say
  <2>4. QED
    BY <2>2, <2>3 DEF n
<1>4. Mixed(t) \subseteq Say
  <2> SUFFICES ASSUME NEW c \in Cats, NEW d \in Cats
               PROVE  Over(t, c, d) \in Say
    BY DEF Mixed
  <2> DEFINE n == source[t].amount - Sign(t)
             k == Sign(t)
             split == [[NoSplit EXCEPT ![c] = n] EXCEPT ![d] = k]
  <2>1. n \in Int /\ k \in Int
    BY <1>1
  <2>2. Over(t, c, d) = [Blank EXCEPT !.treatment = Kind(t), !.split = split]
    BY DEF Over, Blank
  <2>3. split \in [Cats -> Int]
    <3> HIDE DEF n, k
    <3>1. QED
      BY <1>2, <2>1
  <2> HIDE DEF split, n, k
  <2>4. [Blank EXCEPT !.treatment = Kind(t), !.split = split] \in Say
    BY <1>1, <2>3, BlankSay DEF Say
  <2>5. QED
    BY <2>2, <2>4
<1>5. [Blank EXCEPT !.treatment = "transfer"] \in Say
  BY BlankSay DEF Say, Treatments
<1>6. \A say \in Plain(t) : [say EXCEPT !.detail = detail] \in Say
  BY <1>1, <1>3, FormParts
<1>7. \A say \in Plain(t) \cup Mixed(t), m \in Merchants, sure \in BOOLEAN :
        Naming(say, m, sure) \in Say
  BY <1>3, <1>4, FormParts DEF Naming
<1> DEFINE named == {Naming(say, m, sure) : say \in Plain(t), m \in Merchants, sure \in BOOLEAN}
           split == {Confirming(say, m) : say \in Mixed(t), m \in Merchants}
           linked == {[say EXCEPT !.detail = detail] : say \in Plain(t)}
<1>8. named \subseteq Say
  BY <1>7
<1>9. split \subseteq Say
  <2>1. \A say \in Mixed(t), m \in Merchants : Confirming(say, m) \in Say
    BY <1>7 DEF Confirming
  <2>2. QED
    BY <2>1
<1>10. linked \subseteq Say
  BY <1>6
<1>11. Forms(t) = Plain(t) \cup {[Blank EXCEPT !.treatment = "transfer"]}
                  \cup linked \cup named \cup split
  BY DEF Forms
<1> HIDE DEF named, split, linked
<1>12. QED
  BY <1>3, <1>5, <1>8, <1>9, <1>10, <1>11

\* A write that leaves the book alone.
LEMMA SameBook ==
  ASSUME IInv, writes < MaxWrites, Commit(Book), Shape',
         merchant' = merchant, source' = source, draft' = draft
  PROVE  IInv' /\ SeenStep /\ record' = record
<1>1. record' = record
  BY BookFields DEF Commit
<1>2. \A t \in Txns : Follows(record[t], Book.record[t])
  BY BookFields DEF Follows, Kept
<1>3. \A m \in Merchants : Unanimous(Book, merchant', m)
  BY BookFields DEF IInv, ActiveIsUnanimous, Unanimous
<1>4. Book \in Books /\ Sound(Book)
  BY DEF IInv, TypeOK
<1>5. IInv'
  BY <1>2, <1>3, <1>4, CommitSound
<1>6. QED
  BY <1>1, <1>5 DEF SeenStep

\* A write that only sends rows to review, whatever it does to the rules.
LEMMA KeptBook ==
  ASSUME IInv, writes < MaxWrites, NEW b \in Books, Commit(b), Sound(b), Shape',
         \A m \in Merchants : Unanimous(b, merchant', m),
         \A t \in Txns : Kept(record[t], b.record[t]),
         \A t \in Txns : source[t] \in Facts => source'[t] \in Facts,
         draft' = draft
  PROVE  IInv' /\ SeenStep
<1>1. \A t \in Txns : Follows(record[t], b.record[t]) /\ b.record[t].say = record[t].say
  BY KeptSays
<1>2. IInv'
  BY <1>1, CommitSound
<1>3. SeenStep
  BY <1>1 DEF SeenStep, Commit
<1>4. QED
  BY <1>2, <1>3

\* Opening a form changes no row, and the form holds the row of now.
LEMMA OpenStep ==
  ASSUME IInv, NEW e \in Editors, NEW t \in Txns, Open(e, t)
  PROVE  IInv' /\ SeenStep /\ AppliedStep
<1>1. /\ draft' = [draft EXCEPT ![e] = [txn |-> t, seen |-> record[t]]]
      /\ source[t] \in Facts /\ preview' = preview /\ record' = record /\ source' = source
      /\ UNCHANGED <<archived, merchant, alias, detail, rule, evidence, prior, writes>>
  BY DEF Open, book, IInv, TypeOK
<1>2. record[t] \in Rows \cup {None}
  BY BookFields DEF IInv, TypeOK, Books
<1>3. TypeOK'
  <2>1. draft' \in [Editors -> [txn : Txns, seen : Rows \cup {None}] \cup {None}]
    BY <1>1, <1>2 DEF IInv, TypeOK
  <2>2. Shape' /\ Book' = Book
    BY <1>1, <2>1 DEF IInv, TypeOK, Shape, Person, Book
  <2>3. QED
    BY <1>1, <2>2, ShapeOfState DEF IInv, TypeOK, Shape, Person
<1>4. DraftsAge'
  <2> SUFFICES ASSUME NEW f \in Editors, draft'[f] # None
               PROVE  /\ source[draft'[f].txn] \in Facts
                      /\ \/ draft'[f].seen = record[draft'[f].txn]
                         \/ Revision(draft'[f].seen) < Revision(record[draft'[f].txn])
    BY <1>1 DEF DraftsAge
  <2>1. draft'[f] = IF f = e THEN [txn |-> t, seen |-> record[t]] ELSE draft[f]
    BY <1>1 DEF IInv, TypeOK
  <2>2. QED
    BY <1>1, <2>1 DEF IInv, DraftsAge
<1>5. Book' = Book /\ ActiveIsUnanimous'
  BY <1>1 DEF IInv, Book, ActiveIsUnanimous
<1>6. IInv'
  BY <1>1, <1>3, <1>4, <1>5 DEF IInv
<1>7. QED
  BY <1>1, <1>6 DEF SeenStep, AppliedStep

\* A preview that is not newly applied was not applied.
LEMMA SamePreview ==
  ASSUME preview' = preview
  PROVE  AppliedStep
  BY DEF AppliedStep

\* A valid manual row is balanced.
LEMMA ManualRow ==
  ASSUME IInv, NEW t \in Txns, source[t] \in Facts, NEW say \in Say, Valid(t, say)
  PROVE  LET row == Row(t, source, say, 0)
         IN  row \in Rows /\ Balanced(row) /\ row.revision > Revision(record[t])
<1> DEFINE row == Row(t, source, say, 0)
<1>1. row \in Rows /\ row.say = say /\ row.revision = Revision(record[t]) + 1
  BY RowType DEF IInv
<1>2. row.source = source[t]
  BY DEF Row
<1>3. say.treatment \in {"expense", "income"} => Total(say.split) = source[t].amount
  BY DEF Valid, ValidSplit
<1>4. Revision(record[t]) \in Nat
  BY BookFields DEF IInv, TypeOK, Books, Rows, Revision
<1> HIDE DEF row
<1>5. QED
  BY <1>1, <1>2, <1>3, <1>4 DEF Balanced, row

\* A form that is saved holds the row it replaces.
LEMMA FreshDraft ==
  ASSUME IInv, NEW e \in Editors, draft[e] # None,
         CheckRevision(draft[e].txn, draft[e].seen)
  PROVE  /\ draft[e].txn \in Txns /\ source[draft[e].txn] \in Facts
         /\ draft[e] = [txn |-> draft[e].txn, seen |-> record[draft[e].txn]]
<1>1. draft[e] \in [txn : Txns, seen : Rows \cup {None}]
  BY DEF IInv, TypeOK
<1>2. source[draft[e].txn] \in Facts
  BY <1>1 DEF IInv, DraftsAge, TypeOK
<1>3. draft[e].seen = record[draft[e].txn]
  <2>1. Revision(record[draft[e].txn]) \in Nat
    BY <1>1, BookFields DEF IInv, TypeOK, Books, Rows, Revision
  <2>2. QED
    BY <2>1 DEF IInv, DraftsAge, CheckRevision
<1>4. QED
  BY <1>1, <1>2, <1>3

\* A write by an editor to the movement of its form.
LEMMA EditorWrite ==
  ASSUME IInv, writes < MaxWrites, NEW e \in Editors, draft[e] # None,
         CheckRevision(draft[e].txn, draft[e].seen),
         NEW b \in Books, Commit(b), Sound(b),
         \A m \in Merchants : Unanimous(b, merchant, m),
         \A u \in Txns \ {draft[e].txn} : Kept(record[u], b.record[u]),
         Follows(record[draft[e].txn], b.record[draft[e].txn]),
         draft' = [draft EXCEPT ![e] = None],
         UNCHANGED <<source, archived, merchant, alias, detail, preview>>
  PROVE  IInv' /\ SeenStep /\ AppliedStep
<1> DEFINE t == draft[e].txn
<1>1. t \in Txns /\ draft[e] = [txn |-> t, seen |-> record[t]]
  BY FreshDraft
<1>2. /\ draft' \in [Editors -> [txn : Txns, seen : Rows \cup {None}] \cup {None}]
      /\ \A f \in Editors : draft'[f] \in {None, draft[f]}
      /\ draft'[e] = None
  BY DEF IInv, TypeOK
<1>3. Shape'
  BY <1>2 DEF IInv, TypeOK, Shape, Person
<1>4. \A u \in Txns : Follows(record[u], b.record[u])
  BY KeptSays
<1>5. IInv'
  BY <1>2, <1>3, <1>4, CommitSound
<1>6. SeenStep
  BY <1>1, <1>2, KeptSays DEF SeenStep, Commit
<1>7. QED
  BY <1>5, <1>6, SamePreview

\* Saving a form replaces the row it holds.
LEMMA SaveStep ==
  ASSUME IInv, writes < MaxWrites, NEW e \in Editors, NEW say,
         draft[e] # None => say \in Forms(draft[e].txn), SaveClassification(e, say)
  PROVE  IInv' /\ SeenStep /\ AppliedStep
<1> DEFINE t == draft[e].txn
           b == PutManual(t, say)
<1>1. /\ draft[e] # None /\ CheckRevision(t, draft[e].seen) /\ Valid(t, say) /\ Commit(b)
      /\ draft' = [draft EXCEPT ![e] = None]
      /\ UNCHANGED <<source, archived, merchant, alias, detail, preview>>
  BY DEF SaveClassification
<1>2. t \in Txns /\ source[t] \in Facts
  BY <1>1, FreshDraft
<1>3. say \in Say
  BY <1>1, <1>2, FormsSay DEF IInv
<1> HIDE DEF t
<1>4. /\ b \in Books /\ Sound(b)
      /\ \A m \in Merchants : Unanimous(b, merchant, m)
      /\ \A u \in Txns \ {t} : Kept(record[u], b.record[u])
      /\ Kept(Row(t, source, say, 0), b.record[t])
  BY <1>2, <1>3, PutManualSound DEF IInv
<1>5. LET row == Row(t, source, say, 0)
      IN  row \in Rows /\ Balanced(row) /\ row.revision > Revision(record[t])
  BY <1>1, <1>2, <1>3, ManualRow
<1> HIDE DEF b
<1>6. Follows(record[t], b.record[t])
  BY <1>4, <1>5 DEF Follows
<1>7. QED
  BY <1>1, <1>4, <1>6, EditorWrite DEF t

\* Undoing restores a decision as a manual one, and disables the rule it left.
LEMMA UndoStep ==
  ASSUME IInv, writes < MaxWrites, NEW e \in Editors, NEW say, UndoClassification(e, say)
  PROVE  IInv' /\ SeenStep /\ AppliedStep
<1> DEFINE t == draft[e].txn
           left == record[t].say.merchant
           p == PutManual(t, say)
           b == IF left = None THEN p ELSE DisableRule(p, left, "undone")
<1>1. /\ draft[e] # None /\ CheckRevision(t, draft[e].seen) /\ Valid(t, say) /\ Commit(b)
      /\ record[t] # None /\ say \in prior[t]
      /\ draft' = [draft EXCEPT ![e] = None]
      /\ UNCHANGED <<source, archived, merchant, alias, detail, preview>>
  BY DEF UndoClassification
<1>2. t \in Txns /\ source[t] \in Facts
  BY <1>1, FreshDraft
<1> HIDE DEF t
<1>3. say \in Say /\ left \in Merchants \cup {None}
  BY <1>1, <1>2, BookFields DEF IInv, TypeOK, Books, Rows, Say
<1>4. /\ p \in Books /\ Sound(p)
      /\ \A m \in Merchants : Unanimous(p, merchant, m)
      /\ \A u \in Txns \ {t} : Kept(record[u], p.record[u])
      /\ Kept(Row(t, source, say, 0), p.record[t])
  BY <1>2, <1>3, PutManualSound DEF IInv
<1>5. LET row == Row(t, source, say, 0)
      IN  row \in Rows /\ Balanced(row) /\ row.revision > Revision(record[t])
  BY <1>1, <1>2, <1>3, ManualRow
<1> HIDE DEF p, left
<1>6. /\ b \in Books /\ Sound(b)
      /\ \A m \in Merchants : Unanimous(b, merchant, m)
      /\ \A u \in Txns : Kept(p.record[u], b.record[u])
  <2>1. CASE left = None
    BY <1>4, <2>1 DEF Kept
  <2>2. CASE left # None
    <3>1. left \in Merchants /\ "undone" \in Reasons /\ b = DisableRule(p, left, "undone")
      BY <1>3, <2>2 DEF Reasons
    <3> HIDE DEF b
    <3>2. Succeeds(b, p, left, "disabled", None)
      BY <1>4, <3>1, DisableSound
    <3>3. QED
      BY <1>4, <3>2 DEF Succeeds, Unanimous
  <2>3. QED
    BY <2>1, <2>2
<1> HIDE DEF b
<1>7. \A u \in Txns : /\ record[u] \in Rows \cup {None} /\ p.record[u] \in Rows \cup {None}
                       /\ b.record[u] \in Rows \cup {None}
  BY <1>4, <1>6, BookFields DEF IInv, TypeOK, Books
<1>8. \A u \in Txns \ {t} : Kept(record[u], b.record[u])
  BY <1>4, <1>6, <1>7, KeptTrans
<1>9. Follows(record[t], b.record[t])
  <2> DEFINE row == Row(t, source, say, 0)
  <2>1. row \in Rows /\ Balanced(row) /\ row.revision > Revision(record[t])
    BY <1>5
  <2> HIDE DEF row
  <2>2. Kept(row, b.record[t])
    BY <1>2, <1>4, <1>6, <1>7, <2>1, KeptTrans DEF row
  <2>3. QED
    BY <2>1, <2>2 DEF Follows
<1>10. QED
  BY <1>1, <1>6, <1>8, <1>9, EditorWrite DEF t

\* Archiving a category, or a new payment detail, changes no row.
LEMMA TablesStep ==
  ASSUME IInv, writes < MaxWrites,
         (\E c \in Cats : SaveCategory(c)) \/ UpsertPaymentDetail
  PROVE  IInv' /\ SeenStep /\ AppliedStep
<1>1. /\ Commit(Book) /\ UNCHANGED <<source, merchant, alias, preview, draft>>
      /\ archived' \subseteq Cats /\ detail' \in Nat
  <2>1. ASSUME NEW c \in Cats, SaveCategory(c)
        PROVE  /\ Commit(Book) /\ UNCHANGED <<source, merchant, alias, preview, draft>>
               /\ archived' \subseteq Cats /\ detail' \in Nat
    BY <2>1 DEF SaveCategory, IInv, TypeOK
  <2>2. ASSUME UpsertPaymentDetail
        PROVE  /\ Commit(Book) /\ UNCHANGED <<source, merchant, alias, preview, draft>>
               /\ archived' \subseteq Cats /\ detail' \in Nat
    BY <2>2 DEF UpsertPaymentDetail, IInv, TypeOK
  <2>3. QED
    BY <2>1, <2>2
<1>2. Shape'
  BY <1>1 DEF IInv, TypeOK, Shape, Person
<1>3. QED
  BY <1>1, <1>2, SameBook, SamePreview

\* A merchant's rule is judged again when its row is saved.
LEMMA MerchantStep ==
  ASSUME IInv, writes < MaxWrites, NEW m \in Merchants, NEW row \in Person,
         SaveMerchant(m, row)
  PROVE  IInv' /\ SeenStep /\ AppliedStep
<1> DEFINE b == Learn(Book, merchant', m)
<1>1. /\ merchant' = [merchant EXCEPT ![m] = row] /\ Commit(b)
      /\ UNCHANGED <<source, archived, alias, detail, preview, draft>>
  BY DEF SaveMerchant
<1>2. /\ merchant' \in [Merchants -> Person]
      /\ \A k \in Merchants \ {m} : merchant'[k] = merchant[k]
  BY <1>1 DEF IInv, TypeOK, Person
<1>3. Shape'
  BY <1>1, <1>2 DEF IInv, TypeOK, Shape
<1>4. /\ b \in Books /\ Sound(b) /\ Unanimous(b, merchant', m)
      /\ \A k \in Merchants \ {m} : b.rule[k] = Book.rule[k]
      /\ b.evidence = Book.evidence
      /\ \A t \in Txns : Kept(Book.record[t], b.record[t])
  BY <1>2, LearnSound DEF IInv, TypeOK
<1> HIDE DEF b
<1>5. \A k \in Merchants : Unanimous(b, merchant', k)
  BY <1>2, <1>4, BookFields DEF IInv, ActiveIsUnanimous, Unanimous
<1>6. QED
  BY <1>1, <1>3, <1>4, <1>5, BookFields, KeptBook, SamePreview

\* Disabling a rule leaves the book sound and the others' rules as they were.
LEMMA DisableOfBook ==
  ASSUME IInv, NEW m \in Merchants, NEW why \in Reasons
  PROVE  LET b == DisableRule(Book, m, why)
         IN  /\ b \in Books /\ Sound(b)
             /\ \A k \in Merchants : Unanimous(b, merchant, k)
             /\ \A t \in Txns : Kept(record[t], b.record[t])
<1> DEFINE b == DisableRule(Book, m, why)
<1>1. Succeeds(b, Book, m, "disabled", None)
  BY DisableSound DEF IInv, TypeOK
<1> HIDE DEF b
<1>2. \A k \in Merchants : Unanimous(b, merchant, k)
  BY <1>1, BookFields DEF Succeeds, IInv, ActiveIsUnanimous, Unanimous
<1>3. QED
  BY <1>1, <1>2, BookFields DEF Succeeds, b

\* The book as it stands is one that keeps the invariant.
LEMMA BookItself ==
  ASSUME IInv
  PROVE  /\ Book \in Books /\ Sound(Book)
         /\ \A k \in Merchants : Unanimous(Book, merchant, k)
         /\ \A t \in Txns : Kept(record[t], Book.record[t])
  BY BookFields DEF IInv, TypeOK, ActiveIsUnanimous, Unanimous, Kept

\* Correcting an alias disables the rule of the merchant it named.
LEMMA AliasStep ==
  ASSUME IInv, writes < MaxWrites, NEW l \in Labels, NEW m \in Merchants,
         NEW ok \in BOOLEAN, SaveAlias(l, m, ok)
  PROVE  IInv' /\ SeenStep /\ AppliedStep
<1> DEFINE old == alias[l].merchant
           b == IF old \in {None, m} THEN Book ELSE DisableRule(Book, old, "alias corrected")
<1>1. /\ alias' = [alias EXCEPT ![l] = [merchant |-> m, confirmed |-> ok,
                                        revision |-> @.revision + 1]]
      /\ Commit(b)
      /\ UNCHANGED <<source, archived, merchant, detail, preview, draft>>
  BY DEF SaveAlias
<1>2. alias' \in [Labels -> [merchant : Merchants \cup {None}, confirmed : BOOLEAN,
                             revision : Nat]]
  <2> DEFINE row == [merchant |-> m, confirmed |-> ok, revision |-> alias[l].revision + 1]
  <2>1. row \in [merchant : Merchants \cup {None}, confirmed : BOOLEAN, revision : Nat]
    BY DEF IInv, TypeOK
  <2>2. alias' = [alias EXCEPT ![l] = row]
    BY <1>1
  <2> HIDE DEF row
  <2>3. QED
    BY <2>1, <2>2 DEF IInv, TypeOK
<1>3. Shape'
  BY <1>1, <1>2 DEF IInv, TypeOK, Shape, Person
<1>4. old \in Merchants \cup {None} /\ "alias corrected" \in Reasons
  BY DEF IInv, TypeOK, Reasons
<1> HIDE DEF old
<1>5. /\ b \in Books /\ Sound(b)
      /\ \A k \in Merchants : Unanimous(b, merchant, k)
      /\ \A t \in Txns : Kept(record[t], b.record[t])
  BY <1>4, BookItself, DisableOfBook
<1> HIDE DEF b
<1>6. QED
  BY <1>1, <1>3, <1>5, KeptBook, SamePreview

\* The household disables a rule, or has it judged again.
LEMMA ControlStep ==
  ASSUME IInv, writes < MaxWrites, NEW m \in Merchants, NEW disabled \in BOOLEAN,
         ControlRule(m, disabled)
  PROVE  IInv' /\ SeenStep /\ AppliedStep
<1> DEFINE r == [NoRule EXCEPT !.state = "insufficient", !.count = rule[m].count,
                               !.why = "re-evaluation"]
           reset == NewRule(Book, m, r)
           b == IF disabled THEN DisableRule(Book, m, "disabled by household")
                ELSE Learn(reset, merchant, m)
<1>1. Commit(b) /\ UNCHANGED <<source, archived, merchant, alias, detail, preview, draft>>
  BY DEF ControlRule
<1>2. Shape'
  BY <1>1 DEF IInv, TypeOK, Shape, Person
<1>3. r \in Rules /\ r.state = "insufficient" /\ "disabled by household" \in Reasons
  <2>1. rule[m].count \in Nat
    BY BookFields DEF IInv, TypeOK, Books, Rules
  <2>2. QED
    BY <2>1 DEF NoRule, Rules, RuleStates, Reasons
<1> HIDE DEF r
<1>4. /\ reset \in Books /\ Sound(reset)
      /\ \A k \in Merchants \ {m} : reset.rule[k] = Book.rule[k]
      /\ reset.evidence = Book.evidence
      /\ \A t \in Txns : Kept(Book.record[t], reset.record[t])
  <2>1. Succeeds(reset, Book, m, r.state, r.choice)
    BY <1>3, NewRuleSound DEF IInv, TypeOK
  <2> HIDE DEF reset
  <2>2. QED
    BY <2>1 DEF Succeeds
<1>5. /\ b \in Books /\ Sound(b)
      /\ \A k \in Merchants : Unanimous(b, merchant, k)
      /\ \A t \in Txns : Kept(record[t], b.record[t])
  <2>1. CASE disabled
    BY <1>3, <2>1, DisableOfBook
  <2>2. CASE ~disabled
    <3>1. b = Learn(reset, merchant, m)
      BY <2>2
    <3> HIDE DEF b, reset
    <3>2. /\ b \in Books /\ Sound(b) /\ Unanimous(b, merchant, m)
          /\ \A k \in Merchants \ {m} : b.rule[k] = reset.rule[k]
          /\ b.evidence = reset.evidence
          /\ \A t \in Txns : Kept(reset.record[t], b.record[t])
      BY <1>4, <3>1, LearnSound DEF IInv, TypeOK, Person
    <3>3. \A k \in Merchants : Unanimous(b, merchant, k)
      BY <1>4, <3>2, BookFields DEF IInv, ActiveIsUnanimous, Unanimous
    <3>4. \A t \in Txns : /\ record[t] \in Rows \cup {None}
                          /\ reset.record[t] \in Rows \cup {None}
                          /\ b.record[t] \in Rows \cup {None}
      BY <1>4, <3>2, BookFields DEF IInv, TypeOK, Books
    <3>5. \A t \in Txns : Kept(record[t], b.record[t])
      BY <1>4, <3>2, <3>4, BookFields, KeptTrans
    <3>6. QED
      BY <3>2, <3>3, <3>5
  <2>3. QED
    BY <2>1, <2>2
<1> HIDE DEF b
<1>6. QED
  BY <1>1, <1>2, <1>5, KeptBook, SamePreview

\* A preview lists movements the bank has sent.
LEMMA PreviewStep ==
  ASSUME IInv, writes < MaxWrites, NEW m \in Merchants, PreviewRule(m)
  PROVE  IInv' /\ SeenStep /\ AppliedStep
<1> DEFINE rows == [t \in Candidates(m) |-> Candidate(t)]
<1>1. /\ preview' = [merchant |-> m, version |-> rule[m].version, applied |-> FALSE,
                     rows |-> rows]
      /\ Commit(Book) /\ UNCHANGED <<source, archived, merchant, alias, detail, draft>>
  BY DEF PreviewRule
<1>2. \A t \in DOMAIN rows : t \in Txns /\ rows[t].source \in Facts
  BY DEF Candidates, Candidate, Matches, IInv, TypeOK
<1>3. rule[m].version \in Nat
  BY BookFields DEF IInv, TypeOK, Books, Rules
<1> HIDE DEF rows
<1>4. Shape'
  BY <1>1, <1>2, <1>3 DEF IInv, TypeOK, Shape, Person
<1>5. IInv' /\ SeenStep
  BY <1>1, <1>4, SameBook
<1>6. AppliedStep
  BY <1>1 DEF AppliedStep
<1>7. QED
  BY <1>5, <1>6

\* Applying a preview writes the movements it lists, and no other.
LEMMA ApplyStep ==
  ASSUME IInv, writes < MaxWrites, ApplyPreview
  PROVE  IInv' /\ SeenStep /\ AppliedStep
<1> DEFINE m == preview.merchant
           todo == DOMAIN preview.rows
           say == [t \in todo |-> RuleForm(m, rule[m].choice, preview.rows[t].source.amount)]
           b == PutByRule(todo, source, say, rule[m].version)
<1>1. /\ preview # None /\ ~preview.applied /\ rule[m].state = "active"
      /\ \A t \in todo : StillCandidate(t)
      /\ Commit(b) /\ preview' = [preview EXCEPT !.applied = TRUE]
      /\ UNCHANGED <<source, archived, merchant, alias, detail, draft>>
  BY DEF ApplyPreview
<1>2. /\ preview \in [merchant : Merchants, version : Nat, applied : BOOLEAN,
                      rows : {preview.rows}]
      /\ m \in Merchants /\ todo \in SUBSET Txns
  BY <1>1 DEF IInv, TypeOK
<1>3. \A t \in todo : /\ Matches(source, m, t) /\ Candidate(t) = preview.rows[t]
                      /\ source[t] \in Facts
  BY <1>1, <1>2 DEF StillCandidate, Candidates, Matches, IInv, TypeOK
<1>4. \A t \in todo : /\ source[t] = preview.rows[t].source
                      /\ Revision(record[t]) = preview.rows[t].revision
                      /\ alias[source[t].label].revision = preview.rows[t].alias
  <2> SUFFICES ASSUME NEW t \in todo
               PROVE  /\ source[t] = preview.rows[t].source
                      /\ Revision(record[t]) = preview.rows[t].revision
                      /\ alias[source[t].label].revision = preview.rows[t].alias
    OBVIOUS
  <2>1. preview.rows[t] = [revision |-> Revision(record[t]), source |-> source[t],
                           alias |-> alias[source[t].label].revision]
    BY <1>3 DEF Candidate
  <2>2. QED
    BY <2>1
<1>5. rule[m].choice \in Cats
  BY <1>1, <1>2, BookFields DEF IInv, Sound, Backed, TypeOK, Books, Evidences
<1>6. \A t \in todo : /\ say[t] \in Say /\ say[t].merchant = m
                      /\ say[t].treatment \in {"expense", "income"}
                      /\ Used(say[t].split) = {rule[m].choice}
                      /\ Total(say[t].split) = source[t].amount
  <2> SUFFICES ASSUME NEW t \in todo
               PROVE  /\ say[t] \in Say /\ say[t].merchant = m
                      /\ say[t].treatment \in {"expense", "income"}
                      /\ Used(say[t].split) = {rule[m].choice}
                      /\ Total(say[t].split) = source[t].amount
    OBVIOUS
  <2>1. say[t] = RuleForm(m, rule[m].choice, source[t].amount)
    BY <1>4
  <2>2. source[t].amount \in Int \ {0}
    BY <1>3, HouseholdConstants DEF Facts
  <2> HIDE DEF say, m
  <2>3. SaysWhole(RuleForm(m, rule[m].choice, source[t].amount), m, rule[m].choice,
                  source[t].amount)
    BY <1>2, <1>5, <2>2, RuleFormSays
  <2>4. QED
    BY <2>1, <2>3 DEF SaysWhole
<1> HIDE DEF say
<1>7. /\ b \in Books /\ Sound(b) /\ b.rule = rule /\ b.evidence = evidence
      /\ \A t \in Txns : Follows(record[t], b.record[t])
      /\ \A t \in todo : b.record[t].by = "rule"
      /\ \A t \in Txns \ todo : b.record[t] = record[t]
  <2>1. SaidByRule(todo, source, say, m)
    BY <1>3, <1>6 DEF SaidByRule
  <2> HIDE DEF todo, m
  <2>2. QED
    BY <1>1, <1>2, <2>1, PutByRuleSound DEF IInv
<1> HIDE DEF b
<1>8. preview' \in [merchant : Merchants, version : Nat, applied : BOOLEAN,
                    rows : {preview'.rows}] /\ preview'.rows = preview.rows
  BY <1>1, <1>2
<1>9. Shape'
  BY <1>1, <1>8 DEF IInv, TypeOK, Shape, Person
<1>10. \A k \in Merchants : Unanimous(b, merchant', k)
  BY <1>1, <1>7 DEF IInv, ActiveIsUnanimous, Unanimous
<1>11. IInv'
  BY <1>1, <1>7, <1>9, <1>10, CommitSound
<1>12. SeenStep
  BY <1>1, <1>3, <1>7 DEF SeenStep, Manual, Matches, Commit
<1>13. AppliedStep
  BY <1>1, <1>4, <1>7 DEF AppliedStep, Commit
<1>14. QED
  BY <1>11, <1>12, <1>13

\* A movement that arrives is classified by the active rule of its alias.
LEMMA ClassifyNewSound ==
  ASSUME IInv, NEW t \in Txns, NEW src, src[t] \in Facts
  PROVE  LET b == ClassifyNew(src, t)
         IN  /\ b \in Books /\ Sound(b) /\ b.rule = rule /\ b.evidence = evidence
             /\ \A u \in Txns : Follows(record[u], b.record[u])
             /\ \A u \in Txns : Manual(u) => b.record[u] = record[u]
<1> DEFINE m == alias[src[t].label].merchant
           c == rule[m].choice
           say == [x \in {t} |-> RuleForm(m, c, src[t].amount)]
           written == PutByRule({t}, src, say, rule[m].version)
           hit == /\ m # None /\ alias[src[t].label].confirmed /\ rule[m].state = "active"
                  /\ Matches(src, m, t) /\ c \notin archived
<1>1. ClassifyNew(src, t) = IF hit THEN written ELSE Book
  BY DEF ClassifyNew
<1>2. CASE hit
  <2>1. m \in Merchants
    BY <1>2 DEF IInv, TypeOK, Facts
  <2>2. c \in Cats
    BY <1>2, <2>1, BookFields DEF IInv, Sound, Backed, TypeOK, Books, Evidences
  <2>3. src[t].amount \in Int \ {0}
    BY HouseholdConstants DEF Facts
  <2>4. say[t] = RuleForm(m, c, src[t].amount)
    OBVIOUS
  <2>5. record[t] # None => record[t].by # "manual"
    BY <1>2 DEF Matches
  <2>6. rule[m].state = "active"
    BY <1>2
  <2> HIDE DEF m, say, hit
  <2>7. /\ say[t] \in Say /\ say[t].merchant = m
        /\ say[t].treatment \in {"expense", "income"}
        /\ Used(say[t].split) = {c} /\ Total(say[t].split) = src[t].amount
    <3> HIDE DEF c
    <3>1. SaysWhole(RuleForm(m, c, src[t].amount), m, c, src[t].amount)
      BY <2>1, <2>2, <2>3, RuleFormSays
    <3>2. QED
      BY <2>4, <3>1 DEF SaysWhole
  <2>8. /\ written \in Books /\ Sound(written)
        /\ written.rule = rule /\ written.evidence = evidence
        /\ \A u \in Txns : Follows(record[u], written.record[u])
        /\ \A u \in Txns \ {t} : written.record[u] = record[u]
    <3>1. SaidByRule({t}, src, say, m) /\ {t} \in SUBSET Txns
      BY <2>7 DEF SaidByRule
    <3>2. QED
      BY <2>1, <2>6, <3>1, PutByRuleSound DEF IInv
  <2> HIDE DEF written
  <2>9. QED
    BY <1>1, <1>2, <2>5, <2>8 DEF Manual
<1>3. CASE ~hit
  <2>1. ClassifyNew(src, t) = Book
    BY <1>1, <1>3
  <2>2. QED
    BY <2>1, BookItself, BookFields, KeptSays
<1>4. QED
  BY <1>2, <1>3

\* A changed movement sends its row to review and disables the rule behind it.
LEMMA InvalidateSound ==
  ASSUME IInv, NEW t \in Txns, record[t] # None
  PROVE  LET b == Invalidate(t)
         IN  /\ b \in Books /\ Sound(b)
             /\ \A k \in Merchants : Unanimous(b, merchant, k)
             /\ \A u \in Txns : Kept(record[u], b.record[u])
<1> DEFINE r == record[t]
           first == [Book EXCEPT !.record[t] = Unsettle(r), !.prior[t] = @ \cup {r.say}]
           noted == Witness(first, r)
           m == r.say.merchant
<1>1. Book \in Books /\ r \in Rows /\ r.say \in Say /\ m \in Merchants \cup {None}
  BY BookFields DEF IInv, TypeOK, Books, Rows, Say
<1>2. Unsettle(r) \in Rows /\ Kept(r, Unsettle(r)) /\ ~RuleRow(Unsettle(r))
  BY <1>1, UnsettleRow, NoRowAssumption DEF Kept, RuleRow
<1>3. Invalidate(t) = IF m = None THEN noted ELSE DisableRule(noted, m, "source changed")
  BY DEF Invalidate
<1> HIDE DEF r, m
<1>4. /\ first \in Books /\ first.rule = rule /\ first.evidence = evidence
      /\ first.record = [record EXCEPT ![t] = Unsettle(r)]
  <2>1. first = [Book EXCEPT !.record = [Book.record EXCEPT ![t] = Unsettle(r)],
                             !.prior = [Book.prior EXCEPT ![t] = @ \cup {r.say}]]
    BY <1>1 DEF Books
  <2>2. [Book.record EXCEPT ![t] = Unsettle(r)] \in [Txns -> Rows \cup {None}]
    BY <1>1, <1>2 DEF Books
  <2>3. [Book.prior EXCEPT ![t] = @ \cup {r.say}] \in [Txns -> SUBSET Say]
    BY <1>1 DEF Books
  <2> HIDE DEF first
  <2>4. QED
    BY <1>1, <2>1, <2>2, <2>3, BookFields DEF Books
<1> HIDE DEF first
<1>5. Sound(first)
  <2>1. Numbered(first) /\ Backed(first)
    BY <1>4, BookFields DEF IInv, Sound, Numbered, Backed
  <2>2. \A u \in Txns : RuleRow(first.record[u]) =>
                          first.record[u] = Book.record[u] /\ RuleRow(Book.record[u])
    BY <1>1, <1>2, <1>4, BookFields DEF Books
  <2>3. RuleWork(first)
    BY <1>4, <2>2, BookFields DEF IInv, Sound, RuleWork
  <2>4. QED
    BY <2>1, <2>3 DEF Sound
<1>6. /\ noted \in Books /\ Sound(noted) /\ noted.rule = rule
      /\ noted.record = [record EXCEPT ![t] = Unsettle(r)]
      /\ \A k \in Merchants : k # m => noted.evidence[k] = evidence[k]
  BY <1>1, <1>4, <1>5, WitnessFields, WitnessSound DEF m
<1> HIDE DEF noted
<1>7. \A u \in Txns : Kept(record[u], noted.record[u])
  BY <1>1, <1>2, <1>6, BookFields DEF Books, Kept, r
<1>8. \A k \in Merchants : k # m => Unanimous(noted, merchant, k)
  BY <1>6 DEF IInv, ActiveIsUnanimous, Unanimous
<1>9. CASE m = None
  BY <1>3, <1>6, <1>7, <1>8, <1>9, HouseholdConstants
<1>10. CASE m # None
  <2>1. m \in Merchants /\ "source changed" \in Reasons
    BY <1>1, <1>10 DEF Reasons
  <2> DEFINE b == DisableRule(noted, m, "source changed")
  <2>2. Succeeds(b, noted, m, "disabled", None)
    BY <1>6, <2>1, DisableSound
  <2>3. Invalidate(t) = b
    BY <1>3, <1>10
  <2> HIDE DEF b
  <2>4. \A k \in Merchants : Unanimous(b, merchant, k)
    BY <1>8, <2>2 DEF Succeeds, Unanimous
  <2>5. \A u \in Txns : /\ record[u] \in Rows \cup {None}
                        /\ noted.record[u] \in Rows \cup {None}
                        /\ b.record[u] \in Rows \cup {None}
    BY <1>1, <1>6, <2>2, BookFields DEF Succeeds, Books
  <2>6. \A u \in Txns : Kept(record[u], b.record[u])
    BY <1>7, <2>2, <2>5, KeptTrans DEF Succeeds
  <2>7. QED
    BY <2>2, <2>3, <2>4, <2>6 DEF Succeeds
<1>11. QED
  BY <1>9, <1>10

\* A sync classifies what is new and sends what changed to review.
LEMMA SyncStep ==
  ASSUME IInv, writes < MaxWrites, NEW t \in Txns, NEW new \in Facts, BankSync(t, new)
  PROVE  IInv' /\ SeenStep /\ AppliedStep
<1>1. /\ source' = [source EXCEPT ![t] = new]
      /\ UNCHANGED <<archived, merchant, alias, detail, preview, draft>>
      /\ Commit(IF source[t] = None THEN ClassifyNew(source', t)
                ELSE IF record[t] = None \/ record[t].source = new THEN Book
                ELSE Invalidate(t))
  BY DEF BankSync
<1>2. /\ source' \in [Txns -> Facts \cup {None}] /\ source'[t] \in Facts
      /\ \A u \in Txns : source[u] \in Facts => source'[u] \in Facts
  BY <1>1 DEF IInv, TypeOK
<1>3. Shape'
  BY <1>1, <1>2 DEF IInv, TypeOK, Shape, Person
<1>4. CASE source[t] = None
  <2> DEFINE b == ClassifyNew(source', t)
  <2>1. /\ b \in Books /\ Sound(b) /\ b.rule = rule /\ b.evidence = evidence
        /\ \A u \in Txns : Follows(record[u], b.record[u])
        /\ \A u \in Txns : Manual(u) => b.record[u] = record[u]
    BY <1>2, ClassifyNewSound
  <2>2. Commit(b)
    BY <1>1, <1>4
  <2> HIDE DEF b
  <2>3. \A k \in Merchants : Unanimous(b, merchant', k)
    BY <1>1, <2>1 DEF IInv, ActiveIsUnanimous, Unanimous
  <2>4. IInv'
    BY <1>1, <1>2, <1>3, <2>1, <2>2, <2>3, CommitSound
  <2>5. SeenStep
    BY <2>1, <2>2 DEF SeenStep, Commit
  <2>6. QED
    BY <1>1, <2>4, <2>5, SamePreview
<1>5. CASE source[t] # None /\ (record[t] = None \/ record[t].source = new)
  <2>1. Commit(Book)
    BY <1>1, <1>5
  <2>2. QED
    BY <1>1, <1>2, <1>3, <2>1, BookItself, KeptBook, SamePreview
<1>6. CASE source[t] # None /\ ~(record[t] = None \/ record[t].source = new)
  <2> DEFINE b == Invalidate(t)
  <2>1. Commit(b)
    BY <1>1, <1>6
  <2>2. /\ b \in Books /\ Sound(b)
        /\ \A k \in Merchants : Unanimous(b, merchant, k)
        /\ \A u \in Txns : Kept(record[u], b.record[u])
    BY <1>6, InvalidateSound
  <2> HIDE DEF b
  <2>3. QED
    BY <1>1, <1>2, <1>3, <2>1, <2>2, KeptBook, SamePreview
<1>7. QED
  BY <1>4, <1>5, <1>6

-----------------------------------------------------------------------------
(* The theorems *)

\* A set-up household meets the invariant.
LEMMA Initially == Init => IInv
<1> SUFFICES ASSUME Init PROVE IInv
  OBVIOUS
<1> DEFINE first == [NoRule EXCEPT !.version = 1, !.state = "insufficient", !.why = "learned"]
<1>1. first \in Rules /\ first.version = 1 /\ first.state = "insufficient"
  BY DEF NoRule, Rules, RuleStates, Reasons
<1> HIDE DEF first
<1>2. /\ record = [t \in Txns |-> None] /\ rule = [m \in Merchants |-> first]
      /\ evidence = [m \in Merchants |-> NoEvidence] /\ prior = [t \in Txns |-> {}]
      /\ preview = None /\ draft = [e \in Editors |-> None]
  BY DEF Init, first
<1>3. NoEvidence \in Evidences
  BY DEF NoEvidence, Evidences
<1>4. Book \in Books
  BY <1>1, <1>2, <1>3 DEF Book, Books
<1>5. Shape
  <2>1. alias \in [Labels -> [merchant : Merchants \cup {None}, confirmed : BOOLEAN,
                             revision : Nat]]
    <3> DEFINE opened == [merchant : Merchants \cup {None}, confirmed : {TRUE},
                               revision : {1}]
               whole == [merchant : Merchants \cup {None}, confirmed : BOOLEAN,
                             revision : Nat]
    <3>1. opened \subseteq whole
      <4>1. {1} \subseteq Nat /\ {TRUE} \subseteq BOOLEAN
        OBVIOUS
      <4> DEFINE yes == {TRUE}
                 one == {1}
      <4> HIDE DEF yes, one
      <4>2. [merchant : Merchants \cup {None}, confirmed : yes, revision : one] \subseteq whole
        BY <4>1 DEF yes, one
      <4>3. QED
        BY <4>2 DEF yes, one
    <3>2. alias \in [Labels -> opened]
      BY DEF Init
    <3> HIDE DEF opened, whole
    <3>3. alias \in [Labels -> whole]
      BY <3>1, <3>2
    <3>4. QED
      BY <3>3 DEF whole
  <2>2. merchant \in [Merchants -> Person]
    BY DEF Init, Person
  <2>3. /\ source \in [Txns -> Facts \cup {None}] /\ archived \subseteq Cats
        /\ detail \in Nat /\ draft \in [Editors -> {None}]
    BY <1>2 DEF Init
  <2>4. QED
    BY <1>2, <2>1, <2>2, <2>3 DEF Shape
<1>6. TypeOK
  BY <1>4, <1>5, ShapeOfState, HouseholdConstants DEF Init
<1>7. Sound(Book)
  BY <1>1, <1>2, BookFields DEF Sound, Numbered, Backed, RuleWork, RuleRow
<1>8. ActiveIsUnanimous /\ DraftsAge /\ \A t \in Txns : Balanced(record[t])
  BY <1>1, <1>2 DEF ActiveIsUnanimous, DraftsAge, Balanced
<1>9. QED
  BY <1>6, <1>7, <1>8 DEF IInv

\* Every step keeps the invariant, and the two promises about steps.
LEMMA Step ==
  ASSUME IInv, [Next]_vars
  PROVE  IInv' /\ [SeenStep]_vars /\ [AppliedStep]_vars
<1>1. CASE UNCHANGED vars
  <2>1. /\ Book' = Book
        /\ UNCHANGED <<source, archived, merchant, alias, detail, record, rule, evidence,
                       prior, preview, draft, writes>>
    BY <1>1 DEF vars, book, Book
  <2>2. TypeOK'
    BY <2>1 DEF IInv, TypeOK
  <2>3. ActiveIsUnanimous' /\ DraftsAge' /\ \A t \in Txns : Balanced(record'[t])
    BY <2>1 DEF IInv, ActiveIsUnanimous, DraftsAge
  <2>4. QED
    BY <1>1, <2>1, <2>2, <2>3 DEF IInv
<1>2. CASE Next
  <2>1. writes < MaxWrites /\ Write
    BY <1>2 DEF Next
  <2>2. ASSUME NEW e \in Editors, NEW t \in Txns, Open(e, t)
        PROVE  IInv' /\ SeenStep /\ AppliedStep
    BY <2>2, OpenStep
  <2>3. ASSUME NEW e \in Editors, draft[e] # None, NEW say \in Forms(draft[e].txn),
               SaveClassification(e, say)
        PROVE  IInv' /\ SeenStep /\ AppliedStep
    BY <2>1, <2>3, SaveStep
  <2>4. ASSUME NEW e \in Editors, NEW say, UndoClassification(e, say)
        PROVE  IInv' /\ SeenStep /\ AppliedStep
    BY <2>1, <2>4, UndoStep
  <2>5. ASSUME NEW m \in Merchants, NEW row \in [confirmed : BOOLEAN, archived : BOOLEAN],
               SaveMerchant(m, row)
        PROVE  IInv' /\ SeenStep /\ AppliedStep
    BY <2>1, <2>5, MerchantStep DEF Person
  <2>6. ASSUME NEW l \in Labels, NEW m \in Merchants, NEW ok \in BOOLEAN, SaveAlias(l, m, ok)
        PROVE  IInv' /\ SeenStep /\ AppliedStep
    BY <2>1, <2>6, AliasStep
  <2>7. ASSUME NEW m \in Merchants, NEW disabled \in BOOLEAN, ControlRule(m, disabled)
        PROVE  IInv' /\ SeenStep /\ AppliedStep
    BY <2>1, <2>7, ControlStep
  <2>8. ASSUME NEW m \in Merchants, PreviewRule(m)
        PROVE  IInv' /\ SeenStep /\ AppliedStep
    BY <2>1, <2>8, PreviewStep
  <2>9. ASSUME NEW t \in Txns, NEW new \in Facts, BankSync(t, new)
        PROVE  IInv' /\ SeenStep /\ AppliedStep
    BY <2>1, <2>9, SyncStep
  <2>10. QED
    BY <2>1, <2>2, <2>3, <2>4, <2>5, <2>6, <2>7, <2>8, <2>9, TablesStep,
       ApplyStep DEF Write
<1>3. QED
  BY <1>1, <1>2

\* The books stay sound, whatever is saved, undone, synced or applied.
THEOREM Invariance == Spec => []IInv
<1>1. IInv /\ [Next]_vars => IInv'
  BY Step
<1>2. QED
  BY Initially, <1>1, PTL DEF Spec

\* Every row, rule, decision, draft and preview is a whole one (TypeOK).
THEOREM TypeCorrect == Spec => []TypeOK
  BY Invariance, PTL DEF IInv

\* Nobody disagrees, anywhere in the audit, with what an active rule says.
THEOREM NobodyDisagrees == Spec => []ActiveIsUnanimous
  BY Invariance, PTL DEF IInv

\* Unreviewed work of a rule stands under a rule that still says so.
THEOREM RuleWorkStands == Spec => []RuleWorkIsCurrent
<1>1. IInv => RuleWorkIsCurrent
  BY BookFields DEF IInv, Sound, RuleWork, RuleRow, RuleWorkIsCurrent, Settled
<1>2. QED
  BY <1>1, Invariance, PTL

\* A settled spending or income row splits what the bank reports today.
THEOREM SplitsAddUp == Spec => []ConservesSource
<1>1. IInv => ConservesSource
  BY DEF IInv, Balanced, ConservesSource, Settled, SourceChanged
<1>2. QED
  BY <1>1, Invariance, PTL

\* Only an editor who has seen a decision replaces it.
THEOREM DecisionsStand == Spec => DecisionsAreSeen
<1>1. IInv /\ [Next]_vars => [SeenStep]_vars
  BY Step
<1>2. QED
  BY <1>1, Invariance, PTL DEF Spec, DecisionsAreSeen, SeenStep

\* A preview is applied to what it listed, as it listed it.
THEOREM PreviewsApplyAsListed == Spec => AppliedAsPreviewed
<1>1. IInv /\ [Next]_vars => [AppliedStep]_vars
  BY Step
<1>2. QED
  BY <1>1, Invariance, PTL DEF Spec, AppliedAsPreviewed, AppliedStep
=============================================================================
