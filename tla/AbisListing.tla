---------------------------- MODULE AbisListing ----------------------------
(* The Danish tax treatment of instruments, derived from the Skat ABIS list *)
(* (tax/abis/parser.py, tax/abis/loader.py).  An import is one database     *)
(* transaction of three statements; manual overrides commit between them.   *)
(* Rows the transaction updates stay locked until it commits, so the last   *)
(* statement and the commit are one step.                                   *)
EXTENDS FiniteSetsExt, Integers

CONSTANTS Isins,      \* instruments in the database; an import skips the
                      \* rows of any other ISIN
          Years,      \* tax years a list can name
          Lists,      \* lists tried: sets of rows [isin, registered, unregistered],
                      \* the tax years in which the row's share class is listed and not
          MaxImports, \* bound on the imports
          MaxManual   \* bound on the manual overrides and clearings

VARIABLES listing,     \* instrument_dk_abis_listing: Isin -> set of [year, listed]
          treatment,   \* instrument.dk_tax_treatment
          source,      \* instrument.dk_tax_treatment_source
          txn,         \* the import's transaction
          imports, manuals,
          chosen,      \* history: the treatment a person last chose, or "none"
          reopened     \* history: instruments cleared since their last import

abisVars == <<listing, treatment, source, txn, imports, manuals, chosen, reopened>>

\* A list names share classes of instruments and tax years of a list that ends.
AbisConstants ==
  /\ Years \subseteq Int /\ IsFiniteSet(Years)
  /\ \A records \in Lists : \A r \in records :
       r.isin \in Isins /\ r.registered \subseteq Years /\ r.unregistered \subseteq Years

NoTxn == [rows |-> {}, latest |-> {}]

Observation(i, y, l) == [isin |-> i, year |-> y, listed |-> l]

TypeOK ==
  /\ \A i \in Isins : \A o \in listing[i] : o.isin = i /\ o.year \in Years
  /\ \A i \in Isins : \A o, other \in listing[i] : o.year = other.year => o = other
  /\ treatment \in [Isins -> {"none", "lagerbeskatning", "realisation"}]
  /\ source \in [Isins -> {"none", "abis", "manual"}]
  /\ \A i \in Isins : treatment[i] = "none" <=> source[i] = "none"

Init ==
  /\ listing = [i \in Isins |-> {}]
  /\ treatment = [i \in Isins |-> "none"]
  /\ source = [i \in Isins |-> "none"]
  /\ txn = NoTxn
  /\ imports = 0
  /\ manuals = 0
  /\ chosen = [i \in Isins |-> "none"]
  /\ reopened = {}

\* _records_to_observations: the years of all rows of an ISIN are united and a
\* year listed by any of them is listed.
Observations(records) ==
  LET Of(i) == {r \in records : r.isin = i}
      Registered(i) == UNION {r.registered : r \in Of(i)}
      Unregistered(i) == UNION {r.unregistered : r \in Of(i)}
  IN  UNION {{Observation(i, y, TRUE) : y \in Registered(i)}
             \cup {Observation(i, y, FALSE) : y \in Unregistered(i) \ Registered(i)}
             : i \in {r.isin : r \in records}}

\* The upsert on (instrument, tax year): an observation replaces the row.
Upserted(rows, observations) ==
  LET seen == {o.year : o \in observations}
  IN  {o \in rows : o.year \notin seen} \cup observations

Latest(rows) == {o \in rows : \A other \in rows : other.year <= o.year}

\* load_abis_records up to the SELECT of _refresh_treatments, which runs over
\* the instruments the list names and sees the transaction's own upserts.
Load(records) ==
  LET observations == Observations(records)
      matched == {r.isin : r \in records}
      After(i) == Upserted(listing[i], {o \in observations : o.isin = i})
  IN  /\ txn = NoTxn /\ records # {} /\ imports < MaxImports
      /\ txn' = [rows |-> {<<i, After(i)>> : i \in matched},
                 latest |-> UNION {Latest(After(i)) : i \in matched}]
      /\ imports' = imports + 1
      /\ UNCHANGED <<listing, treatment, source, manuals, chosen, reopened>>

\* An import that refreshes whatever it lists.
MayRefreshAny(i) == source[i] \in {"none", "abis", "manual"}

\* The UPDATE's WHERE is evaluated again on the row as it is now.
MayRefresh(i) == source[i] \in {"none", "abis"}

\* The UPDATEs of _refresh_treatments, and the commit.
Commit ==
  LET listed == {o.isin : o \in {o \in txn.latest : o.listed}}
      seen == {o.isin : o \in txn.latest}
      touched == {i \in seen : MayRefresh(i)}
  IN  /\ txn # NoTxn
      /\ listing' = [i \in Isins |->
           IF \E row \in txn.rows : row[1] = i
           THEN (CHOOSE row \in txn.rows : row[1] = i)[2] ELSE listing[i]]
      /\ treatment' = [i \in Isins |->
           IF i \notin touched THEN treatment[i]
           ELSE IF i \in listed THEN "lagerbeskatning" ELSE "none"]
      /\ source' = [i \in Isins |->
           IF i \notin touched THEN source[i]
           ELSE IF i \in listed THEN "abis" ELSE "none"]
      /\ reopened' = reopened \ touched
      /\ txn' = NoTxn
      /\ UNCHANGED <<imports, manuals, chosen>>

\* The process dies or the database fails: the transaction leaves nothing.
Rollback ==
  /\ txn # NoTxn
  /\ txn' = NoTxn
  /\ UNCHANGED <<listing, treatment, source, imports, manuals, chosen, reopened>>

ApplyManualOverride(i, t) ==
  /\ manuals < MaxManual
  /\ manuals' = manuals + 1
  /\ treatment' = [treatment EXCEPT ![i] = t]
  /\ source' = [source EXCEPT ![i] = "manual"]
  /\ chosen' = [chosen EXCEPT ![i] = t]
  /\ reopened' = reopened \ {i}
  /\ UNCHANGED <<listing, txn, imports>>

\* Only a manual row is cleared; it stays without a treatment until an import
\* that names the instrument.
ClearManualOverride(i) ==
  /\ source[i] = "manual" /\ manuals < MaxManual
  /\ manuals' = manuals + 1
  /\ treatment' = [treatment EXCEPT ![i] = "none"]
  /\ source' = [source EXCEPT ![i] = "none"]
  /\ chosen' = [chosen EXCEPT ![i] = "none"]
  /\ reopened' = reopened \cup {i}
  /\ UNCHANGED <<listing, txn, imports>>

Next ==
  \/ \E records \in Lists : Load(records)
  \/ Commit
  \/ Rollback
  \/ \E i \in Isins :
       \/ \E t \in {"lagerbeskatning", "realisation"} : ApplyManualOverride(i, t)
       \/ ClearManualOverride(i)

Spec == Init /\ [][Next]_abisVars
-----------------------------------------------------------------------------
LatestListed(i) == \E o \in Latest(listing[i]) : o.listed

\* A treatment derived from the list agrees with the latest year on the list
\* that is stored, and a listed instrument without a treatment is one whose
\* override was cleared after its last import (loader.py _refresh_treatments).
TreatmentFollowsListing ==
  \A i \in Isins :
    /\ source[i] = "abis" => treatment[i] = "lagerbeskatning" /\ LatestListed(i)
    /\ source[i] = "none" /\ LatestListed(i) => i \in reopened

\* What a person chose stands until a person clears it, whatever imports run
\* meanwhile or were under way (loader.py apply_manual_override: "subsequent
\* ABIS imports do not overwrite the value").
OverrideSurvivesImports ==
  \A i \in Isins :
    /\ chosen[i] # "none" => source[i] = "manual" /\ treatment[i] = chosen[i]
    /\ source[i] = "manual" => chosen[i] # "none"
=============================================================================
