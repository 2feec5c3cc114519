----------------------------- MODULE StagedRows -----------------------------
(* What the rows of an import session say while a person reviews them       *)
(* (api/imports/detect.py, staging.py): which source a file is taken for,   *)
(* which rows are flagged as errors or as duplicates of what is loaded, and *)
(* what a correction makes of them.  The life of the session is that of     *)
(* ImportSession; here several sessions meet in the raw tables.             *)
EXTENDS Integers, Sequences, FiniteSetsExt

CONSTANTS Uploads,     \* files: [format, magic, marks, depot, rows]
          Payloads,    \* corrections a person may type: [account, id, amount, valid]
          Sessions,
          MaxPatches   \* bound on corrections

VARIABLES loaded,   \* raw.transaction: key -> [payload, since]
          session,  \* session -> [status, source, depot, rows]
          commits,  \* number of commits so far
          patches   \* number of corrections so far

\* A file is read into a sequence of rows.
RowConstants == \A f \in Uploads : f.rows \in Seq({f.rows[k] : k \in DOMAIN f.rows})

rowVars == <<loaded, session, commits, patches>>

KnownSources ==
  {"nordnet_transactions", "nordnet_holdings", "growney", "pfa", "manual_balances"}

Unrecognised == "unrecognised"

\* _detect_pdf: keywords of the first page, Sutor's before PFA's.
DetectPdf(f) ==
  IF f.marks \cap {"sutor", "growney"} # {} THEN "growney"
  ELSE IF f.marks \cap {"pensionsoversigt", "pfa"} # {} THEN "pfa"
  ELSE Unrecognised

\* _detect_utf16_csv: the columns of the first line.
DetectCsv(f) ==
  IF {"id first", "booking day"} \subseteq f.marks THEN "nordnet_transactions"
  ELSE IF "name first" \in f.marks THEN "nordnet_holdings"
  ELSE Unrecognised

\* _detect_json: the head must decode, open with a brace and name the balances.
DetectJson(f) ==
  IF {"decodes", "brace", "balances"} \subseteq f.marks THEN "manual_balances"
  ELSE Unrecognised

DetectSource(f) ==
  CASE f.magic = "pdf" -> DetectPdf(f)
    [] f.magic = "utf16" -> DetectCsv(f)
    [] OTHER -> DetectJson(f)

\* The key a loader's upsert will use.  A Nordnet transaction brings its id; for
\* Growney synthesize_external_id hashes the row's content, the amount included.
Key(source, depot, payload) ==
  IF source = "growney" THEN <<source, depot, payload.id, payload.amount>>
  ELSE <<source, payload.account, payload.id>>

\* Snapshot rows are written by upserts and nothing is probed for them.
IsProbed(source) == source \in {"nordnet_transactions", "growney"}

\* existing_transaction_external_ids.
Exists(source, depot, payload) == Key(source, depot, payload) \in DOMAIN loaded

\* One row of stage_file, and revalidate_payload: the model first, then the probe.
RowStatus(source, depot, payload) ==
  IF ~payload.valid THEN "error"
  ELSE IF IsProbed(source) /\ Exists(source, depot, payload) THEN "warning"
  ELSE "ok"

Staged(source, depot, payload) ==
  [payload |-> payload, status |-> RowStatus(source, depot, payload), excluded |-> FALSE,
   probed |-> commits]

NoSession == [status |-> "none", source |-> Unrecognised, depot |-> "none", rows |-> <<>>]

Init ==
  /\ loaded = <<>>
  /\ session = [s \in Sessions |-> NoSession]
  /\ commits = 0
  /\ patches = 0
-----------------------------------------------------------------------------
\* stage_file's parsers: a file of another format is refused, and only a file of
\* balances is staged with invalid rows in it.
Parses(f, source) ==
  /\ f.format = source
  /\ source # "manual_balances" => \A k \in DOMAIN f.rows : f.rows[k].valid

\* create_import, for a source named by the client or detected.
Stage(s) ==
  /\ session[s].status = "none"
  /\ \E f \in Uploads, source \in KnownSources :
       /\ source = DetectSource(f) \/ source = f.format
       /\ Parses(f, source)
       /\ session' = [session EXCEPT ![s] =
            [status |-> "staged", source |-> source, depot |-> f.depot,
             rows |-> [k \in DOMAIN f.rows |-> Staged(source, f.depot, f.rows[k])]]]
  /\ UNCHANGED <<loaded, commits, patches>>

\* patch_import_row with a payload: the row is validated and probed again.
Correct(s) ==
  /\ session[s].status = "staged"
  /\ patches < MaxPatches
  /\ patches' = patches + 1
  /\ \E k \in DOMAIN session[s].rows, p \in Payloads :
       session' = [session EXCEPT ![s].rows[k] =
         [Staged(session[s].source, session[s].depot, p) EXCEPT
            !.excluded = session[s].rows[k].excluded]]
  /\ UNCHANGED <<loaded, commits>>

\* patch_import_row without one: the row is taken out, or back in; its flag is not
\* looked at again.
Exclude(s) ==
  /\ session[s].status = "staged"
  /\ patches < MaxPatches
  /\ patches' = patches + 1
  /\ \E k \in DOMAIN session[s].rows :
       session' = [session EXCEPT ![s].rows[k].excluded = ~@]
  /\ UNCHANGED <<loaded, commits>>

\* The rows a commit takes, by their place in the file.
Included(s) == {k \in DOMAIN session[s].rows : ~session[s].rows[k].excluded}

KeyOf(s, row) == Key(session[s].source, session[s].depot, row.payload)

\* commit_session: every included row or none.  Error rows refuse it, and one INSERT
\* ... ON CONFLICT cannot touch the same transaction twice.
Committable(s) ==
  LET row == session[s].rows
  IN  /\ Included(s) # {}
      /\ \A k \in Included(s) : row[k].status # "error"
      /\ IsProbed(session[s].source) =>
           \A j, k \in Included(s) : j # k => KeyOf(s, row[j]) # KeyOf(s, row[k])

Since(k) == IF k \in DOMAIN loaded THEN loaded[k].since ELSE commits + 1

Commit(s) ==
  /\ session[s].status = "staged"
  /\ Committable(s)
  /\ LET rows == session[s].rows
         keys == {KeyOf(s, rows[j]) : j \in Included(s)}
         row(k) == rows[Max({j \in Included(s) : KeyOf(s, rows[j]) = k})]
     IN  loaded' = [k \in DOMAIN loaded \cup keys |->
                      IF k \in keys THEN [payload |-> row(k).payload, since |-> Since(k)]
                      ELSE loaded[k]]
  /\ commits' = commits + 1
  /\ session' = [session EXCEPT ![s].status = "committed"]
  /\ UNCHANGED patches

Next == \E s \in Sessions : Stage(s) \/ Correct(s) \/ Exclude(s) \/ Commit(s)

Spec == Init /\ [][Next]_rowVars
-----------------------------------------------------------------------------
InReview == {s \in Sessions : session[s].status = "staged"}

\* A row flagged as a duplicate is one, also after corrections; and a row that is not
\* flagged overwrites something only when that was loaded after the row was last
\* probed: the flag goes stale by another session's commit and by nothing else.
FlagsAreTrue ==
  \A s \in InReview : \A k \in DOMAIN session[s].rows :
    LET row == session[s].rows[k]
        key == KeyOf(s, row)
    IN  /\ row.status = "warning" => key \in DOMAIN loaded
        /\ (row.status = "ok" /\ IsProbed(session[s].source) /\ key \in DOMAIN loaded)
             => loaded[key].since > row.probed

\* Nothing invalid is loaded, whichever way a row was corrected, taken out and put
\* back in (staging decides the status, commit_session only reads it).
OnlyValidRowsLoaded == \A k \in DOMAIN loaded : loaded[k].payload.valid
=============================================================================
