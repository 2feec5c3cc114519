----------------------------- MODULE VaultWatcher -----------------------------
(***************************************************************************)
(* The document vault: one worker thread files the PDFs of a synced inbox. *)
(*                                                                         *)
(* A file is hashed, dropped if the hash index knows it, else moved into   *)
(* the vault, given its text sidecar and entered in the index.  The index  *)
(* is a dictionary in memory, flushed whole to .index.json by an atomic    *)
(* replace.  Devices drop files, and replace them, at any moment; the      *)
(* process may die between any two steps.                                  *)
(*                                                                         *)
(* A document's content stands for its SHA-256.  Files are dropped whole:  *)
(* _wait_until_stable (2 s without change) is taken to see to that.        *)
(***************************************************************************)
EXTENDS Integers, FiniteSets

CONSTANTS
    Paths,       \* inbox file names; each gives its own slug
    Contents,    \* contents of documents
    Nothing,     \* no file, no content
    Torn,        \* what a copy that failed half-way leaves
    MaxDrops,    \* bound: files dropped, replaced or removed
    MaxCrashes,  \* bound: restarts
    MaxLosses    \* bound: unreadable .index.json files

ASSUME VaultConstants ==
    /\ Nothing \notin Contents /\ Torn \notin Contents /\ Nothing # Torn
    /\ MaxDrops \in Nat /\ MaxCrashes \in Nat /\ MaxLosses \in Nat

VARIABLES
    inbox,    \* content of each inbox path
    queue,    \* paths the worker still has to look at
    vault,    \* content of <hash>-<slug>.pdf by hash and path, or Nothing
    text,     \* whose text <hash>-<slug>.txt holds, by hash and path, or Nothing
    mem,      \* hashes in HashIndex._entries
    disk,     \* hashes in .index.json
    stage,    \* what the worker does next
    path,     \* the file it works on
    seen,     \* the content whose text it extracted
    sha,      \* the hash it computed
    drops, crashes, losses,
    dropped,  \* history: contents the user dropped
    undone,   \* history: contents whose filing was rolled back
    swapped,  \* history: a file was replaced between its hash and its removal
    misread   \* history: contents that replaced a file between its OCR and its hash

vars == <<inbox, queue, vault, text, mem, disk, stage, path, seen, sha, drops,
          crashes, losses, dropped, undone, swapped, misread>>

history == <<dropped, undone, swapped, misread>>

Names == Contents \X Paths

Stages == {"idle", "ocr", "hash", "duplicate", "move", "unlink", "sidecar",
           "index"}

Init ==
    /\ inbox = [p \in Paths |-> Nothing]
    /\ queue = {}
    /\ vault = [n \in Names |-> Nothing]
    /\ text = [n \in Names |-> Nothing]
    /\ mem = {} /\ disk = {}
    /\ stage = "idle" /\ path = Nothing /\ seen = Nothing /\ sha = Nothing
    /\ drops = 0 /\ crashes = 0 /\ losses = 0
    /\ dropped = {} /\ undone = {} /\ swapped = FALSE /\ misread = {}

Target == <<sha, path>>

Filed(c) == \E p \in Paths : vault[<<c, p>>] = c

Idle == stage' = "idle" /\ path' = Nothing /\ seen' = Nothing /\ sha' = Nothing

-----------------------------------------------------------------------------
(* The devices and the threads beside the worker *)

\* A synced device creates, replaces or removes (c = Nothing) a file; the
\* observer's event is queued, or missed.  The only copy of a document that
\* was never filed is the user's to take away.
Sync(p, c) ==
    /\ drops < MaxDrops /\ c # inbox[p]
    /\ drops' = drops + 1
    /\ inbox' = [inbox EXCEPT ![p] = c]
    /\ queue' \in {queue, queue \cup {p}}
    /\ dropped' = ({c} \cap Contents) \cup
                    {d \in dropped : \/ d # inbox[p] \/ Filed(d)
                                    \/ \E q \in Paths \ {p} : inbox[q] = d}
    /\ swapped' = (swapped \/ (path = p /\ stage \in {"duplicate", "move", "unlink"}))
    /\ misread' = misread \cup IF path = p /\ stage = "hash" THEN {c} \ {Nothing} ELSE {}
    /\ UNCHANGED <<vault, text, mem, disk, stage, path, seen, sha, crashes, losses,
                   undone>>

\* Faulty variant: the ticker leaves out what the index knows.
ScanUnknown ==
    /\ queue' = queue \cup {p \in Paths : inbox[p] \notin mem \cup {Nothing}}
    /\ queue' # queue
    /\ UNCHANGED <<inbox, vault, text, mem, disk, stage, path, seen, sha, drops,
                   crashes, losses, history>>

\* The ticker queues every PDF of the inbox.
Scan ==
    /\ queue' = queue \cup {p \in Paths : inbox[p] # Nothing}
    /\ queue' # queue
    /\ UNCHANGED <<inbox, vault, text, mem, disk, stage, path, seen, sha, drops,
                   crashes, losses, history>>

\* .index.json is lost or corrupted; the next start finds no entries.
LoseIndex ==
    /\ losses < MaxLosses
    /\ losses' = losses + 1
    /\ disk' = {}
    /\ UNCHANGED <<inbox, queue, vault, text, mem, stage, path, seen, sha, drops,
                   crashes, history>>

\* Faulty variant: the index file is not read at the start.
RestartEmpty ==
    /\ crashes < MaxCrashes
    /\ crashes' = crashes + 1
    /\ mem' = {}
    /\ queue' = {}
    /\ Idle
    /\ UNCHANGED <<inbox, vault, text, disk, drops, losses, history>>

\* The process dies, or is stopped, and starts again.
Restart ==
    /\ crashes < MaxCrashes
    /\ crashes' = crashes + 1
    /\ mem' = disk
    /\ queue' = {}
    /\ Idle
    /\ UNCHANGED <<inbox, vault, text, disk, drops, losses, history>>

-----------------------------------------------------------------------------
(* The worker: _run_worker, _handle_path, file_document *)

\* A queued path that is gone by now is forgotten.
Take(p) ==
    /\ stage = "idle" /\ p \in queue
    /\ queue' = queue \ {p}
    /\ IF inbox[p] = Nothing THEN Idle
       ELSE stage' = "ocr" /\ path' = p /\ UNCHANGED <<seen, sha>>
    /\ UNCHANGED <<inbox, vault, text, mem, disk, drops, crashes, losses, history>>

\* extract_text reads the file, which may be another by the time it is hashed.
Extract ==
    /\ stage = "ocr" /\ inbox[path] # Nothing
    /\ seen' = inbox[path]
    /\ stage' = "hash"
    /\ UNCHANGED <<inbox, queue, vault, text, mem, disk, path, sha, drops,
                   crashes, losses, history>>

\* OCR fails, the file is gone, an operation that needs no undoing fails, or
\* an error comes that no except clause expects (text that cannot be encoded,
\* a vault file that cannot be inspected): what was done so far stays.
StepFails ==
    /\ stage # "idle"
    /\ Idle
    /\ UNCHANGED <<inbox, queue, vault, text, mem, disk, drops, crashes, losses,
                   history>>

\* Faulty variant: a document of this name counts as known.
KnownByName == \E c \in Contents : vault[<<c, path>>] # Nothing

Known == inbox[path] \in mem

\* Faulty variant: source.is_file() is not asked.
HashAnything ==
    /\ stage = "hash"
    /\ sha' = inbox[path]
    /\ stage' = IF Known THEN "duplicate" ELSE "move"
    /\ UNCHANGED <<inbox, queue, vault, text, mem, disk, path, seen, drops, crashes,
                   losses, history>>

Hash ==
    /\ stage = "hash" /\ inbox[path] # Nothing
    /\ sha' = inbox[path]
    /\ stage' = IF Known THEN "duplicate" ELSE "move"
    /\ UNCHANGED <<inbox, queue, vault, text, mem, disk, path, seen, drops, crashes,
                   losses, history>>

RemoveDuplicate ==
    /\ stage = "duplicate" /\ inbox[path] # Nothing
    /\ inbox' = [inbox EXCEPT ![path] = Nothing]
    /\ Idle
    /\ UNCHANGED <<queue, vault, text, mem, disk, drops, crashes, losses, history>>

\* shutil.move on one file system.
Rename ==
    /\ stage = "move" /\ inbox[path] # Nothing
    /\ vault' = [vault EXCEPT ![Target] = inbox[path]]
    /\ inbox' = [inbox EXCEPT ![path] = Nothing]
    /\ stage' = "sidecar"
    /\ UNCHANGED <<queue, text, mem, disk, path, seen, sha, drops, crashes, losses,
                   history>>

\* shutil.move across file systems: copy2 ...
Copy ==
    /\ stage = "move" /\ inbox[path] # Nothing
    /\ vault' = [vault EXCEPT ![Target] = inbox[path]]
    /\ stage' = "unlink"
    /\ UNCHANGED <<inbox, queue, text, mem, disk, path, seen, sha, drops, crashes,
                   losses, history>>

\* ... which may stop half-way and leave what it wrote; the file stays ...
CopyFails ==
    /\ stage = "move" /\ inbox[path] # Nothing
    /\ vault' = [vault EXCEPT ![Target] = Torn]
    /\ Idle
    /\ UNCHANGED <<inbox, queue, text, mem, disk, drops, crashes, losses, history>>

\* ... then unlink.
UnlinkSource ==
    /\ stage = "unlink" /\ inbox[path] # Nothing
    /\ inbox' = [inbox EXCEPT ![path] = Nothing]
    /\ stage' = "sidecar"
    /\ UNCHANGED <<queue, vault, text, mem, disk, path, seen, sha, drops, crashes,
                   losses, history>>

\* Faulty variant: the hash is indexed before its sidecar is written.
IndexFirst ==
    /\ stage = "sidecar"
    /\ mem' = mem \cup {sha} /\ disk' = mem'
    /\ stage' = "index"
    /\ UNCHANGED <<inbox, queue, vault, text, path, seen, sha, drops, crashes, losses,
                   history>>

WriteSidecar ==
    /\ stage = "sidecar"
    /\ text' = [text EXCEPT ![Target] = seen]
    /\ stage' = "index"
    /\ UNCHANGED <<inbox, queue, vault, mem, disk, path, seen, sha, drops, crashes,
                   losses, history>>

\* The best-effort unlinks of both except clauses.
RollBack ==
    /\ vault' \in {vault, [vault EXCEPT ![Target] = Nothing]}
    /\ undone' = undone \cup {vault[Target]}

SidecarFails ==
    /\ stage = "sidecar"
    /\ RollBack
    /\ Idle
    /\ UNCHANGED <<inbox, queue, text, mem, disk, drops, crashes, losses, dropped,
                   swapped, misread>>

\* HashIndex.add: the entry is in memory before the file is replaced ...
AddEntry ==
    /\ stage = "index"
    /\ mem' = mem \cup {sha} /\ disk' = mem'
    /\ Idle
    /\ UNCHANGED <<inbox, queue, vault, text, drops, crashes, losses, history>>

\* ... and stays there when the flush fails.
FlushFails ==
    /\ stage = "index"
    /\ mem' = mem \cup {sha}
    /\ text' \in {text, [text EXCEPT ![Target] = Nothing]}
    /\ RollBack
    /\ Idle
    /\ UNCHANGED <<inbox, queue, disk, drops, crashes, losses, dropped, swapped,
                   misread>>

-----------------------------------------------------------------------------
Worker ==
    \/ \E p \in Paths : Take(p)
    \/ Extract \/ StepFails \/ Hash \/ RemoveDuplicate
    \/ Rename \/ Copy \/ CopyFails \/ UnlinkSource
    \/ WriteSidecar \/ SidecarFails \/ AddEntry \/ FlushFails

Next ==
    \/ \E p \in Paths, c \in Contents \cup {Nothing} : Sync(p, c)
    \/ Scan \/ LoseIndex \/ Restart \/ Worker

Spec == Init /\ [][Next]_vars

(***************************************************************************)
(* Fairness.  The ticker and the worker go on; OCR and the file operations *)
(* of a document may fail any number of times, but not for ever.           *)
(***************************************************************************)
Fairness ==
    /\ WF_vars(Scan)
    /\ WF_vars(Worker)
    /\ \A p \in Paths :
         /\ SF_vars(Take(p))
         /\ SF_vars(path = p /\ Extract)
         /\ SF_vars(path = p /\ Hash)
         /\ SF_vars(path = p /\ RemoveDuplicate)
         /\ SF_vars(path = p /\ (Rename \/ UnlinkSource))

FairSpec == Spec /\ Fairness

-----------------------------------------------------------------------------
(* Properties *)

\* The state's shape; a worker past the hash knows what it works on.
TypeOK ==
    /\ inbox \in [Paths -> Contents \cup {Nothing}]
    /\ queue \subseteq Paths
    /\ vault \in [Names -> Contents \cup {Torn, Nothing}]
    /\ text \in [Names -> Contents \cup {Nothing}]
    /\ mem \subseteq Contents /\ disk \subseteq Contents
    /\ stage \in Stages
    /\ path \in IF stage = "idle" THEN {Nothing} ELSE Paths
    /\ sha \in IF stage \in {"idle", "ocr", "hash"} THEN {Nothing} ELSE Contents
    /\ drops \in Nat /\ crashes \in Nat /\ losses \in Nat
    /\ dropped \subseteq Contents
    /\ undone \subseteq Contents \cup {Torn, Nothing}
    /\ seen \in IF stage \in {"idle", "ocr"} THEN {Nothing} ELSE Contents
    /\ swapped \in BOOLEAN
    /\ misread \subseteq Contents

InInbox(c) == \E p \in Paths : inbox[p] = c

\* A dropped document is in the inbox or whole in the vault under its own
\* hash, through crashes, failed copies and lost indexes, unless its filing
\* was rolled back or a file was replaced between its hash and its removal.
DocumentsSurvive ==
    swapped \/ \A c \in dropped \ undone : InInbox(c) \/ Filed(c)

\* What .index.json claims is there: a later copy of an indexed document is
\* deleted on its word, so its PDF must be in the vault and beside it its own
\* text, not the text of what a device had put in its place while OCR ran -
\* unless that happened between just this document's OCR and its hash.
IndexedIsComplete ==
    swapped \/ \A c \in disk \ undone :
                  \E p \in Paths : /\ vault[<<c, p>>] = c
                                  /\ text[<<c, p>>] \in IF c \in misread THEN Contents ELSE {c}

\* "the same file dropped twice never produces two copies" (ADR-0024), as far
\* as the index file was never lost: a hash on disk gets no further PDF, in
\* this run of the watcher or a later one.
NoSecondCopy ==
    [][losses = 0 =>
         \A n \in Names : n[1] \in disk /\ vault[n] = Nothing =>
                            vault'[n] = Nothing]_vault

\* The inbox is drained: a file does not stay there for ever.
InboxDrains == \A p \in Paths : inbox[p] # Nothing ~> inbox[p] = Nothing

\* "undo the file moves so a retry is clean" (filer.py): after a failed
\* filing too, the document is somewhere a retry can find it.
RetryIsPossible == swapped \/ \A c \in dropped : InInbox(c) \/ Filed(c)
=============================================================================
