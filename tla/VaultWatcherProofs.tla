-------------------------- MODULE VaultWatcherProofs --------------------------
(***************************************************************************)
(* Proofs about VaultWatcher, for any number of inbox names, documents,    *)
(* drops, restarts and lost indexes.                                       *)
(*                                                                         *)
(* A later copy of a document is deleted because the index in memory knows *)
(* its hash, so the invariant is about that index and not the one on disk: *)
(* what it knows is filed with its text, and the worker never touches the  *)
(* files of a hash it knows.                                               *)
(***************************************************************************)
EXTENDS VaultWatcher, TLAPS

\* The index file never claims more than the index in memory.
DiskInMem == disk \subseteq mem

\* What the worker extracted is the text of what it goes on to file, unless
\* a device replaced the file in between.
TextInHand ==
    /\ stage = "hash" => inbox[path] \in {Nothing, seen} \cup misread
    /\ stage \in {"duplicate", "move", "unlink", "sidecar", "index"} =>
         sha = seen \/ sha \in misread
    /\ stage = "index" => text[Target] = seen

\* The worker files what the index in memory does not know, and drops as a
\* duplicate what it does.
KnownInHand ==
    /\ stage = "duplicate" => sha \in mem
    /\ stage \in {"move", "unlink", "sidecar", "index"} => sha \notin mem

\* Unless a device replaced it, the file in hand is what was hashed.
FileInHand ==
    swapped \/ /\ stage \in {"duplicate", "move", "unlink"} => inbox[path] = sha
               /\ stage \in {"unlink", "sidecar", "index"} => vault[Target] = sha

\* The PDF of c is in the vault under the name <hash>-<slug of p>, with its
\* text beside it.
Complete(c, p) ==
    /\ vault[<<c, p>>] = c
    /\ text[<<c, p>>] \in IF c \in misread THEN Contents ELSE {c}

\* What the index in memory knows is complete in the vault.
KnownIsComplete ==
    swapped \/ \A c \in mem \ undone : \E p \in Paths : Complete(c, p)

IInv ==
    /\ TypeOK /\ DiskInMem
    /\ TextInHand /\ KnownInHand /\ FileInHand
    /\ KnownIsComplete /\ DocumentsSurvive
-----------------------------------------------------------------------------
(* Type correctness *)

\* Every step keeps the shape of the state.
LEMMA TypeStep ==
  ASSUME TypeOK, [Next]_vars
  PROVE  TypeOK'
<1> USE VaultConstants DEF TypeOK, Stages, Names
<1>1. CASE UNCHANGED vars
  BY <1>1 DEF vars, Target, history
<1>2. ASSUME NEW p \in Paths, NEW c \in Contents \cup {Nothing}, Sync(p, c)
      PROVE  TypeOK'
  BY <1>2 DEF Sync
<1>3. CASE Scan
  BY <1>3 DEF Scan, history
<1>4. CASE LoseIndex
  BY <1>4 DEF LoseIndex, history
<1>5. CASE Restart
  BY <1>5 DEF Restart, Idle, history
<1>6. ASSUME NEW p \in Paths, Take(p) PROVE TypeOK'
  BY <1>6 DEF Take, Idle, history
<1>7. CASE Extract
  BY <1>7 DEF Extract, history
<1>8. CASE StepFails
  BY <1>8 DEF StepFails, Idle, history
<1>9. CASE Hash
  BY <1>9 DEF Hash, Known, history
<1>10. CASE RemoveDuplicate
  BY <1>10 DEF RemoveDuplicate, Idle, history
<1>11. CASE Rename
  BY <1>11 DEF Rename, Target, history
<1>12. CASE Copy
  BY <1>12 DEF Copy, Target, history
<1>13. CASE CopyFails
  BY <1>13 DEF CopyFails, Target, Idle, history
<1>14. CASE UnlinkSource
  BY <1>14 DEF UnlinkSource, Target, history
<1>15. CASE WriteSidecar
  BY <1>15 DEF WriteSidecar, Target, history
<1>16. CASE SidecarFails
  BY <1>16 DEF SidecarFails, RollBack, Target, Idle, history
<1>17. CASE AddEntry
  BY <1>17 DEF AddEntry, Target, Idle, history
<1>18. CASE FlushFails
  BY <1>18 DEF FlushFails, RollBack, Target, Idle, history
<1>19. QED
  BY <1>1, <1>2, <1>3, <1>4, <1>5, <1>6, <1>7, <1>8, <1>9, <1>10, <1>11,
     <1>12, <1>13, <1>14, <1>15, <1>16, <1>17, <1>18 DEF Next, Worker

-----------------------------------------------------------------------------
(* What the worker has in hand *)

\* The index in memory is ahead of the one on disk; the worker works on what it
\* does not know, or drops what it knows.
LEMMA IndexStep ==
  ASSUME TypeOK, DiskInMem, KnownInHand, [Next]_vars
  PROVE  DiskInMem' /\ KnownInHand'
<1> USE VaultConstants DEF TypeOK, DiskInMem, KnownInHand
<1>1. CASE UNCHANGED vars
  BY <1>1 DEF vars, Target, history
<1>2. ASSUME NEW p \in Paths, NEW c \in Contents \cup {Nothing}, Sync(p, c)
      PROVE  DiskInMem' /\ KnownInHand'
  BY <1>2 DEF Sync
<1>3. CASE Scan
  BY <1>3 DEF Scan, history
<1>4. CASE LoseIndex
  BY <1>4 DEF LoseIndex, history
<1>5. CASE Restart
  BY <1>5 DEF Restart, Idle, history
<1>6. ASSUME NEW p \in Paths, Take(p) PROVE DiskInMem' /\ KnownInHand'
  BY <1>6 DEF Take, Idle, history
<1>7. CASE Extract
  BY <1>7 DEF Extract, history
<1>8. CASE StepFails
  BY <1>8 DEF StepFails, Idle, history
<1>9. CASE Hash
  BY <1>9 DEF Hash, Known, history
<1>10. CASE RemoveDuplicate
  BY <1>10 DEF RemoveDuplicate, Idle, history
<1>11. CASE Rename
  BY <1>11 DEF Rename, Target, history
<1>12. CASE Copy
  BY <1>12 DEF Copy, Target, history
<1>13. CASE CopyFails
  BY <1>13 DEF CopyFails, Target, Idle, history
<1>14. CASE UnlinkSource
  BY <1>14 DEF UnlinkSource, Target, history
<1>15. CASE WriteSidecar
  BY <1>15 DEF WriteSidecar, Target, history
<1>16. CASE SidecarFails
  BY <1>16 DEF SidecarFails, RollBack, Target, Idle, history
<1>17. CASE AddEntry
  BY <1>17 DEF AddEntry, Target, Idle, history
<1>18. CASE FlushFails
  BY <1>18 DEF FlushFails, RollBack, Target, Idle, history
<1>19. QED
  BY <1>1, <1>2, <1>3, <1>4, <1>5, <1>6, <1>7, <1>8, <1>9, <1>10, <1>11,
     <1>12, <1>13, <1>14, <1>15, <1>16, <1>17, <1>18 DEF Next, Worker

\* Only a device comes between the worker's steps.
LEMMA HandStep ==
  ASSUME TypeOK, TextInHand, FileInHand, [Next]_vars
  PROVE  TextInHand' /\ FileInHand'
<1> USE VaultConstants DEF TypeOK, TextInHand, FileInHand, Names, Target
<1>1. CASE UNCHANGED vars
  BY <1>1 DEF vars, Target, history
<1>2. ASSUME NEW p \in Paths, NEW c \in Contents \cup {Nothing}, Sync(p, c)
      PROVE  TextInHand' /\ FileInHand'
  BY <1>2 DEF Sync
<1>3. CASE Scan
  BY <1>3 DEF Scan, history
<1>4. CASE LoseIndex
  BY <1>4 DEF LoseIndex, history
<1>5. CASE Restart
  BY <1>5 DEF Restart, Idle, history
<1>6. ASSUME NEW p \in Paths, Take(p) PROVE TextInHand' /\ FileInHand'
  BY <1>6 DEF Take, Idle, history
<1>7. CASE Extract
  BY <1>7 DEF Extract, history
<1>8. CASE StepFails
  BY <1>8 DEF StepFails, Idle, history
<1>9. CASE Hash
  BY <1>9 DEF Hash, Known, history
<1>10. CASE RemoveDuplicate
  BY <1>10 DEF RemoveDuplicate, Idle, history
<1>11. CASE Rename
  BY <1>11 DEF Rename, Target, history
<1>12. CASE Copy
  BY <1>12 DEF Copy, Target, history
<1>13. CASE CopyFails
  BY <1>13 DEF CopyFails, Target, Idle, history
<1>14. CASE UnlinkSource
  BY <1>14 DEF UnlinkSource, Target, history
<1>15. CASE WriteSidecar
  BY <1>15 DEF WriteSidecar, Target, history
<1>16. CASE SidecarFails
  BY <1>16 DEF SidecarFails, RollBack, Target, Idle, history
<1>17. CASE AddEntry
  BY <1>17 DEF AddEntry, Target, Idle, history
<1>18. CASE FlushFails
  BY <1>18 DEF FlushFails, RollBack, Target, Idle, history
<1>19. QED
  BY <1>1, <1>2, <1>3, <1>4, <1>5, <1>6, <1>7, <1>8, <1>9, <1>10, <1>11,
     <1>12, <1>13, <1>14, <1>15, <1>16, <1>17, <1>18 DEF Next, Worker

-----------------------------------------------------------------------------
(* What is known is filed, and what was dropped is somewhere *)

\* A document stays complete while its two files stay as they are.
LEMMA KnownKept ==
  ASSUME TypeOK, KnownIsComplete, swapped => swapped', misread \subseteq misread',
         \A c \in mem' \ undone' :
            /\ c \in mem \ undone
            /\ \A p \in Paths : /\ vault'[<<c, p>>] = vault[<<c, p>>]
                               /\ text'[<<c, p>>] = text[<<c, p>>]
  PROVE  KnownIsComplete'
<1> SUFFICES ASSUME ~swapped', NEW c \in mem' \ undone'
             PROVE  \E p \in Paths : Complete(c, p)'
  BY DEF KnownIsComplete
<1>1. PICK p \in Paths : Complete(c, p)
  BY DEF KnownIsComplete
<1>2. c \in Contents
  BY DEF TypeOK
<1>3. Complete(c, p)'
  BY <1>1, <1>2 DEF Complete
<1>4. QED
  BY <1>3

\* Nothing the index knows is touched, and what it learns is complete.
LEMMA KnownStep ==
  ASSUME TypeOK, DiskInMem, TextInHand, KnownInHand, FileInHand, KnownIsComplete,
         [Next]_vars
  PROVE  KnownIsComplete'
<1> USE VaultConstants DEF TypeOK, KnownInHand
<1>1. CASE UNCHANGED vars
  BY <1>1, KnownKept DEF vars
<1>2. ASSUME NEW p \in Paths, NEW c \in Contents \cup {Nothing}, Sync(p, c)
      PROVE  KnownIsComplete'
  BY <1>2, KnownKept DEF Sync
<1>3. CASE Scan
  BY <1>3, KnownKept DEF Scan, history
<1>4. CASE LoseIndex
  BY <1>4, KnownKept DEF LoseIndex, history
<1>5. CASE Restart
  BY <1>5, KnownKept DEF Restart, DiskInMem, history
<1>6. ASSUME NEW p \in Paths, Take(p) PROVE KnownIsComplete'
  BY <1>6, KnownKept DEF Take, history
<1>7. CASE Extract
  BY <1>7, KnownKept DEF Extract, history
<1>8. CASE StepFails
  BY <1>8, KnownKept DEF StepFails, history
<1>9. CASE Hash
  BY <1>9, KnownKept DEF Hash, history
<1>10. CASE RemoveDuplicate
  BY <1>10, KnownKept DEF RemoveDuplicate, history
<1>11. CASE Rename
  <2>1. \A c \in mem : c # sha
    BY <1>11 DEF Rename
  <2>2. QED
    BY <1>11, <2>1, KnownKept DEF Rename, Target, Idle, history, Names
<1>12. CASE Copy
  <2>1. \A c \in mem : c # sha
    BY <1>12 DEF Copy
  <2>2. QED
    BY <1>12, <2>1, KnownKept DEF Copy, Target, Idle, history, Names
<1>13. CASE CopyFails
  <2>1. \A c \in mem : c # sha
    BY <1>13 DEF CopyFails
  <2>2. QED
    BY <1>13, <2>1, KnownKept DEF CopyFails, Target, Idle, history, Names
<1>14. CASE UnlinkSource
  BY <1>14, KnownKept DEF UnlinkSource, history
<1>15. CASE WriteSidecar
  <2>1. \A c \in mem : c # sha
    BY <1>15 DEF WriteSidecar
  <2>2. QED
    BY <1>15, <2>1, KnownKept DEF WriteSidecar, Target, Idle, history, Names
<1>16. CASE SidecarFails
  <2>1. \A c \in mem : c # sha
    BY <1>16 DEF SidecarFails
  <2>2. QED
    BY <1>16, <2>1, KnownKept DEF SidecarFails, RollBack, Target, Idle, history, Names
<1>17. CASE AddEntry
  <2> SUFFICES ASSUME ~swapped, NEW c \in mem' \ undone
               PROVE  \E p \in Paths : Complete(c, p)'
    BY <1>17 DEF AddEntry, KnownIsComplete, history
  <2>1. UNCHANGED <<vault, text, misread>> /\ mem' = mem \cup {sha}
    BY <1>17 DEF AddEntry, history
  <2>2. CASE c = sha
    <3>1. path \in Paths /\ sha \in Contents
      BY <1>17 DEF AddEntry
    <3>2. Complete(sha, path)
      BY <1>17, <3>1 DEF AddEntry, Complete, FileInHand, TextInHand, Target
    <3>3. QED
      BY <2>1, <2>2, <3>1, <3>2 DEF Complete
  <2>3. CASE c \in mem
    BY <2>1, <2>3 DEF KnownIsComplete, Complete
  <2>4. QED
    BY <2>1, <2>2, <2>3
<1>18. CASE FlushFails
  <2>1. \A c \in mem : c # sha
    BY <1>18 DEF FlushFails
  <2>2. swapped \/ sha \in undone'
    BY <1>18 DEF FlushFails, RollBack, FileInHand
  <2>3. CASE swapped
    BY <1>18, <2>3 DEF FlushFails, KnownIsComplete
  <2>4. CASE ~swapped
    BY <1>18, <2>1, <2>2, <2>4, KnownKept DEF FlushFails, RollBack, Target, Names
  <2>5. QED
    BY <2>3, <2>4
<1>19. QED
  BY <1>1, <1>2, <1>3, <1>4, <1>5, <1>6, <1>7, <1>8, <1>9, <1>10, <1>11,
     <1>12, <1>13, <1>14, <1>15, <1>16, <1>17, <1>18 DEF Next, Worker

\* A document leaves the inbox for the vault, or because it is filed already.
LEMMA SurviveStep ==
  ASSUME TypeOK, KnownInHand, FileInHand, KnownIsComplete, DocumentsSurvive, [Next]_vars
  PROVE  DocumentsSurvive'
<1> USE VaultConstants DEF TypeOK, KnownInHand, FileInHand, KnownIsComplete,
            DocumentsSurvive, InInbox, Filed, Names, Target
<1>1. CASE UNCHANGED vars
  BY <1>1 DEF vars, Target, history
<1>2. ASSUME NEW p \in Paths, NEW c \in Contents \cup {Nothing}, Sync(p, c)
      PROVE  DocumentsSurvive'
  <2>1. /\ vault' = vault /\ undone' = undone /\ (swapped => swapped')
        /\ inbox'[p] = c /\ \A q \in Paths \ {p} : inbox'[q] = inbox[q]
    BY <1>2 DEF Sync
  <2>2. \A d \in dropped' :
          \/ d = c
          \/ d \in dropped /\ (\/ d # inbox[p] \/ Filed(d)
                               \/ \E q \in Paths \ {p} : inbox[q] = d)
    BY <1>2 DEF Sync
  <2>3. swapped \/ \A d \in dropped \ undone : InInbox(d) \/ Filed(d)
    OBVIOUS
  <2> HIDE DEF TypeOK, KnownInHand, FileInHand, KnownIsComplete, Target, Names
  <2>4. QED
    BY <2>1, <2>2, <2>3
<1>3. CASE Scan
  BY <1>3 DEF Scan, history
<1>4. CASE LoseIndex
  BY <1>4 DEF LoseIndex, history
<1>5. CASE Restart
  BY <1>5 DEF Restart, Idle, history
<1>6. ASSUME NEW p \in Paths, Take(p) PROVE DocumentsSurvive'
  BY <1>6 DEF Take, Idle, history
<1>7. CASE Extract
  BY <1>7 DEF Extract, history
<1>8. CASE StepFails
  BY <1>8 DEF StepFails, Idle, history
<1>9. CASE Hash
  BY <1>9 DEF Hash, Known, history
<1>10. CASE RemoveDuplicate
  <2> SUFFICES ASSUME ~swapped, NEW c \in dropped \ undone
               PROVE  InInbox(c)' \/ Filed(c)'
    BY <1>10 DEF RemoveDuplicate, history
  <2>1. inbox[path] = sha /\ inbox' = [inbox EXCEPT ![path] = Nothing] /\ vault' = vault
    BY <1>10 DEF RemoveDuplicate, history
  <2>2. CASE c = sha
    <3>1. sha \in mem \ undone
      BY <1>10, <2>2 DEF RemoveDuplicate
    <3>2. QED
      BY <2>1, <2>2, <3>1 DEF Complete
  <2>3. CASE c # sha /\ InInbox(c)
    BY <2>1, <2>3
  <2>4. CASE Filed(c)
    BY <2>1, <2>4
  <2>5. QED
    BY <2>2, <2>3, <2>4
<1>11. CASE Rename
  BY <1>11 DEF Rename, Target, history
<1>12. CASE Copy
  BY <1>12 DEF Copy, Target, history
<1>13. CASE CopyFails
  BY <1>13 DEF CopyFails, Target, Idle, history
<1>14. CASE UnlinkSource
  <2> SUFFICES ASSUME ~swapped, NEW c \in dropped \ undone
               PROVE  InInbox(c)' \/ Filed(c)'
    BY <1>14 DEF UnlinkSource, history
  <2>1. inbox[path] = sha /\ inbox' = [inbox EXCEPT ![path] = Nothing] /\ vault' = vault
    BY <1>14 DEF UnlinkSource, history
  <2>2. CASE c = sha
    BY <1>14, <2>1, <2>2 DEF UnlinkSource
  <2>3. CASE c # sha /\ InInbox(c)
    BY <2>1, <2>3
  <2>4. CASE Filed(c)
    BY <2>1, <2>4
  <2>5. QED
    BY <2>2, <2>3, <2>4
<1>15. CASE WriteSidecar
  BY <1>15 DEF WriteSidecar, Target, history
<1>16. CASE SidecarFails
  BY <1>16 DEF SidecarFails, RollBack, Target, Idle, history
<1>17. CASE AddEntry
  BY <1>17 DEF AddEntry, Target, Idle, history
<1>18. CASE FlushFails
  BY <1>18 DEF FlushFails, RollBack, Target, Idle, history
<1>19. QED
  BY <1>1, <1>2, <1>3, <1>4, <1>5, <1>6, <1>7, <1>8, <1>9, <1>10, <1>11,
     <1>12, <1>13, <1>14, <1>15, <1>16, <1>17, <1>18 DEF Next, Worker

-----------------------------------------------------------------------------
(* The theorems *)

\* The initial state satisfies the invariant.
LEMMA InitInvariant == Init => IInv
<1> SUFFICES ASSUME Init PROVE IInv
  OBVIOUS
<1>1. TypeOK /\ DiskInMem
  BY DEF Init, TypeOK, DiskInMem, Stages, Names
<1>2. TextInHand /\ KnownInHand /\ FileInHand
  BY DEF Init, TextInHand, KnownInHand, FileInHand
<1>3. KnownIsComplete /\ DocumentsSurvive
  BY DEF Init, KnownIsComplete, DocumentsSurvive
<1>4. QED
  BY <1>1, <1>2, <1>3 DEF IInv

\* Every step preserves the invariant.
LEMMA InvariantStep == IInv /\ [Next]_vars => IInv'
  BY TypeStep, IndexStep, HandStep, KnownStep, SurviveStep DEF IInv

\* IInv is an invariant of the vault.
THEOREM Invariance == Spec => []IInv
  BY InitInvariant, InvariantStep, PTL DEF Spec

\* The state keeps its shape.
THEOREM TypeCorrect == Spec => []TypeOK
<1>1. IInv => TypeOK
  BY DEF IInv
<1>2. QED
  BY <1>1, Invariance, PTL

\* A dropped document is in the inbox or whole in the vault, through crashes,
\* failed copies and lost indexes (file_document, _handle_path).
THEOREM NoDocumentLost == Spec => []DocumentsSurvive
<1>1. IInv => DocumentsSurvive
  BY DEF IInv
<1>2. QED
  BY <1>1, Invariance, PTL

\* What .index.json claims is in the vault with its own text beside it: what
\* the index in memory knows is complete, and the file never claims more.
THEOREM IndexTellsTheTruth == Spec => []IndexedIsComplete
<1>1. IInv => IndexedIsComplete
  <2> SUFFICES ASSUME IInv, ~swapped, NEW c \in disk \ undone
               PROVE  \E p \in Paths : Complete(c, p)
    BY DEF IndexedIsComplete, Complete
  <2>1. QED
    BY DEF IInv, DiskInMem, KnownIsComplete
<1>2. QED
  BY <1>1, Invariance, PTL

\* A hash in the index file gets no further PDF, however the watcher is
\* restarted: the worker only files what the index in memory does not know.
THEOREM FiledOnce == Spec => NoSecondCopy
<1> DEFINE Once == losses = 0 => \A n \in Names :
                     n[1] \in disk /\ vault[n] = Nothing => vault'[n] = Nothing
<1>1. IInv /\ [Next]_vars => [Once]_vault
  <2> SUFFICES ASSUME IInv, [Next]_vars, vault' # vault,
                      NEW n \in Names, n[1] \in disk, vault[n] = Nothing
               PROVE  vault'[n] = Nothing
    OBVIOUS
  <2>1. stage \in {"move", "sidecar", "index"} /\ \E c \in Contents \cup {Torn, Nothing} :
          vault' = [vault EXCEPT ![Target] = c]
    BY DEF IInv, TypeOK, Next, Worker, vars, history, Sync, Scan, LoseIndex, Restart,
           Take, Extract, StepFails, Hash, RemoveDuplicate, Rename, Copy, CopyFails,
           UnlinkSource, WriteSidecar, SidecarFails, AddEntry, FlushFails, RollBack
  <2>2. n # Target
    BY <2>1 DEF IInv, DiskInMem, KnownInHand, Target
  <2>3. QED
    BY <2>1, <2>2 DEF IInv, TypeOK
<1>2. QED
  BY <1>1, Invariance, PTL DEF Spec, NoSecondCopy
=============================================================================
