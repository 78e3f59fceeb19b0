------------------------- MODULE BottleStore_proofs -------------------------
(***************************************************************************)
(* The blob store implements ContentStore, for any number of processes,    *)
(* bottles and commands, whatever fails, dies or is cleaned up meanwhile.  *)
(* It holds whole blobs only, it is found whole by the commands that run   *)
(* one after the other, the litter of dead processes is paid for by their  *)
(* deaths, and cleanup reclaims what is not to be kept.                    *)
(*                                                                         *)
(* The argument: only the process that holds brewdock.lock is inside put,  *)
(* so no other process creates, writes or renames its temporary blob; a    *)
(* cleanup can only make that file disappear, and then the rename fails.   *)
(***************************************************************************)
EXTENDS BottleStore, FiniteSetTheorems, TLAPS

Installing == {"pick", "check", "download", "put", "write", "publish", "hit", "extract",
               "scan", "copy"}

OnlyHolderInstalls == \A p \in Proc : pc[p] \in Installing => lock = p
WrittenBeforeRename == \A p \in Proc : At(p, "publish") => TempOf(p) \in {"none", "whole"}
NoPartBlob == \A s \in Sha : blob[s] \in {"none", "whole"}

SInv == TypeOK /\ OnlyHolderInstalls /\ WrittenBeforeRename /\ NoPartBlob

LEMMA InitSInv == Init => SInv
  BY StoreAssumption DEF Init, SInv, TypeOK, OnlyHolderInstalls, WrittenBeforeRename, NoPartBlob,
     File, Step, Work, Nonce, Installing, At, Count

\* The initial states of the store are initial states of the map.
LEMMA InitImplements == Init => Blobs!Init
  BY DEF Init, Blobs!Init

-----------------------------------------------------------------------------
(***************************************************************************)
(* Type correctness.                                                       *)
(***************************************************************************)
LEMMA ZeroNonce == 0 \in Nonce
  BY StoreAssumption DEF Nonce

LEMMA WorkFields ==
  ASSUME TypeOK, NEW p \in Proc
  PROVE  work[p] \in Work /\ work[p].sha \in Sha /\ work[p].nonce \in Nonce
  BY DEF TypeOK, Work

LEMMA WorkSet ==
  ASSUME TypeOK, NEW p \in Proc, NEW w \in Work, SetWork(p, w)
  PROVE  work' \in [Proc -> Work]
  BY DEF TypeOK, SetWork

LEMMA TempSet ==
  ASSUME TypeOK, NEW p \in Proc, NEW f \in File, SetTemp(p, f)
  PROVE  temp' \in [Sha -> [Nonce -> File]]
<1>1. work[p].sha \in Sha /\ work[p].nonce \in Nonce
  BY WorkFields
<1> QED
  BY <1>1 DEF TypeOK, SetTemp

\* What every step changes: the files ...
StoresTyped ==
    /\ blob' \in [Sha -> File] /\ temp' \in [Sha -> [Nonce -> File]]
    /\ dir' \in [Sha -> BOOLEAN] /\ tree' \in [Sha -> SUBSET Part]

\* ... the shared state and the program counters.
ControlTyped ==
    /\ current' \subseteq Sha /\ installed' \subseteq Formula
    /\ lock' \in Proc \union {NoProc} /\ pc' \in [Proc -> Step]
    /\ count' \in Count

LEMMA WorkInstall ==
  ASSUME TypeOK, NEW p \in Proc, Install(p) PROVE work' \in [Proc -> Work]
<1> USE WorkFields, WorkSet
<1>1. CASE \E fs \in SUBSET Formula : StartInstall(p, fs)
  <2>0. PICK fs \in SUBSET Formula : StartInstall(p, fs)
    BY <1>1
  <2>1. SetWork(p, [work[p] EXCEPT !.goal = fs, !.nonce = 0])
    BY <2>0 DEF StartInstall
  <2>2. [work[p] EXCEPT !.goal = fs, !.nonce = 0] \in Work
    BY ZeroNonce DEF Work
  <2> QED
    BY <2>1, <2>2
<1>2. CASE \E s \in Sha : Pick(p, s)
  <2>0. PICK s \in Sha : Pick(p, s)
    BY <1>2
  <2>1. SetWork(p, [work[p] EXCEPT !.sha = s, !.copied = {}])
    BY <2>0 DEF Pick
  <2>2. [work[p] EXCEPT !.sha = s, !.copied = {}] \in Work
    BY DEF Work
  <2> QED
    BY <2>1, <2>2
<1>3. CASE Publish(p)
  <2>1. work[p].nonce + 1 \in Nonce
    BY <1>3, StoreAssumption DEF Publish, Nonce
  <2>2. [work[p] EXCEPT !.nonce = @ + 1] \in Work
    BY <2>1 DEF Work
  <2> QED
    BY <1>3, <2>2 DEF Publish
<1>4. CASE OpenArchive(p)
  <2>1. [work[p] EXCEPT !.todo = Part] \in Work
    BY DEF Work
  <2> QED
    BY <1>4, <2>1 DEF OpenArchive
<1>5. CASE Scan(p)
  <2>1. tree[work[p].sha] \in SUBSET Part
    BY DEF TypeOK
  <2>2. [work[p] EXCEPT !.todo = tree[work[p].sha]] \in Work
    BY <2>1 DEF Work
  <2> QED
    BY <1>5, <2>2 DEF Scan
<1>6. CASE \E x \in Part : ExtractEntry(p, x)
  <2>1. PICK x \in Part : SetWork(p, [work[p] EXCEPT !.todo = @ \ {x}])
    BY <1>6 DEF ExtractEntry
  <2>2. [work[p] EXCEPT !.todo = @ \ {x}] \in Work
    BY DEF Work
  <2> QED
    BY <2>1, <2>2
<1>7. CASE \E x \in Part : CopyFile(p, x)
  <2>0. PICK x \in Part : CopyFile(p, x)
    BY <1>7
  <2>1. SetWork(p, [work[p] EXCEPT !.copied = @ \union {x}, !.todo = @ \ {x}])
    BY <2>0 DEF CopyFile
  <2>2. [work[p] EXCEPT !.copied = @ \union {x}, !.todo = @ \ {x}] \in Work
    BY DEF Work
  <2> QED
    BY <2>1, <2>2
<1>8. CASE Materialized(p)
  <2>1. [work[p] EXCEPT !.goal = work[p].goal \ {Owner[work[p].sha]}] \in Work
    BY DEF Work
  <2> QED
    BY <1>8, <2>1 DEF Materialized
<1>9. CASE UNCHANGED work
  BY <1>9 DEF TypeOK
<1> QED
  BY <1>1, <1>2, <1>3, <1>4, <1>5, <1>6, <1>7, <1>8, <1>9
  DEF Install, CheckBlob, DownloadVerified, TreeHit, Extracted, DownloadFails,
      PublishFails, OpenFails, ExtractFails, CopyFails, TempTaken, WriteFails, CreateTemp,
      WriteTemp, GiveUp

LEMMA WorkCleanup ==
  ASSUME TypeOK, NEW p \in Proc, Cleanup(p) PROVE work' \in [Proc -> Work]
<1> USE WorkFields, WorkSet
<1>1. CASE StartCleanup(p)
  <2> DEFINE k == {s \in current : Owner[s] \in installed}
             b == {s \in Sha : has(s)}
             w == [work[p] EXCEPT !.keep = k, !.blobs = b, !.temps = TempNames]
  <2>1. SetWork(p, w)
    BY <1>1 DEF StartCleanup
  <2>2. k \in SUBSET Sha /\ b \in SUBSET Sha /\ TempNames \in SUBSET (Sha \X Nonce)
    BY DEF TempNames, TypeOK
  <2> HIDE DEF k, b
  <2>3. w \in Work
    BY <2>2 DEF Work
  <2> HIDE DEF w
  <2> QED
    BY <2>1, <2>3
<1>2. CASE \E s \in Sha : CleanBlob(p, s)
  <2>1. PICK s \in Sha : SetWork(p, [work[p] EXCEPT !.blobs = @ \ {s}])
    BY <1>2 DEF CleanBlob
  <2>2. [work[p] EXCEPT !.blobs = @ \ {s}] \in Work
    BY DEF Work
  <2> QED
    BY <2>1, <2>2
<1>3. CASE \E s \in Sha : CleanTree(p, s)
  <2>0. PICK s \in Sha : CleanTree(p, s)
    BY <1>3
  <2>1. SetWork(p, [work[p] EXCEPT !.trees = @ \ {s}, !.sha = s])
    BY <2>0 DEF CleanTree
  <2>2. [work[p] EXCEPT !.trees = @ \ {s}, !.sha = s] \in Work
    BY DEF Work
  <2> QED
    BY <2>1, <2>2
<1>4. CASE \E s \in Sha, n \in Nonce : CleanTemp(p, s, n)
  <2>1. PICK s \in Sha, n \in Nonce : SetWork(p, [work[p] EXCEPT !.temps = @ \ {<<s, n>>}])
    BY <1>4 DEF CleanTemp
  <2>2. [work[p] EXCEPT !.temps = @ \ {<<s, n>>}] \in Work
    BY DEF Work
  <2> QED
    BY <2>1, <2>2
<1>5. CASE BlobsCleaned(p)
  <2> DEFINE d == {s \in Sha : dir[s]}
  <2>1. SetWork(p, [work[p] EXCEPT !.trees = d])
    BY <1>5 DEF BlobsCleaned
  <2>2. d \in SUBSET Sha
    OBVIOUS
  <2> HIDE DEF d
  <2>3. [work[p] EXCEPT !.trees = d] \in Work
    BY <2>2 DEF Work
  <2> QED
    BY <2>1, <2>3
<1>6. CASE UNCHANGED work
  BY <1>6 DEF TypeOK
<1> QED
  BY <1>1, <1>2, <1>3, <1>4, <1>5, <1>6
  DEF Cleanup, RemoveFile, RemoveDir, RemoveDirFails, Cleaned

LEMMA StoresInstall ==
  ASSUME TypeOK, NEW p \in Proc, Install(p) PROVE StoresTyped
<1> USE WorkFields
<1>1. CASE CreateTemp(p) \/ WriteTemp(p) \/ TempTaken(p) \/ WriteFails(p)
  <2>1. temp' \in [Sha -> [Nonce -> File]]
    <3>1. \E f \in File : SetTemp(p, f)
      BY <1>1 DEF CreateTemp, WriteTemp, TempTaken, WriteFails, File
    <3> QED
      BY <3>1, TempSet
  <2>2. UNCHANGED <<blob, dir, tree>>
    BY <1>1 DEF CreateTemp, WriteTemp, TempTaken, WriteFails
  <2> QED
    BY <2>1, <2>2 DEF TypeOK, StoresTyped
<1>2. CASE Publish(p)
  <2>1. TempOf(p) \in File
    BY DEF TypeOK, TempOf
  <2>2. blob' \in [Sha -> File]
    BY <1>2, <2>1 DEF Publish, TypeOK
  <2>3. temp' \in [Sha -> [Nonce -> File]]
    BY <1>2, TempSet, "none" \in File DEF Publish, File
  <2> QED
    BY <1>2, <2>2, <2>3 DEF Publish, TypeOK, StoresTyped
<1>3. CASE \E x \in Part : ExtractEntry(p, x)
  <2>1. PICK x \in Part : ExtractEntry(p, x)
    BY <1>3
  <2>2. dir' \in [Sha -> BOOLEAN] /\ tree' \in [Sha -> SUBSET Part]
    BY <2>1 DEF ExtractEntry, TypeOK
  <2> QED
    BY <2>1, <2>2 DEF ExtractEntry, TypeOK, StoresTyped
<1>4. CASE UNCHANGED stores
  BY <1>4 DEF stores, TypeOK, StoresTyped
<1>5. CASE \E fs \in SUBSET Formula : StartInstall(p, fs)
  BY <1>4, <1>5 DEF StartInstall
<1>7. CASE \E s \in Sha : Pick(p, s)
  BY <1>4, <1>7 DEF Pick
<1>8. CASE \E x \in Part : CopyFile(p, x)
  BY <1>4, <1>8 DEF CopyFile
<1>6. CASE CheckBlob(p) \/ DownloadVerified(p) \/ TreeHit(p) \/ Extracted(p)
           \/ DownloadFails(p) \/ PublishFails(p) \/ OpenFails(p) \/ ExtractFails(p)
           \/ CopyFails(p) \/ OpenArchive(p) \/ Scan(p) \/ Materialized(p)
  <2>1. UNCHANGED stores
    BY <1>6 DEF CheckBlob, DownloadVerified, TreeHit, Extracted, DownloadFails,
       PublishFails, OpenFails, ExtractFails, CopyFails, OpenArchive, Scan, Materialized
  <2> QED
    BY <1>4, <2>1
<1> QED
  BY <1>1, <1>2, <1>3, <1>5, <1>6, <1>7, <1>8 DEF Install

LEMMA StoresCleanup ==
  ASSUME TypeOK, NEW p \in Proc, Cleanup(p) PROVE StoresTyped
<1> USE WorkFields
<1>1. CASE \E s \in Sha : CleanBlob(p, s)
  BY <1>1 DEF CleanBlob, TypeOK, StoresTyped, File
<1>2. CASE \E s \in Sha, n \in Nonce : CleanTemp(p, s, n)
  BY <1>2 DEF CleanTemp, TypeOK, StoresTyped, File
<1>3. CASE \E x \in Part : RemoveFile(p, x)
  <2>1. PICK x \in Part : RemoveFile(p, x)
    BY <1>3
  <2>2. tree' \in [Sha -> SUBSET Part]
    BY <2>1 DEF RemoveFile, TypeOK
  <2> QED
    BY <2>1, <2>2 DEF RemoveFile, TypeOK, StoresTyped
<1>4. CASE RemoveDir(p)
  BY <1>4 DEF RemoveDir, TypeOK, StoresTyped
<1>5. CASE StartCleanup(p)
  BY <1>5 DEF StartCleanup, stores, TypeOK, StoresTyped
<1>6. CASE \E s \in Sha : CleanTree(p, s)
  BY <1>6 DEF CleanTree, stores, TypeOK, StoresTyped
<1>7. CASE BlobsCleaned(p)
  BY <1>7 DEF BlobsCleaned, stores, TypeOK, StoresTyped
<1>8. CASE RemoveDirFails(p) \/ Cleaned(p)
  BY <1>8 DEF RemoveDirFails, Cleaned, stores, TypeOK, StoresTyped
<1> QED
  BY <1>1, <1>2, <1>3, <1>4, <1>5, <1>6, <1>7, <1>8 DEF Cleanup

\* The counters stay numbers.
LEMMA Counted ==
  ASSUME TypeOK PROVE /\ \A p \in Proc : Started(p) => count' \in Count
                      /\ CutShort => count' \in Count
                      /\ count' = [count EXCEPT !.crashes = @ + 1] => count' \in Count
                      /\ count' = [count EXCEPT !.collisions = @ + 1] => count' \in Count
<1> USE DEF Count
<1>1. count \in Count
  BY DEF TypeOK
<1>2. ASSUME NEW p \in Proc, Started(p) PROVE count' \in Count
  <2>1. PICK n \in Nat : n = Overlap(p)
    BY DEF Overlap
  <2>2. PICK ops, overlaps \in Nat : ops = count.ops + 1 /\ overlaps = count.overlaps + n
    BY <1>1
  <2>3. [count EXCEPT !.ops = ops, !.overlaps = overlaps] \in Count
    BY <1>1
  <2>4. count' = [count EXCEPT !.ops = ops, !.overlaps = overlaps]
    BY <1>2, <2>1, <2>2, Zenon DEF Started
  <2> QED
    BY <2>3, <2>4, Zenon
<1>3. CutShort => count' \in Count
  BY <1>1 DEF CutShort
<1>4. count' = [count EXCEPT !.crashes = @ + 1] => count' \in Count
  BY <1>1
<1>5. count' = [count EXCEPT !.collisions = @ + 1] => count' \in Count
  BY <1>1
<1> QED
  BY <1>2, <1>3, <1>4, <1>5

LEMMA ControlInstall ==
  ASSUME TypeOK, NEW p \in Proc, Install(p) PROVE ControlTyped
<1> USE DEF TypeOK, ControlTyped, Goto, Step
<1>1. CASE \E fs \in SUBSET Formula : StartInstall(p, fs)
  BY <1>1, Counted DEF StartInstall
<1>2. CASE Materialized(p)
  <2>1. Owner[work[p].sha] \in Formula
    BY WorkFields, StoreAssumption
  <2> QED
    BY <1>2, <2>1 DEF Materialized
<1>3. CASE TempTaken(p)
  BY <1>3, Counted DEF TempTaken, GiveUp
<1>4. CASE DownloadFails(p) \/ WriteFails(p) \/ PublishFails(p) \/ OpenFails(p) \/ ExtractFails(p)
           \/ CopyFails(p)
  BY <1>4, Counted DEF DownloadFails, WriteFails, PublishFails, OpenFails, ExtractFails, CopyFails, GiveUp
<1>5. CASE CheckBlob(p) \/ DownloadVerified(p) \/ TreeHit(p) \/ Extracted(p)
           \/ CreateTemp(p) \/ WriteTemp(p) \/ Publish(p) \/ OpenArchive(p) \/ Scan(p)
  BY <1>5 DEF CheckBlob, DownloadVerified, TreeHit, Extracted, CreateTemp, WriteTemp,
     Publish, OpenArchive, Scan
<1>6. CASE \E s \in Sha : Pick(p, s)
  BY <1>6 DEF Pick
<1>7. CASE \E x \in Part : ExtractEntry(p, x)
  BY <1>7 DEF ExtractEntry
<1>8. CASE \E x \in Part : CopyFile(p, x)
  BY <1>8 DEF CopyFile
<1> QED
  BY <1>1, <1>2, <1>3, <1>4, <1>5, <1>6, <1>7, <1>8 DEF Install

LEMMA ControlCleanup ==
  ASSUME TypeOK, NEW p \in Proc, Cleanup(p) PROVE ControlTyped
<1> USE DEF TypeOK, ControlTyped, Goto, Step
<1>1. CASE StartCleanup(p)
  BY <1>1, Counted DEF StartCleanup
<1>2. CASE \E s \in Sha : CleanBlob(p, s)
  BY <1>2 DEF CleanBlob
<1>4. CASE \E s \in Sha : CleanTree(p, s)
  BY <1>4 DEF CleanTree
<1>5. CASE \E s \in Sha, n \in Nonce : CleanTemp(p, s, n)
  BY <1>5 DEF CleanTemp
<1>3. CASE (\E x \in Part : RemoveFile(p, x)) \/ RemoveDir(p) \/ RemoveDirFails(p) \/ Cleaned(p)
           \/ BlobsCleaned(p)
  BY <1>3 DEF RemoveFile, RemoveDir, RemoveDirFails, Cleaned, BlobsCleaned
<1> QED
  BY <1>1, <1>2, <1>3, <1>4, <1>5 DEF Cleanup

LEMMA TypeStep == TypeOK /\ [Next]_vars => TypeOK'
<1> SUFFICES ASSUME TypeOK, [Next]_vars PROVE TypeOK'
  OBVIOUS
<1>1. ASSUME NEW p \in Proc, Install(p) PROVE TypeOK'
  BY <1>1, WorkInstall, StoresInstall, ControlInstall DEF TypeOK, StoresTyped, ControlTyped
<1>2. ASSUME NEW p \in Proc, Cleanup(p) PROVE TypeOK'
  BY <1>2, WorkCleanup, StoresCleanup, ControlCleanup DEF TypeOK, StoresTyped, ControlTyped
<1>3. ASSUME NEW p \in Proc, Crash(p) PROVE TypeOK'
  <2>1. count' \in Count
    BY <1>3, Counted DEF Crash, TypeOK
  <2> QED
    BY <1>3, <2>1 DEF Crash, TypeOK, stores, Goto, Step
<1>4. ASSUME NEW s \in Sha, Update(s) PROVE TypeOK'
  BY <1>4 DEF Update, TypeOK, stores
<1>5. CASE UNCHANGED vars
  BY <1>5 DEF vars, stores, TypeOK
<1> QED
  BY <1>1, <1>2, <1>3, <1>4, <1>5 DEF Next

-----------------------------------------------------------------------------
(***************************************************************************)
(* The other conjuncts.  Two processes are never both inside an install;   *)
(* what a process is about to rename was written to the end or removed.    *)
(***************************************************************************)
LEMMA HolderStep == SInv /\ [Next]_vars => OnlyHolderInstalls'
<1> SUFFICES ASSUME SInv, [Next]_vars, NEW q \in Proc, pc'[q] \in Installing PROVE lock' = q
  BY DEF OnlyHolderInstalls
<1> USE DEF SInv, TypeOK, OnlyHolderInstalls, Installing, Goto, At
<1>1. ASSUME NEW p \in Proc, Install(p) PROVE lock' = q
  <2>1. CASE \E fs \in SUBSET Formula : StartInstall(p, fs)
    BY <2>1, StoreAssumption DEF StartInstall
  <2>2. CASE Materialized(p)
    BY <2>2, StoreAssumption DEF Materialized
  <2>3. CASE DownloadFails(p) \/ WriteFails(p) \/ PublishFails(p) \/ OpenFails(p) \/ ExtractFails(p)
             \/ CopyFails(p) \/ TempTaken(p)
    BY <2>3 DEF DownloadFails, WriteFails, PublishFails, OpenFails, ExtractFails, CopyFails,
       TempTaken, GiveUp
  <2>4. CASE CheckBlob(p) \/ DownloadVerified(p) \/ TreeHit(p) \/ Extracted(p)
             \/ CreateTemp(p) \/ WriteTemp(p) \/ Publish(p) \/ OpenArchive(p) \/ Scan(p)
    BY <2>4 DEF CheckBlob, DownloadVerified, TreeHit, Extracted, CreateTemp,
       WriteTemp, Publish, OpenArchive, Scan
  <2>5. CASE \E s \in Sha : Pick(p, s)
    BY <2>5 DEF Pick
  <2>6. CASE \E x \in Part : ExtractEntry(p, x)
    BY <2>6 DEF ExtractEntry
  <2>7. CASE \E x \in Part : CopyFile(p, x)
    BY <2>7 DEF CopyFile
  <2> QED
    BY <1>1, <2>1, <2>2, <2>3, <2>4, <2>5, <2>6, <2>7 DEF Install
<1>2. ASSUME NEW p \in Proc, Cleanup(p) PROVE lock' = q
  <2>1. CASE (\E s \in Sha : CleanBlob(p, s)) \/ (\E s \in Sha, n \in Nonce : CleanTemp(p, s, n))
             \/ (\E x \in Part : RemoveFile(p, x))
    BY <2>1 DEF CleanBlob, CleanTemp, RemoveFile
  <2>2. CASE \E s \in Sha : CleanTree(p, s)
    BY <2>2 DEF CleanTree
  <2>3. CASE StartCleanup(p) \/ BlobsCleaned(p) \/ RemoveDir(p) \/ RemoveDirFails(p) \/ Cleaned(p)
    BY <2>3 DEF StartCleanup, BlobsCleaned, RemoveDir, RemoveDirFails, Cleaned
  <2> QED
    BY <1>2, <2>1, <2>2, <2>3 DEF Cleanup
<1>3. ASSUME NEW p \in Proc, Crash(p) PROVE lock' = q
  BY <1>3, StoreAssumption DEF Crash
<1>4. ASSUME NEW s \in Sha, Update(s) PROVE lock' = q
  BY <1>4 DEF Update
<1>5. CASE UNCHANGED vars
  BY <1>5 DEF vars
<1> QED
  BY <1>1, <1>2, <1>3, <1>4, <1>5 DEF Next

\* What a step of p's install does to others, and where it matters to p.
InstallEffect(p) ==
    /\ \A q \in Proc \ {p} : pc'[q] = pc[q]
    /\ pc[p] \in Installing \/ lock = NoProc
    /\ Publish(p) \/ UNCHANGED blob
    /\ pc'[p] = "publish" => WriteTemp(p)

LEMMA InstallSteps ==
  ASSUME TypeOK, NEW p \in Proc, Install(p) PROVE InstallEffect(p)
<1> USE DEF TypeOK, InstallEffect, Goto, At, stores, GiveUp, Installing
<1>1. CASE \E fs \in SUBSET Formula : StartInstall(p, fs)
  BY <1>1 DEF StartInstall
<1>2. CASE \E s \in Sha : Pick(p, s)
  BY <1>2 DEF Pick
<1>3. CASE CheckBlob(p)
  BY <1>3 DEF CheckBlob
<1>4. CASE DownloadVerified(p)
  BY <1>4 DEF DownloadVerified
<1>5. CASE DownloadFails(p)
  BY <1>5 DEF DownloadFails
<1>6. CASE CreateTemp(p)
  BY <1>6 DEF CreateTemp
<1>7. CASE TempTaken(p)
  BY <1>7 DEF TempTaken
<1>8. CASE WriteTemp(p)
  BY <1>8 DEF WriteTemp
<1>9. CASE WriteFails(p)
  BY <1>9 DEF WriteFails
<1>10. CASE Publish(p)
  BY <1>10 DEF Publish
<1>11. CASE PublishFails(p)
  BY <1>11 DEF PublishFails
<1>12. CASE TreeHit(p)
  BY <1>12 DEF TreeHit
<1>13. CASE OpenArchive(p)
  BY <1>13 DEF OpenArchive
<1>14. CASE OpenFails(p)
  BY <1>14 DEF OpenFails
<1>15. CASE \E x \in Part : ExtractEntry(p, x)
  BY <1>15 DEF ExtractEntry
<1>16. CASE \E x \in Part : CopyFile(p, x)
  BY <1>16 DEF CopyFile
<1>17. CASE Extracted(p)
  BY <1>17 DEF Extracted
<1>18. CASE ExtractFails(p)
  BY <1>18 DEF ExtractFails
<1>19. CASE Scan(p)
  BY <1>19 DEF Scan
<1>20. CASE CopyFails(p)
  BY <1>20 DEF CopyFails
<1>21. CASE Materialized(p)
  BY <1>21 DEF Materialized
<1> QED
  BY <1>1, <1>2, <1>3, <1>4, <1>5, <1>6, <1>7, <1>8, <1>9, <1>10, <1>11, <1>12, <1>13,
     <1>14, <1>15, <1>16, <1>17, <1>18, <1>19, <1>20, <1>21 DEF Install

\* What a step of p's cleanup does to others: it may take away a temporary blob.
CleanupEffect(p) ==
    /\ \A q \in Proc \ {p} : pc'[q] = pc[q] /\ work'[q] = work[q]
    /\ pc'[p] # "publish"
    /\ (\E s \in Sha : CleanBlob(p, s)) \/ UNCHANGED blob
    /\ \A s \in Sha, n \in Nonce : temp'[s][n] \in {temp[s][n], "none"}

LEMMA CleanupSteps ==
  ASSUME TypeOK, NEW p \in Proc, Cleanup(p) PROVE CleanupEffect(p)
<1> USE DEF TypeOK, CleanupEffect, Goto, At, stores, SetWork
<1>1. CASE StartCleanup(p)
  BY <1>1 DEF StartCleanup
<1>2. CASE \E s \in Sha : CleanBlob(p, s)
  BY <1>2 DEF CleanBlob
<1>3. CASE \E s \in Sha : CleanTree(p, s)
  BY <1>3 DEF CleanTree
<1>4. CASE \E s \in Sha, n \in Nonce : CleanTemp(p, s, n)
  BY <1>4 DEF CleanTemp
<1>5. CASE \E x \in Part : RemoveFile(p, x)
  BY <1>5 DEF RemoveFile
<1>6. CASE BlobsCleaned(p)
  BY <1>6 DEF BlobsCleaned
<1>7. CASE RemoveDir(p)
  BY <1>7 DEF RemoveDir
<1>8. CASE RemoveDirFails(p)
  BY <1>8 DEF RemoveDirFails
<1>9. CASE Cleaned(p)
  BY <1>9 DEF Cleaned
<1> QED
  BY <1>1, <1>2, <1>3, <1>4, <1>5, <1>6, <1>7, <1>8, <1>9 DEF Cleanup

LEMMA WrittenStep == SInv /\ [Next]_vars => WrittenBeforeRename'
<1> SUFFICES ASSUME SInv, [Next]_vars, NEW q \in Proc, pc'[q] = "publish"
             PROVE  TempOf(q)' \in {"none", "whole"}
  BY DEF WrittenBeforeRename, At
<1>0. TypeOK
  BY DEF SInv
<1>a. work[q].sha \in Sha /\ work[q].nonce \in Nonce
  BY <1>0, WorkFields
<1>b. pc[q] = "publish" => TempOf(q) \in {"none", "whole"}
  BY DEF SInv, WrittenBeforeRename, At
<1>1. ASSUME NEW p \in Proc, Install(p) PROVE TempOf(q)' \in {"none", "whole"}
  <2>0. InstallEffect(p)
    BY <1>0, <1>1, InstallSteps
  <2>1. CASE p # q
    <3>1. pc[q] = "publish"
      BY <2>0, <2>1 DEF InstallEffect
    <3>2. lock = q /\ pc[p] \notin Installing
      BY <2>1, <3>1 DEF SInv, OnlyHolderInstalls, Installing
    <3> QED
      BY <2>0, <3>2, StoreAssumption DEF InstallEffect
  <2>2. CASE p = q
    <3>1. WriteTemp(q)
      BY <2>0, <2>2 DEF InstallEffect
    <3>2. work' = work /\ temp'[work[q].sha][work[q].nonce] \in {"none", "whole"}
      BY <1>0, <1>a, <3>1 DEF WriteTemp, SetTemp, TypeOK
    <3> QED
      BY <3>2 DEF TempOf
  <2> QED
    BY <2>1, <2>2
<1>2. ASSUME NEW p \in Proc, Cleanup(p) PROVE TempOf(q)' \in {"none", "whole"}
  <2>0. CleanupEffect(p)
    BY <1>0, <1>2, CleanupSteps
  <2>1. pc[q] = "publish" /\ work'[q] = work[q]
    BY <2>0 DEF CleanupEffect
  <2>2. temp'[work[q].sha][work[q].nonce] \in {TempOf(q), "none"}
    BY <1>a, <2>0 DEF CleanupEffect, TempOf
  <2> QED
    BY <1>b, <2>1, <2>2 DEF TempOf
<1>3. ASSUME NEW p \in Proc, Crash(p) PROVE TempOf(q)' \in {"none", "whole"}
  BY <1>0, <1>3, <1>b DEF Crash, Goto, TypeOK, stores, TempOf
<1>4. ASSUME NEW s \in Sha, Update(s) PROVE TempOf(q)' \in {"none", "whole"}
  BY <1>4, <1>b DEF Update, stores, TempOf
<1>5. CASE UNCHANGED vars
  BY <1>5, <1>b DEF vars, stores, TempOf
<1> QED
  BY <1>1, <1>2, <1>3, <1>4, <1>5 DEF Next

-----------------------------------------------------------------------------
(***************************************************************************)
(* Every step publishes one whole blob, discards one, or leaves all alone. *)
(***************************************************************************)
LEMMA StepImplements == SInv /\ [Next]_vars => [Blobs!Next]_blob
<1> SUFFICES ASSUME SInv, [Next]_vars, blob' # blob PROVE Blobs!Next
  OBVIOUS
<1>0. TypeOK /\ NoPartBlob
  BY DEF SInv
<1>1. ASSUME NEW p \in Proc, Install(p) PROVE Blobs!Next
  <2>1. Publish(p)
    BY <1>0, <1>1, InstallSteps DEF InstallEffect
  <2>2. work[p].sha \in Sha
    BY <1>0, WorkFields
  <2>3. blob' = [blob EXCEPT ![work[p].sha] = "whole"]
    BY <2>1 DEF Publish, SInv, WrittenBeforeRename, At, TempOf
  <2>4. blob[work[p].sha] = "none"
    BY <1>0, <2>2, <2>3 DEF NoPartBlob, TypeOK
  <2> QED
    BY <2>2, <2>3, <2>4 DEF Blobs!Next, Blobs!Publish
<1>2. ASSUME NEW p \in Proc, Cleanup(p) PROVE Blobs!Next
  <2>1. PICK s \in Sha : CleanBlob(p, s)
    BY <1>0, <1>2, CleanupSteps DEF CleanupEffect
  <2>2. blob' = [blob EXCEPT ![s] = "none"]
    BY <2>1 DEF CleanBlob
  <2>3. blob[s] = "whole"
    BY <1>0, <2>2 DEF NoPartBlob, TypeOK
  <2> QED
    BY <2>2, <2>3 DEF Blobs!Next, Blobs!Discard
<1> QED
  BY <1>1, <1>2 DEF Next, Crash, Update, vars, stores

LEMMA NoPartStep == SInv /\ [Next]_vars => NoPartBlob'
<1> SUFFICES ASSUME SInv, [Next]_vars PROVE NoPartBlob'
  OBVIOUS
<1>1. blob \in [Sha -> File] /\ NoPartBlob
  BY DEF SInv, TypeOK
<1> QED
  BY <1>1, StepImplements DEF NoPartBlob, Blobs!Next, Blobs!Publish, Blobs!Discard

LEMMA SInvStep == SInv /\ [Next]_vars => SInv'
  BY TypeStep, HolderStep, WrittenStep, NoPartStep DEF SInv

\* The type invariant of the model.
THEOREM StoreTyped == Spec => []TypeOK
<1>1. SInv => TypeOK
  BY DEF SInv
<1> QED
  BY <1>1, InitSInv, SInvStep, PTL DEF Spec

\* store.rs: a blob is published all at once, whatever fails, dies or is cleaned
\* up, for any number of processes: the blob store implements ContentStore.
THEOREM BlobStoreCorrect == Spec => BlobsAreAtomic
  BY InitSInv, SInvStep, InitImplements, StepImplements, PTL
  DEF Spec, BlobsAreAtomic, Blobs!Spec

-----------------------------------------------------------------------------
(***************************************************************************)
(* What a run of bd leaves and finds.                                      *)
(***************************************************************************)
LEMMA AlwaysSInv == Spec => []SInv
  BY InitSInv, SInvStep, PTL DEF Spec

-----------------------------------------------------------------------------
(***************************************************************************)
(* Temporary blobs nobody writes.                                          *)
(***************************************************************************)

\* p has a temporary blob open, or is about to rename it.
Writes(p) == pc[p] \in {"write", "publish"}

NameOf(p) == <<work[p].sha, work[p].nonce>>

\* Temporary blobs left by processes that died.
Litter == {x \in TempNames : \A p \in Proc : Writes(p) => x # NameOf(p)}

\* Each death inside put leaves one name at most, which one later put finds taken.
LitterCounted ==
    IsFiniteSet(Litter) /\ Cardinality(Litter) + count.collisions <= count.crashes

LEMMA IsTempName ==
    ASSUME NEW x
    PROVE  x \in TempNames <=> \E s \in Sha, n \in Nonce : x = <<s, n>> /\ temp[s][n] # "none"
BY DEF TempNames

\* The steps of an install, by what they do to temporary blobs.
PutEffect(p) ==
    \/ CreateTemp(p) \/ TempTaken(p) \/ WriteTemp(p) \/ WriteFails(p) \/ Publish(p) \/ PublishFails(p)
    \/ UNCHANGED temp /\ ~Writes(p) /\ ~Writes(p)'

LEMMA PutSteps ==
    ASSUME TypeOK, NEW p \in Proc, Install(p)
    PROVE  /\ PutEffect(p)
           /\ \A q \in Proc \ {p} : pc'[q] = pc[q] /\ work'[q] = work[q]
           /\ TempTaken(p) \/ (count'.collisions = count.collisions /\ count'.crashes = count.crashes)
<1> USE DEF TypeOK, PutEffect, Writes, Goto, At, stores, GiveUp, SetWork
<1>0. ASSUME Started(p) \/ CutShort \/ UNCHANGED count
      PROVE  count'.collisions = count.collisions /\ count'.crashes = count.crashes
  BY <1>0 DEF Started, CutShort, Count
<1>1. CASE \E fs \in SUBSET Formula : StartInstall(p, fs)
  BY <1>0, <1>1 DEF StartInstall
<1>2. CASE \E s \in Sha : Pick(p, s)
  BY <1>0, <1>2 DEF Pick
<1>3. CASE CheckBlob(p) \/ DownloadVerified(p) \/ DownloadFails(p)
  BY <1>0, <1>3 DEF CheckBlob, DownloadVerified, DownloadFails
<1>4. CASE CreateTemp(p) \/ TempTaken(p) \/ WriteTemp(p) \/ WriteFails(p) \/ PublishFails(p)
  BY <1>0, <1>4 DEF CreateTemp, TempTaken, WriteTemp, WriteFails, PublishFails
<1>5. CASE Publish(p)
  BY <1>0, <1>5 DEF Publish
<1>6. CASE TreeHit(p) \/ OpenArchive(p) \/ OpenFails(p) \/ Extracted(p) \/ ExtractFails(p)
  BY <1>0, <1>6 DEF TreeHit, OpenArchive, OpenFails, Extracted, ExtractFails
<1>7. CASE \E x \in Part : ExtractEntry(p, x)
  BY <1>0, <1>7 DEF ExtractEntry
<1>8. CASE \E x \in Part : CopyFile(p, x)
  BY <1>0, <1>8 DEF CopyFile
<1>9. CASE Scan(p) \/ CopyFails(p)
  BY <1>0, <1>9 DEF Scan, CopyFails
<1>10. CASE Materialized(p)
  BY <1>0, <1>10 DEF Materialized
<1> QED
  BY <1>1, <1>2, <1>3, <1>4, <1>5, <1>6, <1>7, <1>8, <1>9, <1>10 DEF Install

\* What p has not named before, and does not name now, is litter only if it was.
LEMMA LitterShrinks ==
    ASSUME NEW p \in Proc,
           \A q \in Proc \ {p} : pc'[q] = pc[q] /\ work'[q] = work[q],
           NEW x \in Litter', x \in TempNames, Writes(p) => x # NameOf(p)
    PROVE  x \in Litter
BY DEF Litter, Writes, NameOf

\* put of p touches its own temporary blob alone.
LEMMA OwnTemp ==
    ASSUME TypeOK, NEW p \in Proc, NEW f, SetTemp(p, f), NEW x, x # NameOf(p)
    PROVE  x \in TempNames' <=> x \in TempNames
<1>1. ASSUME NEW s \in Sha, NEW n \in Nonce, <<s, n>> # NameOf(p) PROVE temp'[s][n] = temp[s][n]
  BY <1>1 DEF SetTemp, TypeOK, NameOf
<1> QED
  BY <1>1 DEF TempNames

LEMMA LitterInstall ==
    ASSUME SInv, LitterCounted, NEW p \in Proc, Install(p)
    PROVE  LitterCounted'
<1>0. TypeOK /\ count \in Count
  BY DEF SInv, TypeOK
<1>1. /\ PutEffect(p) /\ \A q \in Proc \ {p} : pc'[q] = pc[q] /\ work'[q] = work[q]
      /\ TempTaken(p) \/ (count'.collisions = count.collisions /\ count'.crashes = count.crashes)
  BY <1>0, PutSteps
<1>2. CASE ~TempTaken(p)
  <2>1. ASSUME NEW x \in Litter' PROVE x \in Litter
    <3>1. CASE UNCHANGED temp /\ ~Writes(p)
      BY <1>1, <2>1, <3>1, LitterShrinks DEF Litter, TempNames
    <3>2. CASE CreateTemp(p) \/ WriteTemp(p)
      <4>1. Writes(p)' /\ NameOf(p)' = NameOf(p)
        BY <1>0, <3>2 DEF CreateTemp, WriteTemp, Goto, Writes, NameOf, TypeOK
      <4>2. x # NameOf(p)
        BY <2>1, <4>1 DEF Litter
      <4>3. x \in TempNames
        BY <1>0, <2>1, <3>2, <4>2, OwnTemp DEF CreateTemp, WriteTemp, Litter
      <4> QED
        BY <1>1, <2>1, <4>2, <4>3, LitterShrinks
    <3>3. CASE WriteFails(p) \/ Publish(p)
      <4>1. SetTemp(p, "none")
        BY <3>3 DEF WriteFails, Publish
      <4>2. x # NameOf(p)
        <5>1. temp'[work[p].sha][work[p].nonce] = "none"
          BY <1>0, <4>1, WorkFields DEF SetTemp, TypeOK
        <5> QED
          BY <2>1, <5>1 DEF Litter, TempNames, NameOf
      <4>3. x \in TempNames
        BY <1>0, <2>1, <4>1, <4>2, OwnTemp DEF Litter
      <4> QED
        BY <1>1, <2>1, <4>2, <4>3, LitterShrinks
    <3>4. CASE PublishFails(p)
      <4>1. UNCHANGED temp /\ TempOf(p) = "none"
        BY <3>4 DEF PublishFails, stores
      <4>2. x \in TempNames /\ x # NameOf(p)
        BY <2>1, <4>1 DEF Litter, TempNames, NameOf, TempOf
      <4> QED
        BY <1>1, <2>1, <4>2, LitterShrinks
    <3> QED
      BY <1>1, <1>2, <3>1, <3>2, <3>3, <3>4 DEF PutEffect
  <2>2. Litter' \in SUBSET Litter
    BY <2>1
  <2>3. IsFiniteSet(Litter') /\ Cardinality(Litter') <= Cardinality(Litter) /\ Cardinality(Litter') \in Nat
        /\ Cardinality(Litter) \in Nat
    BY <2>2, FS_Subset, FS_CardinalityType DEF LitterCounted
  <2> QED
    BY <1>0, <1>1, <1>2, <2>3 DEF LitterCounted, Count
<1>3. CASE TempTaken(p)
  <2>1. NameOf(p) \in Litter
    <3>1. NameOf(p) \in TempNames
      BY <1>0, <1>3, WorkFields DEF TempTaken, TempNames, NameOf, TempOf
    <3>2. lock = p /\ pc[p] = "put"
      BY <1>3 DEF TempTaken, At, SInv, OnlyHolderInstalls, Installing
    <3>3. \A q \in Proc : ~Writes(q)
      BY <3>2 DEF Writes, SInv, OnlyHolderInstalls, Installing
    <3> QED
      BY <3>1, <3>3 DEF Litter
  <2>2. ASSUME NEW x \in Litter' PROVE x \in Litter \ {NameOf(p)}
    <3>1. temp'[work[p].sha][work[p].nonce] = "none"
      BY <1>0, <1>3, WorkFields DEF TempTaken, SetTemp, TypeOK
    <3>2. x # NameOf(p)
      BY <2>2, <3>1 DEF Litter, TempNames, NameOf
    <3>3. x \in TempNames
      BY <1>0, <1>3, <2>2, <3>2, OwnTemp DEF TempTaken, Litter
    <3> QED
      BY <1>1, <2>2, <3>2, <3>3, LitterShrinks
  <2>3. Litter' \in SUBSET (Litter \ {NameOf(p)})
    BY <2>2
  <2>4. /\ IsFiniteSet(Litter \ {NameOf(p)})
        /\ Cardinality(Litter \ {NameOf(p)}) = Cardinality(Litter) - 1
    BY <2>1, FS_RemoveElement DEF LitterCounted
  <2>5. /\ IsFiniteSet(Litter') /\ Cardinality(Litter') <= Cardinality(Litter \ {NameOf(p)})
        /\ Cardinality(Litter') \in Nat /\ Cardinality(Litter) \in Nat
    BY <2>3, <2>4, FS_Subset, FS_CardinalityType DEF LitterCounted
  <2>6. count'.collisions = count.collisions + 1 /\ count'.crashes = count.crashes
    BY <1>0, <1>3 DEF TempTaken, Count
  <2> QED
    BY <1>0, <2>4, <2>5, <2>6 DEF LitterCounted, Count
<1> QED
  BY <1>2, <1>3

LEMMA LitterCleanup ==
    ASSUME SInv, LitterCounted, NEW p \in Proc, Cleanup(p)
    PROVE  LitterCounted'
<1>0. TypeOK /\ count \in Count
  BY DEF SInv, TypeOK
<1>1. \A q \in Proc \ {p} : pc'[q] = pc[q] /\ work'[q] = work[q]
  BY <1>0, CleanupSteps DEF CleanupEffect
<1>2. TempNames' \subseteq TempNames
  BY <1>0, CleanupSteps DEF CleanupEffect, TempNames
<1>3. ~Writes(p) /\ count'.collisions = count.collisions /\ count'.crashes = count.crashes
  <2>1. CASE StartCleanup(p)
    BY <1>0, <2>1 DEF StartCleanup, Started, At, Writes, Count
  <2>2. CASE \E s \in Sha : CleanBlob(p, s)
    BY <2>2 DEF CleanBlob, At, Writes
  <2>3. CASE \E s \in Sha, n \in Nonce : CleanTemp(p, s, n)
    BY <2>3 DEF CleanTemp, At, Writes
  <2>4. CASE \E s \in Sha : CleanTree(p, s)
    BY <2>4 DEF CleanTree, At, Writes
  <2>5. CASE \E x \in Part : RemoveFile(p, x)
    BY <2>5 DEF RemoveFile, At, Writes
  <2>6. CASE BlobsCleaned(p) \/ RemoveDir(p) \/ RemoveDirFails(p) \/ Cleaned(p)
    BY <2>6 DEF BlobsCleaned, RemoveDir, RemoveDirFails, Cleaned, At, Writes
  <2> QED
    BY <2>1, <2>2, <2>3, <2>4, <2>5, <2>6 DEF Cleanup
<1>4. Litter' \in SUBSET Litter
  BY <1>1, <1>2, <1>3, LitterShrinks DEF Litter
<1>5. IsFiniteSet(Litter') /\ Cardinality(Litter') <= Cardinality(Litter) /\ Cardinality(Litter') \in Nat
      /\ Cardinality(Litter) \in Nat
  BY <1>4, FS_Subset, FS_CardinalityType DEF LitterCounted
<1> QED
  BY <1>0, <1>3, <1>5 DEF LitterCounted, Count

LEMMA LitterCrash ==
    ASSUME SInv, LitterCounted, NEW p \in Proc, Crash(p)
    PROVE  LitterCounted'
<1>0. TypeOK /\ count \in Count
  BY DEF SInv, TypeOK
<1>1. /\ \A q \in Proc \ {p} : pc'[q] = pc[q] /\ work'[q] = work[q]
      /\ UNCHANGED temp
  BY <1>0 DEF Crash, Goto, TypeOK, stores
<1>2. CASE Writes(p)
  <2>1. count'.collisions = count.collisions /\ count'.crashes = count.crashes + 1
    <3>1. count' = [count EXCEPT !.crashes = @ + 1]
      BY <1>2 DEF Crash, Writes
    <3> QED
      BY <1>0, <3>1 DEF Count
  <2>2. Litter' \in SUBSET (Litter \union {NameOf(p)})
    BY <1>1, LitterShrinks DEF Litter, TempNames
  <2>3. /\ IsFiniteSet(Litter \union {NameOf(p)})
        /\ Cardinality(Litter \union {NameOf(p)}) <= Cardinality(Litter) + 1
    <3>1. PICK S : S = Litter
      OBVIOUS
    <3>2. IsFiniteSet(S) /\ Cardinality(S) \in Nat
      BY <3>1, FS_CardinalityType DEF LitterCounted
    <3>3. PICK x : x = NameOf(p)
      OBVIOUS
    <3>4. IsFiniteSet(S \union {x}) /\ Cardinality(S \union {x}) <= Cardinality(S) + 1
      BY <3>2, FS_AddElement
    <3> QED
      BY <3>1, <3>3, <3>4
  <2>4. /\ IsFiniteSet(Litter') /\ Cardinality(Litter') <= Cardinality(Litter \union {NameOf(p)})
        /\ Cardinality(Litter') \in Nat /\ Cardinality(Litter) \in Nat
        /\ Cardinality(Litter \union {NameOf(p)}) \in Nat
    BY <2>2, <2>3, FS_Subset, FS_CardinalityType DEF LitterCounted
  <2> QED
    BY <1>0, <2>1, <2>3, <2>4 DEF LitterCounted, Count
<1>3. CASE ~Writes(p)
  <2>1. count'.collisions = count.collisions /\ count'.crashes = count.crashes
    BY <1>0, <1>3 DEF Crash, Writes, CutShort, Count
  <2>2. Litter' \in SUBSET Litter
    BY <1>1, <1>3, LitterShrinks DEF Litter, TempNames
  <2>3. IsFiniteSet(Litter') /\ Cardinality(Litter') <= Cardinality(Litter) /\ Cardinality(Litter') \in Nat
        /\ Cardinality(Litter) \in Nat
    BY <2>2, FS_Subset, FS_CardinalityType DEF LitterCounted
  <2> QED
    BY <1>0, <2>1, <2>3 DEF LitterCounted, Count
<1> QED
  BY <1>2, <1>3

LEMMA LitterStep == SInv /\ LitterCounted /\ [Next]_vars => LitterCounted'
<1> SUFFICES ASSUME SInv, LitterCounted, [Next]_vars PROVE LitterCounted'
  OBVIOUS
<1>1. CASE UNCHANGED <<temp, pc, work, count>>
  BY <1>1 DEF LitterCounted, Litter, TempNames, Writes, NameOf
<1>2. ASSUME NEW s \in Sha, Update(s) PROVE LitterCounted'
  BY <1>1, <1>2 DEF Update, stores
<1>3. CASE UNCHANGED vars
  BY <1>1, <1>3 DEF vars, stores
<1> QED
  BY <1>2, <1>3, LitterInstall, LitterCleanup, LitterCrash DEF Next

LEMMA InitLitter == Init => LitterCounted
<1> SUFFICES ASSUME Init PROVE LitterCounted
  OBVIOUS
<1>1. Litter = {}
  BY DEF Init, Litter, TempNames
<1> QED
  BY <1>1, FS_EmptySet DEF Init, LitterCounted

\* A temporary blob that a dead process left makes at most one later put fail, for any
\* number of processes, bottles and cleanups (store.rs put).
THEOREM CollisionsArePaid == Spec => []OneCollisionPerCrash
<1>1. SInv /\ LitterCounted => OneCollisionPerCrash
  <2> SUFFICES ASSUME SInv, LitterCounted PROVE OneCollisionPerCrash
    OBVIOUS
  <2>1. count \in Count /\ Cardinality(Litter) \in Nat
    BY FS_CardinalityType DEF SInv, TypeOK, LitterCounted
  <2> QED
    BY <2>1 DEF LitterCounted, OneCollisionPerCrash, Count
<1> QED
  BY <1>1, AlwaysSInv, InitLitter, LitterStep, PTL DEF Spec

-----------------------------------------------------------------------------
(***************************************************************************)
(* Commands one after the other.                                           *)
(***************************************************************************)

\* As long as no command was started while another ran, one runs at a time.
Solitary ==
    count.overlaps = 0 => \A p, q \in Proc : pc[p] # "idle" /\ pc[q] # "idle" => p = q

\* A command starts, counted, or goes on.
LEMMA StartsOrGoesOn ==
    ASSUME TypeOK, NEW p \in Proc, Install(p) \/ Cleanup(p) \/ Crash(p)
    PROVE  \/ pc[p] = "idle" /\ Started(p)
           \/ /\ pc[p] # "idle" /\ count'.overlaps = count.overlaps
              /\ count'.cuts = count.cuts \/ count'.cuts = count.cuts + 1
<1> USE DEF At
<1>0. count \in Count
  BY DEF TypeOK
<1>1. ASSUME CutShort \/ UNCHANGED count \/ count' = [count EXCEPT !.crashes = @ + 1]
             \/ count' = [count EXCEPT !.collisions = @ + 1]
      PROVE  /\ count'.overlaps = count.overlaps
             /\ count'.cuts = count.cuts \/ count'.cuts = count.cuts + 1
  BY <1>0, <1>1 DEF CutShort, Count
<1>2. CASE \E fs \in SUBSET Formula : StartInstall(p, fs)
  BY <1>2 DEF StartInstall
<1>3. CASE \E s \in Sha : Pick(p, s)
  BY <1>1, <1>3 DEF Pick
<1>4. CASE CheckBlob(p) \/ DownloadVerified(p) \/ DownloadFails(p)
  BY <1>1, <1>4 DEF CheckBlob, DownloadVerified, DownloadFails
<1>5. CASE CreateTemp(p) \/ TempTaken(p) \/ WriteTemp(p) \/ WriteFails(p) \/ Publish(p) \/ PublishFails(p)
  BY <1>1, <1>5 DEF CreateTemp, TempTaken, WriteTemp, WriteFails, Publish, PublishFails
<1>6. CASE TreeHit(p) \/ OpenArchive(p) \/ OpenFails(p) \/ Extracted(p) \/ ExtractFails(p)
  BY <1>1, <1>6 DEF TreeHit, OpenArchive, OpenFails, Extracted, ExtractFails
<1>7. CASE \E x \in Part : ExtractEntry(p, x) \/ CopyFile(p, x)
  BY <1>1, <1>7 DEF ExtractEntry, CopyFile
<1>8. CASE Scan(p) \/ CopyFails(p) \/ Materialized(p)
  BY <1>1, <1>8 DEF Scan, CopyFails, Materialized
<1>9. CASE StartCleanup(p)
  BY <1>9 DEF StartCleanup
<1>10. CASE \E s \in Sha : CleanBlob(p, s) \/ CleanTree(p, s)
  BY <1>1, <1>10 DEF CleanBlob, CleanTree
<1>11. CASE \E s \in Sha, n \in Nonce : CleanTemp(p, s, n)
  BY <1>1, <1>11 DEF CleanTemp
<1>12. CASE \E x \in Part : RemoveFile(p, x)
  BY <1>1, <1>12 DEF RemoveFile
<1>13. CASE BlobsCleaned(p) \/ RemoveDir(p) \/ RemoveDirFails(p) \/ Cleaned(p)
  BY <1>1, <1>13 DEF BlobsCleaned, RemoveDir, RemoveDirFails, Cleaned
<1>14. CASE Crash(p)
  BY <1>1, <1>14 DEF Crash
<1> QED
  BY <1>2, <1>3, <1>4, <1>5, <1>6, <1>7, <1>8, <1>9, <1>10, <1>11, <1>12, <1>13, <1>14
  DEF Install, Cleanup

LEMMA StepAlone ==
    ASSUME SInv, Solitary, NEW p \in Proc, Install(p) \/ Cleanup(p) \/ Crash(p), count'.overlaps = 0
    PROVE  /\ count.overlaps = 0 /\ (count'.cuts = 0 => count.cuts = 0)
           /\ \A q \in Proc \ {p} : pc[q] = "idle" /\ pc'[q] = "idle"
<1>0. TypeOK /\ count \in Count
  BY DEF SInv, TypeOK
<1>1. \A q \in Proc \ {p} : pc'[q] = pc[q]
  BY <1>0, InstallSteps, CleanupSteps DEF InstallEffect, CleanupEffect, Crash, Goto, TypeOK
<1>2. CASE pc[p] = "idle" /\ Started(p)
  <2>1. PICK n \in {0, 1} : n = Overlap(p)
    BY DEF Overlap
  <2>2. count'.overlaps = count.overlaps + n /\ count'.cuts = count.cuts
    BY <1>0, <1>2, <2>1 DEF Started, Count
  <2>3. count.overlaps = 0 /\ n = 0
    BY <1>0, <2>2 DEF Count
  <2> QED
    BY <1>1, <2>1, <2>2, <2>3 DEF Overlap, At
<1>3. CASE pc[p] # "idle" /\ count'.overlaps = count.overlaps
  BY <1>0, <1>1, <1>3, StartsOrGoesOn DEF Solitary, Count
<1> QED
  BY <1>0, <1>2, <1>3, StartsOrGoesOn

\* A step of one process, a new index, or nothing.
LEMMA StepKinds ==
    ASSUME [Next]_vars
    PROVE  \/ \E p \in Proc : Install(p) \/ Cleanup(p) \/ Crash(p)
           \/ UNCHANGED <<stores, pc, work, count>>
BY DEF Next, Update, vars

LEMMA SolitaryStep == SInv /\ Solitary /\ [Next]_vars => Solitary'
<1> SUFFICES ASSUME SInv, Solitary, [Next]_vars PROVE Solitary'
  OBVIOUS
<1>1. CASE UNCHANGED <<stores, pc, work, count>>
  BY <1>1 DEF Solitary
<1>2. ASSUME NEW p \in Proc, Install(p) \/ Cleanup(p) \/ Crash(p) PROVE Solitary'
  BY <1>2, StepAlone DEF Solitary
<1> QED
  BY <1>1, <1>2, StepKinds

LEMMA AlwaysSolitary == Spec => [](SInv /\ Solitary)
<1>1. Init => Solitary
  BY DEF Init, Solitary
<1> QED
  BY <1>1, AlwaysSInv, SolitaryStep, PTL DEF Spec

-----------------------------------------------------------------------------
(***************************************************************************)
(* An install alone finds what it saw or put.                              *)
(***************************************************************************)

\* An archive holds at least one file.
BottleHasFiles == Part # {}

Holds(p) ==
    /\ pc[p] = "write"   => TempOf(p) # "none"
    /\ pc[p] = "publish" => TempOf(p) = "whole"
    /\ pc[p] = "hit"     => dir[work[p].sha] \/ has(work[p].sha)
    /\ pc[p] = "extract" => dir[work[p].sha] \/ work[p].todo = Part
    /\ pc[p] = "scan"    => dir[work[p].sha]
    /\ pc[p] = "copy"    => work[p].todo \subseteq tree[work[p].sha]

AllHold == count.overlaps = 0 => \A p \in Proc : Holds(p)

LEMMA HoldsAfter ==
    ASSUME BottleHasFiles, SInv, NEW p \in Proc, Holds(p), Install(p)
    PROVE  Holds(p)'
<1>0. TypeOK /\ work[p] \in Work /\ work[p].sha \in Sha /\ work[p].nonce \in Nonce
  BY WorkFields DEF SInv
<1> USE DEF Holds, At, Goto, TypeOK
<1>1. CASE \E fs \in SUBSET Formula : StartInstall(p, fs)
  BY <1>0, <1>1 DEF StartInstall
<1>2. CASE \E s \in Sha : Pick(p, s)
  BY <1>0, <1>2 DEF Pick
<1>3. CASE CheckBlob(p)
  BY <1>0, <1>3 DEF CheckBlob, stores, has
<1>4. CASE DownloadVerified(p) \/ DownloadFails(p) \/ TempTaken(p) \/ WriteFails(p) \/ PublishFails(p)
           \/ OpenFails(p) \/ ExtractFails(p) \/ CopyFails(p) \/ Materialized(p)
  BY <1>0, <1>4 DEF DownloadVerified, DownloadFails, TempTaken, WriteFails, PublishFails, OpenFails,
     ExtractFails, CopyFails, Materialized, GiveUp
<1>5. CASE CreateTemp(p)
  BY <1>0, <1>5 DEF CreateTemp, SetTemp, TempOf
<1>6. CASE WriteTemp(p)
  BY <1>0, <1>6 DEF WriteTemp, SetTemp, TempOf
<1>7. CASE Publish(p)
  <2>1. work'[p].sha = work[p].sha /\ pc'[p] = "hit"
    BY <1>0, <1>7 DEF Publish, SetWork, Work
  <2>2. blob'[work[p].sha] = "whole"
    BY <1>0, <1>7 DEF Publish
  <2> QED
    BY <2>1, <2>2 DEF has
<1>8. CASE TreeHit(p)
  BY <1>0, <1>8 DEF TreeHit, stores
<1>9. CASE OpenArchive(p)
  BY <1>0, <1>9 DEF OpenArchive, SetWork, Work
<1>10. CASE \E x \in Part : ExtractEntry(p, x)
  BY <1>0, <1>10 DEF ExtractEntry, SetWork, Work
<1>11. CASE Extracted(p)
  BY <1>0, <1>11 DEF Extracted, stores, BottleHasFiles
<1>12. CASE Scan(p)
  BY <1>0, <1>12 DEF Scan, stores, SetWork, Work
<1>13. CASE \E x \in Part : CopyFile(p, x)
  BY <1>0, <1>13 DEF CopyFile, stores, SetWork, Work
<1> QED
  BY <1>1, <1>2, <1>3, <1>4, <1>5, <1>6, <1>7, <1>8, <1>9, <1>10, <1>11, <1>12, <1>13 DEF Install

\* What a cleanup or a crash leaves p at is no step of an install.
LEMMA EndsOutside ==
    ASSUME TypeOK, NEW p \in Proc, Cleanup(p) \/ Crash(p)
    PROVE  pc'[p] \notin Installing
<1> USE DEF TypeOK, Goto, At, Installing
<1>1. CASE StartCleanup(p) \/ BlobsCleaned(p) \/ RemoveDir(p) \/ RemoveDirFails(p) \/ Cleaned(p)
  BY <1>1 DEF StartCleanup, BlobsCleaned, RemoveDir, RemoveDirFails, Cleaned
<1>2. CASE \E s \in Sha : CleanBlob(p, s) \/ CleanTree(p, s)
  BY <1>2 DEF CleanBlob, CleanTree
<1>3. CASE \E s \in Sha, n \in Nonce : CleanTemp(p, s, n)
  BY <1>3 DEF CleanTemp
<1>4. CASE \E x \in Part : RemoveFile(p, x)
  BY <1>4 DEF RemoveFile
<1>5. CASE Crash(p)
  BY <1>5 DEF Crash
<1> QED
  BY <1>1, <1>2, <1>3, <1>4, <1>5 DEF Cleanup

LEMMA HoldsStep ==
    ASSUME BottleHasFiles, SInv, Solitary, AllHold, [Next]_vars
    PROVE  AllHold'
<1>0. TypeOK
  BY DEF SInv
<1>1. CASE UNCHANGED <<stores, pc, work, count>>
  BY <1>1 DEF stores, AllHold, Holds, TempOf, has
<1>2. ASSUME NEW p \in Proc, Install(p) \/ Cleanup(p) \/ Crash(p), count'.overlaps = 0, NEW q \in Proc
      PROVE  Holds(q)'
  <2>1. count.overlaps = 0 /\ \A r \in Proc \ {p} : pc'[r] = "idle"
    BY <1>2, StepAlone
  <2>2. CASE q # p
    BY <2>1, <2>2 DEF Holds
  <2>3. CASE q = p /\ Install(p)
    BY <2>1, <2>3, HoldsAfter DEF AllHold
  <2>4. CASE q = p /\ pc'[p] \notin Installing
    BY <2>4 DEF Holds, Installing
  <2> QED
    BY <1>0, <1>2, <2>2, <2>3, <2>4, EndsOutside
<1> QED
  BY <1>1, <1>2, StepKinds DEF AllHold

\* As long as commands run one after the other an install does not fail on its own store:
\* the blob it saw or put is there to be opened, its temporary file to be renamed, the
\* tree to be copied (download.rs, store.rs, materialize.rs).  An archive without files
\* would leave no tree.
THEOREM StoreHolds ==
    ASSUME BottleHasFiles
    PROVE  Spec => []OwnStoreHolds
<1>1. Init => AllHold
  BY DEF Init, AllHold, Holds
<1>2. SInv /\ Solitary /\ AllHold /\ [Next]_vars => AllHold'
  BY HoldsStep
<1>3. AllHold => OwnStoreHolds
  BY DEF AllHold, Holds, OwnStoreHolds, At
<1> QED
  BY <1>1, <1>2, <1>3, AlwaysSolitary, PTL DEF Spec

-----------------------------------------------------------------------------
(***************************************************************************)
(* Trees are whole, and so are the copies made from them.                  *)
(***************************************************************************)
Fills(p) ==
    /\ pc[p] = "extract" => work[p].todo \union tree[work[p].sha] = Part
    /\ pc[p] = "scan"    => tree[work[p].sha] = Part
    /\ pc[p] = "copy"    => work[p].todo \union work[p].copied = Part

\* p makes or removes the tree of s.
Changes(p, s) == pc[p] \in {"extract", "remove"} /\ work[p].sha = s

WholeTrees == \A s \in Sha : dir[s] => tree[s] = Part \/ \E p \in Proc : Changes(p, s)

AllFilled ==
    count.overlaps = 0 /\ count.cuts = 0 => WholeTrees /\ \A p \in Proc : Fills(p)

LEMMA FillsAfter ==
    ASSUME SInv, NEW p \in Proc, Fills(p), Install(p), dir[work[p].sha] /\ pc[p] = "hit" => tree[work[p].sha] = Part
    PROVE  Fills(p)'
<1>0. TypeOK /\ work[p] \in Work /\ work[p].sha \in Sha
  BY WorkFields DEF SInv
<1> USE DEF Fills, At, Goto, TypeOK
<1>1. CASE \E fs \in SUBSET Formula : StartInstall(p, fs)
  BY <1>0, <1>1 DEF StartInstall
<1>2. CASE \E s \in Sha : Pick(p, s)
  BY <1>0, <1>2 DEF Pick
<1>3. CASE CheckBlob(p) \/ DownloadVerified(p) \/ CreateTemp(p) \/ WriteTemp(p) \/ Publish(p)
  BY <1>0, <1>3 DEF CheckBlob, DownloadVerified, CreateTemp, WriteTemp, Publish
<1>4. CASE DownloadFails(p) \/ TempTaken(p) \/ WriteFails(p) \/ PublishFails(p)
           \/ OpenFails(p) \/ ExtractFails(p) \/ CopyFails(p) \/ Materialized(p)
  BY <1>0, <1>4 DEF DownloadFails, TempTaken, WriteFails, PublishFails, OpenFails,
     ExtractFails, CopyFails, Materialized, GiveUp
<1>5. CASE TreeHit(p)
  BY <1>0, <1>5 DEF TreeHit, stores
<1>6. CASE OpenArchive(p)
  <2>1. pc'[p] = "extract" /\ work'[p].todo = Part /\ tree'[work'[p].sha] \subseteq Part
    BY <1>0, <1>6 DEF OpenArchive, SetWork, Work, stores
  <2> QED
    BY <2>1
<1>7. CASE \E x \in Part : ExtractEntry(p, x)
  <2>1. PICK x \in Part : ExtractEntry(p, x)
    BY <1>7
  <2>2. /\ pc' = pc /\ work'[p].todo = work[p].todo \ {x} /\ work'[p].sha = work[p].sha
        /\ tree'[work[p].sha] = tree[work[p].sha] \union {x}
    BY <1>0, <2>1 DEF ExtractEntry, SetWork, Work
  <2> QED
    BY <2>1, <2>2 DEF ExtractEntry
<1>8. CASE Extracted(p)
  BY <1>0, <1>8 DEF Extracted, stores
<1>9. CASE Scan(p)
  <2>1. pc'[p] = "copy" /\ work'[p].todo = tree[work[p].sha] /\ work'[p].copied \subseteq Part
    BY <1>0, <1>9 DEF Scan, SetWork, Work
  <2> QED
    BY <1>9, <2>1 DEF Scan
<1>10. CASE \E x \in Part : CopyFile(p, x)
  <2>1. PICK x \in Part : CopyFile(p, x)
    BY <1>10
  <2>2. /\ pc' = pc /\ work'[p].todo = work[p].todo \ {x} /\ work'[p].copied = work[p].copied \union {x}
    BY <1>0, <2>1 DEF CopyFile, SetWork, Work
  <2> QED
    BY <2>1, <2>2 DEF CopyFile
<1> QED
  BY <1>1, <1>2, <1>3, <1>4, <1>5, <1>6, <1>7, <1>8, <1>9, <1>10 DEF Install

\* A process that leaves a tree leaves it whole, gone, or is counted as cut short.
LEMMA TreesAfterInstall ==
    ASSUME SInv, NEW p \in Proc, Fills(p), Install(p), count'.cuts = count.cuts,
           NEW s \in Sha, dir[s] => tree[s] = Part \/ Changes(p, s), dir'[s]
    PROVE  tree'[s] = Part \/ Changes(p, s)'
<1>0. TypeOK /\ work[p] \in Work /\ work[p].sha \in Sha /\ count \in Count
  BY WorkFields DEF SInv, TypeOK
<1> USE DEF Changes, At, Goto, TypeOK
<1>1. CASE \E fs \in SUBSET Formula : StartInstall(p, fs)
  BY <1>0, <1>1 DEF StartInstall, stores
<1>2. CASE \E t \in Sha : Pick(p, t)
  BY <1>0, <1>2 DEF Pick, stores
<1>3. CASE CheckBlob(p) \/ DownloadVerified(p) \/ CreateTemp(p) \/ WriteTemp(p) \/ Publish(p)
  BY <1>0, <1>3 DEF CheckBlob, DownloadVerified, CreateTemp, WriteTemp, Publish, stores
<1>4. CASE DownloadFails(p) \/ TempTaken(p) \/ WriteFails(p) \/ PublishFails(p)
           \/ OpenFails(p) \/ CopyFails(p) \/ Materialized(p) \/ TreeHit(p) \/ Scan(p)
  BY <1>0, <1>4 DEF DownloadFails, TempTaken, WriteFails, PublishFails, OpenFails,
     CopyFails, Materialized, GiveUp, TreeHit, Scan, stores
<1>5. CASE ExtractFails(p)
  BY <1>0, <1>5 DEF ExtractFails, CutShort, Count
<1>6. CASE OpenArchive(p)
  BY <1>0, <1>6 DEF OpenArchive, stores
<1>7. CASE \E x \in Part : ExtractEntry(p, x)
  <2>1. PICK x \in Part : ExtractEntry(p, x)
    BY <1>7
  <2>2. pc' = pc /\ pc[p] = "extract" /\ work'[p].sha = work[p].sha
    BY <1>0, <2>1 DEF ExtractEntry, SetWork, Work
  <2>3. s # work[p].sha => dir'[s] = dir[s] /\ tree'[s] = tree[s]
    BY <1>0, <2>1 DEF ExtractEntry
  <2> QED
    BY <2>2, <2>3
<1>8. CASE Extracted(p)
  BY <1>0, <1>8 DEF Extracted, stores, Fills
<1>9. CASE \E x \in Part : CopyFile(p, x)
  BY <1>0, <1>9 DEF CopyFile, stores
<1> QED
  BY <1>1, <1>2, <1>3, <1>4, <1>5, <1>6, <1>7, <1>8, <1>9 DEF Install

LEMMA TreesAfterCleanup ==
    ASSUME SInv, NEW p \in Proc, Cleanup(p) \/ Crash(p), count'.cuts = count.cuts,
           \A q \in Proc \ {p} : pc[q] = "idle",
           NEW s \in Sha, dir[s] => tree[s] = Part \/ Changes(p, s), dir'[s]
    PROVE  tree'[s] = Part \/ Changes(p, s)'
<1>0. TypeOK /\ work[p] \in Work /\ work[p].sha \in Sha /\ count \in Count
  BY WorkFields DEF SInv, TypeOK
<1> USE DEF Changes, At, Goto, TypeOK
<1>1. CASE StartCleanup(p) \/ BlobsCleaned(p) \/ Cleaned(p)
  BY <1>0, <1>1 DEF StartCleanup, BlobsCleaned, Cleaned, stores
<1>2. CASE \E t \in Sha : CleanBlob(p, t) \/ CleanTree(p, t)
  BY <1>0, <1>2 DEF CleanBlob, CleanTree, stores
<1>3. CASE \E t \in Sha, n \in Nonce : CleanTemp(p, t, n)
  BY <1>0, <1>3 DEF CleanTemp
<1>4. CASE \E x \in Part : RemoveFile(p, x)
  BY <1>0, <1>4 DEF RemoveFile
<1>5. CASE RemoveDir(p)
  BY <1>0, <1>5 DEF RemoveDir
<1>6. CASE RemoveDirFails(p)
  BY <1>0, <1>6 DEF RemoveDirFails
<1>7. CASE Crash(p)
  <2>1. pc[p] \notin {"extract", "remove"}
    BY <1>0, <1>7 DEF Crash, CutShort, Count
  <2> QED
    BY <1>7, <2>1 DEF Crash, stores
<1> QED
  BY <1>1, <1>2, <1>3, <1>4, <1>5, <1>6, <1>7 DEF Cleanup

LEMMA FilledStep ==
    ASSUME SInv, Solitary, AllFilled, [Next]_vars
    PROVE  AllFilled'
<1>0. TypeOK /\ count \in Count
  BY DEF SInv, TypeOK
<1>1. CASE UNCHANGED <<stores, pc, work, count>>
  BY <1>1 DEF stores, AllFilled, WholeTrees, Changes, Fills
<1>2. ASSUME NEW p \in Proc, Install(p) \/ Cleanup(p) \/ Crash(p), count'.overlaps = 0, count'.cuts = 0
      PROVE  WholeTrees' /\ \A q \in Proc : Fills(q)'
  <2>1. /\ count.overlaps = 0 /\ count.cuts = 0
        /\ \A q \in Proc \ {p} : pc[q] = "idle" /\ pc'[q] = "idle"
    BY <1>2, StepAlone
  <2>2. \A s \in Sha : dir[s] => tree[s] = Part \/ Changes(p, s)
    BY <2>1 DEF AllFilled, WholeTrees, Changes
  <2>3. WholeTrees'
    BY <1>2, <2>1, <2>2, TreesAfterInstall, TreesAfterCleanup DEF AllFilled, WholeTrees
  <2>4. Fills(p)'
    <3>1. CASE Install(p)
      BY <1>0, <2>1, <2>2, <3>1, WorkFields, FillsAfter DEF AllFilled, Changes
    <3>2. CASE pc'[p] \notin Installing
      BY <3>2 DEF Fills, Installing
    <3> QED
      BY <1>0, <1>2, <3>1, <3>2, EndsOutside
  <2>5. \A q \in Proc \ {p} : Fills(q)'
    BY <2>1 DEF Fills
  <2> QED
    BY <2>3, <2>4, <2>5
<1> QED
  BY <1>1, <1>2, StepKinds DEF AllFilled

\* A keg that goes into the Cellar has every file of the bottle, whichever of the warm
\* paths it came by, unless a tree was cut short or commands overlapped (extract.rs,
\* materialize.rs).
THEOREM CopiedWhole == Spec => []MaterializedIsWhole
<1>1. Init => AllFilled
  BY DEF Init, AllFilled, WholeTrees, Fills
<1>2. SInv /\ Solitary /\ AllFilled /\ [Next]_vars => AllFilled'
  BY FilledStep
<1>3. AllFilled => MaterializedIsWhole
  BY DEF AllFilled, Fills, MaterializedIsWhole, At
<1> QED
  BY <1>1, <1>2, <1>3, AlwaysSolitary, PTL DEF Spec

-----------------------------------------------------------------------------
(***************************************************************************)
(* A cleanup alone visits all there is.                                    *)
(***************************************************************************)
Reclaims(p) ==
    /\ pc[p] = "blobs" =>
            /\ \A s \in Sha : has(s) => s \in work[p].keep \union work[p].blobs
            /\ TempNames \subseteq work[p].temps
    /\ pc[p] \in {"trees", "remove"} =>
            /\ \A s \in Sha : has(s) => s \in work[p].keep
            /\ TempNames = {}

AllReclaimed == count.overlaps = 0 => \A p \in Proc : Reclaims(p)

LEMMA ReclaimsAfter ==
    ASSUME SInv, NEW p \in Proc, Reclaims(p), Cleanup(p)
    PROVE  Reclaims(p)'
<1>0. TypeOK /\ work[p] \in Work
  BY WorkFields DEF SInv
<1> USE DEF Reclaims, At, Goto, TypeOK
<1>1. CASE StartCleanup(p)
  <2>1. UNCHANGED <<blob, temp>> /\ pc'[p] = "blobs"
    BY <1>0, <1>1 DEF StartCleanup, stores
  <2>2. work'[p].blobs = {s \in Sha : has(s)} /\ work'[p].temps = TempNames
    BY <1>0, <1>1 DEF StartCleanup, SetWork, Work
  <2> QED
    BY <2>1, <2>2 DEF has, TempNames
<1>2. CASE \E s \in Sha : CleanBlob(p, s)
  <2>1. PICK s \in Sha : CleanBlob(p, s)
    BY <1>2
  <2>2. /\ UNCHANGED <<temp, pc>> /\ pc[p] = "blobs"
        /\ work'[p].keep = work[p].keep /\ work'[p].temps = work[p].temps
        /\ work'[p].blobs = work[p].blobs \ {s}
    BY <1>0, <2>1 DEF CleanBlob, SetWork, Work
  <2>3. \A t \in Sha : has(t)' => has(t) /\ (t = s => s \in work[p].keep)
    BY <1>0, <2>1 DEF CleanBlob, has
  <2> QED
    BY <2>2, <2>3 DEF TempNames
<1>3. CASE \E s \in Sha, n \in Nonce : CleanTemp(p, s, n)
  <2>1. PICK s \in Sha, n \in Nonce : CleanTemp(p, s, n)
    BY <1>3
  <2>2. /\ UNCHANGED <<blob, pc>> /\ pc[p] = "blobs"
        /\ work'[p].keep = work[p].keep /\ work'[p].blobs = work[p].blobs
        /\ work'[p].temps = work[p].temps \ {<<s, n>>}
    BY <1>0, <2>1 DEF CleanTemp, SetWork, Work
  <2>3. TempNames' \subseteq TempNames \ {<<s, n>>}
    BY <1>0, <2>1 DEF CleanTemp, TempNames
  <2> QED
    BY <2>2, <2>3 DEF has
<1>4. CASE BlobsCleaned(p)
  <2>1. /\ UNCHANGED <<blob, temp>> /\ pc[p] = "blobs" /\ pc'[p] = "trees"
        /\ work'[p].keep = work[p].keep /\ work[p].blobs = {} /\ work[p].temps = {}
    BY <1>0, <1>4 DEF BlobsCleaned, SetWork, Work, stores
  <2> QED
    BY <2>1 DEF has, TempNames
<1>5. CASE \E s \in Sha : CleanTree(p, s)
  <2>1. PICK s \in Sha : CleanTree(p, s)
    BY <1>5
  <2>2. /\ UNCHANGED <<blob, temp>> /\ pc[p] = "trees" /\ pc'[p] \in {"trees", "remove"}
        /\ work'[p].keep = work[p].keep
    BY <1>0, <2>1 DEF CleanTree, SetWork, Work, stores
  <2> QED
    BY <2>2 DEF has, TempNames
<1>6. CASE \E x \in Part : RemoveFile(p, x)
  BY <1>0, <1>6 DEF RemoveFile, has, TempNames
<1>7. CASE RemoveDir(p) \/ RemoveDirFails(p) \/ Cleaned(p)
  BY <1>0, <1>7 DEF RemoveDir, RemoveDirFails, Cleaned, has, TempNames, stores
<1> QED
  BY <1>1, <1>2, <1>3, <1>4, <1>5, <1>6, <1>7 DEF Cleanup

\* What an install or a crash leaves p at is no step of a cleanup.
LEMMA InstallsOutside ==
    ASSUME TypeOK, NEW p \in Proc, Install(p) \/ Crash(p)
    PROVE  pc'[p] \notin {"blobs", "trees", "remove"}
<1> USE DEF TypeOK, Goto, At, GiveUp
<1>1. CASE \E fs \in SUBSET Formula : StartInstall(p, fs)
  BY <1>1 DEF StartInstall
<1>2. CASE \E s \in Sha : Pick(p, s)
  BY <1>2 DEF Pick
<1>3. CASE CheckBlob(p) \/ DownloadVerified(p) \/ DownloadFails(p) \/ CreateTemp(p) \/ TempTaken(p)
           \/ WriteTemp(p) \/ WriteFails(p) \/ Publish(p) \/ PublishFails(p)
  BY <1>3 DEF CheckBlob, DownloadVerified, DownloadFails, CreateTemp, TempTaken, WriteTemp, WriteFails,
     Publish, PublishFails
<1>4. CASE TreeHit(p) \/ OpenArchive(p) \/ OpenFails(p) \/ Extracted(p) \/ ExtractFails(p) \/ Scan(p)
           \/ CopyFails(p) \/ Materialized(p)
  BY <1>4 DEF TreeHit, OpenArchive, OpenFails, Extracted, ExtractFails, Scan, CopyFails, Materialized
<1>5. CASE \E x \in Part : ExtractEntry(p, x) \/ CopyFile(p, x)
  BY <1>5 DEF ExtractEntry, CopyFile
<1>6. CASE Crash(p)
  BY <1>6 DEF Crash
<1> QED
  BY <1>1, <1>2, <1>3, <1>4, <1>5, <1>6 DEF Install

LEMMA ReclaimedStep ==
    ASSUME SInv, Solitary, AllReclaimed, [Next]_vars
    PROVE  AllReclaimed'
<1>0. TypeOK
  BY DEF SInv
<1>1. CASE UNCHANGED <<stores, pc, work, count>>
  BY <1>1 DEF stores, AllReclaimed, Reclaims, has, TempNames
<1>2. ASSUME NEW p \in Proc, Install(p) \/ Cleanup(p) \/ Crash(p), count'.overlaps = 0, NEW q \in Proc
      PROVE  Reclaims(q)'
  <2>1. count.overlaps = 0 /\ \A r \in Proc \ {p} : pc'[r] = "idle"
    BY <1>2, StepAlone
  <2>2. CASE q # p
    BY <2>1, <2>2 DEF Reclaims
  <2>3. CASE q = p /\ Cleanup(p)
    BY <2>1, <2>3, ReclaimsAfter DEF AllReclaimed
  <2>4. CASE q = p /\ (Install(p) \/ Crash(p))
    BY <1>0, <2>4, InstallsOutside DEF Reclaims
  <2> QED
    BY <1>2, <2>2, <2>3, <2>4
<1> QED
  BY <1>1, <1>2, StepKinds DEF AllReclaimed

\* When a cleanup that nothing overlapped has walked the blobs, those left are to be kept,
\* and no temporary blob of a dead process is left (query.rs cleanup,
\* orchestrate.rs cleanup_directory_tree).
THEOREM CleanupIsThorough == Spec => []CleanupReclaims
<1>1. Init => AllReclaimed
  BY DEF Init, AllReclaimed, Reclaims
<1>2. SInv /\ Solitary /\ AllReclaimed /\ [Next]_vars => AllReclaimed'
  BY ReclaimedStep
<1>3. AllReclaimed => CleanupReclaims
  <2> SUFFICES ASSUME AllReclaimed, count.overlaps = 0, NEW p \in Proc, pc[p] = "trees"
               PROVE  /\ \A s \in Sha : has(s) => s \in work[p].keep
                      /\ \A s \in Sha, n \in Nonce : temp[s][n] = "none"
    BY DEF CleanupReclaims, At
  <2>1. (\A s \in Sha : has(s) => s \in work[p].keep) /\ TempNames = {}
    BY DEF AllReclaimed, Reclaims
  <2> QED
    BY <2>1, IsTempName
<1> QED
  BY <1>1, <1>2, <1>3, AlwaysSolitary, PTL DEF Spec
=============================================================================
