-------------------------- MODULE ByokStoreProofs --------------------------
(***************************************************************************)
(* The four properties of ByokStore for every set of texts and blocks and  *)
(* any number of disturbances.                                             *)
(***************************************************************************)
EXTENDS ByokStore, TLAPS

KeepsText(new, old) == \A f \in Files : TextIn(new[f]) = TextIn(old[f])

\* Files that were not adopted had no catalog before.
Honest(r) == r # NoReceipt /\ ~ r.adopted => r.created[Catalog]

PlanInv ==
    plan # NoPlan =>
        /\ KeepsText(plan.new, before.disk)
        /\ Owns(plan.new, plan.receipt)
        /\ Honest(plan.receipt)

HistoryInv ==
    /\ Owns(before.disk, before.receipt)
    /\ Honest(before.receipt)
    /\ Honest(receipt)
    /\ \A f \in Files : OwnedIn(base[f]) \notin Blocks
    /\ before.receipt = NoReceipt => base = before.disk

\* A journal describes the operation that wrote it, and nothing that could
\* happen since has touched its backups or the origin it may need again.
JournalInv ==
    journal # NoJournal =>
        /\ journal.old = before.disk
        /\ journal.prior = before.receipt
        /\ backup = before.disk
        /\ KeepsText(journal.new, journal.old)
        /\ before.receipt # NoReceipt => origin = base

Unwritten ==
    /\ journal = NoJournal
    /\ disk = before.disk
    /\ receipt = before.receipt
    /\ seen.disk = before.disk
    /\ plan # NoPlan

Written ==
    /\ journal # NoJournal
    /\ plan # NoPlan
    /\ disk = plan.new

StepInv ==
    /\ pc \in {"idle", "validate", "restore", "prior"} => plan = NoPlan
    /\ pc \in {"idle", "journal", "receipt", "retire", "unjournal",
               "validate", "prior", "clear"} => file = Target
    /\ pc = "backup" => Unwritten /\ (file = Catalog => backup[Target] = disk[Target])
    /\ pc = "journal" => Unwritten /\ backup = disk
    /\ pc = "write" =>
         /\ journal # NoJournal
         /\ plan # NoPlan
         /\ journal.new = plan.new
         /\ receipt = before.receipt
         /\ seen.disk = before.disk
         /\ disk[Catalog] = before.disk[Catalog]
         /\ disk[Target] = IF file = Target THEN before.disk[Target] ELSE plan.new[Target]
    /\ pc = "origin" =>
         /\ Written
         /\ plan.receipt # NoReceipt
         /\ before.receipt = NoReceipt
         /\ file = Catalog => origin[Target] = base[Target]
    /\ pc = "receipt" => Written /\ plan.receipt # NoReceipt /\ origin = base
    /\ pc = "retire" => Written /\ plan.receipt = NoReceipt
    /\ pc = "unjournal" => Written /\ plan.receipt = NoReceipt /\ receipt = NoReceipt
    /\ pc = "forget" => journal = NoJournal /\ receipt = NoReceipt /\ plan # NoPlan
    /\ pc = "validate" => journal # NoJournal
    /\ pc = "restore" =>
         /\ journal # NoJournal
         /\ \A f \in Files : disk[f] \in {journal.old[f], journal.new[f]}
         /\ file = Catalog => disk[Target] = journal.old[Target]
    /\ pc = "prior" => journal # NoJournal /\ disk = before.disk
    /\ pc = "clear" =>
         /\ journal # NoJournal
         /\ IF plan = NoPlan
            THEN disk = before.disk /\ receipt = before.receipt
            ELSE /\ disk = plan.new
                 /\ receipt = plan.receipt
                 /\ origin = base

IInv ==
    /\ TypeOK
    /\ PlanInv
    /\ HistoryInv
    /\ JournalInv
    /\ StepInv
    /\ BlocksAreOwned
    /\ OriginIsTheBaseline

-----------------------------------------------------------------------------

LEMMA FilesAre == Files = {Target, Catalog} /\ Target = 1 /\ Catalog = 2
  BY SMT DEF Files, Target, Catalog

\* Copying one file from one pair of files to another gives a pair of files.
LEMMA CopyFile ==
  \A d, e \in Disks : \A f \in Files : [d EXCEPT ![f] = e[f]] \in Disks
  BY FilesAre, SMT DEF Disks

LEMMA ClearFile ==
  \A d \in Disks : \A f \in Files : [d EXCEPT ![f] = Absent] \in Disks
  BY FilesAre, SMT DEF Disks, TextIn

LEMMA PlanTyped ==
  TypeOK /\ plan # NoPlan => /\ plan \in Plans
                             /\ plan.new \in Disks
                             /\ plan.receipt \in Receipts \cup {NoReceipt}
  BY DEF TypeOK, Plans

LEMMA SameDisk ==
  \A d, e \in Disks : d[Target] = e[Target] /\ d[Catalog] = e[Catalog] => d = e
<1> SUFFICES ASSUME NEW d \in Disks, NEW e \in Disks,
                    d[Target] = e[Target], d[Catalog] = e[Catalog]
             PROVE  d = e
  OBVIOUS
<1>1. d \in [Files -> Content \cup {Absent}] /\ e \in [Files -> Content \cup {Absent}]
  BY DEF Disks
<1>2. \A f \in Files : d[f] = e[f]
  BY FilesAre
<1> QED BY <1>1, <1>2

LEMMA InitInv == Init => IInv
<1> SUFFICES ASSUME Init PROVE IInv
  OBVIOUS
<1>1. disk \in Disks /\ \A f \in Files : OwnedIn(disk[f]) \notin Blocks
  <2>1. disk \in Disks /\ \A f \in Files : disk[f] \in UserContents(f)
    BY DEF Init
  <2>2. \A f \in Files : disk[f] = Absent \/ (disk[f].owned \in {NoBlock, Mine})
    BY <2>1 DEF UserContents
  <2> QED BY <2>1, <2>2, ByokAssumption DEF OwnedIn
<1>2. NoFiles \in Disks
  BY FilesAre, SMT DEF NoFiles, Disks, TextIn
<1>3. TypeOK
  BY <1>1, <1>2, ByokAssumption, FilesAre, SMT
     DEF Init, TypeOK, View, Views, Steps
<1>4. PlanInv /\ JournalInv
  BY DEF Init, PlanInv, JournalInv
<1>5. HistoryInv /\ BlocksAreOwned /\ OriginIsTheBaseline
  BY <1>1 DEF Init, HistoryInv, BlocksAreOwned, OriginIsTheBaseline, Owns, Honest
<1>6. StepInv
  BY DEF Init, StepInv
<1> QED BY <1>3, <1>4, <1>5, <1>6 DEF IInv

-----------------------------------------------------------------------------
(* The plans of configure, remove and undo. *)

LEMMA MadeContent ==
  \A t \in Texts, o \in Owned :
     /\ [text |-> t, owned |-> o] \in Content
     /\ TextIn([text |-> t, owned |-> o]) = t
     /\ OwnedIn([text |-> t, owned |-> o]) = o
<1>1. \A t \in Texts, o \in Owned : [text |-> t, owned |-> o] \in Content
  BY DEF Content
<1> QED BY <1>1, AbsentAssumption DEF TextIn, OwnedIn

LEMMA ConfiguredPlan ==
  ASSUME TypeOK, NEW b \in Blocks, NEW adopted \in BOOLEAN,
         Honest(receipt), receipt = NoReceipt /\ ~ adopted => ~ collision,
         receipt # NoReceipt /\ ~ adopted => ~ receipt.adopted
  PROVE  /\ configured(b) \in Disks
         /\ configure_receipt(b, adopted) \in Receipts
         /\ KeepsText(configured(b), disk)
         /\ Owns(configured(b), configure_receipt(b, adopted))
         /\ Honest(configure_receipt(b, adopted))
<1> DEFINE d == configured(b)
           r == configure_receipt(b, adopted)
<1>1. disk \in [Files -> Content \cup {Absent}] /\ TextIn(disk[Catalog]) = Blank
  BY DEF TypeOK, Disks
<1>2. \A f \in Files : TextIn(disk[f]) \in Texts
  BY <1>1, ByokAssumption DEF TextIn, Content
<1>3. \A f \in Files : d[f] = [text |-> TextIn(disk[f]), owned |-> b]
  BY <1>1, FilesAre DEF configured
<1>a. b \in Owned
  BY DEF Owned
<1> HIDE DEF d
<1>4. \A f \in Files : d[f] \in Content
  BY <1>2, <1>3, <1>a, MadeContent
<1>5. \A f \in Files : TextIn(d[f]) = TextIn(disk[f]) /\ OwnedIn(d[f]) = b
  <2> TAKE f \in Files
  <2>1. PICK t \in Texts : t = TextIn(disk[f])
    BY <1>2
  <2>2. d[f] = [text |-> t, owned |-> b]
    BY <1>3, <2>1
  <2> QED BY <1>a, <2>1, <2>2, MadeContent
<1>6. d \in Disks
  <2>1. d \in [Files -> Content \cup {Absent}]
    BY <1>4 DEF d, configured
  <2> QED BY <2>1, <1>5, <1>1, FilesAre DEF Disks
<1>7. r \in Receipts /\ r.block = b
  <2>1. receipt = NoReceipt \/ receipt \in Receipts
    BY DEF TypeOK
  <2> QED BY <2>1 DEF configure_receipt, Receipts
<1>8. r # NoReceipt
  BY <1>7, NoReceiptAssumption
<1>9. Honest(r)
  <2>1. CASE receipt = NoReceipt
    BY <2>1, FilesAre DEF Honest, configure_receipt, collision
  <2>2. CASE receipt # NoReceipt
    BY <2>2 DEF Honest, configure_receipt
  <2> QED BY <2>1, <2>2
<1> QED BY <1>5, <1>6, <1>7, <1>8, <1>9 DEF d, KeepsText, Owns

LEMMA RemovedPlan ==
  ASSUME TypeOK, receipt # NoReceipt, ~ receipt.adopted, Honest(receipt), NEW bare \in BOOLEAN
  PROVE  /\ removed(bare) \in Disks
         /\ KeepsText(removed(bare), disk)
         /\ Owns(removed(bare), NoReceipt)
<1>1. disk \in [Files -> Content \cup {Absent}] /\ TextIn(disk[Catalog]) = Blank
  BY DEF TypeOK, Disks
<1>2. \A f \in Files : TextIn(disk[f]) \in Texts
  BY <1>1, ByokAssumption DEF TextIn, Content
<1>3. removed(bare)[Catalog] = Absent
  BY FilesAre DEF removed, Honest
<1>4. \/ removed(bare)[Target] = Absent /\ TextIn(disk[Target]) = Blank
      \/ removed(bare)[Target] = [text |-> TextIn(disk[Target]), owned |-> NoBlock]
  BY FilesAre DEF removed, TextIn
<1>5. [text |-> TextIn(disk[Target]), owned |-> NoBlock] \in Content
  BY <1>2, FilesAre DEF Content, Owned
<1>6. \A f \in Files : removed(bare)[f] \in Content \cup {Absent}
  BY <1>3, <1>4, <1>5, FilesAre
<1>7. \A f \in Files : TextIn(removed(bare)[f]) = TextIn(disk[f])
  BY <1>1, <1>3, <1>4, <1>5, FilesAre, AbsentAssumption DEF TextIn
<1>8. \A f \in Files : OwnedIn(removed(bare)[f]) = NoBlock
  BY <1>3, <1>4, <1>5, FilesAre, AbsentAssumption DEF OwnedIn
<1>9. removed(bare) \in Disks
  <2>1. removed(bare) \in [Files -> Content \cup {Absent}]
    BY <1>6 DEF removed
  <2> QED BY <2>1, <1>1, <1>7, FilesAre DEF Disks
<1> QED BY <1>7, <1>8, <1>9, ByokAssumption DEF KeepsText, Owns

LEMMA UndonePlan ==
  ASSUME TypeOK, \A f \in Files : OwnedIn(origin[f]) \notin Blocks
  PROVE  /\ undone \in Disks
         /\ KeepsText(undone, disk)
         /\ Owns(undone, NoReceipt)
<1>1. /\ disk \in [Files -> Content \cup {Absent}] /\ TextIn(disk[Catalog]) = Blank
      /\ origin \in [Files -> Content \cup {Absent}] /\ TextIn(origin[Catalog]) = Blank
  BY DEF TypeOK, Disks
<1>2. \A f \in Files : TextIn(disk[f]) \in Texts /\ OwnedIn(origin[f]) \in Owned
  BY <1>1, ByokAssumption DEF TextIn, OwnedIn, Content, Owned
<1>3. undone[Target] = [text |-> TextIn(disk[Target]), owned |-> OwnedIn(origin[Target])]
  BY FilesAre DEF undone
<1>4. undone[Target] \in Content
  BY <1>2, <1>3, FilesAre DEF Content
<1>5. \/ undone[Catalog] = [text |-> Blank, owned |-> Emptied]
      \/ undone[Catalog] = origin[Catalog] /\ origin[Catalog] # Absent
  BY FilesAre DEF undone
<1>6. [text |-> Blank, owned |-> Emptied] \in Content
  BY ByokAssumption DEF Content, Owned
<1>7. undone[Catalog] \in Content /\ TextIn(undone[Catalog]) = Blank
      /\ OwnedIn(undone[Catalog]) \notin Blocks
  BY <1>1, <1>5, <1>6, FilesAre, AbsentAssumption, ByokAssumption DEF TextIn, OwnedIn
<1>8. TextIn(undone[Target]) = TextIn(disk[Target])
      /\ OwnedIn(undone[Target]) \notin Blocks
  BY <1>3, <1>4, FilesAre, AbsentAssumption DEF TextIn, OwnedIn
<1>9. undone \in Disks
  <2>1. \A f \in Files : undone[f] \in Content \cup {Absent}
    BY <1>4, <1>7, FilesAre
  <2>2. undone \in [Files -> Content \cup {Absent}]
    BY <2>1 DEF undone
  <2> QED BY <2>2, <1>7 DEF Disks
<1> QED BY <1>1, <1>7, <1>8, <1>9, FilesAre DEF KeepsText, Owns
-----------------------------------------------------------------------------
(* One lemma per action. *)

LEMMA inspect_step == IInv /\ inspect => IInv'
<1> SUFFICES ASSUME IInv, inspect PROVE IInv'
  OBVIOUS
<1> USE FilesAre DEF IInv, inspect, View, Views, stored, history
<1>1. TypeOK'
  BY CopyFile, ByokAssumption, SMT DEF TypeOK, Steps
<1>2. PlanInv'
  BY DEF PlanInv, StepInv
<1>3. HistoryInv'
  BY DEF HistoryInv, StepInv, PlanInv
<1>4. JournalInv'
  BY SameDisk DEF JournalInv, StepInv, TypeOK, PlanInv, Unwritten
<1>5. StepInv'
  BY DEF StepInv, Idle, Unwritten, Written
<1>6. BlocksAreOwned'
  BY DEF BlocksAreOwned, StepInv, HistoryInv, PlanInv, Written, Unwritten
<1>7. OriginIsTheBaseline'
  BY DEF OriginIsTheBaseline, StepInv, JournalInv, Written, Unwritten
<1> QED BY <1>1, <1>2, <1>3, <1>4, <1>5, <1>6, <1>7

LEMMA recover_step == IInv /\ recover => IInv'
<1> SUFFICES ASSUME IInv, recover PROVE IInv'
  OBVIOUS
<1> USE FilesAre DEF IInv, recover, Idle, pending, stored, history
<1>1. TypeOK'
  BY CopyFile, ByokAssumption, SMT DEF TypeOK, Steps
<1>2. PlanInv'
  BY DEF PlanInv, StepInv
<1>3. HistoryInv'
  BY DEF HistoryInv, StepInv, PlanInv
<1>4. JournalInv'
  BY SameDisk DEF JournalInv, StepInv, TypeOK, PlanInv, Unwritten
<1>5. StepInv'
  BY SameDisk DEF StepInv, JournalInv, HistoryInv, TypeOK, Unwritten, Written
<1>6. BlocksAreOwned'
  BY DEF BlocksAreOwned, StepInv, HistoryInv, PlanInv, Written, Unwritten
<1>7. OriginIsTheBaseline'
  BY DEF OriginIsTheBaseline, StepInv, JournalInv, Written, Unwritten
<1> QED BY <1>1, <1>2, <1>3, <1>4, <1>5, <1>6, <1>7

LEMMA write_hash_backup_step == IInv /\ write_hash_backup => IInv'
<1> SUFFICES ASSUME IInv, write_hash_backup PROVE IInv'
  OBVIOUS
<1> USE FilesAre DEF IInv, write_hash_backup, NextFile, stored, history
<1>1. TypeOK'
  <2>1. backup' \in Disks
    BY CopyFile DEF TypeOK
  <2>2. file' \in Files /\ pc' \in Steps
    BY DEF Steps, TypeOK
  <2> QED BY <2>1, <2>2 DEF TypeOK
<1>2. PlanInv'
  BY DEF PlanInv, StepInv
<1>3. HistoryInv'
  BY DEF HistoryInv, StepInv, PlanInv
<1>4. JournalInv'
  BY SameDisk DEF JournalInv, StepInv, TypeOK, PlanInv, Unwritten
<1>5. StepInv'
  <2>1. CASE file = Target
    BY <2>1 DEF StepInv, TypeOK, Unwritten, Disks
  <2>2. CASE file = Catalog
    <3>1. backup'[Target] = disk[Target] /\ backup'[Catalog] = disk[Catalog]
      BY <2>2 DEF StepInv, TypeOK, Disks
    <3>2. backup' = disk
      BY <1>1, <3>1, SameDisk DEF TypeOK
    <3> QED BY <2>2, <3>2 DEF StepInv, Unwritten
  <2> QED BY <2>1, <2>2 DEF TypeOK
<1>6. BlocksAreOwned'
  BY DEF BlocksAreOwned, StepInv, HistoryInv, PlanInv, Written, Unwritten
<1>7. OriginIsTheBaseline'
  BY DEF OriginIsTheBaseline, StepInv, JournalInv, Written, Unwritten
<1> QED BY <1>1, <1>2, <1>3, <1>4, <1>5, <1>6, <1>7

LEMMA save_journal_step == IInv /\ save_journal => IInv'
<1> SUFFICES ASSUME IInv, save_journal PROVE IInv'
  OBVIOUS
<1> USE FilesAre DEF IInv, save_journal, Journals, Plans, stored, history
<1>1. TypeOK'
  <2>1. journal' \in Journals
    BY PlanTyped DEF TypeOK, StepInv, Unwritten
  <2> QED BY <2>1 DEF TypeOK, Steps
<1>2. PlanInv'
  BY DEF PlanInv, StepInv
<1>3. HistoryInv'
  BY DEF HistoryInv, StepInv, PlanInv
<1>4. JournalInv'
  <2>1. /\ journal'.old = before.disk /\ journal'.prior = before.receipt
        /\ journal'.new = plan.new /\ backup = before.disk /\ plan # NoPlan
        /\ journal = NoJournal /\ receipt = before.receipt
    BY DEF StepInv, Unwritten
  <2>2. KeepsText(journal'.new, journal'.old)
    BY <2>1 DEF PlanInv
  <2>3. before.receipt # NoReceipt => origin = base
    BY <2>1 DEF OriginIsTheBaseline
  <2> QED BY <2>1, <2>2, <2>3 DEF JournalInv
<1>5. StepInv'
  <2>1. journal' # NoJournal
    BY <1>1, NoJournalAssumption, PlanTyped DEF TypeOK, StepInv, Unwritten
  <2> QED BY <2>1 DEF StepInv, Unwritten
<1>6. BlocksAreOwned'
  BY DEF BlocksAreOwned, StepInv, HistoryInv, PlanInv, Written, Unwritten
<1>7. OriginIsTheBaseline'
  BY DEF OriginIsTheBaseline, StepInv, JournalInv, Written, Unwritten
<1> QED BY <1>1, <1>2, <1>3, <1>4, <1>5, <1>6, <1>7

LEMMA write_plan_step == IInv /\ write_plan => IInv'
<1> SUFFICES ASSUME IInv, write_plan PROVE IInv'
  OBVIOUS
<1> USE FilesAre DEF IInv, write_plan, NextFile, AfterWrites, Plans, stored, history
<1>1. TypeOK'
  <2>1. disk' \in Disks
    BY CopyFile, PlanTyped DEF TypeOK, StepInv
  <2>2. file' \in Files /\ pc' \in Steps
    BY DEF Steps, TypeOK
  <2> QED BY <2>1, <2>2 DEF TypeOK
<1>2. PlanInv'
  BY DEF PlanInv, StepInv
<1>3. HistoryInv'
  BY DEF HistoryInv, StepInv, PlanInv
<1>4. JournalInv'
  BY SameDisk DEF JournalInv, StepInv, TypeOK, PlanInv, Unwritten
<1>5. StepInv'
  <2>1. plan # NoPlan /\ journal # NoJournal /\ disk' \in Disks /\ plan.new \in Disks
    BY <1>1, PlanTyped DEF TypeOK, StepInv
  <2>2. CASE file = Target
    BY <2>1, <2>2 DEF StepInv, TypeOK, Disks
  <2>3. CASE file = Catalog
    <3>1. disk'[Target] = plan.new[Target] /\ disk'[Catalog] = plan.new[Catalog]
      BY <2>3 DEF StepInv, TypeOK, Disks
    <3>2. disk' = plan.new
      BY <2>1, <3>1, SameDisk
    <3>3. before.receipt # NoReceipt => origin = base
      BY <2>1 DEF JournalInv
    <3>4. receipt = before.receipt /\ file' = Target /\ pc' = AfterWrites
      BY <2>3 DEF StepInv
    <3>5. Written'
      BY <2>1, <3>2 DEF Written
    <3>6. CASE pc' = "retire"
      BY <3>4, <3>5, <3>6 DEF StepInv
    <3>7. CASE pc' = "origin"
      BY <3>4, <3>5, <3>7 DEF StepInv
    <3>8. CASE pc' = "receipt"
      BY <3>3, <3>4, <3>5, <3>8 DEF StepInv
    <3> QED BY <3>4, <3>6, <3>7, <3>8
  <2> QED BY <2>2, <2>3 DEF TypeOK
<1>6. BlocksAreOwned'
  BY DEF BlocksAreOwned, StepInv, HistoryInv, PlanInv, Written, Unwritten
<1>7. OriginIsTheBaseline'
  BY DEF OriginIsTheBaseline, StepInv, JournalInv, Written, Unwritten
<1> QED BY <1>1, <1>2, <1>3, <1>4, <1>5, <1>6, <1>7

LEMMA write_plan_fails_step == IInv /\ write_plan_fails => IInv'
<1> SUFFICES ASSUME IInv, write_plan_fails PROVE IInv'
  OBVIOUS
<1> USE FilesAre DEF IInv, write_plan_fails, Event, Plans, stored, history
<1>1. TypeOK'
  <2>1. plan.new \in Disks /\ disk \in Disks /\ file \in Files
    BY PlanTyped DEF TypeOK, StepInv
  <2>a. [disk EXCEPT ![file] = plan.new[file]] \in Disks
    BY <2>1, CopyFile
  <2>2. disk' \in Disks
    BY <2>1, <2>a
  <2> QED BY <2>2, ByokAssumption, SMT DEF TypeOK, Steps
<1>2. PlanInv'
  BY DEF PlanInv, StepInv
<1>3. HistoryInv'
  BY DEF HistoryInv, StepInv, PlanInv
<1>4. JournalInv'
  BY SameDisk DEF JournalInv, StepInv, TypeOK, PlanInv, Unwritten
<1>5. StepInv'
  BY SameDisk DEF StepInv, JournalInv, HistoryInv, TypeOK, Unwritten, Written
<1>6. BlocksAreOwned'
  BY DEF BlocksAreOwned, StepInv, HistoryInv, PlanInv, Written, Unwritten
<1>7. OriginIsTheBaseline'
  BY DEF OriginIsTheBaseline, StepInv, JournalInv, Written, Unwritten
<1> QED BY <1>1, <1>2, <1>3, <1>4, <1>5, <1>6, <1>7

LEMMA save_origin_from_old_backups_step == IInv /\ save_origin_from_old_backups => IInv'
<1> SUFFICES ASSUME IInv, save_origin_from_old_backups PROVE IInv'
  OBVIOUS
<1> USE FilesAre DEF IInv, save_origin_from_old_backups, NextFile, stored, history
<1>1. TypeOK'
  <2>1. origin' \in Disks
    BY CopyFile DEF TypeOK
  <2>2. file' \in Files /\ pc' \in Steps
    BY DEF Steps, TypeOK
  <2> QED BY <2>1, <2>2 DEF TypeOK
<1>2. PlanInv'
  BY DEF PlanInv, StepInv
<1>3. HistoryInv'
  BY DEF HistoryInv, StepInv, PlanInv
<1>4. JournalInv'
  BY SameDisk DEF JournalInv, StepInv, TypeOK, PlanInv, Unwritten
<1>5. StepInv'
  <2>1. backup = base
    BY DEF StepInv, Written, JournalInv, HistoryInv
  <2>2. CASE file = Target
    BY <2>1, <2>2 DEF StepInv, TypeOK, Disks, Written
  <2>3. CASE file = Catalog
    <3>1. origin'[Target] = base[Target] /\ origin'[Catalog] = base[Catalog]
      BY <2>1, <2>3 DEF StepInv, TypeOK, Disks
    <3>2. origin' = base
      BY <1>1, <3>1, SameDisk DEF TypeOK
    <3> QED BY <2>3, <3>2 DEF StepInv, Written
  <2> QED BY <2>2, <2>3 DEF TypeOK
<1>6. BlocksAreOwned'
  BY DEF BlocksAreOwned, StepInv, HistoryInv, PlanInv, Written, Unwritten
<1>7. OriginIsTheBaseline'
  BY DEF OriginIsTheBaseline, StepInv, JournalInv, Written, Unwritten
<1> QED BY <1>1, <1>2, <1>3, <1>4, <1>5, <1>6, <1>7

LEMMA save_receipt_step == IInv /\ save_receipt => IInv'
<1> SUFFICES ASSUME IInv, save_receipt PROVE IInv'
  OBVIOUS
<1> USE FilesAre DEF IInv, save_receipt, Plans, stored, history
<1>1. TypeOK'
  <2>1. receipt' \in Receipts \cup {NoReceipt}
    BY PlanTyped DEF StepInv, Written
  <2> QED BY <2>1 DEF TypeOK, Steps
<1>2. PlanInv'
  BY DEF PlanInv, StepInv
<1>3. HistoryInv'
  <2>1. Honest(receipt')
    BY DEF StepInv, Written, PlanInv
  <2> QED BY <2>1 DEF HistoryInv
<1>4. JournalInv'
  BY SameDisk DEF JournalInv, StepInv, TypeOK, PlanInv, Unwritten
<1>5. StepInv'
  BY SameDisk DEF StepInv, JournalInv, HistoryInv, TypeOK, Unwritten, Written
<1>6. BlocksAreOwned'
  BY DEF BlocksAreOwned, StepInv, HistoryInv, PlanInv, Written, Unwritten
<1>7. OriginIsTheBaseline'
  BY DEF OriginIsTheBaseline, StepInv, JournalInv, Written, Unwritten
<1> QED BY <1>1, <1>2, <1>3, <1>4, <1>5, <1>6, <1>7

LEMMA retire_step == IInv /\ retire => IInv'
<1> SUFFICES ASSUME IInv, retire PROVE IInv'
  OBVIOUS
<1> USE FilesAre DEF IInv, retire, stored, history
<1>1. TypeOK'
  BY CopyFile, ByokAssumption, SMT DEF TypeOK, Steps
<1>2. PlanInv'
  BY DEF PlanInv, StepInv
<1>3. HistoryInv'
  <2>1. Honest(receipt')
    BY DEF Honest
  <2> QED BY <2>1 DEF HistoryInv
<1>4. JournalInv'
  BY SameDisk DEF JournalInv, StepInv, TypeOK, PlanInv, Unwritten
<1>5. StepInv'
  BY SameDisk DEF StepInv, JournalInv, HistoryInv, TypeOK, Unwritten, Written
<1>6. BlocksAreOwned'
  BY DEF BlocksAreOwned, StepInv, HistoryInv, PlanInv, Written, Unwritten
<1>7. OriginIsTheBaseline'
  BY DEF OriginIsTheBaseline, StepInv, JournalInv, Written, Unwritten
<1> QED BY <1>1, <1>2, <1>3, <1>4, <1>5, <1>6, <1>7

LEMMA clear_journal_step == IInv /\ clear_journal => IInv'
<1> SUFFICES ASSUME IInv, clear_journal PROVE IInv'
  OBVIOUS
<1> USE FilesAre DEF IInv, clear_journal, Done, stored, history
<1>1. TypeOK'
  BY CopyFile, ByokAssumption, SMT DEF TypeOK, Steps
<1>2. PlanInv'
  BY DEF PlanInv, StepInv
<1>3. HistoryInv'
  BY DEF HistoryInv, StepInv, PlanInv
<1>4. JournalInv'
  BY SameDisk DEF JournalInv, StepInv, TypeOK, PlanInv, Unwritten
<1>5. StepInv'
  BY SameDisk DEF StepInv, JournalInv, HistoryInv, TypeOK, Unwritten, Written
<1>6. BlocksAreOwned'
  BY DEF BlocksAreOwned, StepInv, HistoryInv, PlanInv, Written, Unwritten
<1>7. OriginIsTheBaseline'
  BY DEF OriginIsTheBaseline, StepInv, JournalInv, Written, Unwritten
<1> QED BY <1>1, <1>2, <1>3, <1>4, <1>5, <1>6, <1>7

LEMMA clear_origin_step == IInv /\ clear_origin => IInv'
<1> SUFFICES ASSUME IInv, clear_origin PROVE IInv'
  OBVIOUS
<1> USE FilesAre DEF IInv, clear_origin, Done, stored, history
<1>1. TypeOK'
  <2>1. origin' \in Disks
    BY ClearFile DEF TypeOK
  <2>2. file' \in Files /\ pc' \in Steps /\ plan' \in Plans \cup {NoPlan}
    BY DEF Steps, TypeOK
  <2> QED BY <2>1, <2>2 DEF TypeOK
<1>2. PlanInv'
  BY DEF PlanInv, StepInv
<1>3. HistoryInv'
  BY DEF HistoryInv, StepInv, PlanInv
<1>4. JournalInv'
  BY SameDisk DEF JournalInv, StepInv, TypeOK, PlanInv, Unwritten
<1>5. StepInv'
  BY SameDisk DEF StepInv, JournalInv, HistoryInv, TypeOK, Unwritten, Written
<1>6. BlocksAreOwned'
  BY DEF BlocksAreOwned, StepInv, HistoryInv, PlanInv, Written, Unwritten
<1>7. OriginIsTheBaseline'
  BY DEF OriginIsTheBaseline, StepInv, JournalInv, Written, Unwritten
<1> QED BY <1>1, <1>2, <1>3, <1>4, <1>5, <1>6, <1>7

LEMMA validate_journal_states_step == IInv /\ validate_journal_states => IInv'
<1> SUFFICES ASSUME IInv, validate_journal_states PROVE IInv'
  OBVIOUS
<1> USE FilesAre DEF IInv, validate_journal_states, journal_states_valid, Done, stored, history
<1>1. TypeOK'
  BY CopyFile, ByokAssumption, SMT DEF TypeOK, Steps
<1>2. PlanInv'
  BY DEF PlanInv, StepInv
<1>3. HistoryInv'
  BY DEF HistoryInv, StepInv, PlanInv
<1>4. JournalInv'
  BY SameDisk DEF JournalInv, StepInv, TypeOK, PlanInv, Unwritten
<1>5. StepInv'
  BY SameDisk DEF StepInv, JournalInv, HistoryInv, TypeOK, Unwritten, Written
<1>6. BlocksAreOwned'
  BY DEF BlocksAreOwned, StepInv, HistoryInv, PlanInv, Written, Unwritten
<1>7. OriginIsTheBaseline'
  BY DEF OriginIsTheBaseline, StepInv, JournalInv, Written, Unwritten
<1> QED BY <1>1, <1>2, <1>3, <1>4, <1>5, <1>6, <1>7

LEMMA restore_old_step == IInv /\ restore_old => IInv'
<1> SUFFICES ASSUME IInv, restore_old PROVE IInv'
  OBVIOUS
<1> USE FilesAre DEF IInv, restore_old, NextFile, Journals, stored, history
<1>1. TypeOK'
  <2>1. disk' \in Disks
    BY CopyFile DEF TypeOK
  <2>2. file' \in Files /\ pc' \in Steps
    BY DEF Steps, TypeOK
  <2> QED BY <2>1, <2>2 DEF TypeOK
<1>2. PlanInv'
  BY DEF PlanInv, StepInv
<1>3. HistoryInv'
  BY DEF HistoryInv, StepInv, PlanInv
<1>4. JournalInv'
  BY SameDisk DEF JournalInv, StepInv, TypeOK, PlanInv, Unwritten
<1>5. StepInv'
  <2>1. /\ journal # NoJournal /\ journal.old = before.disk /\ backup = before.disk
        /\ disk \in [Files -> Content \cup {Absent}]
        /\ before.disk \in Disks /\ disk' \in Disks
    BY <1>1 DEF StepInv, JournalInv, TypeOK, Disks
  <2>2. disk'[file] = journal.old[file] /\ \A f \in Files : f # file => disk'[f] = disk[f]
    BY <2>1 DEF TypeOK
  <2>3. \A f \in Files : disk'[f] \in {journal.old[f], journal.new[f]}
    BY <2>2 DEF StepInv
  <2>4. CASE file = Target
    BY <2>1, <2>2, <2>3, <2>4 DEF StepInv
  <2>5. CASE file = Catalog
    <3>1. disk' = before.disk
      BY <2>1, <2>2, <2>5, SameDisk, ZenonT(40) DEF StepInv
    <3>2. pc' = "prior" /\ file' = Target /\ plan' = NoPlan
      BY <2>5 DEF StepInv
    <3> QED BY <2>1, <3>1, <3>2 DEF StepInv
  <2> QED BY <2>4, <2>5 DEF TypeOK
<1>6. BlocksAreOwned'
  BY DEF BlocksAreOwned, StepInv, HistoryInv, PlanInv, Written, Unwritten
<1>7. OriginIsTheBaseline'
  BY DEF OriginIsTheBaseline, StepInv, JournalInv, Written, Unwritten
<1> QED BY <1>1, <1>2, <1>3, <1>4, <1>5, <1>6, <1>7

LEMMA restore_prior_step == IInv /\ restore_prior => IInv'
<1> SUFFICES ASSUME IInv, restore_prior PROVE IInv'
  OBVIOUS
<1> USE FilesAre DEF IInv, restore_prior, Journals, stored, history
<1>1. TypeOK'
  <2>1. receipt' \in Receipts \cup {NoReceipt}
    BY DEF StepInv, JournalInv, TypeOK
  <2> QED BY <2>1 DEF TypeOK, Steps
<1>2. PlanInv'
  BY DEF PlanInv, StepInv
<1>3. HistoryInv'
  <2>1. receipt' = before.receipt
    BY DEF StepInv, JournalInv
  <2> QED BY <2>1 DEF HistoryInv
<1>4. JournalInv'
  BY SameDisk DEF JournalInv, StepInv, TypeOK, PlanInv, Unwritten
<1>5. StepInv'
  BY SameDisk DEF StepInv, JournalInv, HistoryInv, TypeOK, Unwritten, Written
<1>6. BlocksAreOwned'
  BY DEF BlocksAreOwned, StepInv, HistoryInv, PlanInv, Written, Unwritten
<1>7. OriginIsTheBaseline'
  BY DEF OriginIsTheBaseline, StepInv, JournalInv, Written, Unwritten
<1> QED BY <1>1, <1>2, <1>3, <1>4, <1>5, <1>6, <1>7

LEMMA Interrupt_step == IInv /\ Interrupt => IInv'
<1> SUFFICES ASSUME IInv, Interrupt PROVE IInv'
  OBVIOUS
<1> USE FilesAre DEF IInv, Interrupt, Event, Done, Idle, stored, history
<1>1. TypeOK'
  BY CopyFile, ByokAssumption, SMT DEF TypeOK, Steps
<1>2. PlanInv'
  BY DEF PlanInv, StepInv
<1>3. HistoryInv'
  BY DEF HistoryInv, StepInv, PlanInv
<1>4. JournalInv'
  BY SameDisk DEF JournalInv, StepInv, TypeOK, PlanInv, Unwritten
<1>5. StepInv'
  BY SameDisk DEF StepInv, JournalInv, HistoryInv, TypeOK, Unwritten, Written
<1>6. BlocksAreOwned'
  BY DEF BlocksAreOwned, StepInv, HistoryInv, PlanInv, Written, Unwritten
<1>7. OriginIsTheBaseline'
  BY DEF OriginIsTheBaseline, StepInv, JournalInv, Written, Unwritten
<1> QED BY <1>1, <1>2, <1>3, <1>4, <1>5, <1>6, <1>7

LEMMA UserEdit_step == \A e \in Files : IInv /\ UserEdit(e) => IInv'
<1> SUFFICES ASSUME IInv, NEW e \in Files, UserEdit(e) PROVE IInv'
  OBVIOUS
<1> USE FilesAre DEF IInv, UserEdit, Event, Idle, stored, history
<1>1. PICK c \in UserContents(e) \cup
                   (IF e = Target /\ disk[e] # Absent
                    THEN [text : Texts, owned : {disk[e].owned}] ELSE {}) :
         disk' = [disk EXCEPT ![e] = c]
  OBVIOUS
<1>2. /\ c \in Content \cup {Absent}
      /\ e = Catalog => TextIn(c) = Blank
      /\ OwnedIn(c) \in Blocks => OwnedIn(c) = OwnedIn(disk[e])
  <2>1. CASE c = Absent
    BY <2>1, ByokAssumption DEF TextIn, OwnedIn
  <2>2. CASE c # Absent /\ c \in UserContents(e)
    <3>1. PICK t \in Texts, o \in {NoBlock, Mine} :
            c = [text |-> t, owned |-> o] /\ (e = Catalog => t = Blank)
      BY <2>2, ByokAssumption DEF UserContents
    <3>2. o \in Owned /\ o \notin Blocks
      BY ByokAssumption DEF Owned
    <3> QED BY <3>1, <3>2, MadeContent
  <2>3. CASE e = Target /\ disk[e] # Absent /\ c \in [text : Texts, owned : {disk[e].owned}]
    <3>1. PICK t \in Texts : c = [text |-> t, owned |-> disk[e].owned]
      BY <2>3
    <3>2. disk[e] \in Content
      BY <2>3 DEF TypeOK, Disks
    <3>3. disk[e].owned \in Owned
      BY <3>2 DEF Content
    <3>4. PICK o \in Owned : o = disk[e].owned
      BY <3>3
    <3>5. c \in Content /\ OwnedIn(c) = o
      BY <3>1, <3>4, MadeContent
    <3> QED BY <2>3, <3>4, <3>5 DEF OwnedIn
  <2> QED BY <1>1, <2>1, <2>2, <2>3
<1>3. disk' \in Disks
  BY <1>1, <1>2, SMT DEF TypeOK, Disks
<1>4. TypeOK'
  BY <1>3, ByokAssumption, SMT DEF TypeOK
<1>5. PlanInv' /\ HistoryInv' /\ JournalInv'
  BY DEF PlanInv, HistoryInv, JournalInv, StepInv
<1>6. StepInv'
  BY DEF StepInv
<1>7. BlocksAreOwned'
  <2>1. \A f \in Files : disk'[f] = IF f = e THEN c ELSE disk[f]
    BY <1>1 DEF TypeOK, Disks
  <2>2. \A f \in Files : OwnedIn(disk'[f]) \in Blocks => OwnedIn(disk'[f]) = OwnedIn(disk[f])
    BY <2>1, <1>2
  <2> QED BY <2>2 DEF BlocksAreOwned, Owns
<1>8. OriginIsTheBaseline'
  BY DEF OriginIsTheBaseline
<1> QED BY <1>4, <1>5, <1>6, <1>7, <1>8

\* An operation begins with a plan that keeps the text and owns its blocks.
LEMMA Begin_step ==
  ASSUME IInv, NEW new \in Disks, NEW next \in Receipts \cup {NoReceipt},
         KeepsText(new, disk), Owns(new, next), Honest(next), Begin(new, next)
  PROVE  IInv'
<1> USE FilesAre DEF IInv, Begin, Idle, require_fingerprint, pending, stored
<1>1. plan' \in Plans /\ plan' # NoPlan
  BY NoPlanAssumption DEF Plans
<1>2. journal = NoJournal /\ Owns(disk, receipt) /\ Honest(receipt)
  BY DEF BlocksAreOwned, HistoryInv
<1>3. seen.disk = disk
  BY DEF View
<1>4. TypeOK'
  <2>1. before' \in [disk : Disks, receipt : Receipts \cup {NoReceipt}]
    BY DEF TypeOK
  <2>2. base' \in Disks
    BY DEF TypeOK
  <2> QED BY <1>1, <2>1, <2>2 DEF TypeOK, Steps
<1>5. before'.disk = disk /\ before'.receipt = receipt
  OBVIOUS
<1>6. PlanInv'
  BY <1>5 DEF PlanInv
<1>7. HistoryInv'
  <2>1. \A f \in Files : OwnedIn(base'[f]) \notin Blocks
    <3>1. CASE receipt = NoReceipt
      BY <1>2, <3>1 DEF Owns
    <3>2. CASE receipt # NoReceipt
      BY <3>2 DEF HistoryInv
    <3> QED BY <3>1, <3>2
  <2> QED BY <1>2, <1>5, <2>1 DEF HistoryInv
<1>8. JournalInv'
  BY <1>2 DEF JournalInv
<1>9. StepInv'
  BY <1>1, <1>2, <1>3, <1>5 DEF StepInv, Unwritten
<1>10. BlocksAreOwned' /\ OriginIsTheBaseline'
  BY DEF BlocksAreOwned, OriginIsTheBaseline
<1> QED BY <1>4, <1>6, <1>7, <1>8, <1>9, <1>10

LEMMA Configure_step ==
  \A b \in Blocks : IInv /\ (configure(b) \/ configure_reviewed(b)) => IInv'
<1> SUFFICES ASSUME NEW b \in Blocks, IInv, configure(b) \/ configure_reviewed(b)
             PROVE  IInv'
  OBVIOUS
<1>0. TypeOK /\ Honest(receipt)
  BY DEF IInv, HistoryInv
<1>1. PICK adopted \in BOOLEAN :
        /\ Begin(configured(b), configure_receipt(b, adopted))
        /\ receipt = NoReceipt /\ ~ adopted => ~ collision
        /\ receipt # NoReceipt /\ ~ adopted => ~ receipt.adopted
  <2>1. CASE configure(b)
    BY <2>1, <1>0 DEF configure
  <2>2. CASE configure_reviewed(b)
    BY <2>2, <1>0 DEF configure_reviewed
  <2> QED BY <2>1, <2>2
<1>2. /\ configured(b) \in Disks
      /\ configure_receipt(b, adopted) \in Receipts
      /\ KeepsText(configured(b), disk)
      /\ Owns(configured(b), configure_receipt(b, adopted))
      /\ Honest(configure_receipt(b, adopted))
  BY <1>0, <1>1, ConfiguredPlan
<1>3. PICK new \in Disks : new = configured(b)
  BY <1>2
<1>4. PICK next \in Receipts : next = configure_receipt(b, adopted)
  BY <1>2
<1>5. Begin(new, next) /\ KeepsText(new, disk) /\ Owns(new, next) /\ Honest(next)
  BY <1>1, <1>2, <1>3, <1>4
<1> QED BY <1>5, Begin_step

LEMMA Remove_step == IInv /\ remove => IInv'
<1> SUFFICES ASSUME IInv, remove PROVE IInv'
  OBVIOUS
<1>0. TypeOK /\ Honest(receipt) /\ receipt # NoReceipt
  BY DEF IInv, HistoryInv, remove
<1>1. Honest(NoReceipt)
  BY DEF Honest
<1>2. CASE receipt.adopted
  <2>1. Begin(undone, NoReceipt)
    BY <1>2 DEF remove
  <2>2. journal = NoJournal
    BY <2>1 DEF Begin, pending
  <2>3. origin = base
    BY <1>0, <2>2 DEF IInv, OriginIsTheBaseline
  <2>4. \A f \in Files : OwnedIn(origin[f]) \notin Blocks
    BY <2>3 DEF IInv, HistoryInv
  <2>5. undone \in Disks /\ KeepsText(undone, disk) /\ Owns(undone, NoReceipt)
    BY <1>0, <2>4, UndonePlan
  <2>6. PICK new \in Disks : new = undone
    BY <2>5
  <2>7. Begin(new, NoReceipt) /\ KeepsText(new, disk) /\ Owns(new, NoReceipt)
    BY <2>1, <2>5, <2>6
  <2> QED BY <1>1, <2>7, Begin_step
<1>3. CASE ~ receipt.adopted
  <2>1. PICK bare \in BOOLEAN : Begin(removed(bare), NoReceipt)
    BY <1>3 DEF remove
  <2>2. /\ removed(bare) \in Disks
        /\ KeepsText(removed(bare), disk) /\ Owns(removed(bare), NoReceipt)
    BY <1>0, <1>3, RemovedPlan
  <2>3. PICK new \in Disks : new = removed(bare)
    BY <2>2
  <2>4. Begin(new, NoReceipt) /\ KeepsText(new, disk) /\ Owns(new, NoReceipt)
    BY <2>1, <2>2, <2>3
  <2> QED BY <1>1, <2>4, Begin_step
<1> QED BY <1>2, <1>3

-----------------------------------------------------------------------------

LEMMA StutterInv == IInv /\ UNCHANGED vars => IInv'
<1> SUFFICES ASSUME IInv, UNCHANGED vars PROVE IInv'
  OBVIOUS
<1>1. /\ disk' = disk /\ receipt' = receipt /\ journal' = journal /\ backup' = backup
      /\ origin' = origin /\ seen' = seen /\ pc' = pc /\ file' = file /\ plan' = plan
      /\ before' = before /\ base' = base /\ events' = events
  BY DEF vars, stored, history
<1> QED BY <1>1 DEF IInv, TypeOK, PlanInv, HistoryInv, JournalInv, StepInv, Unwritten,
              Written, BlocksAreOwned, OriginIsTheBaseline

LEMMA NextInv == IInv /\ [Next]_vars => IInv'
<1> SUFFICES ASSUME IInv, [Next]_vars PROVE IInv'
  OBVIOUS
<1>1. CASE Apply
  BY <1>1, write_hash_backup_step, save_journal_step, write_plan_step,
     write_plan_fails_step, save_origin_from_old_backups_step, save_receipt_step,
     retire_step, clear_journal_step, clear_origin_step DEF Apply
<1>2. CASE Rollback
  BY <1>2, validate_journal_states_step, restore_old_step, restore_prior_step DEF Rollback
<1>3. CASE inspect \/ remove \/ recover \/ Interrupt
  BY <1>3, inspect_step, Remove_step, recover_step, Interrupt_step
<1>4. CASE \E b \in Blocks : configure(b) \/ configure_reviewed(b)
  BY <1>4, Configure_step
<1>5. CASE \E e \in Files : UserEdit(e)
  BY <1>5, UserEdit_step
<1>6. CASE UNCHANGED vars
  BY <1>6, StutterInv
<1> QED BY <1>1, <1>2, <1>3, <1>4, <1>5, <1>6 DEF Next

\* The inductive invariant holds in every state.
THEOREM ByokInvariant == Spec => []IInv
  BY InitInv, NextInv, PTL DEF Spec

\* Without a journal every block OCG wrote is recorded by the receipt
\* (Store::apply_reviewed, retire, restore_prior).
THEOREM OwnedBlocks == Spec => []BlocksAreOwned
<1>1. IInv => BlocksAreOwned
  BY DEF IInv
<1> QED BY <1>1, ByokInvariant, PTL

\* The origin backup of owned files is what they held before OCG took them
\* over (save_origin_from_old_backups, clear_origin).
THEOREM OriginKept == Spec => []OriginIsTheBaseline
<1>1. IInv => OriginIsTheBaseline
  BY DEF IInv
<1> QED BY <1>1, ByokInvariant, PTL

\* A rollback that ends leaves files and receipt as the operation found them
\* (rollback_from_journal, restore_prior, recover_journal).
THEOREM RollbackIsComplete == Spec => RollbackRestoresAll
<1> DEFINE A == pc = "clear" /\ plan = NoPlan /\ journal' = NoJournal =>
                  disk' = before.disk /\ receipt' = before.receipt
<1>1. IInv /\ [Next]_vars => [A]_vars
  <2> SUFFICES ASSUME IInv, Next, pc = "clear", plan = NoPlan, journal' = NoJournal
               PROVE  disk' = before.disk /\ receipt' = before.receipt
    OBVIOUS
  <2>1. disk = before.disk /\ receipt = before.receipt /\ journal # NoJournal
    BY DEF IInv, StepInv
  <2>2. CASE clear_journal
    BY <2>1, <2>2 DEF clear_journal
  <2>3. CASE ~ clear_journal
    <3>1. journal' = journal
      BY <2>3 DEF Next, inspect, configure, configure_reviewed, remove, recover, Begin, Idle,
                  Apply, write_hash_backup, save_journal, write_plan, write_plan_fails,
                  save_origin_from_old_backups, save_receipt, retire, clear_origin,
                  Rollback, validate_journal_states, restore_old, restore_prior,
                  Interrupt, UserEdit, stored
    <3> QED BY <2>1, <3>1
  <2> QED BY <2>2, <2>3
<1> QED BY <1>1, ByokInvariant, PTL DEF Spec, RollbackRestoresAll

\* No write and no rollback loses the user's text or replaces content the
\* operator was not shown (write_plan, validate_journal_states, restore_old).
THEOREM UserContentIsKept == Spec => UserContentSurvives
<1> DEFINE A == Apply \/ Rollback =>
                  \A f \in Files : disk'[f] # disk[f] =>
                      /\ TextIn(disk'[f]) = TextIn(disk[f])
                      /\ disk[f] \in {seen.disk[f], journal.new[f]}
<1>1. IInv /\ [Next]_vars => [A]_vars
  <2> SUFFICES ASSUME IInv, Apply \/ Rollback, NEW f \in Files, disk'[f] # disk[f]
               PROVE  /\ TextIn(disk'[f]) = TextIn(disk[f])
                      /\ disk[f] \in {seen.disk[f], journal.new[f]}
    OBVIOUS
  <2>0. disk \in [Files -> Content \cup {Absent}] /\ file \in Files
    BY DEF IInv, TypeOK, Disks
  <2>1. CASE pc = "write"
    <3>1. disk'[f] = plan.new[f] /\ f = file
      BY <2>0, <2>1 DEF Apply, Rollback, write_hash_backup, save_journal, write_plan,
         write_plan_fails, save_origin_from_old_backups, save_receipt, retire,
         clear_journal, clear_origin, validate_journal_states, restore_old, restore_prior
    <3>2. disk[f] = before.disk[f]
      BY <2>0, <2>1, <3>1, FilesAre DEF IInv, StepInv
    <3>3. seen.disk = before.disk /\ KeepsText(plan.new, before.disk)
      BY <2>1 DEF IInv, StepInv, PlanInv
    <3> QED BY <3>1, <3>2, <3>3 DEF KeepsText
  <2>2. CASE pc = "restore"
    <3>1. restore_old
      BY <2>2 DEF Apply, Rollback, write_hash_backup, save_journal, write_plan,
         write_plan_fails, save_origin_from_old_backups, save_receipt, retire,
         clear_journal, clear_origin, validate_journal_states, restore_prior
    <3>2. disk'[f] = backup[f] /\ disk[f] # journal.old[f]
      BY <2>0, <3>1 DEF restore_old
    <3>3. /\ journal # NoJournal /\ backup = journal.old /\ KeepsText(journal.new, journal.old)
          /\ disk[f] \in {journal.old[f], journal.new[f]}
      BY <2>2 DEF IInv, StepInv, JournalInv
    <3> QED BY <3>2, <3>3 DEF KeepsText
  <2>3. CASE pc \notin {"write", "restore"}
    BY <2>3 DEF Apply, Rollback, write_hash_backup, save_journal, write_plan,
       write_plan_fails, save_origin_from_old_backups, save_receipt, retire,
       clear_journal, clear_origin, validate_journal_states, restore_old, restore_prior,
       stored
  <2> QED BY <2>1, <2>2, <2>3
<1> QED BY <1>1, ByokInvariant, PTL DEF Spec, UserContentSurvives

=============================================================================
