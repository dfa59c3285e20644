----------------------------- MODULE ByokStore -----------------------------
(***************************************************************************)
(* The BYOK application host at work on one Codex configuration: the two   *)
(* files of the client (config.toml and the model catalog), and under the  *)
(* host's data directory the ownership receipt, the operation journal, the *)
(* "old" backups of the running operation and the origin backup of the     *)
(* first adoption.                                                         *)
(*                                                                         *)
(* configure and remove compute a plan and then write one file at a time:  *)
(* the old backups, the journal, the client's files, the origin, the       *)
(* receipt; the journal is cleared last.  The process may die, or a write  *)
(* fail, at every step.  While no operation runs the user edits the files, *)
(* including between a crash and the recovery.  Each write goes through a  *)
(* rename (write_private_atomic), so a file has its old or its new bytes.  *)
(*                                                                         *)
(* A file is the text the user keeps in it and the block OCG manages.      *)
(* Hashes are compared for equality only, so a hash is the content itself. *)
(***************************************************************************)
EXTENDS Integers

CONSTANTS
    Texts,         \* what a user writes around the managed block
    Blank,         \* the text of a file that holds nothing else
    Blocks,        \* provider blocks OCG generates
    Mine,          \* a managed block edited or written by the user
    Emptied,       \* a catalog whose model rows were all taken back
    NoBlock,
    Absent,        \* the file does not exist
    NoReceipt,
    NoJournal,
    NoPlan,
    MaxEvents      \* bound: user edits, failed writes and crashes

ASSUME ByokAssumption ==
    /\ Blank \in Texts
    /\ Mine \notin Blocks /\ NoBlock \notin Blocks /\ Emptied \notin Blocks
    /\ Mine # NoBlock /\ Emptied # NoBlock
    /\ MaxEvents \in Nat

\* FileRole: the order in which every plan lists its files.
Target == 1
Catalog == 2
Files == 1..2

Owned == Blocks \cup {Mine, Emptied, NoBlock}
Content == [text : Texts, owned : Owned]

ASSUME AbsentAssumption == Absent \notin Content

Receipts == [block : Blocks, created : [Files -> BOOLEAN], adopted : BOOLEAN]

ASSUME NoReceiptAssumption == NoReceipt \notin Receipts

TextIn(c) == IF c = Absent THEN Blank ELSE c.text
OwnedIn(c) == IF c = Absent THEN NoBlock ELSE c.owned

\* The catalog holds nothing but the rows OCG manages.
Disks == {d \in [Files -> Content \cup {Absent}] : TextIn(d[Catalog]) = Blank}
Journals == [prior : Receipts \cup {NoReceipt}, old : Disks, new : Disks]

ASSUME NoJournalAssumption == NoJournal \notin Journals

Plans == [new : Disks, receipt : Receipts \cup {NoReceipt}]

ASSUME NoPlanAssumption == NoPlan \notin Plans

VARIABLES
    disk,       \* the client's files
    receipt,    \* receipt.json
    journal,    \* journal.json
    backup,     \* backup/old-<role>.bin
    origin,     \* origin/<role>.bin
    seen,       \* the inspection the operator acts on (its fingerprint)
    pc,         \* the next step of the running operation
    file,       \* the next file of that step
    plan,       \* ApplyPlan and the receipt to be saved
    before,     \* history: files and receipt when the last write began
    base,       \* history: the files when ownership was last taken
    events

stored == <<receipt, journal, backup, origin>>
history == <<before, base>>
vars == <<disk, stored, seen, pc, file, plan, history, events>>

Steps == {"idle", "backup", "journal", "write", "origin", "receipt", "retire",
          "unjournal", "forget", "validate", "restore", "prior", "clear"}

View == [disk |-> disk, receipt |-> receipt, journal |-> journal]
Views == [disk : Disks, receipt : Receipts \cup {NoReceipt},
          journal : Journals \cup {NoJournal}]

TypeOK ==
    /\ disk \in Disks
    /\ receipt \in Receipts \cup {NoReceipt}
    /\ journal \in Journals \cup {NoJournal}
    /\ backup \in Disks
    /\ origin \in Disks
    /\ seen \in Views
    /\ pc \in Steps
    /\ file \in Files
    /\ plan \in Plans \cup {NoPlan}
    /\ before \in [disk : Disks, receipt : Receipts \cup {NoReceipt}]
    /\ base \in Disks
    /\ events \in 0..MaxEvents

NoFiles == [f \in Files |-> Absent]

\* What a user leaves in a file: config.toml with or without a block of his
\* own, and a catalog only as a whole.
UserContents(f) ==
    {Absent} \cup (IF f = Target THEN [text : Texts, owned : {NoBlock, Mine}]
                                 ELSE [text : {Blank}, owned : {Mine}])

\* The files of a user OCG has not met.
Init ==
    /\ disk \in {d \in Disks : \A f \in Files : d[f] \in UserContents(f)}
    /\ receipt = NoReceipt
    /\ journal = NoJournal
    /\ backup = NoFiles
    /\ origin = NoFiles
    /\ seen = View
    /\ pc = "idle"
    /\ file = Target
    /\ plan = NoPlan
    /\ before = [disk |-> disk, receipt |-> receipt]
    /\ base = disk
    /\ events = 0

-----------------------------------------------------------------------------
(* What the Codex adapter makes of the files. *)

\* ParsedStatus.collision: a managed provider or a catalog nobody owns.
collision ==
    \/ receipt = NoReceipt /\ OwnedIn(disk[Target]) # NoBlock
    \/ /\ disk[Catalog] # Absent
       /\ receipt # NoReceipt => ~ (receipt.created[Catalog] \/ receipt.adopted)

\* ParsedStatus.user_changed_owned: not told of a config.toml that is gone.
user_changed_owned ==
    /\ receipt # NoReceipt
    /\ disk[Target] # Absent
    /\ \E f \in Files : OwnedIn(disk[f]) # receipt.block

\* A catalog outlived its config.toml: neither configured nor removed.
orphan_catalog ==
    receipt # NoReceipt /\ disk[Target] = Absent /\ disk[Catalog] # Absent

\* CodexAdapter.configure keeps the user's text and builds the catalog anew.
configured(b) ==
    [f \in Files |-> [text  |-> IF f = Target THEN TextIn(disk[f]) ELSE Blank,
                      owned |-> b]]

\* The receipt a configure saves; only the first one says what it created.
configure_receipt(b, adopted) ==
    [block   |-> b,
     created |-> IF receipt = NoReceipt
                 THEN [f \in Files |-> disk[f] = Absent]
                 ELSE receipt.created,
     adopted |-> adopted]

\* CodexAdapter.remove: a file OCG created goes, config.toml only when nothing
\* is left of it.  The [model_providers] header that configure writes counts as
\* something, so that `bare`, no header either, takes an edit of the user's.
removed(bare) ==
    [f \in Files |->
        IF f = Target
        THEN IF disk[f] = Absent \/ (bare /\ receipt.created[f] /\ TextIn(disk[f]) = Blank)
             THEN Absent
             ELSE [text |-> TextIn(disk[f]), owned |-> NoBlock]
        ELSE IF receipt.created[f] THEN Absent ELSE disk[f]]

\* undo_takeover: the block of the origin around the text of today.  Rows the
\* origin has not are taken back one by one, which leaves a catalog without
\* rows where there was no catalog.
undone ==
    [f \in Files |->
        IF f = Target
        THEN [text |-> TextIn(disk[f]), owned |-> OwnedIn(origin[f])]
        ELSE IF origin[f] = Absent THEN [text |-> Blank, owned |-> Emptied]
                                   ELSE origin[f]]

-----------------------------------------------------------------------------
(* Beginning an operation.  Every refusal leaves everything as it was. *)

Idle == pc = "idle"

Event == events < MaxEvents /\ events' = events + 1

\* require_fingerprint: files, receipt and journal are those inspected.
require_fingerprint == seen = View

\* An interrupted write has to be recovered first.
pending == journal # NoJournal

inspect ==
    /\ Idle
    /\ seen # View
    /\ seen' = View
    /\ UNCHANGED <<disk, stored, pc, file, plan, history, events>>

Begin(new, next) ==
    /\ Idle
    /\ require_fingerprint
    /\ ~ pending
    /\ plan' = [new |-> new, receipt |-> next]
    /\ pc' = "backup"
    /\ file' = Target
    /\ before' = [disk |-> disk, receipt |-> receipt]
    /\ base' = IF receipt = NoReceipt THEN disk ELSE base
    /\ UNCHANGED <<disk, stored, seen, events>>

configure(b) ==
    /\ ~ collision
    /\ ~ user_changed_owned
    /\ ~ orphan_catalog
    /\ Begin(configured(b),
             configure_receipt(b, receipt # NoReceipt /\ receipt.adopted))

\* The operator has reviewed and acknowledged a takeover or an overwrite.
configure_reviewed(b) ==
    /\ collision \/ user_changed_owned
    /\ collision => OwnedIn(disk[Target]) # NoBlock
    /\ ~ orphan_catalog
    /\ Begin(configured(b),
             configure_receipt(b, collision \/ (receipt # NoReceipt /\ receipt.adopted)))

remove ==
    /\ receipt # NoReceipt
    /\ ~ user_changed_owned
    /\ IF receipt.adopted
       THEN disk[Target] # Absent /\ Begin(undone, NoReceipt)
       ELSE ~ orphan_catalog /\ \E bare \in BOOLEAN : Begin(removed(bare), NoReceipt)

recover ==
    /\ Idle
    /\ require_fingerprint
    /\ pending
    /\ pc' = "validate"
    /\ UNCHANGED <<disk, stored, seen, file, plan, history, events>>

-----------------------------------------------------------------------------
(* Store.apply_reviewed, one write at a time. *)

\* The next file of this step, or the first of the next one.
NextFile(step) ==
    IF file = Target THEN file' = Catalog /\ pc' = pc
                     ELSE file' = Target /\ pc' = step

Done == pc' = "idle" /\ plan' = NoPlan

write_hash_backup ==
    /\ pc = "backup"
    /\ backup' = [backup EXCEPT ![file] = disk[file]]
    /\ NextFile("journal")
    /\ UNCHANGED <<disk, receipt, journal, origin, seen, plan, history, events>>

\* The hashes are of the bytes the backups were made from.
save_journal ==
    /\ pc = "journal"
    /\ journal' = [prior |-> receipt, old |-> backup, new |-> plan.new]
    /\ pc' = "write"
    /\ UNCHANGED <<disk, receipt, backup, origin, seen, file, plan, history, events>>

\* Mutant: every configure saves the origin.
AfterWrites_mutant ==
    IF plan.receipt = NoReceipt THEN "retire" ELSE "origin"

\* A configure saves the origin of a first adoption; a remove retires.
AfterWrites ==
    IF plan.receipt = NoReceipt THEN "retire"
    ELSE IF receipt = NoReceipt THEN "origin" ELSE "receipt"

write_plan ==
    /\ pc = "write"
    /\ disk' = [disk EXCEPT ![file] = plan.new[file]]
    /\ NextFile(AfterWrites)
    /\ UNCHANGED <<stored, seen, plan, history, events>>

\* Mutant: a failed write returns its error and drops the journal.
write_plan_fails_mutant ==
    /\ pc = "write"
    /\ Event
    /\ Done
    /\ file' = Target
    /\ journal' = NoJournal
    /\ UNCHANGED <<disk, receipt, backup, origin, seen, history>>

\* A failed write rolls back, whether or not the file was replaced.
write_plan_fails ==
    /\ pc = "write"
    /\ Event
    /\ disk' \in {disk, [disk EXCEPT ![file] = plan.new[file]]}
    /\ pc' = "validate"
    /\ file' = Target
    /\ plan' = NoPlan
    /\ UNCHANGED <<stored, seen, history>>

save_origin_from_old_backups ==
    /\ pc = "origin"
    /\ origin' = [origin EXCEPT ![file] = backup[file]]
    /\ NextFile("receipt")
    /\ UNCHANGED <<disk, receipt, journal, backup, seen, plan, history, events>>

save_receipt ==
    /\ pc = "receipt"
    /\ receipt' = plan.receipt
    /\ pc' = "clear"
    /\ UNCHANGED <<disk, journal, backup, origin, seen, file, plan, history, events>>

\* retire: the receipt, then the journal, then the origin.
retire ==
    /\ pc = "retire"
    /\ receipt' = NoReceipt
    /\ pc' = "unjournal"
    /\ UNCHANGED <<disk, journal, backup, origin, seen, file, plan, history, events>>

clear_journal ==
    /\ pc \in {"clear", "unjournal"}
    /\ journal' = NoJournal
    /\ IF pc = "clear" THEN Done ELSE pc' = "forget" /\ plan' = plan
    /\ UNCHANGED <<disk, receipt, backup, origin, seen, file, history, events>>

clear_origin ==
    /\ pc = "forget"
    /\ origin' = [origin EXCEPT ![file] = Absent]
    /\ IF file = Target
       THEN file' = Catalog /\ UNCHANGED <<pc, plan>>
       ELSE file' = Target /\ Done
    /\ UNCHANGED <<disk, receipt, journal, backup, seen, history, events>>

-----------------------------------------------------------------------------
(* Store.rollback_from_journal, after a failed write or in a recovery. *)

\* Mutant: only the backups are compared with the journal.
backups_only_mutant ==
    \A f \in Files : backup[f] = journal.old[f]

\* Every file is as the interrupted write found or left it, with its backup.
journal_states_valid ==
    \A f \in Files :
        /\ disk[f] \in {journal.old[f], journal.new[f]}
        /\ backup[f] = journal.old[f]

\* A refusal keeps the journal.
validate_journal_states ==
    /\ pc = "validate"
    /\ IF journal_states_valid THEN pc' = "restore" /\ plan' = plan ELSE Done
    /\ UNCHANGED <<disk, stored, seen, file, history, events>>

restore_old ==
    /\ pc = "restore"
    /\ disk' = IF disk[file] = journal.old[file] THEN disk
               ELSE [disk EXCEPT ![file] = backup[file]]
    /\ NextFile("prior")
    /\ UNCHANGED <<stored, seen, plan, history, events>>

\* Mutant: a rollback restores the files and leaves the receipt alone.
restore_prior_mutant ==
    /\ pc = "prior"
    /\ pc' = "clear"
    /\ UNCHANGED <<disk, stored, seen, file, plan, history, events>>

restore_prior ==
    /\ pc = "prior"
    /\ receipt' = journal.prior
    /\ pc' = "clear"
    /\ UNCHANGED <<disk, journal, backup, origin, seen, file, plan, history, events>>

-----------------------------------------------------------------------------
(* The environment. *)

\* The process dies, or a write outside write_plan fails and its error is
\* returned: the operation stops where it is.
Interrupt ==
    /\ ~ Idle
    /\ Event
    /\ Done
    /\ file' = Target
    /\ UNCHANGED <<disk, stored, seen, history>>

\* The client is closed while an operation runs (require_closed), so the
\* user writes between operations: text, his own block, or no file at all.
\* The block OCG wrote stays unless he replaces it.
UserEdit(f) ==
    /\ Idle
    /\ Event
    /\ \E c \in UserContents(f) \cup
                (IF f = Target /\ disk[f] # Absent
                 THEN [text : Texts, owned : {disk[f].owned}] ELSE {}) :
         /\ c # disk[f]
         /\ disk' = [disk EXCEPT ![f] = c]
    /\ UNCHANGED <<stored, seen, pc, file, plan, history>>

Apply ==
    \/ write_hash_backup
    \/ save_journal
    \/ write_plan
    \/ write_plan_fails
    \/ save_origin_from_old_backups
    \/ save_receipt
    \/ retire
    \/ clear_journal
    \/ clear_origin

Rollback ==
    \/ validate_journal_states
    \/ restore_old
    \/ restore_prior

Next ==
    \/ inspect
    \/ \E b \in Blocks : configure(b)
    \/ \E b \in Blocks : configure_reviewed(b)
    \/ remove
    \/ recover
    \/ Apply
    \/ Rollback
    \/ Interrupt
    \/ \E f \in Files : UserEdit(f)

Spec == Init /\ [][Next]_vars

-----------------------------------------------------------------------------
(* Properties. *)

\* Whatever OCG writes, takes back or rolls back, after any number of crashes,
\* failed writes and edits in between, the text the user keeps in a file
\* survives, and what is replaced is what the operator was shown or what the
\* interrupted write itself had left: a plan is made from the files it
\* replaces, and a recovery refuses files that changed since.
UserContentSurvives ==
    [][Apply \/ Rollback =>
         \A f \in Files : disk'[f] # disk[f] =>
             /\ TextIn(disk'[f]) = TextIn(disk[f])
             /\ disk[f] \in {seen.disk[f], journal.new[f]}]_vars

\* A rollback that ends, in the failed operation or in any later recovery,
\* leaves both files and the receipt exactly as that operation found them.
RollbackRestoresAll ==
    [][pc = "clear" /\ plan = NoPlan /\ journal' = NoJournal =>
         disk' = before.disk /\ receipt' = before.receipt]_vars

\* Receipt r records every block OCG wrote in d.
Owns(d, r) ==
    \A f \in Files : OwnedIn(d[f]) \in Blocks =>
        r # NoReceipt /\ r.block = OwnedIn(d[f])

\* With no journal to recover from, a block OCG wrote is owned: the receipt
\* exists and records exactly that block.
BlocksAreOwned ==
    journal = NoJournal => Owns(disk, receipt)

\* While OCG owns the files, the origin backup is what they held before the
\* first adoption: undo_takeover and the operator rely on it.
OriginIsTheBaseline ==
    receipt # NoReceipt /\ journal = NoJournal => origin = base

=============================================================================
