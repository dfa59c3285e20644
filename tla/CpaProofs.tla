------------------------------ MODULE CpaProofs ------------------------------
(***************************************************************************)
(* What holds of the managed CPA child for every set of versions, keys and *)
(* policies and any number of failures.                                    *)
(***************************************************************************)
EXTENDS CpaRuntime, TLAPS

(* While the host shuts down a step starts no child.                          *)
StaysDown ==
  /\ shutting' = shutting
  /\ shutting /\ proc = None => proc' = None

LEMMA InstallStaysDown ==
  ASSUME (\E v \in Versions : resolve(v)) \/ configure \/ replace \/ launch
       \/ probe \/ commit \/ commit_rows \/ commit_managed \/ undo \/ undo_probe
  PROVE  StaysDown
<1>1. CASE \E v \in Versions : resolve(v)
  BY <1>1 DEF resolve, StaysDown, env, Finish, history
<1>2. CASE configure
  BY <1>2 DEF configure, StaysDown, env, Finish, history
<1>3. CASE replace
  BY <1>3 DEF replace, StaysDown, env, Finish, history
<1>4. CASE launch
  BY <1>4 DEF launch, StaysDown, env, MaySpawn, history
<1>5. CASE probe
  BY <1>5 DEF probe, StaysDown, env, Finish, history
<1>6. CASE commit
  BY <1>6 DEF commit, StaysDown, env, history
<1>7. CASE commit_rows
  BY <1>7 DEF commit_rows, StaysDown, env, history
<1>8. CASE commit_managed
  BY <1>8 DEF commit_managed, StaysDown, env, Finish, history
<1>9. CASE undo
  BY <1>9 DEF undo, StaysDown, env, Finish, MaySpawn, history
<1>10. CASE undo_probe
  BY <1>10 DEF undo_probe, StaysDown, env, Finish
<1> QED BY <1>1, <1>2, <1>3, <1>4, <1>5, <1>6, <1>7, <1>8, <1>9, <1>10

LEMMA RollbackStaysDown ==
  ASSUME rb_stop \/ rb_config \/ rb_launch \/ rb_probe \/ rb_swap \/ rb_rows
       \/ rb_managed \/ rb_undo \/ rb_undo_probe
  PROVE  StaysDown
<1>1. CASE rb_stop
  BY <1>1 DEF rb_stop, StaysDown, env, FinishUnobserved, history
<1>2. CASE rb_config
  BY <1>2 DEF rb_config, StaysDown, env, Finish, history
<1>3. CASE rb_launch
  BY <1>3 DEF rb_launch, StaysDown, env, MaySpawn, history
<1>4. CASE rb_probe
  BY <1>4 DEF rb_probe, StaysDown, env, history
<1>5. CASE rb_swap
  BY <1>5 DEF rb_swap, StaysDown, env, history
<1>6. CASE rb_rows
  BY <1>6 DEF rb_rows, StaysDown, env, history
<1>7. CASE rb_managed
  BY <1>7 DEF rb_managed, StaysDown, env, Finish, history
<1>8. CASE rb_undo
  BY <1>8 DEF rb_undo, StaysDown, env, Finish, MaySpawn, history
<1>9. CASE rb_undo_probe
  BY <1>9 DEF rb_undo_probe, StaysDown, env, Finish
<1> QED BY <1>1, <1>2, <1>3, <1>4, <1>5, <1>6, <1>7, <1>8, <1>9

LEMMA RemoveStaysDown ==
  ASSUME rm_stop \/ rm_refused \/ rm_config \/ rm_previous \/ rm_versions
       \/ rm_rows \/ rm_managed
  PROVE  StaysDown
<1>1. CASE rm_stop
  BY <1>1 DEF rm_stop, StaysDown, env, FinishUnobserved, history
<1>2. CASE rm_refused
  BY <1>2 DEF rm_refused, StaysDown, env, Finish
<1>3. CASE rm_config
  BY <1>3 DEF rm_config, StaysDown, env, Finish, RemoveStep, history
<1>4. CASE rm_previous
  BY <1>4 DEF rm_previous, StaysDown, env, Finish, RemoveStep, history
<1>5. CASE rm_versions
  BY <1>5 DEF rm_versions, StaysDown, env, Finish, RemoveStep, history
<1>6. CASE rm_rows
  BY <1>6 DEF rm_rows, StaysDown, env, Finish, history
<1>7. CASE rm_managed
  BY <1>7 DEF rm_managed, StaysDown, env, Finish
<1> QED BY <1>1, <1>2, <1>3, <1>4, <1>5, <1>6, <1>7

LEMMA RunStaysDown ==
  ASSUME own_launch \/ own_probe \/ start_commit \/ sync_config \/ sync_previous
       \/ sync_restart
  PROVE  StaysDown
<1>1. CASE own_launch
  BY <1>1 DEF own_launch, StaysDown, env, Finish, MaySpawn, history
<1>2. CASE own_probe
  BY <1>2 DEF own_probe, StaysDown, env, Finish, history
<1>3. CASE start_commit
  BY <1>3 DEF start_commit, StaysDown, env, Finish
<1>4. CASE sync_config
  BY <1>4 DEF sync_config, StaysDown, env, Finish, SyncEnds, history
<1>5. CASE sync_previous
  BY <1>5 DEF sync_previous, StaysDown, env, Finish, SyncEnds, history
<1>6. CASE sync_restart
  BY <1>6 DEF sync_restart, StaysDown, env, Finish, SyncEnds, history
<1> QED BY <1>1, <1>2, <1>3, <1>4, <1>5, <1>6

LEMMA KeyStaysDown ==
  ASSUME key_upstream \/ key_check \/ key_config \/ key_previous \/ key_row
       \/ key_undo
  PROVE  StaysDown
<1>1. CASE key_upstream
  BY <1>1 DEF key_upstream, StaysDown, env, ChildKey, Finish, FinishUnobserved, history
<1>2. CASE key_check
  BY <1>2 DEF key_check, StaysDown, env, OldChild, ChildKey, Finish, history
<1>3. CASE key_config
  BY <1>3 DEF key_config, StaysDown, env, history
<1>4. CASE key_previous
  BY <1>4 DEF key_previous, StaysDown, env, history
<1>5. CASE key_row
  BY <1>5 DEF key_row, StaysDown, env, Finish, history
<1>6. CASE key_undo
  BY <1>6 DEF key_undo, StaysDown, env, OldChild, ChildKey, Finish
<1> QED BY <1>1, <1>2, <1>3, <1>4, <1>5, <1>6

LEMMA BeginStaysDown ==
  ASSUME install_begin \/ update_begin \/ rollback_begin \/ remove_begin
       \/ start_begin \/ stop \/ restore_begin \/ sync_begin \/ rotate_begin
  PROVE  StaysDown
<1>1. CASE install_begin
  BY <1>1 DEF install_begin, StaysDown, env, history
<1>2. CASE update_begin
  BY <1>2 DEF update_begin, StaysDown, env, history
<1>3. CASE rollback_begin
  BY <1>3 DEF rollback_begin, StaysDown, env, history
<1>4. CASE remove_begin
  BY <1>4 DEF remove_begin, StaysDown, env, history
<1>5. CASE start_begin
  BY <1>5 DEF start_begin, StaysDown, env, history
<1>6. CASE stop
  BY <1>6 DEF stop, StaysDown, env
<1>7. CASE restore_begin
  BY <1>7 DEF restore_begin, StaysDown, env, history
<1>8. CASE sync_begin
  BY <1>8 DEF sync_begin, StaysDown, env, history
<1>9. CASE rotate_begin
  BY <1>9 DEF rotate_begin, StaysDown, env, history
<1> QED BY <1>1, <1>2, <1>3, <1>4, <1>5, <1>6, <1>7, <1>8, <1>9

LEMMA AroundStaysDown ==
  ASSUME put_settings \/ die \/ cancel \/ cancel_sync
  PROVE  StaysDown
<1>1. CASE put_settings
  BY <1>1 DEF put_settings, StaysDown, env, history
<1>2. CASE die
  BY <1>2 DEF die, StaysDown, env
<1>3. CASE cancel
  BY <1>3 DEF cancel, StaysDown, env
<1>4. CASE cancel_sync
  BY <1>4 DEF cancel_sync, StaysDown, env
<1> QED BY <1>1, <1>2, <1>3, <1>4

LEMMA DownStep == NoChildAfterShutdown /\ [Next]_vars => NoChildAfterShutdown'
<1> SUFFICES ASSUME NoChildAfterShutdown, [Next]_vars PROVE NoChildAfterShutdown'
  OBVIOUS
<1>1. CASE StaysDown
  BY <1>1 DEF StaysDown, NoChildAfterShutdown
<1>2. CASE Step
  BY <1>1, <1>2, InstallStaysDown, RollbackStaysDown, RemoveStaysDown, RunStaysDown,
     KeyStaysDown DEF Step
<1>3. CASE Begin
  BY <1>1, <1>3, BeginStaysDown DEF Begin
<1>4. CASE put_settings \/ die \/ cancel \/ cancel_sync
  BY <1>1, <1>4, AroundStaysDown
<1>5. CASE shutdown
  BY <1>5 DEF shutdown, NoChildAfterShutdown
<1>6. CASE crash
  BY <1>6 DEF crash, NoChildAfterShutdown
<1>7. CASE UNCHANGED vars
  BY <1>7 DEF vars, NoChildAfterShutdown
<1> QED BY <1>2, <1>3, <1>4, <1>5, <1>6, <1>7 DEF Next

(* "The child stops when OCG exits": no operation under way at shutdown, no   *)
(* compensation of one, no proxy sync and no start-up restore starts a child  *)
(* after stop_owned_cpa_runtime has stopped it, whatever fails in between.    *)
THEOREM ShutdownIsFinal == Spec => []NoChildAfterShutdown
<1>1. Init => NoChildAfterShutdown
  BY DEF Init, NoChildAfterShutdown
<1> QED BY <1>1, DownStep, PTL DEF Spec

-----------------------------------------------------------------------------
(* The inductive invariant.  Every stage of an operation fixes, file by file, *)
(* what is on disk in terms of what the operation found there (`before`), and *)
(* which child can be running; so what a failure, a cancellation or a crash   *)
(* leaves can be compared with what was there.                                *)

Snapshot == [disk : Disk, proc : Child \cup {None}]

Kinds == {"none", "install", "update", "rollback", "remove", "start", "restore",
          "sync", "rotate"}

InstallPcs == {"download", "configure", "replace", "launch", "probe", "commit",
               "commit_rows", "commit_managed", "undo", "undo_probe"}
RollbackPcs == {"rb_stop", "rb_config", "rb_launch", "rb_probe", "rb_swap", "rb_rows",
                "rb_managed", "rb_undo", "rb_undo_probe"}
RemovePcs == {"rm_stop", "rm_config", "rm_previous", "rm_versions", "rm_rows", "rm_managed"}
StartPcs == {"own_launch", "own_probe", "start_commit"}
SyncPcs == {"sync_config", "sync_previous", "sync_restart", "own_launch", "own_probe"}
RotatePcs == {"key_upstream", "key_check", "key_config", "key_previous", "key_row", "key_undo"}
Pcs == {"none"} \cup InstallPcs \cup RollbackPcs \cup RemovePcs \cup StartPcs
         \cup SyncPcs \cup RotatePcs

Ops == [kind : Kinds, pc : Pcs, cas : BOOLEAN, was : BOOLEAN, verify : BOOLEAN,
        target : Versions \cup {None}, key : Keys \cup {None}, partial : BOOLEAN,
        before : Snapshot \cup {None}]

(* The installed versions of d are complete.                                  *)
Complete(d) ==
  /\ d.managed.current \in d.dirs
  /\ d.cfg # None
  /\ d.managed.previous # None => d.managed.previous \in d.dirs /\ d.prev # None

(* Every config of d carries the key of the row.                              *)
Keyed(d) ==
  /\ d.cfg # None => d.cfg.key = d.db.key
  /\ d.prev # None => d.prev.key = d.db.key

(* What an operation finds when it begins, and leaves when it ends: disk d    *)
(* and child p, after the events m.                                           *)
Rest(d, p, m) ==
  /\ d.managed = None => d.prev = None
  /\ d.managed = None /\ "install" \notin m => d.cfg = None /\ d.dirs = {}
  /\ d.managed # None /\ "remove" \notin m /\ "partial" \notin m => Complete(d)
  /\ p # None /\ m \cap {"partial", "failed", "cancelled"} = {} =>
       d.managed # None /\ d.managed.desired /\ p.version = d.managed.current
  /\ d.db # None /\ m \cap {"partial", "rotate"} = {} =>
       /\ Keyed(d)
       /\ p # None /\ m \cap {"cancelled", "lost"} = {} => p.config.key = d.db.key

(* The child is the one found, or gone for a reason the report allows.        *)
Kept(o, p, m, down) ==
  \/ p = o.before.proc
  \/ p = None /\ (down \/ "died" \in m)

(* The operation stopped the child it found, if there still was one.          *)
Stopped(o, m, down) ==
  IF o.was THEN o.before.proc # None
  ELSE o.before.proc = None \/ down \/ "died" \in m

(* Only a child of this version may run.                                      *)
Only(version, d, p) == p = None \/ p = Spawned(version, d)

(* install_or_update_cpa_runtime_inner.                                       *)
InstallFiles(o, d) ==
  LET b == o.before.disk
  IN  /\ o.key \in Keys
      /\ o.kind = "install" =>
           /\ b.managed = None /\ b.cfg = None /\ o.before.proc = None
           /\ b.db # None => b.db.key = o.key
      /\ o.kind = "update" =>
           /\ b.managed # None /\ b.cfg # None /\ b.db # None
           /\ b.cfg.key = o.key /\ b.db.key = o.key
      /\ d.managed = b.managed
      /\ IF o.pc = "download" THEN d.dirs = b.dirs /\ o.target = None
         ELSE /\ o.target \in Versions /\ o.target \notin b.dirs
              /\ d.dirs = b.dirs \cup {o.target}
      /\ IF o.pc \in {"download", "configure", "undo_probe"} THEN d.cfg = b.cfg
         ELSE d.cfg # None /\ d.cfg.key = o.key
      /\ IF o.partial
         THEN d.prev \in {b.prev, b.cfg} /\ (d.db # None => d.db.key = o.key)
         ELSE /\ d.prev = IF o.pc \in {"commit_rows", "commit_managed"} THEN b.cfg ELSE b.prev
              /\ d.db = IF o.pc = "commit_managed" THEN [catalog |-> o.target, key |-> o.key]
                        ELSE b.db
      /\ o.partial => o.pc \in {"undo", "undo_probe"}

InstallChild(o, d, p, m, down) ==
  /\ o.pc \in {"download", "configure", "replace"} => Kept(o, p, m, down)
  /\ o.pc \notin {"download", "configure", "replace"} => Stopped(o, m, down)
  /\ o.pc = "launch" => p = None
  /\ o.pc \in {"probe", "commit", "commit_rows", "commit_managed"} => Only(o.target, d, p)
  /\ o.pc \in {"commit", "commit_rows", "commit_managed"} /\ o.kind = "update" /\ ~o.was =>
       p = None
  /\ o.pc = "undo_probe" =>
       o.was /\ o.kind = "update" /\ Only(o.before.disk.managed.current, d, p)

(* rollback_cpa_runtime_inner.                                                *)
RollbackFiles(o, d) ==
  LET b == o.before.disk
  IN  /\ b.managed # None /\ b.cfg # None /\ b.prev # None /\ b.db # None
      /\ b.cfg.key = o.key /\ b.prev.key = o.key /\ b.db.key = o.key
      /\ o.target = b.managed.previous /\ o.target # None /\ o.target \in b.dirs
      /\ d.managed = b.managed /\ d.dirs = b.dirs
      /\ IF o.pc \in {"rb_stop", "rb_config", "rb_undo_probe"} THEN d.cfg = b.cfg
         ELSE IF o.pc = "rb_undo" THEN d.cfg \in {b.cfg, b.prev} ELSE d.cfg = b.prev
      /\ IF o.partial
         THEN d.prev \in {b.prev, b.cfg} /\ (d.db # None => d.db.key = o.key)
         ELSE /\ d.prev = IF o.pc \in {"rb_rows", "rb_managed"} THEN b.cfg ELSE b.prev
              /\ d.db = IF o.pc = "rb_managed" THEN [catalog |-> o.target, key |-> o.key]
                        ELSE b.db
      /\ o.partial => o.pc \in {"rb_undo", "rb_undo_probe"}

RollbackChild(o, d, p, m, down) ==
  /\ o.pc = "rb_stop" => Kept(o, p, m, down)
  /\ o.pc # "rb_stop" => Stopped(o, m, down)
  /\ o.pc \in {"rb_config", "rb_launch"} => p = None
  /\ o.pc \in {"rb_probe", "rb_swap", "rb_rows", "rb_managed"} => Only(o.target, d, p)
  /\ o.pc \in {"rb_swap", "rb_rows", "rb_managed"} /\ ~o.was => p = None
  /\ o.pc = "rb_undo_probe" => o.was /\ Only(o.before.disk.managed.current, d, p)

(* remove_cpa_runtime: the artifacts go one by one, managed.json stays.       *)
RemoveFiles(o, d) ==
  LET b == o.before.disk
  IN  /\ b.managed # None
      /\ d.managed = b.managed
      /\ d.cfg = IF o.pc \in {"rm_stop", "rm_config"} THEN b.cfg ELSE None
      /\ d.prev = IF o.pc \in {"rm_stop", "rm_config", "rm_previous"} THEN b.prev ELSE None
      /\ d.dirs = IF o.pc \in {"rm_rows", "rm_managed"} THEN {} ELSE b.dirs
      /\ d.db = IF o.pc = "rm_managed" THEN None ELSE b.db

RemoveChild(o, d, p, m, down) ==
  IF o.pc = "rm_stop" THEN Kept(o, p, m, down) ELSE p = None /\ Stopped(o, m, down)

(* start_cpa_runtime writes nothing before its last step.                     *)
StartFiles(o, d) == d = o.before.disk /\ d.managed # None

StartChild(o, d, p, m, down) ==
  /\ o.pc \in {"own_launch", "own_probe"} => o.before.proc = None
  /\ o.pc = "own_launch" => p = None
  /\ o.pc = "own_probe" => d.db # None
  /\ o.before.proc # None => Kept(o, p, m, down)
  /\ o.before.proc = None => (p # None => d.db # None) /\ Only(d.managed.current, d, p)

(* sync_cpa_proxy_settings_locked, alone or in the start-up restore.          *)
SyncFiles(o, d) ==
  LET b == o.before.disk
  IN  /\ b.managed # None
      /\ d.managed = b.managed /\ d.dirs = b.dirs /\ d.db = b.db
      /\ o.pc = "sync_config" => d = b
      /\ o.pc = "sync_previous" => d.db # None /\ d.cfg # None /\ d.cfg.key = d.db.key
      /\ o.kind = "restore" => b.managed.desired
      /\ \/ d.cfg = b.cfg
         \/ d.db # None /\ d.cfg # None /\ b.cfg # None /\ d.cfg.key = d.db.key
      /\ \/ d.prev = b.prev
         \/ d.db # None /\ d.prev # None /\ b.prev # None /\ d.prev.key = d.db.key

SyncChild(o, d, p, m, down) ==
  /\ o.pc \in {"sync_config", "sync_previous", "sync_restart"} => Kept(o, p, m, down)
  /\ o.pc = "own_launch" => p = None
  /\ o.pc = "own_probe" => d.db # None /\ Only(d.managed.current, d, p)
  /\ o.pc \in {"own_launch", "own_probe"} /\ o.kind = "sync" => o.before.proc # None

(* commit_client_keys.                                                        *)
RotateFiles(o, d) ==
  LET b == o.before.disk
  IN  /\ o.key \in Keys
      /\ b.managed # None /\ b.cfg # None /\ b.db # None /\ b.cfg.key = b.db.key
      /\ d.managed = b.managed /\ d.dirs = b.dirs /\ d.db = b.db
      /\ o.pc \in {"key_upstream", "key_check", "key_config"} => d = b
      /\ d.cfg # None
      /\ o.pc \in {"key_previous", "key_row"} => d.cfg.key = o.key
      /\ o.pc = "key_previous" => d.prev = b.prev
      /\ d.prev = None <=> b.prev = None
      /\ o.pc = "key_row" /\ d.prev # None => d.prev.key = o.key

RotateChild(o, d, p, m, down) ==
  /\ o.was <=> o.before.proc # None
  /\ IF o.pc = "key_upstream" THEN o.was /\ Kept(o, p, m, down)
     ELSE p # None => o.was /\ p = [o.before.proc EXCEPT !.config.key = o.key]

(* The stages of the operation o.                                             *)
Stage(o, d, p, m, down) ==
  \/ /\ o.kind \in {"install", "update"} /\ o.pc \in InstallPcs
     /\ InstallFiles(o, d) /\ InstallChild(o, d, p, m, down)
  \/ /\ o.kind = "rollback" /\ o.pc \in RollbackPcs
     /\ RollbackFiles(o, d) /\ RollbackChild(o, d, p, m, down)
  \/ /\ o.kind = "remove" /\ o.pc \in RemovePcs
     /\ RemoveFiles(o, d) /\ RemoveChild(o, d, p, m, down)
  \/ /\ o.kind = "start" /\ o.pc \in StartPcs
     /\ StartFiles(o, d) /\ StartChild(o, d, p, m, down)
  \/ /\ o.kind \in {"restore", "sync"} /\ o.pc \in SyncPcs
     /\ SyncFiles(o, d) /\ SyncChild(o, d, p, m, down)
  \/ /\ o.kind = "rotate" /\ o.pc \in RotatePcs
     /\ RotateFiles(o, d) /\ RotateChild(o, d, p, m, down)

TypeInv ==
  /\ disk \in Disk
  /\ proc \in Child \cup {None}
  /\ proxy \in Proxies
  /\ op \in Ops
  /\ op = NoOp \/ op.before \in Snapshot

CpaInv ==
  /\ TypeInv
  /\ IF op = NoOp THEN Rest(disk, proc, marks)
     ELSE /\ Rest(op.before.disk, op.before.proc, marks)
          /\ Stage(op, disk, proc, marks, shutting)
  /\ FailureLeavesNoTrace

-----------------------------------------------------------------------------
(* Facts about the records.                                                   *)

(* Two disks with the same files and rows are the same.                       *)
LEMMA SameDisk ==
  \A x, y \in Disk :
    /\ x.managed = y.managed /\ x.cfg = y.cfg /\ x.prev = y.prev
    /\ x.dirs = y.dirs /\ x.db = y.db
    => x = y
BY DEF Disk

LEMMA DiskFields ==
  \A d \in Disk :
    /\ d.managed \in Managed \cup {None}
    /\ d.cfg \in Config \cup {None} /\ d.prev \in Config \cup {None}
    /\ d.dirs \in SUBSET Versions
    /\ d.db \in Row \cup {None}
BY DEF Disk

(* Writing one file or row.                                                   *)
LEMMA DiskWrites ==
  \A d \in Disk :
    /\ \A x \in Managed \cup {None} :
         /\ [d EXCEPT !.managed = x] \in Disk
         /\ [d EXCEPT !.managed = x].managed = x
         /\ [d EXCEPT !.managed = x].cfg = d.cfg
         /\ [d EXCEPT !.managed = x].prev = d.prev
         /\ [d EXCEPT !.managed = x].dirs = d.dirs
         /\ [d EXCEPT !.managed = x].db = d.db
    /\ \A x \in Config \cup {None} :
         /\ [d EXCEPT !.cfg = x] \in Disk
         /\ [d EXCEPT !.cfg = x].managed = d.managed
         /\ [d EXCEPT !.cfg = x].cfg = x
         /\ [d EXCEPT !.cfg = x].prev = d.prev
         /\ [d EXCEPT !.cfg = x].dirs = d.dirs
         /\ [d EXCEPT !.cfg = x].db = d.db
    /\ \A x \in Config \cup {None} :
         /\ [d EXCEPT !.prev = x] \in Disk
         /\ [d EXCEPT !.prev = x].managed = d.managed
         /\ [d EXCEPT !.prev = x].cfg = d.cfg
         /\ [d EXCEPT !.prev = x].prev = x
         /\ [d EXCEPT !.prev = x].dirs = d.dirs
         /\ [d EXCEPT !.prev = x].db = d.db
    /\ \A x \in SUBSET Versions :
         /\ [d EXCEPT !.dirs = x] \in Disk
         /\ [d EXCEPT !.dirs = x].managed = d.managed
         /\ [d EXCEPT !.dirs = x].cfg = d.cfg
         /\ [d EXCEPT !.dirs = x].prev = d.prev
         /\ [d EXCEPT !.dirs = x].dirs = x
         /\ [d EXCEPT !.dirs = x].db = d.db
    /\ \A x \in Row \cup {None} :
         /\ [d EXCEPT !.db = x] \in Disk
         /\ [d EXCEPT !.db = x].managed = d.managed
         /\ [d EXCEPT !.db = x].cfg = d.cfg
         /\ [d EXCEPT !.db = x].prev = d.prev
         /\ [d EXCEPT !.db = x].dirs = d.dirs
         /\ [d EXCEPT !.db = x].db = x
BY DEF Disk

LEMMA Snapshots ==
  \A d \in Disk, p \in Child \cup {None} :
    /\ [disk |-> d, proc |-> p] \in Snapshot
    /\ [disk |-> d, proc |-> p].disk = d
    /\ [disk |-> d, proc |-> p].proc = p
BY DEF Snapshot

LEMMA SnapshotFields ==
  \A s \in Snapshot : s.disk \in Disk /\ s.proc \in Child \cup {None}
BY DEF Snapshot

LEMMA NoOpFields ==
  /\ NoOp \in Ops
  /\ NoOp.kind = "none" /\ NoOp.pc = "none"
BY DEF NoOp, Ops, Kinds, Pcs

LEMMA OpFields ==
  \A o \in Ops :
    /\ o.kind \in Kinds /\ o.pc \in Pcs /\ o.cas \in BOOLEAN /\ o.was \in BOOLEAN
    /\ o.verify \in BOOLEAN /\ o.partial \in BOOLEAN
    /\ o.target \in Versions \cup {None} /\ o.key \in Keys \cup {None}
    /\ o.before \in Snapshot \cup {None}
BY DEF Ops

(* Children, configs and rows are values, never None.                         *)
LEMMA Values ==
  /\ \A x \in Proxies, k \in Keys : [proxy |-> x, key |-> k] \in Config
  /\ \A c \in Config : c # None /\ c.key \in Keys /\ c.proxy \in Proxies
  /\ \A v \in Versions, k \in Keys : [catalog |-> v, key |-> k] \in Row
  /\ \A r \in Row : r # None /\ r.key \in Keys /\ r.catalog \in Versions
  /\ \A x \in Managed : /\ x # None /\ x.current \in Versions /\ x.desired \in BOOLEAN
                        /\ x.previous \in Versions \cup {None}
  /\ \A x \in Versions, y \in Versions \cup {None}, b \in BOOLEAN :
       [current |-> x, previous |-> y, desired |-> b] \in Managed
  /\ \A v \in Versions, c \in Config : [version |-> v, config |-> c] \in Child
  /\ \A p \in Child : p # None /\ p.version \in Versions /\ p.config \in Config
  /\ \A p \in Child, k \in Keys :
       /\ [p EXCEPT !.config.key = k] \in Child
       /\ [p EXCEPT !.config.key = k].version = p.version
       /\ [p EXCEPT !.config.key = k].config.key = k
       /\ [p EXCEPT !.config.key = k].config.proxy = p.config.proxy
<1>1. None \notin Config /\ None \notin Row /\ None \notin Managed /\ None \notin Child
  BY CpaAssumption
<1>2. /\ \A x \in Proxies, k \in Keys : [proxy |-> x, key |-> k] \in Config
      /\ \A c \in Config : c # None /\ c.key \in Keys /\ c.proxy \in Proxies
  BY <1>1 DEF Config
<1>3. /\ \A v \in Versions, k \in Keys : [catalog |-> v, key |-> k] \in Row
      /\ \A r \in Row : r # None /\ r.key \in Keys /\ r.catalog \in Versions
  BY <1>1 DEF Row
<1>4. /\ \A x \in Managed : /\ x # None /\ x.current \in Versions /\ x.desired \in BOOLEAN
                            /\ x.previous \in Versions \cup {None}
      /\ \A x \in Versions, y \in Versions \cup {None}, b \in BOOLEAN :
           [current |-> x, previous |-> y, desired |-> b] \in Managed
  BY <1>1 DEF Managed
<1>5. /\ \A v \in Versions, c \in Config : [version |-> v, config |-> c] \in Child
      /\ \A p \in Child : p # None /\ p.version \in Versions /\ p.config \in Config
  BY <1>1 DEF Child
<1>6. \A p \in Child, k \in Keys :
       /\ [p EXCEPT !.config.key = k] \in Child
       /\ [p EXCEPT !.config.key = k].version = p.version
       /\ [p EXCEPT !.config.key = k].config.key = k
       /\ [p EXCEPT !.config.key = k].config.proxy = p.config.proxy
  BY DEF Child, Config
<1> QED BY <1>2, <1>3, <1>4, <1>5, <1>6

(* The operation moves on to another step: n is o at step c.                  *)
Moved(n, o, c) ==
  /\ n \in Ops
  /\ n.pc = c
  /\ n.kind = o.kind /\ n.key = o.key /\ n.before = o.before

-----------------------------------------------------------------------------
(* Events are never forgotten, and what holds after few events holds after    *)
(* more of them.                                                              *)

LEMMA RestGrows ==
  \A d, p, m, n : m \subseteq n /\ Rest(d, p, m) => Rest(d, p, n)
BY DEF Rest

LEMMA RestWithoutChild == \A d, p, m : Rest(d, p, m) => Rest(d, None, m)
BY DEF Rest

LEMMA StageGrows ==
  \A o, d, p, m, n, down : m \subseteq n /\ Stage(o, d, p, m, down) => Stage(o, d, p, n, down)
BY DEF Stage, InstallChild, RollbackChild, RemoveChild, StartChild, SyncChild, RotateChild,
       Kept, Stopped

(* An operation that is at some stage is under way.                           *)
LEMMA StageIsBusy ==
  \A o, d, p, m, down : Stage(o, d, p, m, down) => o # NoOp
BY NoOpFields DEF Stage

(* The step that is due tells the operation.                                  *)
LEMMA WhichOperation ==
  ASSUME CpaInv, op.pc # "none"
  PROVE  /\ op # NoOp /\ op.before \in Snapshot
         /\ Rest(op.before.disk, op.before.proc, marks)
         /\ Stage(op, disk, proc, marks, shutting)
BY NoOpFields DEF CpaInv, TypeInv

LEMMA InstallStage ==
  ASSUME CpaInv, op.pc \in InstallPcs
  PROVE  /\ op.before \in Snapshot /\ op.kind \in {"install", "update"}
         /\ Rest(op.before.disk, op.before.proc, marks)
         /\ InstallFiles(op, disk) /\ InstallChild(op, disk, proc, marks, shutting)
BY WhichOperation DEF Stage, InstallPcs, RollbackPcs, RemovePcs, StartPcs, SyncPcs, RotatePcs

LEMMA RollbackStage ==
  ASSUME CpaInv, op.pc \in RollbackPcs
  PROVE  /\ op.before \in Snapshot /\ op.kind = "rollback"
         /\ Rest(op.before.disk, op.before.proc, marks)
         /\ RollbackFiles(op, disk) /\ RollbackChild(op, disk, proc, marks, shutting)
BY WhichOperation DEF Stage, InstallPcs, RollbackPcs, RemovePcs, StartPcs, SyncPcs, RotatePcs

LEMMA RemoveStage ==
  ASSUME CpaInv, op.pc \in RemovePcs
  PROVE  /\ op.before \in Snapshot /\ op.kind = "remove"
         /\ Rest(op.before.disk, op.before.proc, marks)
         /\ RemoveFiles(op, disk) /\ RemoveChild(op, disk, proc, marks, shutting)
BY WhichOperation DEF Stage, InstallPcs, RollbackPcs, RemovePcs, StartPcs, SyncPcs, RotatePcs

LEMMA RunStage ==
  ASSUME CpaInv, op.pc \in StartPcs \cup SyncPcs
  PROVE  /\ op.before \in Snapshot
         /\ Rest(op.before.disk, op.before.proc, marks)
         /\ \/ /\ op.kind = "start" /\ op.pc \in StartPcs
               /\ StartFiles(op, disk) /\ StartChild(op, disk, proc, marks, shutting)
            \/ /\ op.kind \in {"restore", "sync"} /\ op.pc \in SyncPcs
               /\ SyncFiles(op, disk) /\ SyncChild(op, disk, proc, marks, shutting)
BY WhichOperation DEF Stage, InstallPcs, RollbackPcs, RemovePcs, StartPcs, SyncPcs, RotatePcs

LEMMA RotateStage ==
  ASSUME CpaInv, op.pc \in RotatePcs
  PROVE  /\ op.before \in Snapshot /\ op.kind = "rotate"
         /\ Rest(op.before.disk, op.before.proc, marks)
         /\ RotateFiles(op, disk) /\ RotateChild(op, disk, proc, marks, shutting)
BY WhichOperation DEF Stage, InstallPcs, RollbackPcs, RemovePcs, StartPcs, SyncPcs, RotatePcs

-----------------------------------------------------------------------------
(* How the invariant is passed on: an operation begins, moves on, or ends.    *)

LEMMA Begins ==
  ASSUME CpaInv, op = NoOp, op' \in Ops, op'.before = [disk |-> disk, proc |-> proc],
         UNCHANGED <<disk, proc, proxy, last, marks>>,
         Stage(op', disk, proc, marks, shutting')
  PROVE  CpaInv'
<1>1. op'.before \in Snapshot /\ op'.before.disk = disk /\ op'.before.proc = proc
  BY Snapshots DEF CpaInv, TypeInv
<1>2. op' # NoOp
  BY StageIsBusy
<1>3. Rest(op'.before.disk, op'.before.proc, marks')
  BY <1>1 DEF CpaInv
<1> QED BY <1>1, <1>2, <1>3 DEF CpaInv, TypeInv, FailureLeavesNoTrace

LEMMA MovesOn ==
  ASSUME CpaInv, op # NoOp, op' \in Ops, op'.before = op.before,
         disk' \in Disk, proc' \in Child \cup {None}, proxy' \in Proxies,
         marks \subseteq marks', last' = last,
         Stage(op', disk', proc', marks', shutting')
  PROVE  CpaInv'
<1>1. op'.before \in Snapshot /\ op' # NoOp
  BY StageIsBusy DEF CpaInv, TypeInv
<1>2. Rest(op'.before.disk, op'.before.proc, marks')
  BY RestGrows DEF CpaInv
<1> QED BY <1>1, <1>2 DEF CpaInv, TypeInv, FailureLeavesNoTrace

(* It ends with disk d and child p, and reports honestly.                     *)
LEMMA Ends ==
  ASSUME CpaInv, NEW effect, NEW d \in Disk, NEW p \in Child \cup {None},
         Finish(effect, d, p), UNCHANGED env, Rest(d, p, marks'),
         effect \in {"none", "compensated"} =>
           /\ Report(effect, op.before, d, p, FALSE).files
           /\ Report(effect, op.before, d, p, FALSE).child
  PROVE  CpaInv'
<1>1. FailureLeavesNoTrace'
  BY DEF FailureLeavesNoTrace, Finish, Report
<1>2. TypeInv'
  BY NoOpFields DEF TypeInv, CpaInv, Finish, env
<1> QED BY <1>1, <1>2 DEF CpaInv, Finish

LEMMA MarksGrow == \A effect : Marked(effect) => marks \subseteq marks'
BY DEF Marked

(* It ends with the disk as found, on the error of a call that took effect.   *)
LEMMA EndsUnobserved ==
  ASSUME CpaInv, NEW p \in Child \cup {None}, NEW mark, FinishUnobserved(p, mark),
         UNCHANGED env, disk = op.before.disk, Rest(disk, p, marks')
  PROVE  CpaInv'
<1>1. FailureLeavesNoTrace'
  BY DEF FailureLeavesNoTrace, FinishUnobserved, Report
<1>2. TypeInv'
  BY NoOpFields DEF TypeInv, CpaInv, FinishUnobserved, env
<1> QED BY <1>1, <1>2 DEF CpaInv, FinishUnobserved

(* It ends with the disk as found, and a stop that failed: no child is left.  *)
LEMMA EndsForgotten ==
  ASSUME CpaInv, op # NoOp, FinishUnobserved(None, {}), UNCHANGED env, disk = op.before.disk
  PROVE  CpaInv'
<1>1. Rest(disk, None, marks')
  BY RestGrows, RestWithoutChild DEF CpaInv, FinishUnobserved
<1> QED BY <1>1, EndsUnobserved

(* It ends with the disk as found and the child kept.                         *)
LEMMA EndsAsFound ==
  ASSUME CpaInv, op # NoOp, NEW effect, NEW d \in Disk, NEW p \in Child \cup {None},
         Finish(effect, d, p), UNCHANGED env,
         d = op.before.disk, Kept(op, p, marks, shutting)
  PROVE  CpaInv'
<1>1. Rest(d, op.before.proc, marks')
  BY RestGrows, MarksGrow DEF CpaInv, Finish
<1>2. Rest(d, p, marks')
  BY <1>1, RestWithoutChild DEF Kept
<1>3. Report(effect, op.before, d, p, FALSE).files /\ Report(effect, op.before, d, p, FALSE).child
  BY DEF Report, Kept
<1> QED BY <1>2, <1>3, Ends

(* It ends with the disk as found; no child runs, and none ran to be put back. *)
LEMMA EndsStopped ==
  ASSUME CpaInv, op # NoOp, NEW effect, NEW d \in Disk,
         Finish(effect, d, None), UNCHANGED env,
         d = op.before.disk, ~op.was, Stopped(op, marks, shutting)
  PROVE  CpaInv'
<1>1. Kept(op, None, marks, shutting)
  BY DEF Kept, Stopped
<1> QED BY <1>1, EndsAsFound

(* It ends with the disk as found and the recorded version restarted.         *)
LEMMA EndsRestarted ==
  ASSUME CpaInv, op # NoOp, NEW effect, NEW d \in Disk, NEW p \in Child,
         Finish(effect, d, p), UNCHANGED env,
         d = op.before.disk, op.was, Stopped(op, marks, shutting),
         d.managed # None, d.cfg # None, p = Spawned(d.managed.current, d)
  PROVE  CpaInv'
<1>1. op.before.proc # None /\ p # None
  BY Values DEF Stopped
<1>2. Rest(d, op.before.proc, marks')
  BY RestGrows, MarksGrow DEF CpaInv, Finish
<1>3. p.version = d.managed.current /\ p.config = d.cfg
  BY DEF Spawned
<1>4. Rest(d, p, marks')
  BY <1>1, <1>2, <1>3 DEF Rest, Keyed
<1>5. Report(effect, op.before, d, p, FALSE).files /\ Report(effect, op.before, d, p, FALSE).child
  BY <1>1 DEF Report, Spawned
<1> QED BY <1>4, <1>5, Ends

(* It gives up and says so: what it leaves is at least owned by a manifest.   *)
LEMMA EndsPartial ==
  ASSUME CpaInv, NEW d \in Disk, NEW p \in Child \cup {None},
         Finish("partial", d, p), UNCHANGED env,
         d.managed = None =>
           d.prev = None /\ ("install" \notin marks => d.cfg = None /\ d.dirs = {})
  PROVE  CpaInv'
<1>1. "partial" \in marks' /\ marks \subseteq marks'
  BY DEF Finish, Marked
<1>2. Rest(d, p, marks')
  BY <1>1 DEF Rest
<1> QED BY <1>2, Ends

-----------------------------------------------------------------------------
(* install_cpa_runtime and update_cpa_runtime.                                *)

(* The guards put every file back; only the rows may have been lost.          *)
LEMMA GuardsPutBack ==
  ASSUME CpaInv, op.pc \in InstallPcs, NEW d \in Disk,
         d.managed = disk.managed, d.dirs = disk.dirs, d.db = disk.db
  PROVE  /\ Guarded(d) \in Disk
         /\ Guarded(d).managed = op.before.disk.managed
         /\ Guarded(d).cfg = op.before.disk.cfg
         /\ Guarded(d).prev = op.before.disk.prev
         /\ Guarded(d).dirs = op.before.disk.dirs
         /\ Guarded(d).db = disk.db
         /\ disk.db = op.before.disk.db => Guarded(d) = op.before.disk
<1> DEFINE b == op.before.disk
<1>1. b \in Disk /\ InstallFiles(op, disk) /\ op.target \in Versions \cup {None}
  BY InstallStage, SnapshotFields, OpFields DEF CpaInv, TypeInv
<1>2. b.cfg \in Config \cup {None} /\ b.prev \in Config \cup {None}
      /\ b.dirs \subseteq Versions /\ d.dirs \subseteq Versions
  BY <1>1, DiskFields
<1>3. d.dirs \ {op.target} = b.dirs
  BY <1>1, <1>2, CpaAssumption DEF InstallFiles
<1>4. Guarded(d) = [[[d EXCEPT !.cfg = b.cfg] EXCEPT !.prev = b.prev] EXCEPT !.dirs = b.dirs]
  BY <1>3 DEF Guarded, Before, Disk
<1> DEFINE d1 == [d EXCEPT !.cfg = b.cfg]
           d2 == [d1 EXCEPT !.prev = b.prev]
<1>5. d1 \in Disk /\ d1.managed = d.managed /\ d1.cfg = b.cfg /\ d1.dirs = d.dirs /\ d1.db = d.db
  BY <1>2, DiskWrites
<1> HIDE DEF d1
<1>6. /\ d2 \in Disk /\ d2.managed = d.managed /\ d2.cfg = b.cfg /\ d2.prev = b.prev
      /\ d2.db = d.db
  BY <1>2, <1>5, DiskWrites
<1>7. Guarded(d) = [d2 EXCEPT !.dirs = b.dirs]
  BY <1>4 DEF d1
<1> HIDE DEF d2
<1>8. /\ Guarded(d) \in Disk /\ Guarded(d).managed = d.managed /\ Guarded(d).cfg = b.cfg
      /\ Guarded(d).prev = b.prev /\ Guarded(d).dirs = b.dirs /\ Guarded(d).db = d.db
  BY <1>2, <1>6, <1>7, DiskWrites
<1>9. Guarded(d).managed = b.managed
  BY <1>1, <1>8 DEF InstallFiles
<1>10. ASSUME disk.db = b.db PROVE Guarded(d) = b
  BY <1>1, <1>8, <1>9, <1>10, SameDisk
<1> QED BY <1>8, <1>9, <1>10

(* A failure before anything was written to the rows leaves all as found.     *)
LEMMA GuardedAsFound ==
  ASSUME CpaInv, op.pc \in InstallPcs, NEW effect, disk.db = op.before.disk.db,
         Finish(effect, Guarded(disk), proc), UNCHANGED env,
         Kept(op, proc, marks, shutting)
  PROVE  CpaInv'
<1>1. Guarded(disk) \in Disk /\ Guarded(disk) = op.before.disk /\ proc \in Child \cup {None}
  BY GuardsPutBack DEF CpaInv, TypeInv
<1>2. op # NoOp
  BY NoOpFields DEF InstallPcs
<1> QED BY <1>1, <1>2, EndsAsFound

LEMMA GuardedPartial ==
  ASSUME CpaInv, op.pc \in InstallPcs, NEW d \in Disk, NEW p \in Child \cup {None},
         d.managed = disk.managed, d.dirs = disk.dirs, d.db = disk.db,
         Finish("partial", Guarded(d), p), UNCHANGED env
  PROVE  CpaInv'
<1>1. Rest(op.before.disk, op.before.proc, marks)
  BY InstallStage
<1>2. Guarded(d).managed = None =>
        /\ Guarded(d).prev = None
        /\ "install" \notin marks => Guarded(d).cfg = None /\ Guarded(d).dirs = {}
  BY <1>1, GuardsPutBack DEF Rest
<1> QED BY <1>2, GuardsPutBack, EndsPartial

(* A step of an install that only moves on.                                   *)
LEMMA InstallMoves ==
  ASSUME CpaInv, op.pc \in InstallPcs, NEW c \in InstallPcs, Moved(op', op, c),
         disk' \in Disk, proc' \in Child \cup {None}, UNCHANGED <<env, history>>,
         InstallFiles(op', disk'), InstallChild(op', disk', proc', marks, shutting)
  PROVE  CpaInv'
<1>1. op.kind \in {"install", "update"} /\ op # NoOp
  BY InstallStage, NoOpFields DEF InstallPcs
<1>2. Stage(op', disk', proc', marks', shutting')
  BY <1>1 DEF Stage, Moved, env, history
<1> QED BY <1>1, <1>2, MovesOn DEF Moved, env, history, CpaInv, TypeInv

LEMMA Typed ==
  ASSUME CpaInv
  PROVE  /\ op \in Ops /\ disk \in Disk /\ proc \in Child \cup {None} /\ proxy \in Proxies
         /\ op.was \in BOOLEAN /\ op.partial \in BOOLEAN /\ op.cas \in BOOLEAN
BY OpFields DEF CpaInv, TypeInv

LEMMA ResolveKeeps == ASSUME CpaInv, NEW v \in Versions, resolve(v) PROVE CpaInv'
<1> USE DEF InstallPcs, Pcs
<1>1. /\ op.pc = "download" /\ op \in Ops /\ disk \in Disk /\ proc \in Child \cup {None}
      /\ op.pc \in InstallPcs /\ InstallFiles(op, disk)
      /\ InstallChild(op, disk, proc, marks, shutting) /\ UNCHANGED env
  BY Typed, InstallStage DEF resolve
<1>2. CASE /\ ~Refused(v) /\ disk' = [disk EXCEPT !.dirs = disk.dirs \cup {v}]
           /\ op' = [op EXCEPT !.pc = "configure", !.target = v]
           /\ UNCHANGED <<proc, history>>
  <2>1. v \notin disk.dirs
    BY <1>2 DEF Refused
  <2>2. /\ disk' \in Disk /\ disk'.dirs = disk.dirs \cup {v} /\ disk'.managed = disk.managed
        /\ disk'.cfg = disk.cfg /\ disk'.prev = disk.prev /\ disk'.db = disk.db
    <3>1. disk.dirs \cup {v} \in SUBSET Versions
      BY <1>1, DiskFields
    <3> QED BY <1>1, <1>2, <3>1, DiskWrites
  <2>3. /\ Moved(op', op, "configure") /\ op'.target = v /\ op'.was = op.was
        /\ op'.partial = op.partial
    BY <1>1, <1>2 DEF Ops, Moved
  <2>4. InstallFiles(op', disk')
    BY <1>1, <2>1, <2>2, <2>3 DEF InstallFiles, Moved
  <2>5. InstallChild(op', disk', proc', marks, shutting)
    BY <1>1, <1>2, <2>3 DEF InstallChild, Moved, Kept
  <2> QED BY <1>1, <1>2, <2>2, <2>3, <2>4, <2>5, InstallMoves
<1>3. CASE Finish("none", disk, proc)
  <2>1. disk = op.before.disk
    <3>1. op.before.disk \in Disk
      BY <1>1, InstallStage, SnapshotFields
    <3> QED BY <1>1, <3>1, SameDisk DEF InstallFiles
  <2>2. Kept(op, proc, marks, shutting) /\ op # NoOp
    BY <1>1, NoOpFields DEF InstallChild
  <2> QED BY <1>1, <1>3, <2>1, <2>2, EndsAsFound
<1> QED BY <1>2, <1>3 DEF resolve

LEMMA ConfigureKeeps == ASSUME CpaInv, configure PROVE CpaInv'
<1> USE DEF InstallPcs, Pcs
<1>1. /\ op.pc = "configure" /\ op \in Ops /\ disk \in Disk /\ proc \in Child \cup {None}
      /\ proxy \in Proxies /\ op.pc \in InstallPcs /\ op # NoOp /\ UNCHANGED env
      /\ InstallFiles(op, disk) /\ InstallChild(op, disk, proc, marks, shutting)
  BY Typed, InstallStage, NoOpFields DEF configure
<1>2. op.before.disk \in Disk /\ op.before.proc \in Child \cup {None}
  BY <1>1, InstallStage, SnapshotFields
<1>3. CASE /\ disk' = [disk EXCEPT !.cfg = [proxy |-> proxy, key |-> op.key]]
           /\ Goto("replace")
           /\ UNCHANGED <<proc, history>>
  <2>1. /\ disk' \in Disk /\ disk'.managed = disk.managed /\ disk'.cfg = [proxy |-> proxy, key |-> op.key]
        /\ disk'.prev = disk.prev /\ disk'.dirs = disk.dirs /\ disk'.db = disk.db
    <3>1. [proxy |-> proxy, key |-> op.key] \in Config \cup {None}
      BY <1>1, <1>2, <1>3, Values DEF InstallFiles
    <3> QED BY <1>1, <1>3, <3>1, DiskWrites
  <2>2. /\ Moved(op', op, "replace")
        /\ op'.target = op.target /\ op'.was = op.was /\ op'.partial = op.partial
    BY <1>1, <1>3 DEF Ops, Moved, Goto
  <2>3. proc' \in Child \cup {None}
    BY <1>1, <1>3
  <2>4. InstallFiles(op', disk')
    BY <1>1, <1>2, <1>3, <2>1, <2>2, Values DEF InstallFiles, Moved
  <2>5. InstallChild(op', disk', proc', marks, shutting)
    BY <1>1, <1>2, <1>3, <2>1, <2>2 DEF InstallChild, Moved, Kept, Stopped, Only, Spawned
  <2> QED BY <1>1, <1>3, <2>1, <2>2, <2>3, <2>4, <2>5, InstallMoves
<1>4. CASE Finish("none", Guarded(disk), proc)
  <2>1. Kept(op, proc, marks, shutting) /\ disk.db = op.before.disk.db
    BY <1>1 DEF InstallChild, InstallFiles
  <2> QED BY <1>1, <1>4, <2>1, GuardedAsFound
<1> QED BY <1>1, <1>2, <1>3, <1>4 DEF configure

LEMMA ReplaceKeeps == ASSUME CpaInv, replace PROVE CpaInv'
<1> USE DEF InstallPcs, Pcs
<1>1. /\ op.pc = "replace" /\ op \in Ops /\ disk \in Disk /\ proc \in Child \cup {None}
      /\ proxy \in Proxies /\ op.pc \in InstallPcs /\ op # NoOp /\ UNCHANGED env
      /\ InstallFiles(op, disk) /\ InstallChild(op, disk, proc, marks, shutting)
  BY Typed, InstallStage, NoOpFields DEF replace
<1>2. op.before.disk \in Disk /\ op.before.proc \in Child \cup {None}
  BY <1>1, InstallStage, SnapshotFields
<1>3. CASE /\ op' = [op EXCEPT !.pc = "launch", !.was = (proc # None)]
           /\ proc' = None
           /\ UNCHANGED <<disk, history>>
  <2>1. disk' = disk
    BY <1>3 DEF history
  <2>2. /\ Moved(op', op, "launch")
        /\ op'.target = op.target /\ op'.was = (proc # None) /\ op'.partial = op.partial
    BY <1>1, <1>3 DEF Ops, Moved, Goto
  <2>3. proc' \in Child \cup {None}
    BY <1>1, <1>3
  <2>4. InstallFiles(op', disk')
    BY <1>1, <1>2, <1>3, <2>1, <2>2 DEF InstallFiles, Moved
  <2>5. InstallChild(op', disk', proc', marks, shutting)
    BY <1>1, <1>2, <1>3, <2>1, <2>2 DEF InstallChild, Moved, Kept, Stopped, Only, Spawned
  <2> QED BY <1>1, <1>3, <2>1, <2>2, <2>3, <2>4, <2>5, InstallMoves
<1>4. CASE Finish("partial", Guarded(disk), None)
  BY <1>1, <1>4, GuardedPartial
<1> QED BY <1>1, <1>2, <1>3, <1>4 DEF replace

LEMMA LaunchKeeps == ASSUME CpaInv, launch PROVE CpaInv'
<1> USE DEF InstallPcs, Pcs
<1>1. /\ op.pc = "launch" /\ op \in Ops /\ disk \in Disk /\ proc \in Child \cup {None}
      /\ proxy \in Proxies /\ op.pc \in InstallPcs /\ op # NoOp /\ UNCHANGED env
      /\ InstallFiles(op, disk) /\ InstallChild(op, disk, proc, marks, shutting)
  BY Typed, InstallStage, NoOpFields DEF launch
<1>2. op.before.disk \in Disk /\ op.before.proc \in Child \cup {None}
  BY <1>1, InstallStage, SnapshotFields
<1>3. CASE /\ MaySpawn(op.target, disk)
           /\ proc' = Spawned(op.target, disk)
           /\ Goto("probe")
           /\ UNCHANGED <<disk, history>>
  <2>1. disk' = disk
    BY <1>3 DEF history
  <2>2. /\ Moved(op', op, "probe")
        /\ op'.target = op.target /\ op'.was = op.was /\ op'.partial = op.partial
    BY <1>1, <1>3 DEF Ops, Moved, Goto
  <2>3. proc' \in Child \cup {None}
    BY <1>1, <1>3, Values, DiskFields DEF InstallFiles, MaySpawn, Spawned
  <2>4. InstallFiles(op', disk')
    BY <1>1, <1>2, <1>3, <2>1, <2>2 DEF InstallFiles, Moved
  <2>5. InstallChild(op', disk', proc', marks, shutting)
    BY <1>1, <1>2, <1>3, <2>1, <2>2 DEF InstallChild, Moved, Kept, Stopped, Only, Spawned
  <2> QED BY <1>1, <1>3, <2>1, <2>2, <2>3, <2>4, <2>5, InstallMoves
<1>4. CASE /\ Goto("undo")
           /\ UNCHANGED <<disk, proc, history>>
  <2>1. disk' = disk
    BY <1>4 DEF history
  <2>2. /\ Moved(op', op, "undo")
        /\ op'.target = op.target /\ op'.was = op.was /\ op'.partial = op.partial
    BY <1>1, <1>4 DEF Ops, Moved, Goto
  <2>3. proc' \in Child \cup {None}
    BY <1>1, <1>4
  <2>4. InstallFiles(op', disk')
    BY <1>1, <1>2, <1>4, <2>1, <2>2 DEF InstallFiles, Moved
  <2>5. InstallChild(op', disk', proc', marks, shutting)
    BY <1>1, <1>2, <1>4, <2>1, <2>2 DEF InstallChild, Moved, Kept, Stopped, Only, Spawned
  <2> QED BY <1>1, <1>4, <2>1, <2>2, <2>3, <2>4, <2>5, InstallMoves
<1>5. CASE /\ \E check \in BOOLEAN : op' = [op EXCEPT !.pc = "undo", !.verify = check]
           /\ UNCHANGED <<disk, proc, history>>
  <2>0. PICK check \in BOOLEAN : op' = [op EXCEPT !.pc = "undo", !.verify = check]
    BY <1>5
  <2>1. Moved(op', op, "undo") /\ op'.target = op.target /\ op'.was = op.was /\ op'.partial = op.partial
    BY <1>1, <2>0 DEF Ops, Moved
  <2>2. InstallFiles(op', disk')
    BY <1>1, <1>5, <2>1 DEF InstallFiles, Moved
  <2>3. InstallChild(op', disk', proc', marks, shutting)
    BY <1>1, <1>5, <2>1 DEF InstallChild, Moved, Stopped
  <2> QED BY <1>1, <1>5, <2>1, <2>2, <2>3, InstallMoves
<1> QED BY <1>1, <1>2, <1>3, <1>4, <1>5 DEF launch

LEMMA ProbeKeeps == ASSUME CpaInv, probe PROVE CpaInv'
<1> USE DEF InstallPcs, Pcs
<1>1. /\ op.pc = "probe" /\ op \in Ops /\ disk \in Disk /\ proc \in Child \cup {None}
      /\ proxy \in Proxies /\ op.pc \in InstallPcs /\ op # NoOp /\ UNCHANGED env
      /\ InstallFiles(op, disk) /\ InstallChild(op, disk, proc, marks, shutting)
  BY Typed, InstallStage, NoOpFields DEF probe
<1>2. op.before.disk \in Disk /\ op.before.proc \in Child \cup {None}
  BY <1>1, InstallStage, SnapshotFields
<1>3. CASE /\ Answers(op.key)
           /\ proc' = IF op.kind = "update" /\ ~op.was THEN None ELSE proc
           /\ Goto("commit")
           /\ UNCHANGED <<disk, history>>
  <2>1. disk' = disk
    BY <1>3 DEF history
  <2>2. /\ Moved(op', op, "commit")
        /\ op'.target = op.target /\ op'.was = op.was /\ op'.partial = op.partial
    BY <1>1, <1>3 DEF Ops, Moved, Goto
  <2>3. proc' \in Child \cup {None}
    BY <1>1, <1>3
  <2>4. InstallFiles(op', disk')
    BY <1>1, <1>2, <1>3, <2>1, <2>2 DEF InstallFiles, Moved
  <2>5. InstallChild(op', disk', proc', marks, shutting)
    BY <1>1, <1>2, <1>3, <2>1, <2>2 DEF InstallChild, Moved, Kept, Stopped, Only, Spawned
  <2> QED BY <1>1, <1>3, <2>1, <2>2, <2>3, <2>4, <2>5, InstallMoves
<1>4. CASE /\ Goto("undo")
           /\ UNCHANGED <<disk, proc, history>>
  <2>1. disk' = disk
    BY <1>4 DEF history
  <2>2. /\ Moved(op', op, "undo")
        /\ op'.target = op.target /\ op'.was = op.was /\ op'.partial = op.partial
    BY <1>1, <1>4 DEF Ops, Moved, Goto
  <2>3. proc' \in Child \cup {None}
    BY <1>1, <1>4
  <2>4. InstallFiles(op', disk')
    BY <1>1, <1>2, <1>4, <2>1, <2>2 DEF InstallFiles, Moved
  <2>5. InstallChild(op', disk', proc', marks, shutting)
    BY <1>1, <1>2, <1>4, <2>1, <2>2 DEF InstallChild, Moved, Kept, Stopped, Only, Spawned
  <2> QED BY <1>1, <1>4, <2>1, <2>2, <2>3, <2>4, <2>5, InstallMoves
<1>5. CASE Finish("partial", Guarded(disk), None)
  BY <1>1, <1>5, GuardedPartial
<1> QED BY <1>1, <1>2, <1>3, <1>4, <1>5 DEF probe

(* The rows and the previous config are put back, in part or in full.         *)
LEMMA PutBackKeeps ==
  ASSUME CpaInv, op.pc \in {"commit", "commit_rows", "commit_managed"}, NEW n, NEW rows,
         rows \subseteq {disk.db, None, Before.db}, PutBack(n, rows, "undo"),
         UNCHANGED <<proc, env, history>>
  PROVE  CpaInv'
<1> USE DEF InstallPcs, Pcs
<1>1. /\ op \in Ops /\ disk \in Disk /\ op.pc \in InstallPcs /\ proc \in Child \cup {None}
      /\ InstallFiles(op, disk) /\ InstallChild(op, disk, proc, marks, shutting)
  BY Typed, InstallStage
<1>2. op.before.disk \in Disk
  BY <1>1, InstallStage, SnapshotFields
<1>3. /\ Before.prev \in Config \cup {None} /\ Before.db \in Row \cup {None}
      /\ disk.prev \in Config \cup {None} /\ disk.db \in Row \cup {None}
  BY <1>1, <1>2, DiskFields DEF Before
<1>4. CASE disk' = [disk EXCEPT !.db = Before.db, !.prev = Before.prev] /\ Goto("undo")
  <2>1. /\ disk' \in Disk /\ disk'.managed = disk.managed /\ disk'.cfg = disk.cfg
        /\ disk'.prev = Before.prev /\ disk'.dirs = disk.dirs /\ disk'.db = Before.db
    BY <1>1, <1>3, <1>4 DEF Disk
  <2>2. /\ Moved(op', op, "undo")
        /\ op'.target = op.target /\ op'.was = op.was /\ op'.partial = op.partial
    BY <1>1, <1>4 DEF Ops, Moved, Goto
  <2>3. InstallFiles(op', disk')
    BY <1>1, <2>1, <2>2 DEF InstallFiles, Moved, Before
  <2>4. InstallChild(op', disk', proc', marks, shutting)
    BY <1>1, <2>1, <2>2 DEF InstallChild, Moved, Stopped
  <2> QED BY <1>1, <2>1, <2>2, <2>3, <2>4, InstallMoves
<1>5. CASE /\ \E r \in rows, c \in {Before.prev, disk.prev} :
                disk' = [disk EXCEPT !.db = r, !.prev = c]
           /\ op' = [op EXCEPT !.pc = "undo", !.partial = TRUE]
  <2>0. PICK r \in rows, c \in {Before.prev, disk.prev} :
          disk' = [disk EXCEPT !.db = r, !.prev = c]
    BY <1>5
  <2>1. r \in Row \cup {None} /\ c \in Config \cup {None} /\ r \in {disk.db, None, Before.db}
    BY <1>3
  <2>2. /\ disk' \in Disk /\ disk'.managed = disk.managed /\ disk'.cfg = disk.cfg
        /\ disk'.prev = c /\ disk'.dirs = disk.dirs /\ disk'.db = r
    BY <1>1, <2>0, <2>1 DEF Disk
  <2>3. /\ Moved(op', op, "undo")
        /\ op'.target = op.target /\ op'.was = op.was /\ op'.partial = TRUE
    BY <1>1, <1>5 DEF Ops, Moved
  <2>4. c \in {Before.prev, Before.cfg} /\ (r # None => r.key = op.key)
    BY <1>1, <2>1, InstallStage, Values DEF InstallFiles, Before
  <2>5. InstallFiles(op', disk')
    BY <1>1, <2>2, <2>3, <2>4 DEF InstallFiles, Moved, Before
  <2>6. InstallChild(op', disk', proc', marks, shutting)
    BY <1>1, <2>2, <2>3 DEF InstallChild, Moved, Stopped
  <2> QED BY <1>1, <2>2, <2>3, <2>5, <2>6, InstallMoves
<1> QED BY <1>4, <1>5 DEF PutBack

LEMMA RowsRestoredKeeps ==
  ASSUME CpaInv, op.pc \in {"commit", "commit_rows", "commit_managed"}, NEW n, RowsRestored(n, "undo"),
         UNCHANGED <<proc, env, history>>
  PROVE  CpaInv'
BY PutBackKeeps DEF RowsRestored

LEMMA CommitKeeps == ASSUME CpaInv, commit PROVE CpaInv'
<1> USE DEF InstallPcs, Pcs
<1>1. /\ op.pc = "commit" /\ op \in Ops /\ disk \in Disk /\ proc \in Child \cup {None}
      /\ proxy \in Proxies /\ op.pc \in InstallPcs /\ op # NoOp /\ UNCHANGED env
      /\ InstallFiles(op, disk) /\ InstallChild(op, disk, proc, marks, shutting)
  BY Typed, InstallStage, NoOpFields DEF commit
<1>2. op.before.disk \in Disk /\ op.before.proc \in Child \cup {None}
  BY <1>1, InstallStage, SnapshotFields
<1>3. CASE /\ disk' = [disk EXCEPT !.prev = Before.cfg]
           /\ Goto("commit_rows")
           /\ UNCHANGED <<proc, history>>
  <2>1. /\ disk' \in Disk /\ disk'.managed = disk.managed /\ disk'.cfg = disk.cfg
        /\ disk'.prev = Before.cfg /\ disk'.dirs = disk.dirs /\ disk'.db = disk.db
    <3>1. Before.cfg \in Config \cup {None}
      BY <1>1, <1>2, <1>3, DiskFields DEF Before
    <3> QED BY <1>1, <1>3, <3>1, DiskWrites
  <2>2. /\ Moved(op', op, "commit_rows")
        /\ op'.target = op.target /\ op'.was = op.was /\ op'.partial = op.partial
    BY <1>1, <1>3 DEF Ops, Moved, Goto
  <2>3. proc' \in Child \cup {None}
    BY <1>1, <1>3
  <2>4. InstallFiles(op', disk')
    BY <1>1, <1>2, <1>3, <2>1, <2>2 DEF InstallFiles, Moved, Before
  <2>5. InstallChild(op', disk', proc', marks, shutting)
    BY <1>1, <1>2, <1>3, <2>1, <2>2 DEF InstallChild, Moved, Kept, Stopped, Only, Spawned
  <2> QED BY <1>1, <1>3, <2>1, <2>2, <2>3, <2>4, <2>5, InstallMoves
<1>4. CASE RowsRestored(0, "undo") /\ UNCHANGED <<proc, history>>
  BY <1>1, <1>4, RowsRestoredKeeps
<1>5. CASE RowsRestored(1, "undo") /\ UNCHANGED <<proc, history>>
  BY <1>1, <1>5, RowsRestoredKeeps
<1> QED BY <1>1, <1>2, <1>3, <1>4, <1>5 DEF commit

LEMMA CommitRowsKeeps == ASSUME CpaInv, commit_rows PROVE CpaInv'
<1> USE DEF InstallPcs, Pcs
<1>1. /\ op.pc = "commit_rows" /\ op \in Ops /\ disk \in Disk /\ proc \in Child \cup {None}
      /\ proxy \in Proxies /\ op.pc \in InstallPcs /\ op # NoOp /\ UNCHANGED env
      /\ InstallFiles(op, disk) /\ InstallChild(op, disk, proc, marks, shutting)
  BY Typed, InstallStage, NoOpFields DEF commit_rows
<1>2. op.before.disk \in Disk /\ op.before.proc \in Child \cup {None}
  BY <1>1, InstallStage, SnapshotFields
<1>3. CASE /\ disk' = [disk EXCEPT !.db = [catalog |-> op.target, key |-> op.key]]
           /\ Goto("commit_managed")
           /\ UNCHANGED <<proc, history>>
  <2>1. /\ disk' \in Disk /\ disk'.managed = disk.managed /\ disk'.cfg = disk.cfg
        /\ disk'.prev = disk.prev /\ disk'.dirs = disk.dirs /\ disk'.db = [catalog |-> op.target, key |-> op.key]
    <3>1. [catalog |-> op.target, key |-> op.key] \in Row \cup {None}
      BY <1>1, <1>2, <1>3, Values DEF InstallFiles
    <3> QED BY <1>1, <1>3, <3>1, DiskWrites
  <2>2. /\ Moved(op', op, "commit_managed")
        /\ op'.target = op.target /\ op'.was = op.was /\ op'.partial = op.partial
    BY <1>1, <1>3 DEF Ops, Moved, Goto
  <2>3. proc' \in Child \cup {None}
    BY <1>1, <1>3
  <2>4. InstallFiles(op', disk')
    BY <1>1, <1>2, <1>3, <2>1, <2>2 DEF InstallFiles, Moved
  <2>5. InstallChild(op', disk', proc', marks, shutting)
    BY <1>1, <1>2, <1>3, <2>1, <2>2 DEF InstallChild, Moved, Kept, Stopped, Only, Spawned
  <2> QED BY <1>1, <1>3, <2>1, <2>2, <2>3, <2>4, <2>5, InstallMoves
<1>4. CASE /\ RowsRestored(1, "undo")
           /\ UNCHANGED <<proc, history>>
  BY <1>1, <1>4, RowsRestoredKeeps
<1> QED BY <1>1, <1>2, <1>3, <1>4 DEF commit_rows

LEMMA CommitManagedKeeps == ASSUME CpaInv, commit_managed PROVE CpaInv'
<1> USE DEF InstallPcs, Pcs
<1>1. /\ op.pc = "commit_managed" /\ op \in Ops /\ disk \in Disk /\ proc \in Child \cup {None}
      /\ proxy \in Proxies /\ op.pc \in InstallPcs /\ op # NoOp /\ UNCHANGED env
      /\ InstallFiles(op, disk) /\ InstallChild(op, disk, proc, marks, shutting)
  BY Typed, InstallStage, NoOpFields DEF commit_managed
<1>2. op.before.disk \in Disk /\ op.before.proc \in Child \cup {None}
  BY <1>1, InstallStage, SnapshotFields
<1> DEFINE m == [current  |-> op.target,
                 previous |-> IF Before.managed = None THEN None ELSE Before.managed.current,
                 desired  |-> committed_desired_running]
           e == [disk EXCEPT !.managed = m]
<1>3. CASE \E d \in Pruned(e) : Finish("ok", d, proc)
  <2>1. /\ m \in Managed /\ m.current = op.target /\ (m.desired <=> committed_desired_running)
        /\ m.previous = IF Before.managed = None THEN None ELSE Before.managed.current
    <3>1. op.target \in Versions /\ Before.managed \in Managed \cup {None}
      BY <1>1, <1>2, DiskFields DEF InstallFiles, Before
    <3>2. (IF Before.managed = None THEN None ELSE Before.managed.current) \in Versions \cup {None}
      BY <3>1, Values
    <3>3. committed_desired_running \in BOOLEAN
      BY DEF committed_desired_running
    <3> QED BY <3>1, <3>2, <3>3, Values
  <2> HIDE DEF m
  <2>2. /\ e \in Disk /\ e.managed = m /\ e.cfg = disk.cfg /\ e.prev = disk.prev
        /\ e.dirs = disk.dirs /\ e.db = disk.db
    BY <1>1, <2>1, DiskWrites
  <2>3. e.managed # None /\ e.managed.current \in Versions /\ e.managed.previous \in Versions \cup {None}
    BY <2>1, <2>2, Values
  <2> HIDE DEF e
  <2>4. PICK d \in Pruned(e) : Finish("ok", d, proc)
    BY <1>3
  <2>5. /\ d \in Disk /\ d.managed = m /\ d.cfg = disk.cfg /\ d.prev = disk.prev /\ d.db = disk.db
        /\ \/ d.dirs = disk.dirs
           \/ m.previous # None /\ d.dirs = {m.current, m.previous}
    <3>1. CASE d = e
      BY <2>2, <3>1
    <3>2. CASE /\ e.managed.previous # None
               /\ d = [e EXCEPT !.dirs = {e.managed.current, e.managed.previous}]
      <4>1. {e.managed.current, e.managed.previous} \in SUBSET Versions
        BY <2>3, <3>2
      <4> QED BY <2>2, <3>2, <4>1, DiskWrites
    <3> QED BY <2>4, <3>1, <3>2 DEF Pruned
  <2>6. Rest(op.before.disk, op.before.proc, marks) /\ marks' = marks
    BY <1>1, <2>4, InstallStage DEF Finish, Marked
  <2>7. /\ m # None /\ d.cfg # None /\ d.cfg.key = op.key /\ d.db.key = op.key
        /\ d.prev = Before.cfg
    BY <1>1, <2>1, <2>5, Values DEF InstallFiles, Before
  <2>8. "remove" \notin marks /\ "partial" \notin marks => Complete(d)
    BY <1>1, <2>1, <2>5, <2>6, <2>7 DEF Complete, InstallFiles, Before, Rest
  <2>9. proc # None => op.target = proc.version /\ proc.config = disk.cfg /\ (op.kind = "install" \/ op.was)
    BY <1>1, InstallStage DEF InstallChild, Only, Spawned
  <2>10. op.kind = "install" \/ op.was => committed_desired_running
    BY <1>1 DEF committed_desired_running, InstallFiles, Before
  <2>11. proc # None => m.desired /\ proc.version = m.current /\ proc.config.key = d.db.key
    BY <2>1, <2>5, <2>7, <2>9, <2>10
  <2>12. marks \cap {"partial", "rotate"} = {} => Keyed(d)
    BY <1>1, <2>6, <2>7, InstallStage DEF Keyed, Rest, InstallFiles, Before
  <2>13. Rest(d, proc, marks')
    BY <2>5, <2>6, <2>7, <2>8, <2>11, <2>12 DEF Rest
  <2> QED BY <1>1, <2>4, <2>5, <2>13, Ends
<1>4. CASE /\ RowsRestored(1, "undo")
           /\ UNCHANGED <<proc, history>>
  BY <1>1, <1>4, RowsRestoredKeeps
<1> QED BY <1>1, <1>2, <1>3, <1>4 DEF commit_managed

LEMMA UndoKeeps == ASSUME CpaInv, undo PROVE CpaInv'
<1> USE DEF InstallPcs, Pcs
<1>1. /\ op.pc = "undo" /\ op \in Ops /\ disk \in Disk /\ proc \in Child \cup {None}
      /\ proxy \in Proxies /\ op.pc \in InstallPcs /\ op # NoOp /\ UNCHANGED env
      /\ InstallFiles(op, disk) /\ InstallChild(op, disk, proc, marks, shutting)
  BY Typed, InstallStage, NoOpFields DEF undo
<1>2. op.before.disk \in Disk /\ op.before.proc \in Child \cup {None}
  BY <1>1, InstallStage, SnapshotFields
<1> DEFINE d == [disk EXCEPT !.cfg = Before.cfg]
           v == Before.managed.current
<1>a. /\ d \in Disk /\ d.managed = disk.managed /\ d.cfg = Before.cfg /\ d.prev = disk.prev
      /\ d.dirs = disk.dirs /\ d.db = disk.db
  BY <1>1, <1>2, DiskWrites, DiskFields DEF Before
<1>b. MaySpawn(v, d) => v \in Versions /\ d.cfg \in Config /\ Spawned(v, d) \in Child
  BY <1>a, DiskFields, Values DEF MaySpawn, Spawned
<1>c. op.was => op.kind = "update" /\ Before.managed # None
  BY <1>1, InstallStage DEF InstallChild, Stopped, InstallFiles, Before
<1>d. op.partial = FALSE => disk.db = op.before.disk.db
  BY <1>1 DEF InstallFiles
<1> HIDE DEF d, v
<1>3. CASE /\ op.was
           /\ MaySpawn(v, d)
           /\ disk' = d
           /\ proc' = Spawned(v, d)
           /\ Goto("undo_probe")
           /\ UNCHANGED history
  <2>1. Moved(op', op, "undo_probe") /\ op'.target = op.target /\ op'.was = op.was /\ op'.partial = op.partial
    BY <1>1, <1>3 DEF Ops, Moved, Goto
  <2>2. InstallFiles(op', disk')
    BY <1>1, <1>a, <1>3, <2>1 DEF InstallFiles, Moved, Before
  <2>3. InstallChild(op', disk', proc', marks, shutting)
    BY <1>1, <1>c, <1>3, <2>1 DEF InstallChild, Moved, Stopped, Only, Before, v
  <2> QED BY <1>1, <1>a, <1>b, <1>3, <2>1, <2>2, <2>3, InstallMoves
<1>4. CASE /\ op.was
           /\ MaySpawn(v, d)
           /\ Finish(Effect, Guarded(d), Spawned(v, d))
  <2>1. CASE op.partial
    <3>1. Finish("partial", Guarded(d), Spawned(v, d))
      BY <1>4, <2>1 DEF Effect
    <3> QED BY <1>1, <1>a, <1>b, <1>4, <3>1, GuardedPartial
  <2>2. CASE op.partial = FALSE
    <3>1. Guarded(d) \in Disk /\ Guarded(d) = op.before.disk
      BY <1>1, <1>a, <1>d, <2>2, GuardsPutBack
    <3>2. Spawned(v, d) = Spawned(Guarded(d).managed.current, Guarded(d))
      BY <1>a, <3>1 DEF Spawned, Before, v
    <3>3. /\ Guarded(d).managed # None /\ Guarded(d).cfg # None /\ Stopped(op, marks, shutting)
          /\ Spawned(v, d) \in Child
      BY <1>1, <1>b, <1>c, <1>4, <3>1 DEF InstallChild, InstallFiles, Before
    <3> QED BY <1>1, <1>4, <3>1, <3>2, <3>3, EndsRestarted
  <2> QED BY <1>1, <2>1, <2>2, Typed
<1>5. CASE Finish("partial", Guarded(d), None)
  BY <1>1, <1>a, <1>5, GuardedPartial
<1>6. CASE /\ ~op.was
           /\ Finish(Effect, Guarded(d), None)
  <2>1. CASE op.partial
    <3>1. Finish("partial", Guarded(d), None)
      BY <1>6, <2>1 DEF Effect
    <3> QED BY <1>1, <1>a, <1>6, <3>1, GuardedPartial
  <2>2. CASE op.partial = FALSE
    <3>1. Guarded(d) \in Disk /\ Guarded(d) = op.before.disk
      BY <1>1, <1>a, <1>d, <2>2, GuardsPutBack
    <3>2. Stopped(op, marks, shutting)
      BY <1>1 DEF InstallChild
    <3> QED BY <1>1, <1>6, <3>1, <3>2, EndsStopped
  <2> QED BY <1>1, <2>1, <2>2, Typed
<1> QED BY <1>1, <1>2, <1>3, <1>4, <1>5, <1>6 DEF undo, d, v

LEMMA UndoProbeKeeps == ASSUME CpaInv, undo_probe PROVE CpaInv'
<1> USE DEF InstallPcs, Pcs
<1>1. /\ op.pc = "undo_probe" /\ op \in Ops /\ disk \in Disk /\ proc \in Child \cup {None}
      /\ proxy \in Proxies /\ op.pc \in InstallPcs /\ op # NoOp /\ UNCHANGED env
      /\ InstallFiles(op, disk) /\ InstallChild(op, disk, proc, marks, shutting)
  BY Typed, InstallStage, NoOpFields DEF undo_probe
<1>2. op.before.disk \in Disk /\ op.before.proc \in Child \cup {None}
  BY <1>1, InstallStage, SnapshotFields
<1>3. CASE /\ Answers(op.key)
           /\ Finish(Effect, Guarded(disk), proc)
  <2>1. CASE op.partial
    <3>1. Finish("partial", Guarded(disk), proc)
      BY <1>3, <2>1 DEF Effect
    <3> QED BY <1>1, <1>3, <3>1, GuardedPartial
  <2>2. CASE op.partial = FALSE
    <3>1. Guarded(disk) \in Disk /\ Guarded(disk) = op.before.disk
      BY <1>1, <2>2, GuardsPutBack DEF InstallFiles
    <3>2. proc \in Child /\ proc = Spawned(Guarded(disk).managed.current, Guarded(disk))
      BY <1>1, <1>3, <3>1 DEF Spawned, Answers, InstallChild, Only, InstallFiles
    <3>3. /\ Guarded(disk).managed # None /\ Guarded(disk).cfg # None /\ op.was
          /\ Stopped(op, marks, shutting)
      BY <1>1, <3>1 DEF InstallChild, InstallFiles
    <3> QED BY <1>1, <1>3, <3>1, <3>2, <3>3, EndsRestarted
  <2> QED BY <1>1, <2>1, <2>2, Typed
<1>4. CASE Finish("partial", Guarded(disk), proc)
  BY <1>1, <1>4, GuardedPartial
<1> QED BY <1>1, <1>2, <1>3, <1>4 DEF undo_probe

LEMMA InstallBegins == ASSUME CpaInv, install_begin PROVE CpaInv'
<1> USE DEF InstallPcs, Pcs
<1>1. /\ op = NoOp /\ disk \in Disk /\ proc \in Child \cup {None} /\ Rest(disk, proc, marks)
      /\ disk.managed = None /\ disk.cfg = None /\ proc = None
      /\ UNCHANGED <<disk, proc, env, history>>
  BY DEF CpaInv, TypeInv, install_begin
<1>2. PICK k \in Keys :
        /\ disk.db # None => k = disk.db.key
        /\ op' = [NoOp EXCEPT !.kind = "install", !.pc = "download", !.key = k,
                              !.before = [disk |-> disk, proc |-> proc]]
  BY DEF install_begin
<1>3. [disk |-> disk, proc |-> proc] \in Snapshot
  BY <1>1, Snapshots
<1>4. /\ op' \in Ops /\ op'.kind = "install" /\ op'.pc = "download" /\ op'.key = k
      /\ op'.target = None /\ op'.partial = FALSE
      /\ op'.before = [disk |-> disk, proc |-> proc]
  BY <1>2, <1>3 DEF NoOp, Ops, Kinds
<1>5. op'.before.disk = disk /\ op'.before.proc = proc
  BY <1>4
<1>6. InstallFiles(op', disk)
  BY <1>1, <1>2, <1>4, <1>5 DEF InstallFiles
<1>7. InstallChild(op', disk, proc, marks, shutting)
  BY <1>4, <1>5 DEF InstallChild, Kept
<1>8. Stage(op', disk, proc, marks, shutting')
  BY <1>1, <1>4, <1>6, <1>7 DEF Stage, env
<1> QED BY <1>1, <1>4, <1>8, Begins DEF env, history

LEMMA UpdateBegins == ASSUME CpaInv, update_begin PROVE CpaInv'
<1> USE DEF InstallPcs, Pcs
<1>1. /\ op = NoOp /\ disk \in Disk /\ proc \in Child \cup {None}
      /\ disk.managed # None /\ disk.db # None /\ disk.cfg # None /\ disk.cfg.key = disk.db.key
      /\ UNCHANGED <<disk, proc, env, history>>
  BY DEF CpaInv, TypeInv, update_begin
<1>2. disk.db.key \in Keys /\ [disk |-> disk, proc |-> proc] \in Snapshot
  BY <1>1, Snapshots, DiskFields, Values
<1>3. op' = [NoOp EXCEPT !.kind = "update", !.pc = "download", !.key = disk.db.key,
                        !.before = [disk |-> disk, proc |-> proc]]
  BY DEF update_begin
<1>4. /\ op' \in Ops /\ op'.kind = "update" /\ op'.pc = "download" /\ op'.key = disk.db.key
      /\ op'.target = None /\ op'.partial = FALSE
      /\ op'.before = [disk |-> disk, proc |-> proc]
  BY <1>2, <1>3 DEF NoOp, Ops, Kinds
<1>5. op'.before.disk = disk /\ op'.before.proc = proc
  BY <1>4
<1>6. InstallFiles(op', disk)
  BY <1>1, <1>2, <1>4, <1>5 DEF InstallFiles
<1>7. InstallChild(op', disk, proc, marks, shutting)
  BY <1>4, <1>5 DEF InstallChild, Kept
<1>8. Stage(op', disk, proc, marks, shutting')
  BY <1>1, <1>4, <1>6, <1>7 DEF Stage, env
<1> QED BY <1>1, <1>4, <1>8, Begins DEF env, history

-----------------------------------------------------------------------------
(* rollback_cpa_runtime.                                                      *)

LEMMA RollbackMoves ==
  ASSUME CpaInv, op.pc \in RollbackPcs, NEW c \in RollbackPcs, Moved(op', op, c),
         disk' \in Disk, proc' \in Child \cup {None}, UNCHANGED <<env, history>>,
         RollbackFiles(op', disk'), RollbackChild(op', disk', proc', marks, shutting)
  PROVE  CpaInv'
<1>1. op.kind = "rollback" /\ op # NoOp
  BY RollbackStage, NoOpFields DEF RollbackPcs
<1>2. Stage(op', disk', proc', marks', shutting')
  BY <1>1 DEF Stage, Moved, env, history
<1> QED BY <1>1, <1>2, MovesOn DEF Moved, env, history, CpaInv, TypeInv

LEMMA RbStopKeeps == ASSUME CpaInv, rb_stop PROVE CpaInv'
<1> USE DEF RollbackPcs, Pcs
<1>1. /\ op.pc = "rb_stop" /\ op \in Ops /\ disk \in Disk /\ proc \in Child \cup {None}
      /\ proxy \in Proxies /\ op.pc \in RollbackPcs /\ op # NoOp /\ UNCHANGED env
      /\ RollbackFiles(op, disk) /\ RollbackChild(op, disk, proc, marks, shutting)
  BY Typed, RollbackStage, NoOpFields DEF rb_stop
<1>2. op.before.disk \in Disk /\ op.before.proc \in Child \cup {None}
  BY <1>1, RollbackStage, SnapshotFields
<1>3. CASE /\ op' = [op EXCEPT !.pc = "rb_config", !.was = (proc # None)]
           /\ proc' = None
           /\ UNCHANGED <<disk, history>>
  <2>1. disk' = disk
    BY <1>3 DEF history
  <2>2. /\ Moved(op', op, "rb_config")
        /\ op'.target = op.target /\ op'.was = (proc # None) /\ op'.partial = op.partial
    BY <1>1, <1>3 DEF Ops, Moved, Goto
  <2>3. proc' \in Child \cup {None}
    BY <1>1, <1>3
  <2>4. RollbackFiles(op', disk')
    BY <1>1, <1>2, <1>3, <2>1, <2>2 DEF RollbackFiles, Moved
  <2>5. RollbackChild(op', disk', proc', marks, shutting)
    BY <1>1, <1>2, <1>3, <2>1, <2>2 DEF RollbackChild, Moved, Kept, Stopped, Only, Spawned
  <2> QED BY <1>1, <1>3, <2>1, <2>2, <2>3, <2>4, <2>5, RollbackMoves
<1>4. CASE FinishUnobserved(None, {})
  <2>1. disk = op.before.disk
    BY <1>1, <1>2, SameDisk DEF RollbackFiles
  <2> QED BY <1>1, <1>4, <2>1, EndsForgotten
<1> QED BY <1>1, <1>2, <1>3, <1>4 DEF rb_stop

LEMMA RbConfigKeeps == ASSUME CpaInv, rb_config PROVE CpaInv'
<1> USE DEF RollbackPcs, Pcs
<1>1. /\ op.pc = "rb_config" /\ op \in Ops /\ disk \in Disk /\ proc \in Child \cup {None}
      /\ proxy \in Proxies /\ op.pc \in RollbackPcs /\ op # NoOp /\ UNCHANGED env
      /\ RollbackFiles(op, disk) /\ RollbackChild(op, disk, proc, marks, shutting)
  BY Typed, RollbackStage, NoOpFields DEF rb_config
<1>2. op.before.disk \in Disk /\ op.before.proc \in Child \cup {None}
  BY <1>1, RollbackStage, SnapshotFields
<1>3. CASE /\ disk' = [disk EXCEPT !.cfg = Before.prev]
           /\ Goto("rb_launch")
           /\ UNCHANGED <<proc, history>>
  <2>1. /\ disk' \in Disk /\ disk'.managed = disk.managed /\ disk'.cfg = Before.prev
        /\ disk'.prev = disk.prev /\ disk'.dirs = disk.dirs /\ disk'.db = disk.db
    <3>1. Before.prev \in Config \cup {None}
      BY <1>1, <1>2, <1>3, DiskFields DEF Before
    <3> QED BY <1>1, <1>3, <3>1, DiskWrites
  <2>2. /\ Moved(op', op, "rb_launch")
        /\ op'.target = op.target /\ op'.was = op.was /\ op'.partial = op.partial
    BY <1>1, <1>3 DEF Ops, Moved, Goto
  <2>3. proc' \in Child \cup {None}
    BY <1>1, <1>3
  <2>4. RollbackFiles(op', disk')
    BY <1>1, <1>2, <1>3, <2>1, <2>2 DEF RollbackFiles, Moved, Before
  <2>5. RollbackChild(op', disk', proc', marks, shutting)
    BY <1>1, <1>2, <1>3, <2>1, <2>2 DEF RollbackChild, Moved, Kept, Stopped, Only, Spawned
  <2> QED BY <1>1, <1>3, <2>1, <2>2, <2>3, <2>4, <2>5, RollbackMoves
<1>4. CASE /\ Goto("rb_undo")
           /\ UNCHANGED <<disk, proc, history>>
  <2>1. disk' = disk
    BY <1>4 DEF history
  <2>2. /\ Moved(op', op, "rb_undo")
        /\ op'.target = op.target /\ op'.was = op.was /\ op'.partial = op.partial
    BY <1>1, <1>4 DEF Ops, Moved, Goto
  <2>3. proc' \in Child \cup {None}
    BY <1>1, <1>4
  <2>4. RollbackFiles(op', disk')
    BY <1>1, <1>2, <1>4, <2>1, <2>2 DEF RollbackFiles, Moved
  <2>5. RollbackChild(op', disk', proc', marks, shutting)
    BY <1>1, <1>2, <1>4, <2>1, <2>2 DEF RollbackChild, Moved, Kept, Stopped, Only, Spawned
  <2> QED BY <1>1, <1>4, <2>1, <2>2, <2>3, <2>4, <2>5, RollbackMoves
<1>5. CASE /\ ~op.was
           /\ Finish("none", disk, proc)
  <2>1. disk = op.before.disk
    BY <1>1, <1>2, SameDisk DEF RollbackFiles
  <2>2. Stopped(op, marks, shutting) /\ proc = None
    BY <1>1 DEF RollbackChild
  <2> QED BY <1>1, <1>5, <2>1, <2>2, EndsStopped
<1> QED BY <1>1, <1>2, <1>3, <1>4, <1>5 DEF rb_config

LEMMA RbLaunchKeeps == ASSUME CpaInv, rb_launch PROVE CpaInv'
<1> USE DEF RollbackPcs, Pcs
<1>1. /\ op.pc = "rb_launch" /\ op \in Ops /\ disk \in Disk /\ proc \in Child \cup {None}
      /\ proxy \in Proxies /\ op.pc \in RollbackPcs /\ op # NoOp /\ UNCHANGED env
      /\ RollbackFiles(op, disk) /\ RollbackChild(op, disk, proc, marks, shutting)
  BY Typed, RollbackStage, NoOpFields DEF rb_launch
<1>2. op.before.disk \in Disk /\ op.before.proc \in Child \cup {None}
  BY <1>1, RollbackStage, SnapshotFields
<1>3. CASE /\ MaySpawn(op.target, disk)
           /\ proc' = Spawned(op.target, disk)
           /\ Goto("rb_probe")
           /\ UNCHANGED <<disk, history>>
  <2>1. disk' = disk
    BY <1>3 DEF history
  <2>2. /\ Moved(op', op, "rb_probe")
        /\ op'.target = op.target /\ op'.was = op.was /\ op'.partial = op.partial
    BY <1>1, <1>3 DEF Ops, Moved, Goto
  <2>3. proc' \in Child \cup {None}
    BY <1>1, <1>3, Values, DiskFields DEF RollbackFiles, MaySpawn, Spawned
  <2>4. RollbackFiles(op', disk')
    BY <1>1, <1>2, <1>3, <2>1, <2>2 DEF RollbackFiles, Moved
  <2>5. RollbackChild(op', disk', proc', marks, shutting)
    BY <1>1, <1>2, <1>3, <2>1, <2>2 DEF RollbackChild, Moved, Kept, Stopped, Only, Spawned
  <2> QED BY <1>1, <1>3, <2>1, <2>2, <2>3, <2>4, <2>5, RollbackMoves
<1>4. CASE /\ Goto("rb_undo")
           /\ UNCHANGED <<disk, proc, history>>
  <2>1. disk' = disk
    BY <1>4 DEF history
  <2>2. /\ Moved(op', op, "rb_undo")
        /\ op'.target = op.target /\ op'.was = op.was /\ op'.partial = op.partial
    BY <1>1, <1>4 DEF Ops, Moved, Goto
  <2>3. proc' \in Child \cup {None}
    BY <1>1, <1>4
  <2>4. RollbackFiles(op', disk')
    BY <1>1, <1>2, <1>4, <2>1, <2>2 DEF RollbackFiles, Moved
  <2>5. RollbackChild(op', disk', proc', marks, shutting)
    BY <1>1, <1>2, <1>4, <2>1, <2>2 DEF RollbackChild, Moved, Kept, Stopped, Only, Spawned
  <2> QED BY <1>1, <1>4, <2>1, <2>2, <2>3, <2>4, <2>5, RollbackMoves
<1> QED BY <1>1, <1>2, <1>3, <1>4 DEF rb_launch

LEMMA RbProbeKeeps == ASSUME CpaInv, rb_probe PROVE CpaInv'
<1> USE DEF RollbackPcs, Pcs
<1>1. /\ op.pc = "rb_probe" /\ op \in Ops /\ disk \in Disk /\ proc \in Child \cup {None}
      /\ proxy \in Proxies /\ op.pc \in RollbackPcs /\ op # NoOp /\ UNCHANGED env
      /\ RollbackFiles(op, disk) /\ RollbackChild(op, disk, proc, marks, shutting)
  BY Typed, RollbackStage, NoOpFields DEF rb_probe
<1>2. op.before.disk \in Disk /\ op.before.proc \in Child \cup {None}
  BY <1>1, RollbackStage, SnapshotFields
<1>3. CASE /\ proc' = IF op.was THEN proc ELSE None
           /\ Goto("rb_swap")
           /\ UNCHANGED <<disk, history>>
  <2>1. disk' = disk
    BY <1>3 DEF history
  <2>2. /\ Moved(op', op, "rb_swap")
        /\ op'.target = op.target /\ op'.was = op.was /\ op'.partial = op.partial
    BY <1>1, <1>3 DEF Ops, Moved, Goto
  <2>3. proc' \in Child \cup {None}
    BY <1>1, <1>3
  <2>4. RollbackFiles(op', disk')
    BY <1>1, <1>2, <1>3, <2>1, <2>2 DEF RollbackFiles, Moved
  <2>5. RollbackChild(op', disk', proc', marks, shutting)
    BY <1>1, <1>2, <1>3, <2>1, <2>2 DEF RollbackChild, Moved, Kept, Stopped, Only, Spawned
  <2> QED BY <1>1, <1>3, <2>1, <2>2, <2>3, <2>4, <2>5, RollbackMoves
<1>4. CASE /\ Goto("rb_undo")
           /\ UNCHANGED <<disk, proc, history>>
  <2>1. disk' = disk
    BY <1>4 DEF history
  <2>2. /\ Moved(op', op, "rb_undo")
        /\ op'.target = op.target /\ op'.was = op.was /\ op'.partial = op.partial
    BY <1>1, <1>4 DEF Ops, Moved, Goto
  <2>3. proc' \in Child \cup {None}
    BY <1>1, <1>4
  <2>4. RollbackFiles(op', disk')
    BY <1>1, <1>2, <1>4, <2>1, <2>2 DEF RollbackFiles, Moved
  <2>5. RollbackChild(op', disk', proc', marks, shutting)
    BY <1>1, <1>2, <1>4, <2>1, <2>2 DEF RollbackChild, Moved, Kept, Stopped, Only, Spawned
  <2> QED BY <1>1, <1>4, <2>1, <2>2, <2>3, <2>4, <2>5, RollbackMoves
<1>5. CASE /\ Goto("rb_undo")
           /\ proc' = None
           /\ UNCHANGED <<disk, history>>
  <2>1. /\ Moved(op', op, "rb_undo")
        /\ op'.target = op.target /\ op'.was = op.was /\ op'.partial = op.partial
    BY <1>1, <1>5 DEF Ops, Moved, Goto
  <2>2. RollbackFiles(op', disk')
    BY <1>1, <1>5, <2>1 DEF RollbackFiles, Moved
  <2>3. RollbackChild(op', disk', proc', marks, shutting)
    BY <1>1, <2>1 DEF RollbackChild, Moved, Stopped
  <2> QED BY <1>1, <1>5, <2>1, <2>2, <2>3, RollbackMoves
<1> QED BY <1>1, <1>2, <1>3, <1>4, <1>5 DEF rb_probe

LEMMA RbSwapKeeps == ASSUME CpaInv, rb_swap PROVE CpaInv'
<1> USE DEF RollbackPcs, Pcs
<1>1. /\ op.pc = "rb_swap" /\ op \in Ops /\ disk \in Disk /\ proc \in Child \cup {None}
      /\ proxy \in Proxies /\ op.pc \in RollbackPcs /\ op # NoOp /\ UNCHANGED env
      /\ RollbackFiles(op, disk) /\ RollbackChild(op, disk, proc, marks, shutting)
  BY Typed, RollbackStage, NoOpFields DEF rb_swap
<1>2. op.before.disk \in Disk /\ op.before.proc \in Child \cup {None}
  BY <1>1, RollbackStage, SnapshotFields
<1>3. CASE /\ disk' = [disk EXCEPT !.prev = Before.cfg]
           /\ Goto("rb_rows")
           /\ UNCHANGED <<proc, history>>
  <2>1. /\ disk' \in Disk /\ disk'.managed = disk.managed /\ disk'.cfg = disk.cfg
        /\ disk'.prev = Before.cfg /\ disk'.dirs = disk.dirs /\ disk'.db = disk.db
    <3>1. Before.cfg \in Config \cup {None}
      BY <1>1, <1>2, <1>3, DiskFields DEF Before
    <3> QED BY <1>1, <1>3, <3>1, DiskWrites
  <2>2. /\ Moved(op', op, "rb_rows")
        /\ op'.target = op.target /\ op'.was = op.was /\ op'.partial = op.partial
    BY <1>1, <1>3 DEF Ops, Moved, Goto
  <2>3. proc' \in Child \cup {None}
    BY <1>1, <1>3
  <2>4. RollbackFiles(op', disk')
    BY <1>1, <1>2, <1>3, <2>1, <2>2 DEF RollbackFiles, Moved, Before
  <2>5. RollbackChild(op', disk', proc', marks, shutting)
    BY <1>1, <1>2, <1>3, <2>1, <2>2 DEF RollbackChild, Moved, Kept, Stopped, Only, Spawned
  <2> QED BY <1>1, <1>3, <2>1, <2>2, <2>3, <2>4, <2>5, RollbackMoves
<1>4. CASE /\ Goto("rb_undo")
           /\ UNCHANGED <<disk, proc, history>>
  <2>1. disk' = disk
    BY <1>4 DEF history
  <2>2. /\ Moved(op', op, "rb_undo")
        /\ op'.target = op.target /\ op'.was = op.was /\ op'.partial = op.partial
    BY <1>1, <1>4 DEF Ops, Moved, Goto
  <2>3. proc' \in Child \cup {None}
    BY <1>1, <1>4
  <2>4. RollbackFiles(op', disk')
    BY <1>1, <1>2, <1>4, <2>1, <2>2 DEF RollbackFiles, Moved
  <2>5. RollbackChild(op', disk', proc', marks, shutting)
    BY <1>1, <1>2, <1>4, <2>1, <2>2 DEF RollbackChild, Moved, Kept, Stopped, Only, Spawned
  <2> QED BY <1>1, <1>4, <2>1, <2>2, <2>3, <2>4, <2>5, RollbackMoves
<1> QED BY <1>1, <1>2, <1>3, <1>4 DEF rb_swap

LEMMA RollbackPutBackKeeps ==
  ASSUME CpaInv, op.pc \in {"rb_rows", "rb_managed"}, NEW n, NEW rows,
         rows \subseteq {disk.db, None, Before.db}, PutBack(n, rows, "rb_undo"),
         UNCHANGED <<proc, env, history>>
  PROVE  CpaInv'
<1> USE DEF RollbackPcs, Pcs
<1>1. /\ op \in Ops /\ disk \in Disk /\ op.pc \in RollbackPcs /\ proc \in Child \cup {None}
      /\ RollbackFiles(op, disk) /\ RollbackChild(op, disk, proc, marks, shutting)
  BY Typed, RollbackStage
<1>2. op.before.disk \in Disk
  BY <1>1, RollbackStage, SnapshotFields
<1>3. /\ Before.prev \in Config \cup {None} /\ Before.db \in Row \cup {None}
      /\ disk.prev \in Config \cup {None} /\ disk.db \in Row \cup {None}
  BY <1>1, <1>2, DiskFields DEF Before
<1>4. CASE disk' = [disk EXCEPT !.db = Before.db, !.prev = Before.prev] /\ Goto("rb_undo")
  <2>1. /\ disk' \in Disk /\ disk'.managed = disk.managed /\ disk'.cfg = disk.cfg
        /\ disk'.prev = Before.prev /\ disk'.dirs = disk.dirs /\ disk'.db = Before.db
    BY <1>1, <1>3, <1>4 DEF Disk
  <2>2. /\ Moved(op', op, "rb_undo")
        /\ op'.target = op.target /\ op'.was = op.was /\ op'.partial = op.partial
    BY <1>1, <1>4 DEF Ops, Moved, Goto
  <2>3. RollbackFiles(op', disk')
    BY <1>1, <2>1, <2>2 DEF RollbackFiles, Moved, Before
  <2>4. RollbackChild(op', disk', proc', marks, shutting)
    BY <1>1, <2>1, <2>2 DEF RollbackChild, Moved, Stopped
  <2> QED BY <1>1, <2>1, <2>2, <2>3, <2>4, RollbackMoves
<1>5. CASE /\ \E r \in rows, c \in {Before.prev, disk.prev} :
                disk' = [disk EXCEPT !.db = r, !.prev = c]
           /\ op' = [op EXCEPT !.pc = "rb_undo", !.partial = TRUE]
  <2>0. PICK r \in rows, c \in {Before.prev, disk.prev} :
          disk' = [disk EXCEPT !.db = r, !.prev = c]
    BY <1>5
  <2>1. r \in Row \cup {None} /\ c \in Config \cup {None} /\ r \in {disk.db, None, Before.db}
    BY <1>3
  <2>2. /\ disk' \in Disk /\ disk'.managed = disk.managed /\ disk'.cfg = disk.cfg
        /\ disk'.prev = c /\ disk'.dirs = disk.dirs /\ disk'.db = r
    BY <1>1, <2>0, <2>1 DEF Disk
  <2>3. /\ Moved(op', op, "rb_undo")
        /\ op'.target = op.target /\ op'.was = op.was /\ op'.partial = TRUE
    BY <1>1, <1>5 DEF Ops, Moved
  <2>4. c \in {Before.prev, Before.cfg} /\ (r # None => r.key = op.key)
    BY <1>1, <2>1, Values DEF RollbackFiles, Before
  <2>5. RollbackFiles(op', disk')
    BY <1>1, <2>2, <2>3, <2>4 DEF RollbackFiles, Moved, Before
  <2>6. RollbackChild(op', disk', proc', marks, shutting)
    BY <1>1, <2>2, <2>3 DEF RollbackChild, Moved, Stopped
  <2> QED BY <1>1, <2>2, <2>3, <2>5, <2>6, RollbackMoves
<1> QED BY <1>4, <1>5 DEF PutBack

LEMMA RollbackRowsRestoredKeeps ==
  ASSUME CpaInv, op.pc \in {"rb_rows", "rb_managed"}, NEW n, RowsRestored(n, "rb_undo"),
         UNCHANGED <<proc, env, history>>
  PROVE  CpaInv'
BY RollbackPutBackKeeps DEF RowsRestored

LEMMA RbRowsKeeps == ASSUME CpaInv, rb_rows PROVE CpaInv'
<1> USE DEF RollbackPcs, Pcs
<1>1. /\ op.pc = "rb_rows" /\ op \in Ops /\ disk \in Disk /\ proc \in Child \cup {None}
      /\ proxy \in Proxies /\ op.pc \in RollbackPcs /\ op # NoOp /\ UNCHANGED env
      /\ RollbackFiles(op, disk) /\ RollbackChild(op, disk, proc, marks, shutting)
  BY Typed, RollbackStage, NoOpFields DEF rb_rows
<1>2. op.before.disk \in Disk /\ op.before.proc \in Child \cup {None}
  BY <1>1, RollbackStage, SnapshotFields
<1>3. CASE /\ disk' = [disk EXCEPT !.db = [catalog |-> op.target, key |-> op.key]]
           /\ Goto("rb_managed")
           /\ UNCHANGED <<proc, history>>
  <2>1. /\ disk' \in Disk /\ disk'.managed = disk.managed /\ disk'.cfg = disk.cfg
        /\ disk'.prev = disk.prev /\ disk'.dirs = disk.dirs /\ disk'.db = [catalog |-> op.target, key |-> op.key]
    <3>1. [catalog |-> op.target, key |-> op.key] \in Row \cup {None}
      BY <1>1, <1>2, <1>3, Values, DiskFields DEF RollbackFiles
    <3> QED BY <1>1, <1>3, <3>1, DiskWrites
  <2>2. /\ Moved(op', op, "rb_managed")
        /\ op'.target = op.target /\ op'.was = op.was /\ op'.partial = op.partial
    BY <1>1, <1>3 DEF Ops, Moved, Goto
  <2>3. proc' \in Child \cup {None}
    BY <1>1, <1>3
  <2>4. RollbackFiles(op', disk')
    BY <1>1, <1>2, <1>3, <2>1, <2>2 DEF RollbackFiles, Moved
  <2>5. RollbackChild(op', disk', proc', marks, shutting)
    BY <1>1, <1>2, <1>3, <2>1, <2>2 DEF RollbackChild, Moved, Kept, Stopped, Only, Spawned
  <2> QED BY <1>1, <1>3, <2>1, <2>2, <2>3, <2>4, <2>5, RollbackMoves
<1>4. CASE PutBack(0, {disk.db}, "rb_undo") /\ UNCHANGED <<proc, history>>
  BY <1>1, <1>4, RollbackPutBackKeeps
<1>5. CASE RowsRestored(1, "rb_undo") /\ UNCHANGED <<proc, history>>
  BY <1>1, <1>5, RollbackRowsRestoredKeeps
<1> QED BY <1>1, <1>2, <1>3, <1>4, <1>5 DEF rb_rows

LEMMA RbManagedKeeps == ASSUME CpaInv, rb_managed PROVE CpaInv'
<1> USE DEF RollbackPcs, Pcs
<1>1. /\ op.pc = "rb_managed" /\ op \in Ops /\ disk \in Disk /\ proc \in Child \cup {None}
      /\ proxy \in Proxies /\ op.pc \in RollbackPcs /\ op # NoOp /\ UNCHANGED env
      /\ RollbackFiles(op, disk) /\ RollbackChild(op, disk, proc, marks, shutting)
  BY Typed, RollbackStage, NoOpFields DEF rb_managed
<1>2. op.before.disk \in Disk /\ op.before.proc \in Child \cup {None}
  BY <1>1, RollbackStage, SnapshotFields
<1> DEFINE m == [current |-> op.target, previous |-> Before.managed.current,
                 desired |-> Before.managed.desired]
           d == [disk EXCEPT !.managed = m]
<1>3. CASE Finish("ok", d, proc)
  <2>1. /\ m \in Managed /\ m.current = op.target /\ (m.desired <=> Before.managed.desired)
        /\ m.previous = Before.managed.current
    <3>1. op.target \in Versions /\ Before.managed \in Managed
      BY <1>1, <1>2, DiskFields DEF RollbackFiles, Before
    <3> QED BY <3>1, Values
  <2> HIDE DEF m
  <2>2. /\ d \in Disk /\ d.managed = m /\ d.cfg = disk.cfg /\ d.prev = disk.prev
        /\ d.dirs = disk.dirs /\ d.db = disk.db
    BY <1>1, <2>1, DiskWrites
  <2> HIDE DEF d
  <2>3. Rest(op.before.disk, op.before.proc, marks) /\ marks' = marks
    BY <1>1, <1>3, RollbackStage DEF Finish, Marked
  <2>4. /\ m # None /\ d.cfg # None /\ d.cfg.key = op.key /\ d.db.key = op.key
        /\ d.prev = Before.cfg /\ d.prev # None /\ d.prev.key = op.key
    BY <1>1, <2>1, <2>2, Values DEF RollbackFiles, Before
  <2>5. "remove" \notin marks /\ "partial" \notin marks => Complete(d)
    BY <1>1, <2>1, <2>2, <2>3, <2>4 DEF Complete, RollbackFiles, Before, Rest
  <2>6. proc # None => op.target = proc.version /\ proc.config = disk.cfg /\ op.before.proc # None
    BY <1>1 DEF RollbackChild, Only, Spawned, Stopped
  <2>7. proc # None => proc.version = m.current /\ proc.config.key = d.db.key
    BY <2>1, <2>2, <2>4, <2>6
  <2>8. proc # None /\ marks \cap {"partial", "failed", "cancelled"} = {} => m.desired
    BY <2>1, <2>3, <2>6 DEF Rest, Before
  <2>9. Rest(d, proc, marks')
    BY <2>2, <2>3, <2>4, <2>5, <2>7, <2>8 DEF Rest, Keyed
  <2> QED BY <1>1, <1>3, <2>2, <2>9, Ends
<1>4. CASE /\ RowsRestored(1, "rb_undo")
           /\ UNCHANGED <<proc, history>>
  BY <1>1, <1>4, RollbackRowsRestoredKeeps
<1> QED BY <1>1, <1>2, <1>3, <1>4 DEF rb_managed, m, d

LEMMA RbUndoKeeps == ASSUME CpaInv, rb_undo PROVE CpaInv'
<1> USE DEF RollbackPcs, Pcs
<1>1. /\ op.pc = "rb_undo" /\ op \in Ops /\ disk \in Disk /\ proc \in Child \cup {None}
      /\ proxy \in Proxies /\ op.pc \in RollbackPcs /\ op # NoOp /\ UNCHANGED env
      /\ RollbackFiles(op, disk) /\ RollbackChild(op, disk, proc, marks, shutting)
  BY Typed, RollbackStage, NoOpFields DEF rb_undo
<1>2. op.before.disk \in Disk /\ op.before.proc \in Child \cup {None}
  BY <1>1, RollbackStage, SnapshotFields
<1> DEFINE d == [disk EXCEPT !.cfg = Before.cfg, !.managed = Before.managed]
           v == Before.managed.current
<1>a. /\ d \in Disk /\ d.managed = Before.managed /\ d.cfg = Before.cfg /\ d.prev = disk.prev
      /\ d.dirs = Before.dirs /\ d.db = disk.db /\ d.managed # None /\ d.cfg # None
  <2>1. Before.cfg \in Config \cup {None} /\ Before.managed \in Managed \cup {None}
    BY <1>2, DiskFields DEF Before
  <2>2. /\ d \in Disk /\ d.managed = Before.managed /\ d.cfg = Before.cfg /\ d.prev = disk.prev
        /\ d.dirs = disk.dirs /\ d.db = disk.db
    BY <1>1, <2>1 DEF Disk
  <2> HIDE DEF d
  <2> QED BY <1>1, <2>2 DEF RollbackFiles, Before
<1>b. MaySpawn(v, d) => Spawned(v, d) \in Child
  BY <1>a, DiskFields, Values DEF MaySpawn, Spawned
<1> HIDE DEF d, v
<1>c. op.partial = FALSE => d = op.before.disk
  BY <1>1, <1>2, <1>a, SameDisk DEF RollbackFiles, Before
<1>3. CASE /\ op.was
           /\ MaySpawn(v, d)
           /\ disk' = d
           /\ proc' = Spawned(v, d)
           /\ Goto("rb_undo_probe")
           /\ UNCHANGED history
  <2>1. /\ Moved(op', op, "rb_undo_probe")
        /\ op'.target = op.target /\ op'.was = op.was /\ op'.partial = op.partial
    BY <1>1, <1>3 DEF Ops, Moved, Goto
  <2>2. RollbackFiles(op', disk')
    BY <1>1, <1>a, <1>3, <2>1 DEF RollbackFiles, Moved, Before
  <2>3. RollbackChild(op', disk', proc', marks, shutting)
    BY <1>1, <1>3, <2>1 DEF RollbackChild, Moved, Stopped, Only, Before, v
  <2> QED BY <1>1, <1>a, <1>b, <1>3, <2>1, <2>2, <2>3, RollbackMoves
<1>4. CASE Finish("partial", d, None)
  BY <1>1, <1>a, <1>4, EndsPartial
<1>5. CASE /\ ~op.was
           /\ Finish(Effect, d, None)
  <2>1. CASE op.partial
    BY <1>1, <1>a, <1>5, <2>1, EndsPartial DEF Effect
  <2>2. CASE op.partial = FALSE
    <3>1. Stopped(op, marks, shutting)
      BY <1>1 DEF RollbackChild
    <3> QED BY <1>1, <1>a, <1>c, <1>5, <2>2, <3>1, EndsStopped
  <2> QED BY <1>1, <2>1, <2>2, Typed
<1>6. CASE \E e \in {disk, d} : Finish("partial", e, None)
  <2>1. PICK e \in {disk, d} : Finish("partial", e, None)
    BY <1>6
  <2>2. e \in Disk /\ e.managed # None
    BY <1>1, <1>a DEF RollbackFiles
  <2> QED BY <1>1, <2>1, <2>2, EndsPartial
<1> QED BY <1>1, <1>2, <1>3, <1>4, <1>5, <1>6 DEF rb_undo, d, v

LEMMA RbUndoProbeKeeps == ASSUME CpaInv, rb_undo_probe PROVE CpaInv'
<1> USE DEF RollbackPcs, Pcs
<1>1. /\ op.pc = "rb_undo_probe" /\ op \in Ops /\ disk \in Disk /\ proc \in Child \cup {None}
      /\ proxy \in Proxies /\ op.pc \in RollbackPcs /\ op # NoOp /\ UNCHANGED env
      /\ RollbackFiles(op, disk) /\ RollbackChild(op, disk, proc, marks, shutting)
  BY Typed, RollbackStage, NoOpFields DEF rb_undo_probe
<1>2. op.before.disk \in Disk /\ op.before.proc \in Child \cup {None}
  BY <1>1, RollbackStage, SnapshotFields
<1>3. CASE /\ Answers(op.key)
           /\ Finish(Effect, disk, proc)
  <2>1. CASE op.partial
    <3>1. disk.managed # None
      BY <1>1 DEF RollbackFiles
    <3> QED BY <1>1, <1>3, <2>1, <3>1, EndsPartial DEF Effect
  <2>2. CASE op.partial = FALSE
    <3>1. disk = op.before.disk
      BY <1>1, <1>2, <2>2, SameDisk DEF RollbackFiles
    <3>2. proc \in Child /\ proc = Spawned(disk.managed.current, disk)
      BY <1>1, <1>3, <3>1 DEF Answers, RollbackChild, Only
    <3>3. disk.managed # None /\ disk.cfg # None /\ op.was /\ Stopped(op, marks, shutting)
      BY <1>1 DEF RollbackChild, RollbackFiles
    <3> QED BY <1>1, <1>3, <3>1, <3>2, <3>3, EndsRestarted
  <2> QED BY <1>1, <2>1, <2>2, Typed
<1>4. CASE Finish("partial", disk, proc)
  <2>1. disk.managed # None
    BY <1>1 DEF RollbackFiles
  <2> QED BY <1>1, <1>4, <2>1, EndsPartial
<1> QED BY <1>1, <1>2, <1>3, <1>4 DEF rb_undo_probe

LEMMA RollbackBegins == ASSUME CpaInv, rollback_begin PROVE CpaInv'
<1> USE DEF RollbackPcs, Pcs
<1>1. /\ op = NoOp /\ disk \in Disk /\ proc \in Child \cup {None}
      /\ disk.managed # None /\ disk.db # None /\ disk.cfg # None /\ disk.cfg.key = disk.db.key
      /\ disk.prev # None /\ disk.prev.key = disk.db.key
      /\ disk.managed.previous # None /\ disk.managed.previous \in disk.dirs
      /\ UNCHANGED <<disk, proc, env, history>>
  BY DEF CpaInv, TypeInv, rollback_begin
<1>2. /\ disk.db.key \in Keys /\ disk.managed.previous \in Versions
      /\ [disk |-> disk, proc |-> proc] \in Snapshot
  BY <1>1, Snapshots, DiskFields, Values
<1>3. op' = [NoOp EXCEPT !.kind = "rollback", !.pc = "rb_stop", !.key = disk.db.key,
                        !.target = disk.managed.previous,
                        !.before = [disk |-> disk, proc |-> proc]]
  BY DEF rollback_begin
<1>4. /\ op' \in Ops /\ op'.kind = "rollback" /\ op'.pc = "rb_stop" /\ op'.key = disk.db.key
      /\ op'.target = disk.managed.previous /\ op'.partial = FALSE
      /\ op'.before = [disk |-> disk, proc |-> proc]
  BY <1>2, <1>3 DEF NoOp, Ops, Kinds
<1>5. op'.before.disk = disk /\ op'.before.proc = proc
  BY <1>4
<1>6. RollbackFiles(op', disk)
  BY <1>1, <1>2, <1>4, <1>5 DEF RollbackFiles
<1>7. RollbackChild(op', disk, proc, marks, shutting)
  BY <1>4, <1>5 DEF RollbackChild, Kept
<1>8. Stage(op', disk, proc, marks, shutting')
  BY <1>1, <1>4, <1>6, <1>7 DEF Stage, env
<1> QED BY <1>1, <1>4, <1>8, Begins DEF env, history

-----------------------------------------------------------------------------
(* remove_cpa_runtime.                                                        *)

LEMMA RemoveMoves ==
  ASSUME CpaInv, op.pc \in RemovePcs, NEW c \in RemovePcs, Moved(op', op, c),
         disk' \in Disk, proc' \in Child \cup {None}, UNCHANGED <<env, history>>,
         RemoveFiles(op', disk'), RemoveChild(op', disk', proc', marks, shutting)
  PROVE  CpaInv'
<1>1. op.kind = "remove" /\ op # NoOp
  BY RemoveStage, NoOpFields DEF RemovePcs
<1>2. Stage(op', disk', proc', marks', shutting')
  BY <1>1 DEF Stage, Moved, env, history
<1> QED BY <1>1, <1>2, MovesOn DEF Moved, env, history, CpaInv, TypeInv

(* A removal that stops half way says what it has already done.               *)
LEMMA RemoveGivesUp ==
  ASSUME CpaInv, op.pc \in RemovePcs, op.pc # "rm_stop", UNCHANGED env,
         NEW effect, NEW d \in Disk, d.managed = disk.managed, Finish(effect, d, proc),
         effect = "partial" \/ (d = op.before.disk /\ ~op.was)
  PROVE  CpaInv'
<1>1. /\ op # NoOp /\ d.managed # None /\ proc = None /\ Stopped(op, marks, shutting)
  BY RemoveStage, NoOpFields DEF RemoveFiles, RemoveChild, RemovePcs
<1>2. CASE effect = "partial"
  BY <1>1, <1>2, EndsPartial
<1>3. CASE d = op.before.disk /\ ~op.was
  BY <1>1, <1>3, EndsStopped
<1> QED BY <1>2, <1>3

LEMMA RmStopKeeps == ASSUME CpaInv, rm_stop PROVE CpaInv'
<1> USE DEF RemovePcs, Pcs
<1>1. /\ op.pc = "rm_stop" /\ op \in Ops /\ disk \in Disk /\ proc \in Child \cup {None}
      /\ proxy \in Proxies /\ op.pc \in RemovePcs /\ op # NoOp /\ UNCHANGED env
      /\ RemoveFiles(op, disk) /\ RemoveChild(op, disk, proc, marks, shutting)
  BY Typed, RemoveStage, NoOpFields DEF rm_stop
<1>2. op.before.disk \in Disk /\ op.before.proc \in Child \cup {None}
  BY <1>1, RemoveStage, SnapshotFields
<1>3. CASE /\ proc' = None
           /\ op' = [op EXCEPT !.pc = "rm_config", !.was = (proc # None)]
           /\ UNCHANGED <<disk, history>>
  <2>1. disk' = disk
    BY <1>3 DEF history
  <2>2. /\ Moved(op', op, "rm_config")
        /\ op'.target = op.target /\ op'.was = (proc # None) /\ op'.partial = op.partial
    BY <1>1, <1>3 DEF Ops, Moved, Goto
  <2>3. proc' \in Child \cup {None}
    BY <1>1, <1>3
  <2>4. RemoveFiles(op', disk')
    BY <1>1, <1>2, <1>3, <2>1, <2>2 DEF RemoveFiles, Moved
  <2>5. RemoveChild(op', disk', proc', marks, shutting)
    BY <1>1, <1>2, <1>3, <2>1, <2>2 DEF RemoveChild, Moved, Kept, Stopped, Only, Spawned
  <2> QED BY <1>1, <1>3, <2>1, <2>2, <2>3, <2>4, <2>5, RemoveMoves
<1>4. CASE FinishUnobserved(None, {})
  <2>1. disk = op.before.disk
    BY <1>1, <1>2, SameDisk DEF RemoveFiles
  <2> QED BY <1>1, <1>4, <2>1, EndsForgotten
<1> QED BY <1>1, <1>2, <1>3, <1>4 DEF rm_stop

LEMMA RmRefusedKeeps == ASSUME CpaInv, rm_refused PROVE CpaInv'
<1>1. op.pc \in RemovePcs /\ op.pc # "rm_stop" /\ UNCHANGED env /\ Finish(OwnSteps, disk, proc)
  BY DEF rm_refused, RemovePcs
<1>2. OwnSteps = "partial" \/ (disk = op.before.disk /\ ~op.was)
  BY DEF OwnSteps, Before
<1> QED BY <1>1, <1>2, RemoveGivesUp, Typed

LEMMA RmConfigKeeps == ASSUME CpaInv, rm_config PROVE CpaInv'
<1> USE DEF RemovePcs, Pcs
<1>1. /\ op.pc = "rm_config" /\ op \in Ops /\ disk \in Disk /\ proc \in Child \cup {None}
      /\ proxy \in Proxies /\ op.pc \in RemovePcs /\ op # NoOp /\ UNCHANGED env
      /\ RemoveFiles(op, disk) /\ RemoveChild(op, disk, proc, marks, shutting)
  BY Typed, RemoveStage, NoOpFields DEF rm_config, RemoveStep
<1>2. op.before.disk \in Disk /\ op.before.proc \in Child \cup {None}
  BY <1>1, RemoveStage, SnapshotFields
<1>3. CASE /\ disk' = [disk EXCEPT !.cfg = None]
           /\ Goto("rm_previous")
           /\ UNCHANGED <<proc, history>>
  <2>1. /\ disk' \in Disk /\ disk'.managed = disk.managed /\ disk'.cfg = None
        /\ disk'.prev = disk.prev /\ disk'.dirs = disk.dirs /\ disk'.db = disk.db
    BY <1>1, <1>3, DiskWrites
  <2>2. /\ Moved(op', op, "rm_previous")
        /\ op'.target = op.target /\ op'.was = op.was /\ op'.partial = op.partial
    BY <1>1, <1>3 DEF Ops, Moved, Goto
  <2>3. proc' \in Child \cup {None}
    BY <1>1, <1>3
  <2>4. RemoveFiles(op', disk')
    BY <1>1, <1>2, <1>3, <2>1, <2>2 DEF RemoveFiles, Moved
  <2>5. RemoveChild(op', disk', proc', marks, shutting)
    BY <1>1, <1>2, <1>3, <2>1, <2>2 DEF RemoveChild, Moved, Kept, Stopped, Only, Spawned
  <2> QED BY <1>1, <1>3, <2>1, <2>2, <2>3, <2>4, <2>5, RemoveMoves
<1>4. CASE Finish(OwnSteps, disk, proc)
  <2>1. OwnSteps = "partial" \/ (disk = op.before.disk /\ ~op.was)
    BY DEF OwnSteps, Before
  <2> QED BY <1>1, <1>4, <2>1, RemoveGivesUp
<1> QED BY <1>1, <1>2, <1>3, <1>4 DEF rm_config, RemoveStep

LEMMA RmPreviousKeeps == ASSUME CpaInv, rm_previous PROVE CpaInv'
<1> USE DEF RemovePcs, Pcs
<1>1. /\ op.pc = "rm_previous" /\ op \in Ops /\ disk \in Disk /\ proc \in Child \cup {None}
      /\ proxy \in Proxies /\ op.pc \in RemovePcs /\ op # NoOp /\ UNCHANGED env
      /\ RemoveFiles(op, disk) /\ RemoveChild(op, disk, proc, marks, shutting)
  BY Typed, RemoveStage, NoOpFields DEF rm_previous, RemoveStep
<1>2. op.before.disk \in Disk /\ op.before.proc \in Child \cup {None}
  BY <1>1, RemoveStage, SnapshotFields
<1>3. CASE /\ disk' = [disk EXCEPT !.prev = None]
           /\ Goto("rm_versions")
           /\ UNCHANGED <<proc, history>>
  <2>1. /\ disk' \in Disk /\ disk'.managed = disk.managed /\ disk'.cfg = disk.cfg
        /\ disk'.prev = None /\ disk'.dirs = disk.dirs /\ disk'.db = disk.db
    BY <1>1, <1>3, DiskWrites
  <2>2. /\ Moved(op', op, "rm_versions")
        /\ op'.target = op.target /\ op'.was = op.was /\ op'.partial = op.partial
    BY <1>1, <1>3 DEF Ops, Moved, Goto
  <2>3. proc' \in Child \cup {None}
    BY <1>1, <1>3
  <2>4. RemoveFiles(op', disk')
    BY <1>1, <1>2, <1>3, <2>1, <2>2 DEF RemoveFiles, Moved
  <2>5. RemoveChild(op', disk', proc', marks, shutting)
    BY <1>1, <1>2, <1>3, <2>1, <2>2 DEF RemoveChild, Moved, Kept, Stopped, Only, Spawned
  <2> QED BY <1>1, <1>3, <2>1, <2>2, <2>3, <2>4, <2>5, RemoveMoves
<1>4. CASE Finish(OwnSteps, disk, proc)
  <2>1. OwnSteps = "partial" \/ (disk = op.before.disk /\ ~op.was)
    BY DEF OwnSteps, Before
  <2> QED BY <1>1, <1>4, <2>1, RemoveGivesUp
<1> QED BY <1>1, <1>2, <1>3, <1>4 DEF rm_previous, RemoveStep

LEMMA RmVersionsKeeps == ASSUME CpaInv, rm_versions PROVE CpaInv'
<1> USE DEF RemovePcs, Pcs
<1>1. /\ op.pc = "rm_versions" /\ op \in Ops /\ disk \in Disk /\ proc \in Child \cup {None}
      /\ proxy \in Proxies /\ op.pc \in RemovePcs /\ op # NoOp /\ UNCHANGED env
      /\ RemoveFiles(op, disk) /\ RemoveChild(op, disk, proc, marks, shutting)
  BY Typed, RemoveStage, NoOpFields DEF rm_versions, RemoveStep
<1>2. op.before.disk \in Disk /\ op.before.proc \in Child \cup {None}
  BY <1>1, RemoveStage, SnapshotFields
<1>3. CASE /\ disk' = [disk EXCEPT !.dirs = {}]
           /\ Goto("rm_rows")
           /\ UNCHANGED <<proc, history>>
  <2>1. /\ disk' \in Disk /\ disk'.managed = disk.managed /\ disk'.cfg = disk.cfg
        /\ disk'.prev = disk.prev /\ disk'.dirs = {} /\ disk'.db = disk.db
    <3>1. {} \in SUBSET Versions
      BY <1>1, <1>2, <1>3, DiskFields
    <3> QED BY <1>1, <1>3, <3>1, DiskWrites
  <2>2. /\ Moved(op', op, "rm_rows")
        /\ op'.target = op.target /\ op'.was = op.was /\ op'.partial = op.partial
    BY <1>1, <1>3 DEF Ops, Moved, Goto
  <2>3. proc' \in Child \cup {None}
    BY <1>1, <1>3
  <2>4. RemoveFiles(op', disk')
    BY <1>1, <1>2, <1>3, <2>1, <2>2 DEF RemoveFiles, Moved
  <2>5. RemoveChild(op', disk', proc', marks, shutting)
    BY <1>1, <1>2, <1>3, <2>1, <2>2 DEF RemoveChild, Moved, Kept, Stopped, Only, Spawned
  <2> QED BY <1>1, <1>3, <2>1, <2>2, <2>3, <2>4, <2>5, RemoveMoves
<1>4. CASE Finish(OwnSteps, disk, proc)
  <2>1. OwnSteps = "partial" \/ (disk = op.before.disk /\ ~op.was)
    BY DEF OwnSteps, Before
  <2> QED BY <1>1, <1>4, <2>1, RemoveGivesUp
<1> QED BY <1>1, <1>2, <1>3, <1>4 DEF rm_versions, RemoveStep

LEMMA RmRowsKeeps == ASSUME CpaInv, rm_rows PROVE CpaInv'
<1> USE DEF RemovePcs, Pcs
<1>1. /\ op.pc = "rm_rows" /\ op \in Ops /\ disk \in Disk /\ proc \in Child \cup {None}
      /\ proxy \in Proxies /\ op.pc \in RemovePcs /\ op # NoOp /\ UNCHANGED env
      /\ RemoveFiles(op, disk) /\ RemoveChild(op, disk, proc, marks, shutting)
  BY Typed, RemoveStage, NoOpFields DEF rm_rows
<1>2. op.before.disk \in Disk /\ op.before.proc \in Child \cup {None}
  BY <1>1, RemoveStage, SnapshotFields
<1>3. CASE /\ disk' = [disk EXCEPT !.db = None]
           /\ Goto("rm_managed")
           /\ UNCHANGED <<proc, history>>
  <2>1. /\ disk' \in Disk /\ disk'.managed = disk.managed /\ disk'.cfg = disk.cfg
        /\ disk'.prev = disk.prev /\ disk'.dirs = disk.dirs /\ disk'.db = None
    BY <1>1, <1>3, DiskWrites
  <2>2. /\ Moved(op', op, "rm_managed")
        /\ op'.target = op.target /\ op'.was = op.was /\ op'.partial = op.partial
    BY <1>1, <1>3 DEF Ops, Moved, Goto
  <2>3. proc' \in Child \cup {None}
    BY <1>1, <1>3
  <2>4. RemoveFiles(op', disk')
    BY <1>1, <1>2, <1>3, <2>1, <2>2 DEF RemoveFiles, Moved
  <2>5. RemoveChild(op', disk', proc', marks, shutting)
    BY <1>1, <1>2, <1>3, <2>1, <2>2 DEF RemoveChild, Moved, Kept, Stopped, Only, Spawned
  <2> QED BY <1>1, <1>3, <2>1, <2>2, <2>3, <2>4, <2>5, RemoveMoves
<1>4. CASE \E r \in {disk.db, None} : Finish(RowsEffect(r), [disk EXCEPT !.db = r], proc)
  <2>1. PICK r \in {disk.db, None} : Finish(RowsEffect(r), [disk EXCEPT !.db = r], proc)
    BY <1>4
  <2>2. r \in Row \cup {None}
    BY <1>1, <1>2, <2>1, DiskFields DEF Before
  <2>3. [disk EXCEPT !.db = r] \in Disk /\ [disk EXCEPT !.db = r].managed = disk.managed
    BY <1>1, <2>2, DiskWrites
  <2>4. RowsEffect(r) = "partial" \/ ([disk EXCEPT !.db = r] = op.before.disk /\ ~op.was)
    BY DEF RowsEffect, Before
  <2> QED BY <1>1, <2>1, <2>3, <2>4, RemoveGivesUp
<1> QED BY <1>1, <1>2, <1>3, <1>4 DEF rm_rows

LEMMA RmManagedKeeps == ASSUME CpaInv, rm_managed PROVE CpaInv'
<1> USE DEF RemovePcs, Pcs
<1>1. /\ op.pc = "rm_managed" /\ op \in Ops /\ disk \in Disk /\ proc \in Child \cup {None}
      /\ proxy \in Proxies /\ op.pc \in RemovePcs /\ op # NoOp /\ UNCHANGED env
      /\ RemoveFiles(op, disk) /\ RemoveChild(op, disk, proc, marks, shutting)
  BY Typed, RemoveStage, NoOpFields DEF rm_managed
<1>2. op.before.disk \in Disk /\ op.before.proc \in Child \cup {None}
  BY <1>1, RemoveStage, SnapshotFields
<1>3. CASE Finish("ok", [disk EXCEPT !.managed = None], proc)
  <2> DEFINE d == [disk EXCEPT !.managed = None]
  <2>1. /\ d \in Disk /\ d.managed = None /\ d.cfg = disk.cfg /\ d.prev = disk.prev
        /\ d.dirs = disk.dirs /\ d.db = disk.db
    BY <1>1, DiskWrites
  <2>2. Finish("ok", d, proc)
    BY <1>3
  <2> HIDE DEF d
  <2>3. d.cfg = None /\ d.prev = None /\ d.dirs = {} /\ d.db = None /\ proc = None
    BY <1>1, <2>1 DEF RemoveFiles, RemoveChild
  <2>4. Rest(d, proc, marks')
    BY <2>1, <2>3 DEF Rest
  <2> QED BY <1>1, <2>1, <2>2, <2>4, Ends
<1>4. CASE \E r \in {Before.db, None} : Finish(RowsEffect(r), [disk EXCEPT !.db = r], proc)
  <2>1. PICK r \in {Before.db, None} : Finish(RowsEffect(r), [disk EXCEPT !.db = r], proc)
    BY <1>4
  <2>2. r \in Row \cup {None}
    BY <1>1, <1>2, <2>1, DiskFields DEF Before
  <2>3. [disk EXCEPT !.db = r] \in Disk /\ [disk EXCEPT !.db = r].managed = disk.managed
    BY <1>1, <2>2, DiskWrites
  <2>4. RowsEffect(r) = "partial" \/ ([disk EXCEPT !.db = r] = op.before.disk /\ ~op.was)
    BY DEF RowsEffect, Before
  <2> QED BY <1>1, <2>1, <2>3, <2>4, RemoveGivesUp
<1> QED BY <1>1, <1>2, <1>3, <1>4 DEF rm_managed

(* begin_operation records what is there.                                     *)
LEMMA Entered ==
  ASSUME CpaInv, NEW kind \in Kinds, NEW pc \in Pcs, Enter(kind, pc)
  PROVE  /\ op' \in Ops /\ op'.kind = kind /\ op'.pc = pc /\ op'.partial = FALSE
         /\ op'.before = [disk |-> disk, proc |-> proc]
         /\ op'.before.disk = disk /\ op'.before.proc = proc
         /\ op'.was = (proc # None)
<1>1. [disk |-> disk, proc |-> proc] \in Snapshot
  BY Snapshots DEF CpaInv, TypeInv
<1>2. op' = [NoOp EXCEPT !.kind = kind, !.pc = pc, !.was = (proc # None),
                         !.before = [disk |-> disk, proc |-> proc]]
  BY DEF Enter
<1>3. /\ op' \in Ops /\ op'.kind = kind /\ op'.pc = pc /\ op'.partial = FALSE
      /\ op'.before = [disk |-> disk, proc |-> proc] /\ op'.was = (proc # None)
  BY <1>1, <1>2 DEF NoOp, Ops
<1> QED BY <1>3

LEMMA RemoveBegins == ASSUME CpaInv, remove_begin PROVE CpaInv'
<1> USE DEF RemovePcs, Pcs
<1>1. op = NoOp /\ disk.managed # None /\ UNCHANGED <<disk, proc, env, history>>
  BY DEF remove_begin
<1>2. /\ op' \in Ops /\ op'.kind = "remove" /\ op'.pc = "rm_stop"
      /\ op'.before = [disk |-> disk, proc |-> proc]
      /\ op'.before.disk = disk /\ op'.before.proc = proc
  BY Entered DEF remove_begin, Kinds
<1>3. RemoveFiles(op', disk) /\ RemoveChild(op', disk, proc, marks, shutting)
  BY <1>1, <1>2 DEF RemoveFiles, RemoveChild, Kept
<1>4. Stage(op', disk, proc, marks, shutting')
  BY <1>1, <1>2, <1>3 DEF Stage, env
<1> QED BY <1>1, <1>2, <1>4, Begins DEF env, history

-----------------------------------------------------------------------------
(* start_cpa_runtime.                                                         *)

LEMMA StartStage ==
  ASSUME CpaInv, op.pc \in StartPcs, op.kind = "start"
  PROVE  /\ op.before \in Snapshot /\ Rest(op.before.disk, op.before.proc, marks)
         /\ StartFiles(op, disk) /\ StartChild(op, disk, proc, marks, shutting)
BY RunStage

LEMMA SyncStage ==
  ASSUME CpaInv, op.pc \in SyncPcs, op.kind # "start"
  PROVE  /\ op.before \in Snapshot /\ Rest(op.before.disk, op.before.proc, marks)
         /\ op.kind \in {"restore", "sync"}
         /\ SyncFiles(op, disk) /\ SyncChild(op, disk, proc, marks, shutting)
BY RunStage

LEMMA StartMoves ==
  ASSUME CpaInv, op.pc \in StartPcs, op.kind = "start", NEW c \in StartPcs, Moved(op', op, c),
         disk' \in Disk, proc' \in Child \cup {None}, UNCHANGED <<env, history>>,
         StartFiles(op', disk'), StartChild(op', disk', proc', marks, shutting)
  PROVE  CpaInv'
<1>1. op # NoOp
  BY NoOpFields
<1>2. Stage(op', disk', proc', marks', shutting')
  BY <1>1 DEF Stage, Moved, env, history
<1> QED BY <1>1, <1>2, MovesOn DEF Moved, env, history, CpaInv, TypeInv

(* The run intent is written into the manifest.                               *)
LEMMA DesiringFields ==
  ASSUME CpaInv, disk.managed # None, NEW b \in BOOLEAN
  PROVE  /\ Desiring(b) \in Disk /\ Desiring(b).managed # None
         /\ Desiring(b).managed.current = disk.managed.current
         /\ Desiring(b).managed.previous = disk.managed.previous
         /\ Desiring(b).managed.desired = b
         /\ Desiring(b).cfg = disk.cfg /\ Desiring(b).prev = disk.prev
         /\ Desiring(b).dirs = disk.dirs /\ Desiring(b).db = disk.db
         /\ disk.managed.desired = b => Desiring(b) = disk
<1>1. disk \in Disk /\ disk.managed \in Managed
  BY DiskFields DEF CpaInv, TypeInv
<1> DEFINE m == [disk.managed EXCEPT !.desired = b]
<1>2. /\ m \in Managed /\ m.current = disk.managed.current
      /\ m.previous = disk.managed.previous /\ m.desired = b
      /\ disk.managed.desired = b => m = disk.managed
  BY <1>1 DEF Managed
<1>3. Desiring(b) = [disk EXCEPT !.managed = m]
  BY <1>1 DEF Desiring
<1> HIDE DEF m
<1>4. /\ Desiring(b) \in Disk /\ Desiring(b).managed = m
      /\ Desiring(b).cfg = disk.cfg /\ Desiring(b).prev = disk.prev
      /\ Desiring(b).dirs = disk.dirs /\ Desiring(b).db = disk.db
  BY <1>1, <1>2, <1>3, DiskWrites
<1>5. disk.managed.desired = b => Desiring(b) = disk
  BY <1>1, <1>2, <1>4, SameDisk
<1> QED BY <1>2, <1>4, <1>5, Values

LEMMA OwnLaunchStarts == ASSUME CpaInv, op.kind = "start", own_launch PROVE CpaInv'
<1> USE DEF StartPcs, Pcs
<1>1. /\ op.pc = "own_launch" /\ op \in Ops /\ disk \in Disk /\ proc \in Child \cup {None}
      /\ proxy \in Proxies /\ op.pc \in StartPcs /\ op # NoOp /\ UNCHANGED env
      /\ StartFiles(op, disk) /\ StartChild(op, disk, proc, marks, shutting)
  BY Typed, StartStage, NoOpFields DEF own_launch
<1>2. op.before.disk \in Disk /\ op.before.proc \in Child \cup {None}
  BY <1>1, StartStage, SnapshotFields
<1>3. CASE /\ disk.db # None
           /\ MaySpawn(disk.managed.current, disk)
           /\ proc' = Spawned(disk.managed.current, disk)
           /\ Goto("own_probe")
           /\ UNCHANGED <<disk, history>>
  <2>1. disk' = disk
    BY <1>3 DEF history
  <2>2. /\ Moved(op', op, "own_probe")
        /\ op'.target = op.target /\ op'.was = op.was /\ op'.partial = op.partial
    BY <1>1, <1>3 DEF Ops, Moved, Goto
  <2>3. proc' \in Child \cup {None}
    BY <1>1, <1>3, Values, DiskFields DEF MaySpawn, Spawned
  <2>4. StartFiles(op', disk')
    BY <1>1, <1>2, <1>3, <2>1, <2>2 DEF StartFiles, Moved
  <2>5. StartChild(op', disk', proc', marks, shutting)
    BY <1>1, <1>2, <1>3, <2>1, <2>2 DEF StartChild, Moved, Kept, Stopped, Only, Spawned
  <2> QED BY <1>1, <1>3, <2>1, <2>2, <2>3, <2>4, <2>5, StartMoves
<1>4. CASE Finish(Failure("none"), disk, None)
  <2>1. Kept(op, None, marks, shutting) /\ disk = op.before.disk
    BY <1>1 DEF StartChild, StartFiles, Kept
  <2> QED BY <1>1, <1>4, <2>1, EndsAsFound
<1> QED BY <1>1, <1>2, <1>3, <1>4 DEF own_launch

LEMMA OwnProbeStarts == ASSUME CpaInv, op.kind = "start", own_probe PROVE CpaInv'
<1> USE DEF StartPcs, Pcs
<1>1. /\ op.pc = "own_probe" /\ op \in Ops /\ disk \in Disk /\ proc \in Child \cup {None}
      /\ proxy \in Proxies /\ op.pc \in StartPcs /\ op # NoOp /\ UNCHANGED env
      /\ StartFiles(op, disk) /\ StartChild(op, disk, proc, marks, shutting)
  BY Typed, StartStage, NoOpFields DEF own_probe
<1>2. op.before.disk \in Disk /\ op.before.proc \in Child \cup {None}
  BY <1>1, StartStage, SnapshotFields
<1>3. CASE /\ Goto("start_commit")
           /\ UNCHANGED <<disk, proc, history>>
  <2>1. disk' = disk
    BY <1>3 DEF history
  <2>2. /\ Moved(op', op, "start_commit")
        /\ op'.target = op.target /\ op'.was = op.was /\ op'.partial = op.partial
    BY <1>1, <1>3 DEF Ops, Moved, Goto
  <2>3. proc' \in Child \cup {None}
    BY <1>1, <1>3
  <2>4. StartFiles(op', disk')
    BY <1>1, <1>2, <1>3, <2>1, <2>2 DEF StartFiles, Moved
  <2>5. StartChild(op', disk', proc', marks, shutting)
    BY <1>1, <1>2, <1>3, <2>1, <2>2 DEF StartChild, Moved, Kept, Stopped, Only, Spawned
  <2> QED BY <1>1, <1>3, <2>1, <2>2, <2>3, <2>4, <2>5, StartMoves
<1>4. CASE Finish(Failure("compensated"), disk, None)
  <2>1. Kept(op, None, marks, shutting) /\ disk = op.before.disk
    BY <1>1 DEF StartChild, StartFiles, Kept
  <2> QED BY <1>1, <1>4, <2>1, EndsAsFound
<1>5. CASE \E effect \in StopEffects : Finish(Failure(effect), disk, None)
  <2>1. PICK effect \in StopEffects : Finish(Failure(effect), disk, None)
    BY <1>5
  <2>2. Kept(op, None, marks, shutting) /\ disk = op.before.disk
    BY <1>1 DEF StartChild, StartFiles, Kept
  <2> QED BY <1>1, <2>1, <2>2, EndsAsFound
<1> QED BY <1>1, <1>2, <1>3, <1>4, <1>5 DEF own_probe

LEMMA StartCommitKeeps == ASSUME CpaInv, op.kind = "start", start_commit PROVE CpaInv'
<1> USE DEF StartPcs, Pcs
<1>1. /\ op.pc = "start_commit" /\ op \in Ops /\ disk \in Disk /\ proc \in Child \cup {None}
      /\ proxy \in Proxies /\ op.pc \in StartPcs /\ op # NoOp /\ UNCHANGED env
      /\ StartFiles(op, disk) /\ StartChild(op, disk, proc, marks, shutting)
  BY Typed, StartStage, NoOpFields DEF start_commit
<1>2. op.before.disk \in Disk /\ op.before.proc \in Child \cup {None}
  BY <1>1, StartStage, SnapshotFields
<1>3. CASE Finish("ok", Desiring(TRUE), proc)
  <2>1. disk.managed # None /\ disk = op.before.disk
    BY <1>1 DEF StartFiles
  <2> DEFINE d == Desiring(TRUE)
  <2>2. /\ d \in Disk /\ d.managed # None /\ d.managed.current = disk.managed.current
        /\ d.managed.previous = disk.managed.previous /\ d.managed.desired
        /\ d.cfg = disk.cfg /\ d.prev = disk.prev /\ d.dirs = disk.dirs /\ d.db = disk.db
    BY <2>1, DesiringFields
  <2>3. Finish("ok", d, proc)
    BY <1>3
  <2> HIDE DEF d
  <2>4. Rest(disk, op.before.proc, marks) /\ marks' = marks
    BY <1>1, <2>1, <2>3, StartStage DEF Finish, Marked
  <2>5. \/ proc = None \/ proc = op.before.proc
        \/ proc.version = disk.managed.current /\ proc.config = disk.cfg /\ disk.cfg # None /\ disk.db # None
    BY <1>1, Values, CpaAssumption DEF StartChild, Kept, Only, Spawned
  <2>6. "remove" \notin marks /\ "partial" \notin marks => Complete(d)
    BY <2>1, <2>2, <2>4 DEF Rest, Complete
  <2>7. proc # None /\ marks \cap {"partial", "failed", "cancelled"} = {} =>
          proc.version = d.managed.current
    BY <2>2, <2>4, <2>5 DEF Rest
  <2>8. d.db # None /\ marks \cap {"partial", "rotate"} = {} =>
          /\ Keyed(d)
          /\ proc # None /\ marks \cap {"cancelled", "lost"} = {} => proc.config.key = d.db.key
    BY <2>2, <2>4, <2>5 DEF Rest, Keyed
  <2>9. Rest(d, proc, marks')
    BY <2>2, <2>4, <2>6, <2>7, <2>8 DEF Rest
  <2> QED BY <1>1, <2>2, <2>3, <2>9, Ends
<1>4. CASE /\ op.before.proc # None
           /\ Finish("none", disk, proc)
  <2>1. Kept(op, proc, marks, shutting) /\ disk = op.before.disk
    BY <1>1, <1>4 DEF StartChild, StartFiles
  <2> QED BY <1>1, <1>4, <2>1, EndsAsFound
<1>5. CASE /\ op.before.proc = None
           /\ Finish("compensated", disk, None)
  <2>1. Kept(op, None, marks, shutting) /\ disk = op.before.disk
    BY <1>1, <1>5 DEF StartFiles, Kept
  <2> QED BY <1>1, <1>5, <2>1, EndsAsFound
<1>6. CASE /\ op.before.proc = None
           /\ \E effect \in StopEffects : Finish(effect, disk, None)
  <2>1. PICK effect \in StopEffects : Finish(effect, disk, None)
    BY <1>6
  <2>2. Kept(op, None, marks, shutting) /\ disk = op.before.disk
    BY <1>1, <1>6 DEF StartFiles, Kept
  <2> QED BY <1>1, <2>1, <2>2, EndsAsFound
<1> QED BY <1>1, <1>2, <1>3, <1>4, <1>5, <1>6 DEF start_commit

LEMMA StartBegins == ASSUME CpaInv, start_begin PROVE CpaInv'
<1> USE DEF StartPcs, Pcs
<1>1. op = NoOp /\ disk.managed # None /\ UNCHANGED <<disk, proc, env, history>>
  BY DEF start_begin
<1>2. /\ op' \in Ops /\ op'.kind = "start"
      /\ op'.pc = IF proc = None THEN "own_launch" ELSE "start_commit"
      /\ op'.before = [disk |-> disk, proc |-> proc]
      /\ op'.before.disk = disk /\ op'.before.proc = proc
  BY Entered DEF start_begin, Kinds
<1>3. StartFiles(op', disk) /\ StartChild(op', disk, proc, marks, shutting)
  BY <1>1, <1>2 DEF StartFiles, StartChild, Kept, Only
<1>4. Stage(op', disk, proc, marks, shutting')
  BY <1>1, <1>2, <1>3 DEF Stage, env
<1> QED BY <1>1, <1>2, <1>4, Begins DEF env, history

(* stop_cpa_runtime, in one step.                                             *)
LEMMA StopKeeps == ASSUME CpaInv, stop PROVE CpaInv'
<1>1. /\ op = NoOp /\ disk.managed # None /\ Rest(disk, proc, marks)
      /\ disk \in Disk /\ proc \in Child \cup {None} /\ UNCHANGED <<op, env>>
  BY DEF CpaInv, TypeInv, stop
<1> DEFINE before == [disk |-> disk, proc |-> proc]
           Says(effect, d, p, unobserved) ==
             /\ disk' = d /\ proc' = p
             /\ last' = Report(effect, before, d, p, unobserved)
             /\ Marked(effect)
<1>3. ASSUME NEW effect, NEW d \in Disk, NEW p \in Child \cup {None},
             NEW unobserved \in BOOLEAN, Says(effect, d, p, unobserved), Rest(d, p, marks'),
             effect \in {"none", "compensated"} => d = disk /\ (p = proc \/ unobserved)
      PROVE  CpaInv'
  <2>1. FailureLeavesNoTrace'
    BY <1>3 DEF FailureLeavesNoTrace, Report
  <2>2. TypeInv'
    BY <1>1, <1>3 DEF TypeInv, CpaInv, env
  <2> QED BY <1>1, <1>3, <2>1, <2>2 DEF CpaInv
<1>4. \A effect, d, p, unobserved : Says(effect, d, p, unobserved) => Rest(disk, proc, marks')
  BY <1>1, RestGrows, MarksGrow
<1> DEFINE d == Desiring(FALSE)
<1>5. /\ d \in Disk /\ d.managed # None /\ d.managed.current = disk.managed.current
      /\ d.managed.previous = disk.managed.previous
      /\ d.cfg = disk.cfg /\ d.prev = disk.prev /\ d.dirs = disk.dirs /\ d.db = disk.db
  BY <1>1, DesiringFields
<1> HIDE DEF d, Says
<1>6. CASE Says("ok", d, None, FALSE)
  <2>1. Rest(disk, proc, marks')
    BY <1>4, <1>6
  <2>2. Rest(d, None, marks')
    BY <1>1, <1>5, <2>1 DEF Rest, Complete, Keyed
  <2> QED BY <1>3, <1>5, <1>6, <2>2
<1>7. CASE Says("none", disk, proc, FALSE)
  BY <1>1, <1>3, <1>4, <1>7
<1>8. CASE Says("partial", d, None, FALSE)
  <2>1. Rest(d, None, marks')
    BY <1>5, <1>8 DEF Rest, Says, Marked
  <2> QED BY <1>3, <1>5, <1>8, <2>1
<1>9. CASE Says("none", disk, None, TRUE)
  <2>1. Rest(disk, None, marks')
    BY <1>4, <1>9, RestWithoutChild
  <2> QED BY <1>1, <1>3, <1>9, <2>1
<1> QED BY <1>6, <1>7, <1>8, <1>9 DEF stop, Says, d

-----------------------------------------------------------------------------
(* The proxy sync, alone and in the start-up restore.                         *)

LEMMA SyncMoves ==
  ASSUME CpaInv, op.pc \in SyncPcs, op.kind # "start", NEW c \in SyncPcs, Moved(op', op, c),
         disk' \in Disk, proc' \in Child \cup {None}, UNCHANGED <<env, last>>,
         marks \subseteq marks',
         SyncFiles(op', disk'), SyncChild(op', disk', proc', marks', shutting)
  PROVE  CpaInv'
<1>1. op # NoOp /\ op.kind \in {"restore", "sync"}
  BY SyncStage, NoOpFields DEF SyncPcs
<1>2. Stage(op', disk', proc', marks', shutting')
  BY <1>1 DEF Stage, Moved, env
<1> QED BY <1>1, <1>2, MovesOn DEF Moved, env, CpaInv, TypeInv

(* Whatever the sync wrote, the next operation can start from it.             *)
LEMMA SyncLeaves ==
  ASSUME CpaInv, op.pc \in SyncPcs, op.kind # "start", NEW p \in Child \cup {None},
         \/ p = None \/ p = op.before.proc
         \/ /\ op.pc = "own_probe" /\ p = Spawned(disk.managed.current, disk)
  PROVE  Rest(disk, p, marks)
<1> DEFINE b == op.before.disk
           q == op.before.proc
<1>1. /\ Rest(b, q, marks) /\ SyncFiles(op, disk) /\ SyncChild(op, disk, proc, marks, shutting)
      /\ op.kind \in {"restore", "sync"}
  BY SyncStage
<1>2. /\ b.managed # None /\ disk.managed = b.managed /\ disk.dirs = b.dirs /\ disk.db = b.db
      /\ disk.cfg = None => b.cfg = None
      /\ disk.prev = None => b.prev = None
  BY <1>1 DEF SyncFiles
<1>3. "remove" \notin marks /\ "partial" \notin marks => Complete(disk)
  BY <1>1, <1>2 DEF Rest, Complete
<1>4. ASSUME disk.db # None, marks \cap {"partial", "rotate"} = {}
      PROVE  Keyed(disk)
  BY <1>1, <1>2, <1>4 DEF Rest, Keyed, SyncFiles
<1>5. CASE p = None
  BY <1>2, <1>3, <1>4, <1>5 DEF Rest
<1>6. CASE p = q
  <2>1. p # None /\ marks \cap {"partial", "failed", "cancelled"} = {} =>
          disk.managed.desired /\ p.version = disk.managed.current
    BY <1>1, <1>2, <1>6 DEF Rest
  <2>2. /\ disk.db # None /\ marks \cap {"partial", "rotate"} = {}
        /\ p # None /\ marks \cap {"cancelled", "lost"} = {}
        => p.config.key = disk.db.key
    BY <1>1, <1>2, <1>6 DEF Rest
  <2> QED BY <1>2, <1>3, <1>4, <2>1, <2>2 DEF Rest
<1>7. CASE op.pc = "own_probe" /\ p = Spawned(disk.managed.current, disk)
  <2>1. p.version = disk.managed.current /\ p.config = disk.cfg
    BY <1>7 DEF Spawned
  <2>2. marks \cap {"partial", "failed", "cancelled"} = {} => disk.managed.desired
    BY <1>1, <1>2, <1>7 DEF Rest, SyncChild, SyncFiles
  <2>3. CASE p # None
    <3>1. disk.cfg # None
      BY <2>1, <2>3, Values
    <3> QED BY <1>2, <1>3, <1>4, <2>1, <2>2, <3>1 DEF Rest, Keyed
  <2> QED BY <1>5, <2>3
<1> QED BY <1>5, <1>6, <1>7

LEMMA SyncEndsKeeps ==
  ASSUME CpaInv, op.pc \in {"sync_config", "sync_previous", "sync_restart"},
         NEW effect \in {"ok", "failed"}, NEW p \in {proc, None}, SyncEnds(effect, p),
         UNCHANGED env
  PROVE  CpaInv'
<1> USE DEF SyncPcs, Pcs
<1>1. /\ op \in Ops /\ disk \in Disk /\ proc \in Child \cup {None} /\ op.kind # "start"
      /\ SyncFiles(op, disk) /\ SyncChild(op, disk, proc, marks, shutting)
      /\ op.kind \in {"restore", "sync"}
  <2>1. op.kind # "start"
    BY RunStage DEF StartPcs
  <2> QED BY <2>1, Typed, SyncStage
<1>2. CASE /\ op.kind = "restore" /\ p = None /\ Goto("own_launch") /\ Marked(effect)
           /\ proc' = p /\ UNCHANGED <<disk, last>>
  <2>1. Moved(op', op, "own_launch")
    BY <1>1, <1>2 DEF Ops, Moved, Goto
  <2>2. SyncFiles(op', disk') /\ SyncChild(op', disk', proc', marks', shutting)
    BY <1>1, <1>2, <2>1 DEF SyncFiles, SyncChild, Moved
  <2>3. marks \subseteq marks'
    BY <1>2, MarksGrow
  <2> QED BY <1>1, <1>2, <2>1, <2>2, <2>3, SyncMoves
<1>3. CASE Finish(effect, disk, p)
  <2>1. p = None \/ p = op.before.proc
    BY <1>1 DEF SyncChild, Kept
  <2>2. p \in Child \cup {None} /\ Rest(disk, p, marks)
    BY <1>1, <2>1, SyncLeaves
  <2>3. Rest(disk, p, marks')
    BY <1>3, <2>2, RestGrows, MarksGrow DEF Finish
  <2> QED BY <1>1, <1>3, <2>2, <2>3, Ends
<1> QED BY <1>2, <1>3 DEF SyncEnds

LEMMA SyncIsNoStart ==
  ASSUME CpaInv, op.pc \in {"sync_config", "sync_previous", "sync_restart"}
  PROVE  op.kind # "start"
BY RunStage DEF StartPcs, SyncPcs

LEMMA SyncConfigKeeps == ASSUME CpaInv, sync_config PROVE CpaInv'
<1> USE DEF SyncPcs, Pcs
<1>1. /\ op.pc = "sync_config" /\ op \in Ops /\ disk \in Disk /\ proc \in Child \cup {None}
      /\ proxy \in Proxies /\ op.pc \in SyncPcs /\ op # NoOp /\ UNCHANGED env
      /\ SyncFiles(op, disk) /\ SyncChild(op, disk, proc, marks, shutting) /\ op.kind # "start"
  BY Typed, SyncStage, SyncIsNoStart, NoOpFields DEF sync_config
<1>2. op.before.disk \in Disk /\ op.before.proc \in Child \cup {None}
  BY <1>1, SyncStage, SnapshotFields
<1>3. CASE SyncEnds("ok", proc) \/ SyncEnds("failed", proc)
  BY <1>1, <1>3, SyncEndsKeeps
<1>4. CASE /\ disk.db # None
           /\ disk.cfg # None
           /\ disk' = [disk EXCEPT !.cfg = Rendered]
           /\ Goto("sync_previous")
           /\ UNCHANGED <<proc, history>>
  <2>1. /\ disk' \in Disk /\ disk'.managed = disk.managed /\ disk'.cfg = Rendered
        /\ disk'.prev = disk.prev /\ disk'.dirs = disk.dirs /\ disk'.db = disk.db
    <3>1. Rendered \in Config \cup {None}
      BY <1>1, <1>2, <1>4, Values, DiskFields DEF Rendered
    <3> QED BY <1>1, <1>4, <3>1, DiskWrites
  <2>2. /\ Moved(op', op, "sync_previous")
        /\ op'.target = op.target /\ op'.was = op.was /\ op'.partial = op.partial
    BY <1>1, <1>4 DEF Ops, Moved, Goto
  <2>3. proc' \in Child \cup {None}
    BY <1>1, <1>4
  <2>4. SyncFiles(op', disk')
    BY <1>1, <1>2, <1>4, <2>1, <2>2, Values, DiskFields DEF SyncFiles, Moved, Rendered
  <2>5. SyncChild(op', disk', proc', marks', shutting)
    BY <1>1, <1>2, <1>4, <2>1, <2>2 DEF SyncChild, history, Moved, Kept, Stopped, Only, Spawned
  <2> QED BY <1>1, <1>4, <2>1, <2>2, <2>3, <2>4, <2>5, SyncMoves DEF history
<1> QED BY <1>1, <1>2, <1>3, <1>4 DEF sync_config

LEMMA SyncPreviousKeeps == ASSUME CpaInv, sync_previous PROVE CpaInv'
<1> USE DEF SyncPcs, Pcs
<1>1. /\ op.pc = "sync_previous" /\ op \in Ops /\ disk \in Disk /\ proc \in Child \cup {None}
      /\ proxy \in Proxies /\ op.pc \in SyncPcs /\ op # NoOp /\ UNCHANGED env
      /\ SyncFiles(op, disk) /\ SyncChild(op, disk, proc, marks, shutting) /\ op.kind # "start"
  BY Typed, SyncStage, SyncIsNoStart, NoOpFields DEF sync_previous
<1>2. op.before.disk \in Disk /\ op.before.proc \in Child \cup {None}
  BY <1>1, SyncStage, SnapshotFields
<1>3. CASE SyncEnds("failed", proc)
  BY <1>1, <1>3, SyncEndsKeeps
<1> DEFINE e == IF disk.prev = None THEN None ELSE disk.cfg
<1>4. CASE /\ disk' = [disk EXCEPT !.prev = e]
           /\ Goto("sync_restart")
           /\ UNCHANGED <<proc, history>>
  <2>1. /\ disk' \in Disk /\ disk'.managed = disk.managed /\ disk'.cfg = disk.cfg
        /\ disk'.prev = e /\ disk'.dirs = disk.dirs /\ disk'.db = disk.db
    <3>1. e \in Config \cup {None}
      BY <1>1, <1>2, <1>4, DiskFields
    <3> QED BY <1>1, <1>4, <3>1, DiskWrites
  <2>2. /\ Moved(op', op, "sync_restart")
        /\ op'.target = op.target /\ op'.was = op.was /\ op'.partial = op.partial
    BY <1>1, <1>4 DEF Ops, Moved, Goto
  <2>3. proc' \in Child \cup {None}
    BY <1>1, <1>4
  <2>4. SyncFiles(op', disk')
    BY <1>1, <1>2, <1>4, <2>1, <2>2 DEF SyncFiles, Moved
  <2>5. SyncChild(op', disk', proc', marks', shutting)
    BY <1>1, <1>2, <1>4, <2>1, <2>2 DEF SyncChild, history, Moved, Kept, Stopped, Only, Spawned
  <2> QED BY <1>1, <1>4, <2>1, <2>2, <2>3, <2>4, <2>5, SyncMoves DEF history
<1> QED BY <1>1, <1>2, <1>3, <1>4 DEF sync_previous

LEMMA SyncRestartKeeps == ASSUME CpaInv, sync_restart PROVE CpaInv'
<1> USE DEF SyncPcs, Pcs
<1>1. /\ op.pc = "sync_restart" /\ op \in Ops /\ disk \in Disk /\ proc \in Child \cup {None}
      /\ proxy \in Proxies /\ op.pc \in SyncPcs /\ op # NoOp /\ UNCHANGED env
      /\ SyncFiles(op, disk) /\ SyncChild(op, disk, proc, marks, shutting) /\ op.kind # "start"
  BY Typed, SyncStage, SyncIsNoStart, NoOpFields DEF sync_restart
<1>2. op.before.disk \in Disk /\ op.before.proc \in Child \cup {None}
  BY <1>1, SyncStage, SnapshotFields
<1>3. CASE SyncEnds("ok", proc) \/ SyncEnds("failed", None)
  BY <1>1, <1>3, SyncEndsKeeps
<1>4. CASE /\ proc # None
           /\ proc' = None
           /\ Goto("own_launch")
           /\ UNCHANGED <<disk, history>>
  <2>1. disk' = disk
    BY <1>4 DEF history
  <2>2. /\ Moved(op', op, "own_launch")
        /\ op'.target = op.target /\ op'.was = op.was /\ op'.partial = op.partial
    BY <1>1, <1>4 DEF Ops, Moved, Goto
  <2>3. proc' \in Child \cup {None}
    BY <1>1, <1>4
  <2>4. SyncFiles(op', disk')
    BY <1>1, <1>2, <1>4, <2>1, <2>2 DEF SyncFiles, Moved
  <2>5. SyncChild(op', disk', proc', marks', shutting)
    BY <1>1, <1>2, <1>4, <2>1, <2>2 DEF SyncChild, history, Moved, Kept, Stopped, Only, Spawned
  <2> QED BY <1>1, <1>4, <2>1, <2>2, <2>3, <2>4, <2>5, SyncMoves DEF history
<1> QED BY <1>1, <1>2, <1>3, <1>4 DEF sync_restart

LEMMA OwnLaunchSyncs == ASSUME CpaInv, op.kind # "start", own_launch PROVE CpaInv'
<1> USE DEF SyncPcs, Pcs
<1>1. /\ op.pc = "own_launch" /\ op \in Ops /\ disk \in Disk /\ proc \in Child \cup {None}
      /\ proxy \in Proxies /\ op.pc \in SyncPcs /\ op # NoOp /\ UNCHANGED env
      /\ SyncFiles(op, disk) /\ SyncChild(op, disk, proc, marks, shutting)
  BY Typed, SyncStage, NoOpFields DEF own_launch
<1>2. op.before.disk \in Disk /\ op.before.proc \in Child \cup {None}
  BY <1>1, SyncStage, SnapshotFields
<1>3. CASE /\ disk.db # None
           /\ MaySpawn(disk.managed.current, disk)
           /\ proc' = Spawned(disk.managed.current, disk)
           /\ Goto("own_probe")
           /\ UNCHANGED <<disk, history>>
  <2>1. disk' = disk
    BY <1>3 DEF history
  <2>2. /\ Moved(op', op, "own_probe")
        /\ op'.target = op.target /\ op'.was = op.was /\ op'.partial = op.partial
    BY <1>1, <1>3 DEF Ops, Moved, Goto
  <2>3. proc' \in Child \cup {None}
    BY <1>1, <1>3, Values, DiskFields DEF MaySpawn, Spawned
  <2>4. SyncFiles(op', disk')
    BY <1>1, <1>2, <1>3, <2>1, <2>2 DEF SyncFiles, Moved
  <2>5. SyncChild(op', disk', proc', marks', shutting)
    BY <1>1, <1>2, <1>3, <2>1, <2>2 DEF SyncChild, history, Moved, Kept, Stopped, Only, Spawned
  <2> QED BY <1>1, <1>3, <2>1, <2>2, <2>3, <2>4, <2>5, SyncMoves DEF history
<1>4. CASE Finish(Failure("none"), disk, None)
  <2>1. Finish("failed", disk, None)
    BY <1>1, <1>4, SyncStage DEF Failure
  <2>2. Rest(disk, None, marks')
    BY <1>1, <2>1, SyncLeaves, RestGrows, MarksGrow DEF Finish
  <2> QED BY <1>1, <2>1, <2>2, Ends
<1> QED BY <1>1, <1>2, <1>3, <1>4 DEF own_launch

LEMMA OwnProbeSyncs == ASSUME CpaInv, op.kind # "start", own_probe PROVE CpaInv'
<1> USE DEF SyncPcs, Pcs
<1>1. /\ op.pc = "own_probe" /\ op \in Ops /\ disk \in Disk /\ proc \in Child \cup {None}
      /\ proxy \in Proxies /\ op.pc \in SyncPcs /\ op # NoOp /\ UNCHANGED env
      /\ SyncFiles(op, disk) /\ SyncChild(op, disk, proc, marks, shutting)
  BY Typed, SyncStage, NoOpFields DEF own_probe
<1>2. op.before.disk \in Disk /\ op.before.proc \in Child \cup {None}
  BY <1>1, SyncStage, SnapshotFields
<1>3. CASE Finish("ok", disk, proc)
  <2>1. Finish("ok", disk, proc)
    BY <1>3
  <2>2. Rest(disk, proc, marks')
    BY <1>1, <2>1, SyncLeaves, RestGrows, MarksGrow DEF Finish, SyncChild, Only
  <2> QED BY <1>1, <2>1, <2>2, Ends
<1>4. CASE Finish(Failure("compensated"), disk, None)
  <2>1. Finish("failed", disk, None)
    BY <1>1, <1>4, SyncStage DEF Failure
  <2>2. Rest(disk, None, marks')
    BY <1>1, <2>1, SyncLeaves, RestGrows, MarksGrow DEF Finish
  <2> QED BY <1>1, <2>1, <2>2, Ends
<1>5. CASE \E effect \in StopEffects : Finish(Failure(effect), disk, None)
  <2>1. Finish("failed", disk, None)
    BY <1>1, <1>5, SyncStage DEF Failure
  <2>2. Rest(disk, None, marks')
    BY <1>1, <2>1, SyncLeaves, RestGrows, MarksGrow DEF Finish
  <2> QED BY <1>1, <2>1, <2>2, Ends
<1> QED BY <1>1, <1>2, <1>3, <1>4, <1>5 DEF own_probe

LEMMA SyncEnters ==
  ASSUME CpaInv, op = NoOp, disk.managed # None, NEW kind \in {"restore", "sync"},
         kind = "restore" => disk.managed.desired,
         Enter(kind, "sync_config"), UNCHANGED <<disk, proc, proxy, shutting, history>>
  PROVE  CpaInv'
<1> USE DEF SyncPcs, Pcs
<1>1. /\ op' \in Ops /\ op'.kind = kind /\ op'.pc = "sync_config"
      /\ op'.before = [disk |-> disk, proc |-> proc]
      /\ op'.before.disk = disk /\ op'.before.proc = proc
  BY Entered DEF Kinds
<1>2. SyncFiles(op', disk) /\ SyncChild(op', disk, proc, marks, shutting)
  BY <1>1 DEF SyncFiles, SyncChild, Kept
<1>3. Stage(op', disk, proc, marks, shutting')
  BY <1>1, <1>2 DEF Stage
<1> QED BY <1>1, <1>3, Begins DEF history

LEMMA RestoreBegins == ASSUME CpaInv, restore_begin PROVE CpaInv'
<1>1. CASE disk.managed # None /\ disk.managed.desired
  BY <1>1, SyncEnters DEF restore_begin
<1>2. CASE UNCHANGED op
  BY <1>2 DEF restore_begin, CpaInv, TypeInv, FailureLeavesNoTrace, history
<1> QED BY <1>1, <1>2 DEF restore_begin

LEMMA SyncBegins == ASSUME CpaInv, sync_begin PROVE CpaInv'
<1>1. CASE disk.managed # None
  BY <1>1, SyncEnters DEF sync_begin
<1>2. CASE UNCHANGED op
  BY <1>2 DEF sync_begin, CpaInv, TypeInv, FailureLeavesNoTrace, history
<1> QED BY <1>1, <1>2 DEF sync_begin

-----------------------------------------------------------------------------
(* rotate_cpa_runtime_key.                                                    *)

LEMMA RotateMoves ==
  ASSUME CpaInv, op.pc \in RotatePcs, NEW c \in RotatePcs, Moved(op', op, c),
         disk' \in Disk, proc' \in Child \cup {None}, UNCHANGED <<env, history>>,
         RotateFiles(op', disk'), RotateChild(op', disk', proc', marks, shutting)
  PROVE  CpaInv'
<1>1. op.kind = "rotate" /\ op # NoOp
  BY RotateStage, NoOpFields DEF RotatePcs
<1>2. Stage(op', disk', proc', marks', shutting')
  BY <1>1 DEF Stage, Moved, env, history
<1> QED BY <1>1, <1>2, MovesOn DEF Moved, env, history, CpaInv, TypeInv

(* The child is told a key, and told its old key again.                       *)
LEMMA ChildKeyTyped ==
  ASSUME CpaInv, NEW k \in Keys
  PROVE  ChildKey(k) \in Child \cup {None}
BY Values DEF ChildKey, CpaInv, TypeInv

LEMMA ToldAgain ==
  \A q \in Child, k \in Keys :
    [[q EXCEPT !.config.key = k] EXCEPT !.config.key = q.config.key] = q
BY DEF Child, Config

(* The compensation of a rotation: the files as found, the old key back.      *)
LEMMA OldKeyBack ==
  ASSUME CpaInv, op.pc \in {"key_check", "key_undo"}, op.was, UNCHANGED env,
         NEW d \in Disk, d = op.before.disk,
         Finish(Back(proc), d, OldChild)
  PROVE  CpaInv'
<1>1. /\ op # NoOp /\ op.before \in Snapshot /\ proc \in Child \cup {None}
      /\ RotateFiles(op, disk) /\ RotateChild(op, disk, proc, marks, shutting)
  BY RotateStage, Typed, NoOpFields DEF RotatePcs
<1>2. op.before.proc \in Child /\ op.key \in Keys /\ d.managed # None
  BY <1>1, SnapshotFields DEF RotateChild, RotateFiles
<1>3. CASE proc = None
  <2>1. Finish("partial", d, None)
    BY <1>3 DEF Back, OldChild, ChildKey
  <2> QED BY <1>2, <2>1, EndsPartial
<1>4. CASE proc # None
  <2>1. proc = [op.before.proc EXCEPT !.config.key = op.key]
    BY <1>1, <1>4 DEF RotateChild
  <2>2. OldChild = op.before.proc
    BY <1>2, <1>4, <2>1, ToldAgain DEF OldChild, ChildKey
  <2>3. Kept(op, OldChild, marks, shutting)
    BY <2>2 DEF Kept
  <2> QED BY <1>1, <1>2, <2>2, <2>3, EndsAsFound
<1> QED BY <1>3, <1>4

LEMMA KeyUpstreamKeeps == ASSUME CpaInv, key_upstream PROVE CpaInv'
<1> USE DEF RotatePcs, Pcs
<1>1. /\ op.pc = "key_upstream" /\ op \in Ops /\ disk \in Disk /\ proc \in Child \cup {None}
      /\ proxy \in Proxies /\ op.pc \in RotatePcs /\ op # NoOp /\ UNCHANGED env
      /\ RotateFiles(op, disk) /\ RotateChild(op, disk, proc, marks, shutting)
  BY Typed, RotateStage, NoOpFields DEF key_upstream
<1>2. op.before.disk \in Disk /\ op.before.proc \in Child \cup {None}
  BY <1>1, RotateStage, SnapshotFields
<1>a. op.key \in Keys
  BY <1>1 DEF RotateFiles
<1>3. CASE /\ proc # None
           /\ proc' = ChildKey(op.key)
           /\ Goto("key_check")
           /\ UNCHANGED <<disk, history>>
  <2>1. disk' = disk
    BY <1>3 DEF history
  <2>2. /\ Moved(op', op, "key_check")
        /\ op'.target = op.target /\ op'.was = op.was /\ op'.partial = op.partial
    BY <1>1, <1>3 DEF Ops, Moved, Goto
  <2>3. proc' \in Child \cup {None}
    BY <1>1, <1>3, <1>a, ChildKeyTyped
  <2>4. RotateFiles(op', disk')
    BY <1>1, <1>2, <1>3, <2>1, <2>2 DEF RotateFiles, Moved
  <2>5. RotateChild(op', disk', proc', marks, shutting)
    BY <1>1, <1>2, <1>3, <2>1, <2>2 DEF RotateChild, Moved, Kept, Stopped, Only, Spawned, ChildKey
  <2> QED BY <1>1, <1>3, <2>1, <2>2, <2>3, <2>4, <2>5, RotateMoves
<1>4. CASE Finish("none", disk, proc)
  <2>1. Kept(op, proc, marks, shutting) /\ disk = op.before.disk
    BY <1>1 DEF RotateChild, RotateFiles
  <2> QED BY <1>1, <1>4, <2>1, EndsAsFound
<1>5. CASE proc # None /\ FinishUnobserved(ChildKey(op.key), {"lost"})
  <2>1. /\ proc \in Child /\ ChildKey(op.key) \in Child \cup {None}
        /\ ChildKey(op.key).version = proc.version
    BY <1>1, <1>5, <1>a, ChildKeyTyped, Values DEF ChildKey
  <2>2. disk = op.before.disk /\ proc = op.before.proc /\ Rest(disk, proc, marks)
    BY <1>1, <1>5, RotateStage DEF RotateFiles, RotateChild, Kept
  <2>3. marks' = marks \cup {"lost"}
    BY <1>5 DEF FinishUnobserved
  <2>4. Rest(disk, ChildKey(op.key), marks')
    BY <1>5, <2>1, <2>2, <2>3 DEF Rest
  <2> QED BY <1>1, <1>5, <2>1, <2>2, <2>4, EndsUnobserved
<1> QED BY <1>1, <1>2, <1>3, <1>4, <1>5 DEF key_upstream

LEMMA KeyCheckKeeps == ASSUME CpaInv, key_check PROVE CpaInv'
<1> USE DEF RotatePcs, Pcs
<1>1. /\ op.pc = "key_check" /\ op \in Ops /\ disk \in Disk /\ proc \in Child \cup {None}
      /\ proxy \in Proxies /\ op.pc \in RotatePcs /\ op # NoOp /\ UNCHANGED env
      /\ RotateFiles(op, disk) /\ RotateChild(op, disk, proc, marks, shutting)
  BY Typed, RotateStage, NoOpFields DEF key_check
<1>2. op.before.disk \in Disk /\ op.before.proc \in Child \cup {None}
  BY <1>1, RotateStage, SnapshotFields
<1>3. CASE /\ Goto("key_config")
           /\ UNCHANGED <<disk, proc, history>>
  <2>1. disk' = disk
    BY <1>3 DEF history
  <2>2. /\ Moved(op', op, "key_config")
        /\ op'.target = op.target /\ op'.was = op.was /\ op'.partial = op.partial
    BY <1>1, <1>3 DEF Ops, Moved, Goto
  <2>3. proc' \in Child \cup {None}
    BY <1>1, <1>3
  <2>4. RotateFiles(op', disk')
    BY <1>1, <1>2, <1>3, <2>1, <2>2 DEF RotateFiles, Moved
  <2>5. RotateChild(op', disk', proc', marks, shutting)
    BY <1>1, <1>2, <1>3, <2>1, <2>2 DEF RotateChild, Moved, Kept, Stopped, Only, Spawned
  <2> QED BY <1>1, <1>3, <2>1, <2>2, <2>3, <2>4, <2>5, RotateMoves
<1>4. CASE Finish(Back(proc), disk, OldChild)
  <2>1. disk = op.before.disk
    BY <1>1 DEF RotateFiles
  <2>2. CASE op.was
    BY <1>1, <1>4, <2>1, <2>2, OldKeyBack
  <2>3. CASE ~op.was
    <3>1. proc = None /\ disk.managed # None
      BY <1>1, <2>3 DEF RotateChild, RotateFiles
    <3>2. Finish("partial", disk, None)
      BY <1>4, <2>3, <3>1 DEF Back, OldChild
    <3> QED BY <1>1, <3>1, <3>2, EndsPartial
  <2> QED BY <2>2, <2>3
<1>5. CASE Finish("partial", disk, proc)
  <2>1. disk.managed # None
    BY <1>1 DEF RotateFiles
  <2> QED BY <1>1, <1>5, <2>1, EndsPartial
<1> QED BY <1>1, <1>2, <1>3, <1>4, <1>5 DEF key_check

LEMMA KeyConfigKeeps == ASSUME CpaInv, key_config PROVE CpaInv'
<1> USE DEF RotatePcs, Pcs
<1>1. /\ op.pc = "key_config" /\ op \in Ops /\ disk \in Disk /\ proc \in Child \cup {None}
      /\ proxy \in Proxies /\ op.pc \in RotatePcs /\ op # NoOp /\ UNCHANGED env
      /\ RotateFiles(op, disk) /\ RotateChild(op, disk, proc, marks, shutting)
  BY Typed, RotateStage, NoOpFields DEF key_config
<1>2. op.before.disk \in Disk /\ op.before.proc \in Child \cup {None}
  BY <1>1, RotateStage, SnapshotFields
<1>3. CASE /\ disk' = [disk EXCEPT !.cfg = [proxy |-> proxy, key |-> op.key]]
           /\ Goto("key_previous")
           /\ UNCHANGED <<proc, history>>
  <2>1. /\ disk' \in Disk /\ disk'.managed = disk.managed /\ disk'.cfg = [proxy |-> proxy, key |-> op.key]
        /\ disk'.prev = disk.prev /\ disk'.dirs = disk.dirs /\ disk'.db = disk.db
    <3>1. [proxy |-> proxy, key |-> op.key] \in Config \cup {None}
      BY <1>1, <1>2, <1>3, Values DEF RotateFiles
    <3> QED BY <1>1, <1>3, <3>1, DiskWrites
  <2>2. /\ Moved(op', op, "key_previous")
        /\ op'.target = op.target /\ op'.was = op.was /\ op'.partial = op.partial
    BY <1>1, <1>3 DEF Ops, Moved, Goto
  <2>3. proc' \in Child \cup {None}
    BY <1>1, <1>3
  <2>4. RotateFiles(op', disk')
    BY <1>1, <1>2, <1>3, <2>1, <2>2, Values DEF RotateFiles, Moved
  <2>5. RotateChild(op', disk', proc', marks, shutting)
    BY <1>1, <1>2, <1>3, <2>1, <2>2 DEF RotateChild, Moved, Kept, Stopped, Only, Spawned
  <2> QED BY <1>1, <1>3, <2>1, <2>2, <2>3, <2>4, <2>5, RotateMoves
<1>4. CASE /\ Goto("key_undo")
           /\ UNCHANGED <<disk, proc, history>>
  <2>1. disk' = disk
    BY <1>4 DEF history
  <2>2. /\ Moved(op', op, "key_undo")
        /\ op'.target = op.target /\ op'.was = op.was /\ op'.partial = op.partial
    BY <1>1, <1>4 DEF Ops, Moved, Goto
  <2>3. proc' \in Child \cup {None}
    BY <1>1, <1>4
  <2>4. RotateFiles(op', disk')
    BY <1>1, <1>2, <1>4, <2>1, <2>2 DEF RotateFiles, Moved
  <2>5. RotateChild(op', disk', proc', marks, shutting)
    BY <1>1, <1>2, <1>4, <2>1, <2>2 DEF RotateChild, Moved, Kept, Stopped, Only, Spawned
  <2> QED BY <1>1, <1>4, <2>1, <2>2, <2>3, <2>4, <2>5, RotateMoves
<1> QED BY <1>1, <1>2, <1>3, <1>4 DEF key_config

LEMMA KeyPreviousKeeps == ASSUME CpaInv, key_previous PROVE CpaInv'
<1> USE DEF RotatePcs, Pcs
<1>1. /\ op.pc = "key_previous" /\ op \in Ops /\ disk \in Disk /\ proc \in Child \cup {None}
      /\ proxy \in Proxies /\ op.pc \in RotatePcs /\ op # NoOp /\ UNCHANGED env
      /\ RotateFiles(op, disk) /\ RotateChild(op, disk, proc, marks, shutting)
  BY Typed, RotateStage, NoOpFields DEF key_previous
<1>2. op.before.disk \in Disk /\ op.before.proc \in Child \cup {None}
  BY <1>1, RotateStage, SnapshotFields
<1> DEFINE e == IF disk.prev = None THEN None ELSE disk.cfg
<1>3. CASE /\ disk' = [disk EXCEPT !.prev = e]
           /\ Goto("key_row")
           /\ UNCHANGED <<proc, history>>
  <2>1. /\ disk' \in Disk /\ disk'.managed = disk.managed /\ disk'.cfg = disk.cfg
        /\ disk'.prev = e /\ disk'.dirs = disk.dirs /\ disk'.db = disk.db
    <3>1. e \in Config \cup {None}
      BY <1>1, <1>2, <1>3, DiskFields
    <3> QED BY <1>1, <1>3, <3>1, DiskWrites
  <2>2. /\ Moved(op', op, "key_row")
        /\ op'.target = op.target /\ op'.was = op.was /\ op'.partial = op.partial
    BY <1>1, <1>3 DEF Ops, Moved, Goto
  <2>3. proc' \in Child \cup {None}
    BY <1>1, <1>3
  <2>4. RotateFiles(op', disk')
    BY <1>1, <1>2, <1>3, <2>1, <2>2 DEF RotateFiles, Moved
  <2>5. RotateChild(op', disk', proc', marks, shutting)
    BY <1>1, <1>2, <1>3, <2>1, <2>2 DEF RotateChild, Moved, Kept, Stopped, Only, Spawned
  <2> QED BY <1>1, <1>3, <2>1, <2>2, <2>3, <2>4, <2>5, RotateMoves
<1>4. CASE /\ Goto("key_undo")
           /\ UNCHANGED <<disk, proc, history>>
  <2>1. disk' = disk
    BY <1>4 DEF history
  <2>2. /\ Moved(op', op, "key_undo")
        /\ op'.target = op.target /\ op'.was = op.was /\ op'.partial = op.partial
    BY <1>1, <1>4 DEF Ops, Moved, Goto
  <2>3. proc' \in Child \cup {None}
    BY <1>1, <1>4
  <2>4. RotateFiles(op', disk')
    BY <1>1, <1>2, <1>4, <2>1, <2>2 DEF RotateFiles, Moved
  <2>5. RotateChild(op', disk', proc', marks, shutting)
    BY <1>1, <1>2, <1>4, <2>1, <2>2 DEF RotateChild, Moved, Kept, Stopped, Only, Spawned
  <2> QED BY <1>1, <1>4, <2>1, <2>2, <2>3, <2>4, <2>5, RotateMoves
<1> QED BY <1>1, <1>2, <1>3, <1>4 DEF key_previous

LEMMA KeyRowKeeps == ASSUME CpaInv, key_row PROVE CpaInv'
<1> USE DEF RotatePcs, Pcs
<1>1. /\ op.pc = "key_row" /\ op \in Ops /\ disk \in Disk /\ proc \in Child \cup {None}
      /\ proxy \in Proxies /\ op.pc \in RotatePcs /\ op # NoOp /\ UNCHANGED env
      /\ RotateFiles(op, disk) /\ RotateChild(op, disk, proc, marks, shutting)
  BY Typed, RotateStage, NoOpFields DEF key_row
<1>2. op.before.disk \in Disk /\ op.before.proc \in Child \cup {None}
  BY <1>1, RotateStage, SnapshotFields
<1> DEFINE d == [disk EXCEPT !.db.key = op.key]
<1>3. CASE Finish("ok", d, proc)
  <2>1. disk.db \in Row /\ op.key \in Keys
    BY <1>1, DiskFields DEF RotateFiles
  <2>2. /\ [disk.db EXCEPT !.key = op.key] \in Row
        /\ [disk.db EXCEPT !.key = op.key].key = op.key
    BY <2>1 DEF Row
  <2>3. d = [disk EXCEPT !.db = [disk.db EXCEPT !.key = op.key]]
    BY <1>1 DEF Disk
  <2> HIDE DEF d
  <2>4. /\ d \in Disk /\ d.managed = disk.managed /\ d.cfg = disk.cfg /\ d.prev = disk.prev
        /\ d.dirs = disk.dirs /\ d.db = [disk.db EXCEPT !.key = op.key]
    BY <1>1, <2>2, <2>3, DiskWrites
  <2>5. d.db.key = op.key
    BY <2>2, <2>4
  <2>6. Rest(op.before.disk, op.before.proc, marks) /\ marks' = marks
    BY <1>1, <1>3, RotateStage DEF Finish, Marked
  <2>7. d.managed # None /\ ("remove" \notin marks /\ "partial" \notin marks => Complete(d))
    BY <1>1, <2>4, <2>6 DEF RotateFiles, Rest, Complete
  <2>8. Keyed(d)
    BY <1>1, <2>4, <2>5 DEF RotateFiles, Keyed
  <2>9. ASSUME proc # None
        PROVE  proc.config.key = op.key /\ proc.version = op.before.proc.version /\ op.before.proc # None
    <3>1. op.before.proc \in Child /\ proc = [op.before.proc EXCEPT !.config.key = op.key]
      BY <1>1, <1>2, <2>9 DEF RotateChild
    <3>2. op.before.proc # None
      BY <3>1, Values
    <3> QED BY <2>1, <3>1, <3>2, Values
  <2>10. Rest(d, proc, marks')
    BY <1>1, <2>4, <2>5, <2>6, <2>7, <2>8, <2>9 DEF Rest, RotateFiles
  <2> QED BY <1>1, <1>3, <2>4, <2>10, Ends
<1>4. CASE /\ Goto("key_undo")
           /\ UNCHANGED <<disk, proc, history>>
  <2>1. disk' = disk
    BY <1>4 DEF history
  <2>2. /\ Moved(op', op, "key_undo")
        /\ op'.target = op.target /\ op'.was = op.was /\ op'.partial = op.partial
    BY <1>1, <1>4 DEF Ops, Moved, Goto
  <2>3. proc' \in Child \cup {None}
    BY <1>1, <1>4
  <2>4. RotateFiles(op', disk')
    BY <1>1, <1>2, <1>4, <2>1, <2>2 DEF RotateFiles, Moved
  <2>5. RotateChild(op', disk', proc', marks, shutting)
    BY <1>1, <1>2, <1>4, <2>1, <2>2 DEF RotateChild, Moved, Kept, Stopped, Only, Spawned
  <2> QED BY <1>1, <1>4, <2>1, <2>2, <2>3, <2>4, <2>5, RotateMoves
<1> QED BY <1>1, <1>2, <1>3, <1>4 DEF key_row, d

LEMMA KeyUndoKeeps == ASSUME CpaInv, key_undo PROVE CpaInv'
<1> USE DEF RotatePcs, Pcs
<1>1. /\ op.pc = "key_undo" /\ op \in Ops /\ disk \in Disk /\ proc \in Child \cup {None}
      /\ proxy \in Proxies /\ op.pc \in RotatePcs /\ op # NoOp /\ UNCHANGED env
      /\ RotateFiles(op, disk) /\ RotateChild(op, disk, proc, marks, shutting)
  BY Typed, RotateStage, NoOpFields DEF key_undo
<1>2. op.before.disk \in Disk /\ op.before.proc \in Child \cup {None}
  BY <1>1, RotateStage, SnapshotFields
<1>a. /\ ~op.was => proc = None /\ op.before.proc = None
      /\ Before = op.before.disk /\ Before.managed # None /\ disk.managed # None
  BY <1>1, OpFields DEF RotateChild, RotateFiles, Before
<1>b. ~op.was => Kept(op, proc, marks, shutting)
  BY <1>a DEF Kept
<1>3. CASE /\ ~op.was
           /\ Finish(IF disk = Before THEN "none" ELSE "compensated", Before, proc)
  BY <1>1, <1>2, <1>a, <1>b, <1>3, EndsAsFound
<1>4. CASE /\ op.was
           /\ Finish(Back(proc), Before, OldChild)
  BY <1>1, <1>2, <1>a, <1>4, OldKeyBack
<1>5. CASE ~op.was /\ disk = Before /\ Finish("none", disk, proc)
  BY <1>1, <1>a, <1>b, <1>5, EndsAsFound
<1>6. CASE \E c \in {disk.cfg, Before.cfg}, q \in {disk.prev, Before.prev},
              p \in {proc, OldChild} :
             Finish("partial", [disk EXCEPT !.cfg = c, !.prev = q], p)
  <2>1. PICK c \in {disk.cfg, Before.cfg}, q \in {disk.prev, Before.prev},
             p \in {proc, OldChild} :
          Finish("partial", [disk EXCEPT !.cfg = c, !.prev = q], p)
    BY <1>6
  <2>2. c \in Config \cup {None} /\ q \in Config \cup {None}
    BY <1>1, <1>2, <1>a, DiskFields
  <2> DEFINE d == [disk EXCEPT !.cfg = c, !.prev = q]
  <2>3. d \in Disk /\ d.managed = disk.managed
    BY <1>1, <2>2 DEF Disk
  <2>4. Finish("partial", d, p)
    BY <2>1
  <2> HIDE DEF d
  <2>5. op.was => op.before.proc.config.key \in Keys
    BY <1>1, <1>2, Values DEF RotateChild
  <2>6. OldChild \in Child \cup {None}
    BY <1>1, <2>5, ChildKeyTyped DEF OldChild
  <2> QED BY <1>1, <1>a, <2>3, <2>4, <2>6, EndsPartial
<1> QED BY <1>1, <1>2, <1>3, <1>4, <1>5, <1>6 DEF key_undo

LEMMA RotateBegins == ASSUME CpaInv, rotate_begin PROVE CpaInv'
<1> USE DEF RotatePcs, Pcs
<1>1. /\ op = NoOp /\ disk \in Disk /\ proc \in Child \cup {None}
      /\ disk.managed # None /\ disk.db # None /\ disk.cfg # None /\ disk.cfg.key = disk.db.key
      /\ UNCHANGED <<disk, proc, env, history>>
  BY DEF CpaInv, TypeInv, rotate_begin
<1>2. [disk |-> disk, proc |-> proc] \in Snapshot
  BY <1>1, Snapshots
<1>3. PICK k \in Keys :
        op' = [NoOp EXCEPT !.kind = "rotate", !.was = (proc # None), !.key = k,
                           !.pc = IF proc = None THEN "key_config" ELSE "key_upstream",
                           !.before = [disk |-> disk, proc |-> proc]]
  BY DEF rotate_begin
<1>4. /\ op' \in Ops /\ op'.kind = "rotate" /\ op'.key = k /\ op'.was = (proc # None)
      /\ op'.pc = IF proc = None THEN "key_config" ELSE "key_upstream"
      /\ op'.before = [disk |-> disk, proc |-> proc]
  BY <1>2, <1>3 DEF NoOp, Ops, Kinds
<1>5. op'.before.disk = disk /\ op'.before.proc = proc
  BY <1>4
<1>6. RotateFiles(op', disk)
  BY <1>1, <1>4, <1>5 DEF RotateFiles
<1>7. RotateChild(op', disk, proc, marks, shutting)
  BY <1>4, <1>5 DEF RotateChild, Kept
<1>8. Stage(op', disk, proc, marks, shutting')
  BY <1>1, <1>4, <1>6, <1>7 DEF Stage, env
<1> QED BY <1>1, <1>4, <1>8, Begins DEF env, history

-----------------------------------------------------------------------------
(* What happens around the operations.                                        *)

(* A dropped request and the end of the process leave a disk that the next    *)
(* operation can start from, whatever the operation was doing.                *)
LEMMA InstallInterrupted ==
  ASSUME CpaInv, op.pc \in InstallPcs
  PROVE  Rest(disk, None, marks \cup {op.kind})
<1> DEFINE b == op.before.disk
<1>1. /\ Rest(b, op.before.proc, marks) /\ InstallFiles(op, disk)
      /\ op.kind \in {"install", "update"}
  BY InstallStage
<1>2. disk.managed = None => disk.prev = None /\ op.kind = "install"
  BY <1>1 DEF InstallFiles, Rest
<1>3. /\ disk.managed # None =>
           /\ disk.managed = b.managed /\ b.dirs \subseteq disk.dirs /\ disk.cfg # None
           /\ disk.prev = b.prev \/ (disk.prev = b.cfg /\ b.cfg # None)
  BY <1>1 DEF InstallFiles
<1>4. disk.managed # None /\ "remove" \notin marks /\ "partial" \notin marks => Complete(disk)
  BY <1>1, <1>3 DEF Rest, Complete
<1>5. ASSUME disk.db # None, marks \cap {"partial", "rotate"} = {}
      PROVE  Keyed(disk)
  <2>1. disk.db.key = op.key
    BY <1>1, <1>5 DEF InstallFiles
  <2>2. disk.cfg # None => disk.cfg.key = op.key
    BY <1>1 DEF InstallFiles
  <2>3. disk.prev # None => disk.prev.key = op.key
    BY <1>1, <1>2, <1>5 DEF InstallFiles, Rest, Keyed
  <2> QED BY <2>1, <2>2, <2>3 DEF Keyed
<1> QED BY <1>1, <1>2, <1>4, <1>5 DEF Rest

LEMMA RollbackInterrupted ==
  ASSUME CpaInv, op.pc \in RollbackPcs
  PROVE  Rest(disk, None, marks)
<1> DEFINE b == op.before.disk
<1>1. Rest(b, op.before.proc, marks) /\ RollbackFiles(op, disk)
  BY RollbackStage
<1>2. /\ disk.managed # None /\ disk.managed = b.managed /\ disk.dirs = b.dirs
      /\ disk.cfg # None /\ disk.cfg.key = op.key
      /\ disk.prev # None /\ disk.prev.key = op.key
      /\ disk.db # None => disk.db.key = op.key
  BY <1>1 DEF RollbackFiles
<1>3. "remove" \notin marks /\ "partial" \notin marks => Complete(disk)
  BY <1>1, <1>2 DEF Rest, Complete
<1> QED BY <1>2, <1>3 DEF Rest, Keyed

LEMMA RemoveInterrupted ==
  ASSUME CpaInv, op.pc \in RemovePcs
  PROVE  Rest(disk, None, marks \cup {op.kind})
<1>1. /\ Rest(op.before.disk, op.before.proc, marks) /\ RemoveFiles(op, disk)
      /\ op.kind = "remove"
  BY RemoveStage
<1> QED BY <1>1 DEF Rest, RemoveFiles, Keyed

LEMMA RotateInterrupted ==
  ASSUME CpaInv, op.pc \in RotatePcs
  PROVE  Rest(disk, None, marks \cup {op.kind})
<1> DEFINE b == op.before.disk
<1>1. /\ Rest(b, op.before.proc, marks) /\ RotateFiles(op, disk)
      /\ op.kind = "rotate"
  BY RotateStage
<1>2. disk.managed # None /\ ("remove" \notin marks /\ "partial" \notin marks => Complete(disk))
  BY <1>1 DEF RotateFiles, Rest, Complete
<1> QED BY <1>1, <1>2 DEF Rest

LEMMA RunInterrupted ==
  ASSUME CpaInv, op.pc \in StartPcs \cup SyncPcs
  PROVE  Rest(disk, None, marks)
<1>1. CASE op.kind = "start" /\ op.pc \in StartPcs
  BY <1>1, StartStage, RestWithoutChild DEF StartFiles
<1>2. CASE op.kind # "start" /\ op.pc \in SyncPcs
  BY <1>2, SyncLeaves
<1> QED BY <1>1, <1>2, RunStage

LEMMA Interrupted ==
  ASSUME CpaInv, op # NoOp
  PROVE  Rest(disk, None, marks \cup {op.kind})
<1>1. Stage(op, disk, proc, marks, shutting)
  BY DEF CpaInv
<1>2. op.pc \in InstallPcs \cup RollbackPcs \cup RemovePcs \cup RotatePcs \cup StartPcs \cup SyncPcs
  BY <1>1 DEF Stage
<1>3. Rest(disk, None, marks) => Rest(disk, None, marks \cup {op.kind})
  BY RestGrows
<1> QED BY <1>2, <1>3, InstallInterrupted, RollbackInterrupted, RemoveInterrupted,
           RotateInterrupted, RunInterrupted

LEMMA CrashKeeps == ASSUME CpaInv, crash PROVE CpaInv'
<1>1. /\ op' = NoOp /\ proc' = None /\ UNCHANGED <<disk, proxy, last>>
      /\ marks' = marks \cup (IF op = NoOp THEN {} ELSE {op.kind})
  BY DEF crash
<1>2. Rest(disk', proc', marks')
  <2>1. CASE op = NoOp
    BY <1>1, <2>1, RestWithoutChild DEF CpaInv
  <2>2. CASE op # NoOp
    BY <1>1, <2>2, Interrupted
  <2> QED BY <2>1, <2>2
<1> QED BY <1>1, <1>2, NoOpFields DEF CpaInv, TypeInv, FailureLeavesNoTrace

LEMMA CancelKeeps == ASSUME CpaInv, cancel PROVE CpaInv'
<1>1. /\ op.pc \in Awaits /\ op.kind # "restore" /\ op' = NoOp
      /\ disk' = IF op.kind \in {"install", "update"} THEN Guarded(disk) ELSE disk
      /\ marks' = marks \cup {"cancelled"} /\ UNCHANGED <<proc, env, last>>
  BY DEF cancel
<1>2. op # NoOp
  BY <1>1, NoOpFields DEF Awaits
<1>3. disk' \in Disk /\ Rest(disk', proc, marks')
  <2>1. CASE op.pc \in InstallPcs
    <3>1. op.kind \in {"install", "update"} /\ Rest(op.before.disk, op.before.proc, marks)
      BY <2>1, InstallStage
    <3>2. /\ disk' \in Disk /\ disk'.managed = op.before.disk.managed
          /\ disk'.cfg = op.before.disk.cfg /\ disk'.prev = op.before.disk.prev
          /\ disk'.dirs = op.before.disk.dirs /\ disk'.db = disk.db
      BY <1>1, <2>1, <3>1, GuardsPutBack, Typed
    <3>3. ASSUME disk'.db # None, marks \cap {"partial", "rotate"} = {}
          PROVE  Keyed(disk')
      <4>1. InstallFiles(op, disk)
        BY <2>1, InstallStage
      <4>2. disk.db.key = op.key
        BY <3>1, <3>2, <3>3, <4>1 DEF InstallFiles
      <4>3. disk'.cfg # None => disk'.cfg.key = op.key
        BY <3>1, <3>2, <4>1 DEF InstallFiles
      <4>4. disk'.prev # None => disk'.prev.key = op.key
        BY <3>1, <3>2, <3>3, <4>1 DEF InstallFiles, Rest, Keyed
      <4> QED BY <3>2, <4>2, <4>3, <4>4 DEF Keyed
    <3> QED BY <1>1, <3>1, <3>2, <3>3 DEF Rest, Complete
  <2>2. CASE op.pc \in RollbackPcs
    <3>1. disk' = disk /\ Rest(disk, None, marks)
      BY <1>1, <2>2, RollbackStage, RollbackInterrupted
    <3> QED BY <1>1, <3>1, Typed DEF Rest
  <2>3. CASE op.pc \in RotatePcs
    <3>1. disk' = disk /\ op.pc \in {"key_upstream", "key_check"}
      BY <1>1, <2>3, RotateStage DEF Awaits, RotatePcs
    <3>2. Rest(disk, None, marks)
      BY <2>3, <3>1, RotateStage, RestWithoutChild DEF RotateFiles
    <3> QED BY <1>1, <3>1, <3>2, Typed DEF Rest
  <2>4. CASE op.pc \in StartPcs \cup SyncPcs
    <3>1. disk' = disk /\ Rest(disk, None, marks)
      BY <1>1, <2>4, RunStage, RunInterrupted
    <3> QED BY <1>1, <3>1, Typed DEF Rest
  <2> QED BY <1>1, <2>1, <2>2, <2>3, <2>4
          DEF Awaits, InstallPcs, RollbackPcs, RotatePcs, StartPcs
<1> QED BY <1>1, <1>3, NoOpFields DEF CpaInv, TypeInv, FailureLeavesNoTrace, env

LEMMA PutSettingsKeeps == ASSUME CpaInv, put_settings PROVE CpaInv'
<1>1. /\ proxy' \in Proxies /\ UNCHANGED <<disk, proc, shutting, history>>
      /\ op' = IF op = NoOp THEN op ELSE [op EXCEPT !.cas = FALSE]
      /\ op \in Ops /\ disk \in Disk /\ proc \in Child \cup {None}
  BY Typed DEF put_settings
<1>2. CASE op = NoOp
  BY <1>1, <1>2 DEF CpaInv, TypeInv, FailureLeavesNoTrace, history
<1>3. CASE op # NoOp
  <2>1. /\ Moved(op', op, op.pc) /\ op'.target = op.target /\ op'.was = op.was
        /\ op'.partial = op.partial
    BY <1>1, <1>3 DEF Ops, Moved
  <2>2. Stage(op, disk, proc, marks, shutting)
    BY <1>3 DEF CpaInv
  <2>3. InstallFiles(op, disk) /\ InstallChild(op, disk, proc, marks, shutting) =>
          InstallFiles(op', disk) /\ InstallChild(op', disk, proc, marks, shutting)
    BY <2>1 DEF InstallFiles, InstallChild, Moved, Kept, Stopped
  <2>4. RollbackFiles(op, disk) /\ RollbackChild(op, disk, proc, marks, shutting) =>
          RollbackFiles(op', disk) /\ RollbackChild(op', disk, proc, marks, shutting)
    BY <2>1 DEF RollbackFiles, RollbackChild, Moved, Kept, Stopped
  <2>5. RemoveFiles(op, disk) /\ RemoveChild(op, disk, proc, marks, shutting) =>
          RemoveFiles(op', disk) /\ RemoveChild(op', disk, proc, marks, shutting)
    BY <2>1 DEF RemoveFiles, RemoveChild, Moved, Kept, Stopped
  <2>6. StartFiles(op, disk) /\ StartChild(op, disk, proc, marks, shutting) =>
          StartFiles(op', disk) /\ StartChild(op', disk, proc, marks, shutting)
    BY <2>1 DEF StartFiles, StartChild, Moved, Kept
  <2>7. SyncFiles(op, disk) /\ SyncChild(op, disk, proc, marks, shutting) =>
          SyncFiles(op', disk) /\ SyncChild(op', disk, proc, marks, shutting)
    BY <2>1 DEF SyncFiles, SyncChild, Moved, Kept
  <2>8. RotateFiles(op, disk) /\ RotateChild(op, disk, proc, marks, shutting) =>
          RotateFiles(op', disk) /\ RotateChild(op', disk, proc, marks, shutting)
    BY <2>1 DEF RotateFiles, RotateChild, Moved, Kept
  <2>9. Stage(op', disk, proc, marks, shutting)
    BY <2>1, <2>2, <2>3, <2>4, <2>5, <2>6, <2>7, <2>8 DEF Stage, Moved
  <2> QED BY <1>1, <1>3, <2>1, <2>9, MovesOn DEF Moved, history
<1> QED BY <1>2, <1>3

(* The child goes away: by itself, or because the host shuts down.            *)
LEMMA StageWithoutChild ==
  ASSUME NEW o, NEW d, NEW p, NEW m, NEW n, NEW down, NEW dark, Stage(o, d, p, m, down),
         m \subseteq n, down => dark, dark \/ "died" \in n
  PROVE  Stage(o, d, None, n, dark)
<1>1. InstallChild(o, d, p, m, down) => InstallChild(o, d, None, n, dark)
  BY DEF InstallChild, Kept, Stopped, Only
<1>2. RollbackChild(o, d, p, m, down) => RollbackChild(o, d, None, n, dark)
  BY DEF RollbackChild, Kept, Stopped, Only
<1>3. RemoveChild(o, d, p, m, down) => RemoveChild(o, d, None, n, dark)
  BY DEF RemoveChild, Kept, Stopped
<1>4. StartChild(o, d, p, m, down) => StartChild(o, d, None, n, dark)
  BY DEF StartChild, Kept, Only
<1>5. SyncChild(o, d, p, m, down) => SyncChild(o, d, None, n, dark)
  BY DEF SyncChild, Kept, Only
<1>6. RotateChild(o, d, p, m, down) => RotateChild(o, d, None, n, dark)
  BY DEF RotateChild, Kept
<1> QED BY <1>1, <1>2, <1>3, <1>4, <1>5, <1>6 DEF Stage

LEMMA DieKeeps == ASSUME CpaInv, die PROVE CpaInv'
<1>1. /\ proc' = None /\ marks' = marks \cup {"died"} /\ UNCHANGED <<disk, op, env, last>>
  BY DEF die
<1>2. CASE op = NoOp
  <2>1. Rest(disk, None, marks')
    BY <1>1, <1>2, RestGrows, RestWithoutChild DEF CpaInv
  <2> QED BY <1>1, <1>2, <2>1 DEF CpaInv, TypeInv, FailureLeavesNoTrace, env
<1>3. CASE op # NoOp
  <2>1. Stage(op', disk', proc', marks', shutting')
    BY <1>1, <1>3, StageWithoutChild DEF CpaInv, env
  <2> QED BY <1>1, <1>3, <2>1, MovesOn, Typed DEF env
<1> QED BY <1>2, <1>3

LEMMA ShutdownKeeps == ASSUME CpaInv, shutdown PROVE CpaInv'
<1>1. shutting' = TRUE /\ proc' = None /\ UNCHANGED <<disk, proxy, op, last, marks>>
  BY DEF shutdown, history
<1>2. CASE op = NoOp
  <2>1. Rest(disk, None, marks')
    BY <1>1, <1>2, RestWithoutChild DEF CpaInv
  <2> QED BY <1>1, <1>2, <2>1 DEF CpaInv, TypeInv, FailureLeavesNoTrace
<1>3. CASE op # NoOp
  <2>1. Stage(op', disk', proc', marks', shutting')
    BY <1>1, <1>3, StageWithoutChild DEF CpaInv
  <2> QED BY <1>1, <1>3, <2>1, MovesOn, Typed
<1> QED BY <1>2, <1>3

LEMMA CancelSyncKeeps == ASSUME CpaInv, cancel_sync PROVE CpaInv'
<1>1. marks \subseteq marks' /\ UNCHANGED <<disk, proc, proxy, op, shutting, last>>
  BY DEF cancel_sync
<1>2. CASE op = NoOp
  <2>1. Rest(disk, proc, marks')
    BY <1>1, <1>2, RestGrows DEF CpaInv
  <2> QED BY <1>1, <1>2, <2>1 DEF CpaInv, TypeInv, FailureLeavesNoTrace
<1>3. CASE op # NoOp
  <2>1. Stage(op', disk', proc', marks', shutting')
    BY <1>1, <1>3, StageGrows DEF CpaInv
  <2> QED BY <1>1, <1>3, <2>1, MovesOn, Typed
<1> QED BY <1>2, <1>3

-----------------------------------------------------------------------------
(* The invariant, and the properties that follow from it.                     *)

LEMMA CpaStarts == Init => CpaInv
<1> SUFFICES ASSUME Init PROVE CpaInv
  OBVIOUS
<1>1. Nothing \in Disk /\ Rest(Nothing, None, {})
  BY DEF Nothing, Disk, Rest
<1> QED BY <1>1, NoOpFields DEF Init, CpaInv, TypeInv, FailureLeavesNoTrace

LEMMA CpaSteps == CpaInv /\ [Next]_vars => CpaInv'
<1> SUFFICES ASSUME CpaInv, [Next]_vars PROVE CpaInv'
  OBVIOUS
<1>1. CASE \/ \E v \in Versions : resolve(v)
           \/ configure \/ replace \/ launch \/ probe
           \/ commit \/ commit_rows \/ commit_managed \/ undo \/ undo_probe
  BY <1>1, ResolveKeeps, ConfigureKeeps, ReplaceKeeps, LaunchKeeps, ProbeKeeps, CommitKeeps,
     CommitRowsKeeps, CommitManagedKeeps, UndoKeeps, UndoProbeKeeps
<1>2. CASE \/ rb_stop \/ rb_config \/ rb_launch \/ rb_probe \/ rb_swap
           \/ rb_rows \/ rb_managed \/ rb_undo \/ rb_undo_probe
  BY <1>2, RbStopKeeps, RbConfigKeeps, RbLaunchKeeps, RbProbeKeeps, RbSwapKeeps, RbRowsKeeps,
     RbManagedKeeps, RbUndoKeeps, RbUndoProbeKeeps
<1>3. CASE \/ rm_stop \/ rm_refused \/ rm_config \/ rm_previous \/ rm_versions
           \/ rm_rows \/ rm_managed
  BY <1>3, RmStopKeeps, RmRefusedKeeps, RmConfigKeeps, RmPreviousKeeps, RmVersionsKeeps,
     RmRowsKeeps, RmManagedKeeps
<1>4. CASE own_launch \/ own_probe \/ start_commit
  <2>1. start_commit => op.kind = "start"
    BY RunStage DEF start_commit, StartPcs, SyncPcs
  <2> QED BY <1>4, <2>1, OwnLaunchStarts, OwnLaunchSyncs, OwnProbeStarts, OwnProbeSyncs,
             StartCommitKeeps
<1>5. CASE sync_config \/ sync_previous \/ sync_restart
  BY <1>5, SyncConfigKeeps, SyncPreviousKeeps, SyncRestartKeeps
<1>6. CASE key_upstream \/ key_check \/ key_config \/ key_previous \/ key_row \/ key_undo
  BY <1>6, KeyUpstreamKeeps, KeyCheckKeeps, KeyConfigKeeps, KeyPreviousKeeps, KeyRowKeeps,
     KeyUndoKeeps
<1>7. CASE Begin
  BY <1>7, InstallBegins, UpdateBegins, RollbackBegins, RemoveBegins, StartBegins, StopKeeps,
     RestoreBegins, SyncBegins, RotateBegins DEF Begin
<1>8. CASE put_settings \/ die \/ shutdown \/ cancel \/ cancel_sync \/ crash
  BY <1>8, PutSettingsKeeps, DieKeeps, ShutdownKeeps, CancelKeeps, CancelSyncKeeps, CrashKeeps
<1>9. CASE UNCHANGED vars
  BY <1>9 DEF vars, CpaInv, TypeInv, FailureLeavesNoTrace
<1> QED BY <1>1, <1>2, <1>3, <1>4, <1>5, <1>6, <1>7, <1>8, <1>9 DEF Next, Step

LEMMA CpaInvariant == Spec => []CpaInv
BY CpaStarts, CpaSteps, PTL DEF Spec

(* A receipt that says "none" or "compensated" is true of every file and of   *)
(* every row, wherever the operation failed and however often, and of the     *)
(* child too, with two exceptions that the code has: the lost answer of a key *)
(* replacement, and a stop that failed before anything else was done.         *)
THEOREM ReceiptsAreHonest == Spec => []FailureLeavesNoTrace
<1>1. CpaInv => FailureLeavesNoTrace
  BY DEF CpaInv
<1> QED BY <1>1, CpaInvariant, PTL

(* "Keep the owner marker until every canonical owned artifact is gone": the  *)
(* manifest is the last thing a removal deletes, and no failure or crash of   *)
(* any other operation leaves files that it does not claim.                   *)
THEOREM NothingIsOrphaned == Spec => []OwnerMarkerIsLast
<1>1. CpaInv => OwnerMarkerIsLast
  BY DEF CpaInv, OwnerMarkerIsLast, Rest
<1> QED BY <1>1, CpaInvariant, PTL

(* Between operations the child that runs is the recorded version, and the    *)
(* operator wants it to run, also after crashes and a lost answer: until an   *)
(* operation was reported as partial, a sync or restore failed, or a request  *)
(* was dropped at an await.                                                   *)
THEOREM ChildMatchesManifest == Spec => []ChildIsAsRecorded
<1>1. CpaInv => ChildIsAsRecorded
  BY DEF CpaInv, ChildIsAsRecorded, Rest
<1> QED BY <1>1, CpaInvariant, PTL

(* OCG, both configs and the child it owns agree on the protected key after   *)
(* every rotation, update, rollback and compensation that ran to its end: a   *)
(* crash in a rotation and a partial report are exempt and, for the child, a  *)
(* lost answer and a dropped request.                                         *)
THEOREM ProtectedKeyAgrees == Spec => []KeysAgree
<1>1. CpaInv => KeysAgree
  BY DEF CpaInv, KeysAgree, Rest, Keyed
<1> QED BY <1>1, CpaInvariant, PTL

(* The current version and the one to roll back to are on disk at every step  *)
(* of every operation but a removal: an update never gives up the old version *)
(* before the new one is committed.                                           *)
THEOREM RollbackStaysPossible == Spec => []VersionsAreOnDisk
<1>1. CpaInv => VersionsAreOnDisk
  <2> SUFFICES ASSUME CpaInv, disk.managed # None, op.kind # "remove", "remove" \notin marks,
                      "partial" \notin marks
               PROVE  Complete(disk)
    BY DEF VersionsAreOnDisk, Complete
  <2>1. CASE op = NoOp
    BY <2>1 DEF CpaInv, Rest
  <2>2. CASE op # NoOp
    <3>1. "remove" \notin marks \cup {op.kind} /\ "partial" \notin marks \cup {op.kind}
      BY OpFields DEF CpaInv, TypeInv, Kinds
    <3> QED BY <2>2, <3>1, Interrupted DEF Rest
  <2> QED BY <2>1, <2>2
<1> QED BY <1>1, CpaInvariant, PTL
=============================================================================
