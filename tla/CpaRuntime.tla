------------------------------ MODULE CpaRuntime ------------------------------
(* The managed CPA child process (ocg-core, cpa_runtime.rs): install, update, *)
(* rollback, remove, start, stop, protected-key rotation, the proxy sync and  *)
(* the restore at start-up.  `cpa_operations` serialises them, so at most one *)
(* is in progress; a settings change, host shutdown, the death of the child,  *)
(* a dropped request and a crash may come between any two of its steps, and   *)
(* every call that leaves the process may fail.                               *)
(*                                                                            *)
(* config.yaml is the pair of what it is rendered from that can differ: the   *)
(* proxy policy and the protected inference key.  The integration row, its    *)
(* account and its catalogue are one record.  Secrets, ports, checksums and   *)
(* archives are left out: what they can refuse is a failed step.              *)
(*                                                                            *)
(* stop_owned takes the session out of the host before it closes the child's  *)
(* lifetime pipe and waits (cpa_runtime/host.rs), so a stop that fails leaves *)
(* OCG without a child all the same.  That such a child may hold its port for *)
(* a while is a failed launch; it answers no probe.  What the Drop guards put *)
(* back is put back: their own failures are not modelled.                     *)
EXTENDS Integers, FiniteSets

CONSTANTS
    Versions,   \* releases of CPA
    Proxies,    \* outbound proxy policies, as rendered into config.yaml
    Keys,       \* inference keys
    None,
    MaxEvents   \* bound on failed calls, deaths of the child, settings changes,
                \* dropped requests and process ends together


VARIABLES
    disk,       \* managed.json, both configs, version directories, database rows
    proc,       \* the owned child, or None
    proxy,      \* the saved proxy policy
    op,         \* the operation holding cpa_operations
    queued,     \* a settings handler waits to run the proxy sync
    restore,    \* restore_owned_cpa_runtime_on_startup has not run yet
    shutting,   \* shutting_down
    last,       \* history: the last report, and what was as before
    marks,      \* history: events after which less is promised
    spent       \* history: how many of them there were

vars == <<disk, proc, proxy, op, queued, restore, shutting, last, marks, spent>>

Config == [proxy : Proxies, key : Keys]
Managed == [current : Versions, previous : Versions \cup {None}, desired : BOOLEAN]
Row == [catalog : Versions, key : Keys]
Child == [version : Versions, config : Config]

(* None is Rust's `None`: no value of any of these kinds.                     *)
ASSUME CpaAssumption ==
    /\ None \notin Versions \cup Proxies \cup Keys
    /\ None \notin Config \cup Managed \cup Row \cup Child
    /\ MaxEvents \in Nat

Disk == [managed : Managed \cup {None}, cfg : Config \cup {None},
         prev : Config \cup {None}, dirs : SUBSET Versions, db : Row \cup {None}]

NoOp == [kind |-> "none", pc |-> "none", cas |-> TRUE, was |-> FALSE, verify |-> TRUE,
         target |-> None, key |-> None, partial |-> FALSE, before |-> None]

Nothing == [managed |-> None, cfg |-> None, prev |-> None, dirs |-> {}, db |-> None]

Init ==
    /\ disk = Nothing
    /\ proc = None
    /\ proxy \in Proxies
    /\ op = NoOp
    /\ queued = FALSE
    /\ restore = TRUE
    /\ shutting = FALSE
    /\ last = [effect |-> "ok", files |-> TRUE, child |-> TRUE, unobserved |-> FALSE]
    /\ marks = {}
    /\ spent = 0

-----------------------------------------------------------------------------
(* Building blocks.                                                           *)

Costs(n) == spent + n <= MaxEvents /\ spent' = spent + n

Event == Costs(1)

(* A call that leaves the process fails.                                      *)
Fails == Event

Works == UNCHANGED spent

env == <<proxy, queued, restore, shutting>>
history == <<last, marks>>

Enter(kind, pc) ==
    op' = [NoOp EXCEPT !.kind = kind, !.pc = pc, !.was = (proc # None),
                       !.before = [disk |-> disk, proc |-> proc]]

Goto(pc) == op' = [op EXCEPT !.pc = pc]

Marked(effect) ==
    marks' = marks \cup (IF effect \in {"partial", "failed"} THEN {effect} ELSE {})

(* The report of an operation that found `before` and leaves disk d and child *)
(* p: were they put back?  A child that ran out of step with the files may    *)
(* have been replaced by the recorded one.                                    *)
Report(effect, before, d, p, unobserved) ==
    [effect     |-> effect,
     files      |-> d = before.disk,
     child      |-> \/ p = before.proc
                    \/ before.proc # None /\ p # None /\ d.managed # None
                       /\ p = [version |-> d.managed.current, config |-> d.cfg]
                    \/ p = None /\ (shutting \/ "died" \in marks),
     unobserved |-> unobserved]

(* The operation returns.                                                     *)
Finish(effect, d, p) ==
    /\ op' = NoOp
    /\ disk' = d /\ proc' = p
    /\ last' = Report(effect, op.before, d, p, FALSE)
    /\ Marked(effect)

(* It returns the error of a call to the child that took effect, and reports  *)
(* none: only an effect it has observed is reported.                          *)
FinishUnobserved(p, mark) ==
    /\ op' = NoOp
    /\ proc' = p
    /\ last' = Report("none", op.before, disk, p, TRUE)
    /\ marks' = marks \cup mark
    /\ UNCHANGED disk

Before == op.before.disk

(* Drop of CandidateDirGuard and of both FileRestoreGuards.                   *)
Guarded(d) ==
    [d EXCEPT !.cfg = Before.cfg, !.prev = Before.prev, !.dirs = @ \ {op.target}]

Effect == IF op.partial THEN "partial" ELSE "compensated"

\* Mutant: the shutdown flag is not looked at once the lock is held.
may_spawn_mutant(version, d) == version \in d.dirs /\ d.cfg # None

(* start_version up to the spawn: the executable and the config exist and the *)
(* host is not shutting down, checked under the process lock.                 *)
MaySpawn(version, d) == version \in d.dirs /\ d.cfg # None /\ ~shutting

Spawned(version, d) == [version |-> version, config |-> d.cfg]

(* probe_candidate with the saved inference key.                              *)
Answers(key) == proc # None /\ proc.config.key = key

-----------------------------------------------------------------------------
(* install_cpa_runtime and update_cpa_runtime.                                *)

install_begin ==
    /\ op = NoOp /\ disk.managed = None /\ disk.cfg = None /\ proc = None
    /\ \E k \in Keys :
           /\ disk.db # None => k = disk.db.key
           /\ op' = [NoOp EXCEPT !.kind = "install", !.pc = "download", !.key = k,
                                 !.before = [disk |-> disk, proc |-> proc]]
    /\ UNCHANGED <<disk, proc, env, history, spent>>

update_begin ==
    /\ op = NoOp /\ disk.managed # None /\ disk.db # None
    /\ disk.cfg # None /\ disk.cfg.key = disk.db.key
    /\ op' = [NoOp EXCEPT !.kind = "update", !.pc = "download", !.key = disk.db.key,
                          !.before = [disk |-> disk, proc |-> proc]]
    /\ UNCHANGED <<disk, proc, env, history, spent>>

(* The release is already installed, its directory exists, or the settings    *)
(* changed under the download.                                                *)
Refused(v) ==
    \/ ~op.cas
    \/ v \in disk.dirs

(* resolve_release_archive, the checks after it and the extraction.           *)
resolve(v) ==
    /\ op.pc = "download"
    /\ \/ /\ ~Refused(v) /\ Works
          /\ disk' = [disk EXCEPT !.dirs = @ \cup {v}]
          /\ op' = [op EXCEPT !.pc = "configure", !.target = v]
          /\ UNCHANGED <<proc, history>>
       \/ /\ Refused(v) /\ Works /\ Finish("none", disk, proc)
       \/ /\ Fails /\ Finish("none", disk, proc)
    /\ UNCHANGED env

(* Backup of the rows, then config.yaml.                                      *)
configure ==
    /\ op.pc = "configure"
    /\ \/ /\ Works
          /\ disk' = [disk EXCEPT !.cfg = [proxy |-> proxy, key |-> op.key]]
          /\ Goto("replace")
          /\ UNCHANGED <<proc, history>>
       \/ Fails /\ Finish("none", Guarded(disk), proc)
    /\ UNCHANGED env

(* Stop the version that runs.                                                *)
replace ==
    /\ op.pc = "replace"
    /\ \/ /\ Works
          /\ op' = [op EXCEPT !.pc = "launch", !.was = (proc # None)]
          /\ proc' = None
          /\ UNCHANGED <<disk, history>>
       \/ proc # None /\ Fails /\ Finish("partial", Guarded(disk), None)
    /\ UNCHANGED env

(* The port check, then start_version; a busy port is compensated without a   *)
(* probe of the restarted version.                                            *)
launch ==
    /\ op.pc = "launch"
    /\ \/ /\ MaySpawn(op.target, disk) /\ Works
          /\ proc' = Spawned(op.target, disk)
          /\ Goto("probe")
       \/ /\ ~MaySpawn(op.target, disk) /\ Works
          /\ Goto("undo") /\ UNCHANGED proc
       \/ /\ Fails
          /\ \E check \in BOOLEAN : op' = [op EXCEPT !.pc = "undo", !.verify = check]
          /\ UNCHANGED proc
    /\ UNCHANGED <<disk, env, history>>

(* probe_candidate, the revision, and for a stopped runtime the stop.         *)
probe ==
    /\ op.pc = "probe"
    /\ \/ /\ Answers(op.key) /\ op.cas /\ Works
          /\ proc' = IF op.kind = "update" /\ ~op.was THEN None ELSE proc
          /\ Goto("commit") /\ UNCHANGED <<disk, history>>
       \/ /\ ~(Answers(op.key) /\ op.cas) /\ Works
          /\ Goto("undo") /\ UNCHANGED <<disk, proc, history>>
       \/ /\ Fails
          /\ Goto("undo") /\ UNCHANGED <<disk, proc, history>>
       \/ /\ Answers(op.key) /\ op.cas /\ op.kind = "update" /\ ~op.was
          /\ Fails /\ Finish("partial", Guarded(disk), None)
    /\ UNCHANGED env

(* A failed commit puts the rows and the previous config back; each of that   *)
(* can fail in turn, and is then reported.  n counts the failures before.     *)
PutBack(n, rows, next) ==
    \/ /\ Costs(n)
       /\ disk' = [disk EXCEPT !.db = Before.db, !.prev = Before.prev]
       /\ Goto(next)
    \/ /\ Costs(n + 1)
       /\ \E r \in rows, c \in {Before.prev, disk.prev} :
              disk' = [disk EXCEPT !.db = r, !.prev = c]
       /\ op' = [op EXCEPT !.pc = next, !.partial = TRUE]

(* restore_persistence_backup: disconnect, then write the saved rows back.    *)
RowsRestored(n, next) == PutBack(n, {disk.db, None, Before.db}, next)

(* The commit, under the settings lock: previous config, database rows, owner *)
(* manifest.  A crash may fall between them, and every failure restores both. *)
commit ==
    /\ op.pc = "commit"
    /\ \/ /\ op.cas /\ Works
          /\ disk' = [disk EXCEPT !.prev = Before.cfg]
          /\ Goto("commit_rows")
       \/ ~op.cas /\ RowsRestored(0, "undo")
       \/ RowsRestored(1, "undo")
    /\ UNCHANGED <<proc, env, history>>

(* persist_managed_connection.                                                *)
commit_rows ==
    /\ op.pc = "commit_rows"
    /\ \/ /\ Works
          /\ disk' = [disk EXCEPT !.db = [catalog |-> op.target, key |-> op.key]]
          /\ Goto("commit_managed")
       \/ RowsRestored(1, "undo")
    /\ UNCHANGED <<proc, env, history>>

\* Mutant: a fresh install inherits no run intent.
desired_mutant == Before.managed # None /\ (op.was \/ Before.managed.desired)

committed_desired_running ==
    \/ op.was
    \/ IF Before.managed = None THEN TRUE ELSE Before.managed.desired

\* Mutant: cleanup keeps the current version only.
pruned_mutant(d) == {[d EXCEPT !.dirs = {d.managed.current}]}

(* prune_versions_after_commit: cleanup may fail and is then left for later.  *)
Pruned(d) ==
    IF d.managed.previous = None THEN {d}
    ELSE {d, [d EXCEPT !.dirs = {d.managed.current, d.managed.previous}]}

commit_managed ==
    /\ op.pc = "commit_managed"
    /\ \/ /\ Works
          /\ LET m == [current  |-> op.target,
                       previous |-> IF Before.managed = None THEN None
                                    ELSE Before.managed.current,
                       desired  |-> committed_desired_running]
             IN  \E d \in Pruned([disk EXCEPT !.managed = m]) : Finish("ok", d, proc)
       \/ RowsRestored(1, "undo") /\ UNCHANGED <<proc, history>>
    /\ UNCHANGED env

\* Mutant: the config of the failed candidate stays in place.
undo_mutant ==
    /\ op.pc = "undo"
    /\ Works
    /\ Finish(Effect, [Guarded(disk) EXCEPT !.cfg = disk.cfg], proc)
    /\ UNCHANGED env

(* restore_candidate_failure: stop, put the config back, restart what ran.    *)
undo ==
    /\ op.pc = "undo"
    /\ LET d == [disk EXCEPT !.cfg = Before.cfg]
           v == Before.managed.current
       IN  \/ /\ op.was /\ MaySpawn(v, d) /\ Works
              /\ IF op.verify
                 THEN /\ disk' = d /\ proc' = Spawned(v, d)
                      /\ Goto("undo_probe") /\ UNCHANGED history
                 ELSE Finish(Effect, Guarded(d), Spawned(v, d))
           \/ /\ op.was /\ ~MaySpawn(v, d) /\ Works
              /\ Finish("partial", Guarded(d), None)
           \/ ~op.was /\ Works /\ Finish(Effect, Guarded(d), None)
           \/ Fails /\ Finish("partial", Guarded(d), None)
    /\ UNCHANGED env

(* restore_candidate_failure_verified.                                        *)
undo_probe ==
    /\ op.pc = "undo_probe"
    /\ \/ Answers(op.key) /\ Works /\ Finish(Effect, Guarded(disk), proc)
       \/ ~Answers(op.key) /\ Works /\ Finish("partial", Guarded(disk), proc)
       \/ Fails /\ Finish("partial", Guarded(disk), proc)
    /\ UNCHANGED env

-----------------------------------------------------------------------------
(* rollback_cpa_runtime.                                                      *)

rollback_begin ==
    /\ op = NoOp /\ disk.managed # None /\ disk.db # None
    /\ disk.managed.previous # None
    /\ disk.cfg # None /\ disk.cfg.key = disk.db.key
    /\ disk.prev # None /\ disk.prev.key = disk.db.key
    /\ disk.managed.previous \in disk.dirs
    /\ op' = [NoOp EXCEPT !.kind = "rollback", !.pc = "rb_stop", !.key = disk.db.key,
                          !.target = disk.managed.previous,
                          !.before = [disk |-> disk, proc |-> proc]]
    /\ UNCHANGED <<disk, proc, env, history, spent>>

rb_stop ==
    /\ op.pc = "rb_stop"
    /\ \/ /\ Works
          /\ op' = [op EXCEPT !.pc = "rb_config", !.was = (proc # None)]
          /\ proc' = None
          /\ UNCHANGED <<disk, history>>
       \/ proc # None /\ Fails /\ FinishUnobserved(None, {})
    /\ UNCHANGED env

rb_config ==
    /\ op.pc = "rb_config"
    /\ \/ /\ Works
          /\ disk' = [disk EXCEPT !.cfg = Before.prev]
          /\ Goto("rb_launch") /\ UNCHANGED <<proc, history>>
       \/ op.was /\ Fails /\ Goto("rb_undo") /\ UNCHANGED <<disk, proc, history>>
       \/ ~op.was /\ Fails /\ Finish("none", disk, proc)
    /\ UNCHANGED env

rb_launch ==
    /\ op.pc = "rb_launch"
    /\ \/ /\ MaySpawn(op.target, disk) /\ Works
          /\ proc' = Spawned(op.target, disk)
          /\ Goto("rb_probe")
       \/ ~MaySpawn(op.target, disk) /\ Works /\ Goto("rb_undo") /\ UNCHANGED proc
       \/ Fails /\ Goto("rb_undo") /\ UNCHANGED proc
    /\ UNCHANGED <<disk, env, history>>

(* The probe, the revision and, when the runtime was stopped, the stop.       *)
rb_probe ==
    /\ op.pc = "rb_probe"
    /\ \/ /\ Answers(op.key) /\ op.cas /\ Works
          /\ proc' = IF op.was THEN proc ELSE None
          /\ Goto("rb_swap")
       \/ ~(Answers(op.key) /\ op.cas) /\ Works /\ Goto("rb_undo") /\ UNCHANGED proc
       \/ Fails /\ Goto("rb_undo") /\ UNCHANGED proc
       \/ /\ Answers(op.key) /\ op.cas /\ ~op.was
          /\ Fails /\ Goto("rb_undo") /\ proc' = None
    /\ UNCHANGED <<disk, env, history>>

(* The former config becomes the previous one.                                *)
rb_swap ==
    /\ op.pc = "rb_swap"
    /\ \/ Works /\ disk' = [disk EXCEPT !.prev = Before.cfg] /\ Goto("rb_rows")
       \/ Fails /\ Goto("rb_undo") /\ UNCHANGED disk
    /\ UNCHANGED <<proc, env, history>>

(* Under the settings lock: the revision and the catalogue.                   *)
rb_rows ==
    /\ op.pc = "rb_rows"
    /\ \/ /\ op.cas /\ Works
          /\ disk' = [disk EXCEPT !.db = [catalog |-> op.target, key |-> op.key]]
          /\ Goto("rb_managed")
       \/ ~op.cas /\ PutBack(0, {disk.db}, "rb_undo")
       \/ RowsRestored(1, "rb_undo")
    /\ UNCHANGED <<proc, env, history>>

rb_managed ==
    /\ op.pc = "rb_managed"
    /\ \/ /\ Works
          /\ Finish("ok", [disk EXCEPT !.managed = [current  |-> op.target,
                                                    previous |-> Before.managed.current,
                                                    desired  |-> Before.managed.desired]],
                    proc)
       \/ RowsRestored(1, "rb_undo") /\ UNCHANGED <<proc, history>>
    /\ UNCHANGED env

(* rollback_failed: stop, config, manifest, restart of what ran.              *)
rb_undo ==
    /\ op.pc = "rb_undo"
    /\ LET d == [disk EXCEPT !.cfg = Before.cfg, !.managed = Before.managed]
           v == Before.managed.current
       IN  \/ /\ op.was /\ MaySpawn(v, d) /\ Works
              /\ disk' = d /\ proc' = Spawned(v, d)
              /\ Goto("rb_undo_probe") /\ UNCHANGED history
           \/ op.was /\ ~MaySpawn(v, d) /\ Works /\ Finish("partial", d, None)
           \/ ~op.was /\ Works /\ Finish(Effect, d, None)
           \/ Fails /\ \E e \in {disk, d} : Finish("partial", e, None)
    /\ UNCHANGED env

rb_undo_probe ==
    /\ op.pc = "rb_undo_probe"
    /\ \/ Answers(op.key) /\ Works /\ Finish(Effect, disk, proc)
       \/ ~Answers(op.key) /\ Works /\ Finish("partial", disk, proc)
       \/ Fails /\ Finish("partial", disk, proc)
    /\ UNCHANGED env

-----------------------------------------------------------------------------
(* remove_cpa_runtime.                                                        *)

remove_begin ==
    /\ op = NoOp /\ disk.managed # None
    /\ Enter("remove", "rm_stop")
    /\ UNCHANGED <<disk, proc, env, history, spent>>

rm_stop ==
    /\ op.pc = "rm_stop"
    /\ \/ /\ Works /\ proc' = None
          /\ op' = [op EXCEPT !.pc = "rm_config", !.was = (proc # None)]
          /\ UNCHANGED <<disk, history>>
       \/ proc # None /\ Fails /\ FinishUnobserved(None, {})
    /\ UNCHANGED env

(* effect_after_own_steps.                                                    *)
OwnSteps == IF op.was \/ disk # Before THEN "partial" ELSE "none"

(* One artifact after the other; the owner manifest goes last.                *)
RemoveStep(here, next, d) ==
    /\ op.pc = here
    /\ \/ Works /\ disk' = d /\ Goto(next) /\ UNCHANGED <<proc, history>>
       \/ Fails /\ Finish(OwnSteps, disk, proc)
    /\ UNCHANGED env

rm_refused ==
    /\ op.pc = "rm_config" /\ ~op.cas
    /\ Works /\ Finish(OwnSteps, disk, proc)
    /\ UNCHANGED env

\* Mutant: the owner manifest is deleted first.
rm_config_mutant ==
    RemoveStep("rm_config", "rm_previous", [disk EXCEPT !.cfg = None, !.managed = None])

rm_config == op.cas /\ RemoveStep("rm_config", "rm_previous", [disk EXCEPT !.cfg = None])

rm_previous == RemoveStep("rm_previous", "rm_versions", [disk EXCEPT !.prev = None])

rm_versions == RemoveStep("rm_versions", "rm_rows", [disk EXCEPT !.dirs = {}])

(* removal_database_restore: the rows r are what the restore achieved.        *)
RowsEffect(r) ==
    IF r # Before.db \/ op.was \/ [disk EXCEPT !.db = r] # Before
    THEN "partial" ELSE "compensated"

(* disconnect_cpa_integration; a failure writes the saved rows back.          *)
rm_rows ==
    /\ op.pc = "rm_rows"
    /\ \/ /\ Works /\ disk' = [disk EXCEPT !.db = None]
          /\ Goto("rm_managed") /\ UNCHANGED <<proc, history>>
       \/ /\ Fails
          /\ \E r \in {disk.db, None} : Finish(RowsEffect(r), [disk EXCEPT !.db = r], proc)
    /\ UNCHANGED env

rm_managed ==
    /\ op.pc = "rm_managed"
    /\ \/ Works /\ Finish("ok", [disk EXCEPT !.managed = None], proc)
       \/ /\ Fails
          /\ \E r \in {Before.db, None} :
                 Finish(RowsEffect(r), [disk EXCEPT !.db = r], proc)
    /\ UNCHANGED env

-----------------------------------------------------------------------------
(* start_cpa_runtime, stop_cpa_runtime, start-up restore and proxy sync.      *)

start_begin ==
    /\ op = NoOp /\ disk.managed # None
    /\ Enter("start", IF proc = None THEN "own_launch" ELSE "start_commit")
    /\ UNCHANGED <<disk, proc, env, history, spent>>

(* A failure of launch_owned_managed_process, per caller.                     *)
Failure(effect) == IF op.kind \in {"restore", "sync"} THEN "failed" ELSE effect

(* launch_owned_managed_process up to the spawn.                              *)
own_launch ==
    /\ op.pc = "own_launch"
    /\ LET v == disk.managed.current
       IN  \/ /\ disk.db # None /\ MaySpawn(v, disk) /\ Works
              /\ proc' = Spawned(v, disk)
              /\ Goto("own_probe") /\ UNCHANGED <<disk, history>>
           \/ /\ ~(disk.db # None /\ MaySpawn(v, disk)) /\ Works
              /\ Finish(Failure("none"), disk, None)
           \/ Fails /\ Finish(Failure("none"), disk, None)
    /\ UNCHANGED env

(* The stop that follows a failure may fail too.                              *)
StopEffects == {"compensated", "partial"}

(* The probe between two looks at the shutdown flag; every failure stops the  *)
(* child again.                                                               *)
own_probe ==
    /\ op.pc = "own_probe"
    /\ LET good == Answers(disk.db.key) /\ ~shutting
       IN  \/ /\ good /\ Works
              /\ IF op.kind = "start"
                 THEN Goto("start_commit") /\ UNCHANGED <<disk, proc, history>>
                 ELSE Finish("ok", disk, proc)
           \/ /\ ~good /\ Works /\ Finish(Failure("compensated"), disk, None)
           \/ Fails /\ \E effect \in StopEffects : Finish(Failure(effect), disk, None)
    /\ UNCHANGED env

Desiring(b) == [disk EXCEPT !.managed.desired = b]

(* commit_launched_start, and commit_desired_running when the child was       *)
(* already running and is left alone.                                         *)
start_commit ==
    /\ op.pc = "start_commit"
    /\ \/ op.cas /\ ~shutting /\ Works /\ Finish("ok", Desiring(TRUE), proc)
       \/ /\ op.before.proc # None
          /\ \/ ~(op.cas /\ ~shutting) /\ Works
             \/ Fails
          /\ Finish("none", disk, proc)
       \/ /\ op.before.proc = None /\ ~(op.cas /\ ~shutting) /\ Works
          /\ Finish("compensated", disk, None)
       \/ /\ op.before.proc = None /\ Fails
          /\ \E effect \in StopEffects : Finish(effect, disk, None)
    /\ UNCHANGED env

(* stop_cpa_runtime runs to its end under the process lock: the intent is     *)
(* saved, then the child is stopped.                                          *)
stop ==
    /\ op = NoOp /\ disk.managed # None
    /\ proc # None \/ disk.managed.desired
    /\ LET before == [disk |-> disk, proc |-> proc]
           Ends(effect, d, p, unobserved) ==
               /\ disk' = d /\ proc' = p
               /\ last' = Report(effect, before, d, p, unobserved)
               /\ Marked(effect)
       IN  \/ Works /\ Ends("ok", Desiring(FALSE), None, FALSE)
           \/ Fails /\ Ends("none", disk, proc, FALSE)
           \/ /\ proc # None /\ Fails
              /\ IF disk.managed.desired
                 THEN Ends("partial", Desiring(FALSE), None, FALSE)
                 ELSE Ends("none", disk, None, TRUE)
    /\ UNCHANGED <<op, env>>

(* restore_owned_cpa_runtime_on_startup, once per process.                    *)
restore_begin ==
    /\ op = NoOp /\ restore /\ ~shutting
    /\ restore' = FALSE
    /\ IF disk.managed # None /\ disk.managed.desired
       THEN Enter("restore", "sync_config") ELSE UNCHANGED op
    /\ UNCHANGED <<disk, proc, proxy, queued, shutting, history, spent>>

sync_begin ==
    /\ op = NoOp /\ queued
    /\ queued' = FALSE
    /\ IF disk.managed # None THEN Enter("sync", "sync_config") ELSE UNCHANGED op
    /\ UNCHANGED <<disk, proc, proxy, restore, shutting, history, spent>>

Rendered == [proxy |-> proxy, key |-> disk.db.key]

(* The sync ends with child p and without a restart: the restore goes on to   *)
(* launch unless the child is there.                                          *)
SyncEnds(effect, p) ==
    IF op.kind = "restore" /\ p = None
    THEN /\ Goto("own_launch") /\ Marked(effect)
         /\ proc' = p /\ UNCHANGED <<disk, last>>
    ELSE Finish(effect, disk, p)

(* sync_cpa_proxy_settings_locked: nothing to do when config.yaml is current. *)
sync_config ==
    /\ op.pc = "sync_config"
    /\ LET readable == disk.db # None /\ disk.cfg # None /\ disk.cfg.key = disk.db.key
       IN  \/ readable /\ disk.cfg = Rendered /\ Works /\ SyncEnds("ok", proc)
           \/ ~readable /\ Works /\ SyncEnds("failed", proc)
           \/ Fails /\ SyncEnds("failed", proc)
           \/ /\ readable /\ disk.cfg # Rendered /\ Works
              /\ disk' = [disk EXCEPT !.cfg = Rendered]
              /\ Goto("sync_previous") /\ UNCHANGED <<proc, history>>
    /\ UNCHANGED env

sync_previous ==
    /\ op.pc = "sync_previous"
    /\ \/ /\ Works
          /\ disk' = [disk EXCEPT !.prev = IF @ = None THEN None ELSE disk.cfg]
          /\ Goto("sync_restart") /\ UNCHANGED <<proc, history>>
       \/ disk.prev # None /\ Fails /\ SyncEnds("failed", proc)
    /\ UNCHANGED env

sync_restart ==
    /\ op.pc = "sync_restart"
    /\ \/ proc = None /\ Works /\ SyncEnds("ok", proc)
       \/ /\ proc # None /\ Works
          /\ proc' = None /\ Goto("own_launch") /\ UNCHANGED <<disk, history>>
       \/ proc # None /\ Fails /\ SyncEnds("failed", None)
    /\ UNCHANGED env

-----------------------------------------------------------------------------
(* rotate_cpa_runtime_key on the protected key (commit_client_keys).          *)

rotate_begin ==
    /\ op = NoOp /\ disk.managed # None /\ disk.db # None
    /\ disk.cfg # None /\ disk.cfg.key = disk.db.key
    /\ \E k \in Keys \ {disk.db.key} :
           op' = [NoOp EXCEPT !.kind = "rotate", !.was = (proc # None), !.key = k,
                              !.pc = IF proc = None THEN "key_config" ELSE "key_upstream",
                              !.before = [disk |-> disk, proc |-> proc]]
    /\ UNCHANGED <<disk, proc, env, history, spent>>

ChildKey(k) == IF proc = None THEN None ELSE [proc EXCEPT !.config.key = k]

(* A child that ran gets back the keys it had.                                *)
OldChild == IF op.was THEN ChildKey(op.before.proc.config.key) ELSE proc

(* The running child gets the new keys first.  A failed call may have been    *)
(* applied: its answer was lost.                                              *)
key_upstream ==
    /\ op.pc = "key_upstream"
    /\ \/ /\ proc # None /\ op.cas /\ Works
          /\ proc' = ChildKey(op.key) /\ Goto("key_check")
          /\ UNCHANGED <<disk, history>>
       \/ ~(proc # None /\ op.cas) /\ Works /\ Finish("none", disk, proc)
       \/ Fails /\ Finish("none", disk, proc)
       \/ proc # None /\ Fails /\ FinishUnobserved(ChildKey(op.key), {"lost"})
    /\ UNCHANGED env

Back(p) == IF p = None THEN "partial" ELSE "compensated"

(* The revision is checked again; the child gets its old keys back.           *)
key_check ==
    /\ op.pc = "key_check"
    /\ \/ op.cas /\ Works /\ Goto("key_config") /\ UNCHANGED <<disk, proc, history>>
       \/ ~op.cas /\ Works /\ Finish(Back(proc), disk, OldChild)
       \/ ~op.cas /\ Fails /\ Finish("partial", disk, proc)
    /\ UNCHANGED env

(* Under the settings lock: config.yaml, its predecessor and the database.    *)
key_config ==
    /\ op.pc = "key_config"
    /\ \/ /\ op.cas /\ Works
          /\ disk' = [disk EXCEPT !.cfg = [proxy |-> proxy, key |-> op.key]]
          /\ Goto("key_previous")
       \/ ~op.cas /\ Works /\ Goto("key_undo") /\ UNCHANGED disk
       \/ Fails /\ Goto("key_undo") /\ UNCHANGED disk
    /\ UNCHANGED <<proc, env, history>>

\* Mutant: the previous config keeps the old key.
key_previous_mutant ==
    /\ op.pc = "key_previous"
    /\ Works /\ Goto("key_row")
    /\ UNCHANGED <<disk, proc, env, history>>

key_previous ==
    /\ op.pc = "key_previous"
    /\ \/ /\ Works
          /\ disk' = [disk EXCEPT !.prev = IF @ = None THEN None ELSE disk.cfg]
          /\ Goto("key_row")
       \/ disk.prev # None /\ Fails /\ Goto("key_undo") /\ UNCHANGED disk
    /\ UNCHANGED <<proc, env, history>>

(* persist_inference_key.                                                     *)
key_row ==
    /\ op.pc = "key_row"
    /\ \/ Works /\ Finish("ok", [disk EXCEPT !.db.key = op.key], proc)
       \/ Fails /\ Goto("key_undo") /\ UNCHANGED <<disk, proc, history>>
    /\ UNCHANGED env

(* Both configs, then the keys of the child.  Failing to rewrite a file that  *)
(* was not changed is no effect.                                              *)
key_undo ==
    /\ op.pc = "key_undo"
    /\ \/ /\ ~op.was /\ Works
          /\ Finish(IF disk = Before THEN "none" ELSE "compensated", Before, proc)
       \/ op.was /\ Works /\ Finish(Back(proc), Before, OldChild)
       \/ /\ ~op.was /\ disk = Before /\ Fails /\ Finish("none", disk, proc)
       \/ /\ op.was \/ disk # Before
          /\ Fails
          /\ \E c \in {disk.cfg, Before.cfg}, q \in {disk.prev, Before.prev},
                p \in {proc, OldChild} :
                 Finish("partial", [disk EXCEPT !.cfg = c, !.prev = q], p)
    /\ UNCHANGED env

-----------------------------------------------------------------------------
(* What happens around the operations.                                        *)

SettingsLocked == {"commit_rows", "commit_managed", "rb_managed", "rm_previous",
                   "rm_versions", "rm_rows", "rm_managed", "key_previous", "key_row"}

(* A saved change of the proxy policy: the revision moves on and the handler  *)
(* goes on to wait for cpa_operations.                                        *)
put_settings ==
    /\ Event
    /\ op.pc \notin SettingsLocked
    /\ proxy' \in Proxies \ {proxy}
    /\ queued' = TRUE
    /\ op' = IF op = NoOp THEN op ELSE [op EXCEPT !.cas = FALSE]
    /\ UNCHANGED <<disk, proc, restore, shutting, history>>

(* The child ends by itself.                                                  *)
die ==
    /\ proc # None /\ Fails
    /\ proc' = None
    /\ marks' = marks \cup {"died"}
    /\ UNCHANGED <<disk, op, env, last>>

(* stop_owned_cpa_runtime: the flag is set and the child stopped under the    *)
(* process lock; whether the stop failed is not looked at.                    *)
shutdown ==
    /\ ~shutting
    /\ shutting' = TRUE
    /\ proc' = None
    /\ UNCHANGED <<disk, proxy, op, queued, restore, history, spent>>

Awaits == {"download", "probe", "undo_probe", "rb_probe", "rb_undo_probe",
           "own_probe", "key_upstream", "key_check"}

(* The client goes away and the handler's future is dropped at an await: only *)
(* the guards of install and update act.                                      *)
cancel ==
    /\ op.pc \in Awaits /\ op.kind # "restore" /\ Event
    /\ disk' = IF op.kind \in {"install", "update"} THEN Guarded(disk) ELSE disk
    /\ op' = NoOp
    /\ marks' = marks \cup {"cancelled"}
    /\ UNCHANGED <<proc, env, last>>

(* The settings handler is dropped while it waits for the lock.               *)
cancel_sync ==
    /\ Event
    /\ queued /\ queued' = FALSE
    /\ marks' = marks \cup {"cancelled"}
    /\ UNCHANGED <<disk, proc, proxy, op, restore, shutting, last>>

(* The process ends and is started again.  Files and rows stay as they are.   *)
crash ==
    /\ Event
    /\ marks' = marks \cup (IF op = NoOp THEN {} ELSE {op.kind})
    /\ op' = NoOp /\ proc' = None
    /\ queued' = FALSE /\ restore' = TRUE /\ shutting' = FALSE
    /\ UNCHANGED <<disk, proxy, last>>

Step ==
    \/ \E v \in Versions : resolve(v)
    \/ configure \/ replace \/ launch \/ probe
    \/ commit \/ commit_rows \/ commit_managed \/ undo \/ undo_probe
    \/ rb_stop \/ rb_config \/ rb_launch \/ rb_probe \/ rb_swap
    \/ rb_rows \/ rb_managed \/ rb_undo \/ rb_undo_probe
    \/ rm_stop \/ rm_refused \/ rm_config \/ rm_previous \/ rm_versions \/ rm_rows \/ rm_managed
    \/ own_launch \/ own_probe \/ start_commit
    \/ sync_config \/ sync_previous \/ sync_restart
    \/ key_upstream \/ key_check \/ key_config \/ key_previous \/ key_row \/ key_undo

Begin ==
    \/ install_begin \/ update_begin \/ rollback_begin \/ remove_begin
    \/ start_begin \/ stop \/ restore_begin \/ sync_begin \/ rotate_begin

Next == Step \/ Begin \/ put_settings \/ die \/ shutdown \/ cancel \/ cancel_sync \/ crash

Spec == Init /\ [][Next]_vars

-----------------------------------------------------------------------------
(* An operation that reports no effect, or a compensated one, has left every  *)
(* file and the database rows as they were, wherever it failed, and the child *)
(* too: a version that ran runs again, unless the host is shutting down or    *)
(* the child died by itself.  Receipts report this word to the operator.  Two *)
(* reports of no effect are not true of the child, because the code reports   *)
(* what it observed: the answer to a key replacement was lost (the child has  *)
(* the new keys, cpa_runtime.rs:2343), and the stop at the beginning of a     *)
(* rollback or a removal or the one of an idle runtime failed (the child is   *)
(* gone, cpa_runtime.rs:1542).                                                *)
FailureLeavesNoTrace ==
    last.effect \in {"none", "compensated"} => last.files /\ (last.child \/ last.unobserved)

(* "The child stops when OCG exits": once shutdown stopped it, no operation   *)
(* that was under way, no compensation and no restore starts another one.     *)
NoChildAfterShutdown == shutting => proc = None

(* Between operations the child runs the version that OCG recorded, and only  *)
(* when the operator wanted it to run: "Clicking Stop cancels that startup    *)
(* recovery".  Crashes do not change this.  Nothing is said once an operation *)
(* was reported as partial, a sync or restore failed, or a request was        *)
(* dropped at an await.                                                       *)
ChildIsAsRecorded ==
    op = NoOp /\ proc # None /\ marks \cap {"partial", "failed", "cancelled"} = {} =>
        /\ disk.managed # None
        /\ disk.managed.desired
        /\ proc.version = disk.managed.current

(* The installed version and the one to roll back to are on disk at every     *)
(* moment, also in the middle of an update, after its failure and after a     *)
(* crash, unless a removal began.                                             *)
VersionsAreOnDisk ==
    disk.managed # None /\ op.kind # "remove" /\ "remove" \notin marks /\ "partial" \notin marks =>
        /\ disk.managed.current \in disk.dirs
        /\ disk.cfg # None
        /\ disk.managed.previous # None =>
               disk.managed.previous \in disk.dirs /\ disk.prev # None

(* "Keep the owner marker until every canonical owned artifact is gone": no   *)
(* failure, cancellation or crash of a removal leaves owned files that no     *)
(* manifest claims.                                                           *)
OwnerMarkerIsLast ==
    op = NoOp /\ disk.managed = None /\ "install" \notin marks =>
        disk.cfg = None /\ disk.prev = None /\ disk.dirs = {}

(* The protected key in the database is the one both configs and the running  *)
(* child accept, through updates, rollbacks, compensations and rotations that *)
(* ran to their end, or OCG locks itself out of its own child.  Exempt are a  *)
(* crash in the middle of a rotation and an operation reported as partial     *)
(* and, for the child, a rotation whose answer was lost and a dropped one.    *)
KeysAgree ==
    op = NoOp /\ disk.db # None /\ marks \cap {"partial", "rotate"} = {} =>
        /\ disk.cfg # None => disk.cfg.key = disk.db.key
        /\ disk.prev # None => disk.prev.key = disk.db.key
        /\ proc # None /\ marks \cap {"cancelled", "lost"} = {} =>
               proc.config.key = disk.db.key

(* "A managed CPA runtime follows the same policy ... changing the policy     *)
(* rewrites the CPA config and restarts a running managed CPA": when nothing  *)
(* failed, crashed or was cancelled and no sync is pending, the child runs    *)
(* with the saved policy.                                                     *)
CpaFollowsPolicy ==
    op = NoOp /\ ~queued /\ marks = {} /\ proc # None => proc.config.proxy = proxy
=============================================================================
