------------------------------- MODULE Retention -------------------------------
(***************************************************************************)
(* lib/modules/backup.py: what is left of the Backups of one plan, run     *)
(* after run.  A run is full or incremental by the count in the state file *)
(* (Plan.incremental, Schedule.is_full); tar brings the database of what   *)
(* it has seen up to date once it has read everything, but the archive may *)
(* still fail to be packed or uploaded; and _cleanup() removes old ones.   *)
(* The steps of a run are those of Backup.                                 *)
(***************************************************************************)
EXTENDS Naturals, FiniteSets, Sequences, SequencesExt

CONSTANTS
    Cycles,      \* values of _cycle
    Keeps,       \* values of keep: 0 for False, or a number
    MaxRuns,     \* bounds the runs of tar
    Absent       \* no count: the state file has no entry

VARIABLES
    plan,        \* _cycle, keep, whether there are increments, and an upload
    count,       \* the count in the state file
    db,          \* the last change that the database has seen, 0 without a database
    now,         \* the last change of the files
    run,         \* the step of the run, its label, and the changes of its archive
    local,       \* archives in the directory, the oldest first: whether they are whole
    remote,      \* archives that were uploaded
    since,       \* runs labelled incremental since one that was not
    hole,        \* since the last whole archive: did a run fail after tar?
    pruned       \* since then: were there more archives than are kept?

storeVars == <<local, remote>>
retentionVars == <<plan, count, db, now, run, storeVars, since, hole, pruned>>

Idle == [step |-> "idle", full |-> TRUE, from |-> 0, to |-> 0]

RetentionInit ==
    /\ plan \in [cycle : Cycles, keep : Keeps, increment : BOOLEAN, upload : BOOLEAN]
    /\ count = Absent /\ db = 0 /\ now = 0
    /\ run = Idle
    /\ local = <<>> /\ remote = {}
    /\ since = 0 /\ hole = FALSE /\ pruned = FALSE

\* Schedule.is_full()
IsFull(n) == ~plan.increment \/ plan.cycle = 0 \/ n >= plan.cycle

\* Plan.incremental(): the state file is written before the run starts.
Select(forced) ==
    /\ run.step = "idle" /\ now < MaxRuns
    /\ LET full == count = Absent \/ forced \/ IsFull(count) IN
         /\ count' = IF full THEN 0 ELSE count + 1
         /\ run' = [Idle EXCEPT !.step = "chosen", !.full = full]
         /\ since' = IF full THEN 0 ELSE since + 1
    /\ UNCHANGED <<plan, db, now, storeVars, hole, pruned>>

\* save() of a Backup, whatever its end.
Saved == count' = IF count = Absent THEN 1 ELSE count + 1

\* _step_compress(): the database goes when the run is full, and tar makes a new one when
\* it has read every file.
Compress ==
    /\ run.step = "chosen"
    /\ LET base == IF run.full THEN 0 ELSE db IN
       \/ /\ now' = now + 1 /\ db' = now'
          /\ run' = [run EXCEPT !.step = "packed", !.from = base, !.to = now']
          /\ UNCHANGED count
       \/ /\ db' = base
          /\ run' = Idle
          /\ Saved
          /\ UNCHANGED now
    /\ UNCHANGED <<plan, storeVars, since, hole, pruned>>

\* A later step fails, or the user stops the Backup: the archive is removed.
Fail ==
    /\ run.step = "packed"
    /\ run' = Idle
    /\ Saved
    /\ hole' = TRUE
    /\ UNCHANGED <<plan, db, now, storeVars, since, pruned>>

Archive == [from |-> run.from, to |-> run.to, whole |-> TRUE]

\* Archives since the last one that needs no other.
Chain(archives) ==
    {n \in DOMAIN archives :
        ~\E k \in DOMAIN archives : k > n /\ archives[k].from = 0 /\ archives[k].whole}

\* Must some of them be removed that were not uploaded?
Overfull(archives, sent) ==
    /\ plan.keep # 0 /\ Cardinality(Chain(archives)) > plan.keep + 1
    /\ \E n \in Chain(archives) : archives[n] \notin sent

\* Mutated: one less.
KeptLess == plan.keep

Kept == plan.keep + 1

\* _cleanup()
Cleaned(archives) ==
    IF plan.keep = 0 THEN (IF plan.upload THEN Front(archives) ELSE archives)
    ELSE IF Len(archives) <= Kept THEN archives
    ELSE SubSeq(archives, Len(archives) - Kept + 1, Len(archives))

Done ==
    /\ run.step = "packed"
    /\ LET archives == Append(local, Archive) IN
         /\ local' = Cleaned(archives)
         /\ remote' = IF plan.upload THEN remote \cup {Archive} ELSE remote
         /\ pruned' = ((pruned /\ run.from # 0) \/ Overfull(archives, remote'))
    /\ hole' = (hole /\ run.from # 0)
    /\ run' = Idle
    /\ Saved
    /\ UNCHANGED <<plan, db, now, since>>

\* The daemon stops during the upload: that ends well, with an archive that is not uploaded.
Interrupt ==
    /\ run.step = "packed" /\ plan.upload
    /\ local' = Append(local, Archive)
    /\ run' = Idle
    /\ Saved
    /\ hole' = (hole /\ run.from # 0) /\ pruned' = (pruned /\ run.from # 0)
    /\ UNCHANGED <<plan, db, now, remote, since>>

\* The system goes down: nothing is saved, and part of an archive may stay.
Crash ==
    /\ run.step \in {"chosen", "packed"}
    /\ run' = Idle
    /\ local' \in {local} \cup (IF run.step = "packed"
                                THEN {Append(local, [Archive EXCEPT !.whole = FALSE])} ELSE {})
    /\ hole' = (hole \/ run.step = "packed")
    /\ db' \in {db} \cup (IF run.step = "chosen" /\ run.full THEN {0} ELSE {})
    /\ UNCHANGED <<plan, count, now, remote, since, pruned>>

\* MSG_USER: the state file and the databases are removed.
Clear ==
    /\ run.step = "idle"
    /\ count' = Absent /\ db' = 0
    /\ UNCHANGED <<plan, now, run, storeVars, since, hole, pruned>>

RetentionNext ==
    \/ \E forced \in BOOLEAN : Select(forced)
    \/ Compress \/ Fail \/ Done \/ Interrupt \/ Crash \/ Clear

-----------------------------------------------------------------------------
(* Properties.                                                             *)

\* The whole archives that are left, here or there.
Stored == {a \in ToSet(local) \cup remote : a.whole}

Reaches(last) ==     \* from a full archive, each change up to this one
    \E full \in Stored :
        /\ full.from = 0
        /\ \A change \in (full.to + 1)..last : \E a \in Stored : change \in (a.from + 1)..a.to

\* Between runs the files can be restored as the last run of tar has seen them; unless, since
\* the last archive that needs no other, a run has failed after tar, or there were more
\* archives than are kept and not all were uploaded.  And there are no more increments in a
\* row than the cycle says.
BackupsRestore ==
    /\ run.step = "idle" /\ now > 0 /\ ~hole /\ ~pruned => Reaches(now)
    /\ plan.increment => since <= plan.cycle
===============================================================================
