------------------------------ MODULE MCModules ------------------------------
(***************************************************************************)
(* Modules that share no variable and no message.  A behaviour is one of   *)
(* the module that its topic names, and the others stay as they are.       *)
(***************************************************************************)
EXTENDS Desktop

CONSTANTS
    Window, MaxLocks,                       \* Session
    Cpus, Value, Maximum, Radio, MaxPosts,  \* Power
    Drives, Adapters,                       \* Drives
    Name, Sub, Entry,                     \* Storage
    Hooks, Result, Stray,                   \* Exchange
    Cycles, Keeps, MaxRuns, Absent,         \* Retention
    Commands                                \* Multi

ASSUME ModulesAssumption == Commands \in Nat \ {0} /\ Maximum \in Value

VARIABLES
    topic,
    window, freeze, spared, lastAc, locked, locks, lapse,
    hw, saved, disk, asked, radioOn, states, boot, deaf, daemon, phase, posts, reduced, lost,
    machine, command,
    data, file, marked, malformed, readOnly, wanted, dirty, edited, slip,
    results, want, handled, told, queue, writer, half, stream, waiter, answer, mixed,
    plan, count, db, now, job, local, remote, since, hole, pruned,
    breaks, cmds, current, life, task, stops, asleep, reported, begun, bailed, overlapped, missed

S == INSTANCE Session
P == INSTANCE Power WITH lapse <- lost
D == INSTANCE Drives
C == INSTANCE Storage WITH Value <- Entry, lapse <- slip
X == INSTANCE Exchange
R == INSTANCE Retention WITH run <- job
M == INSTANCE Multi

Module ==
    {"desktop", "session", "power", "drives", "storage", "exchange", "retention", "multi"}

sessionVars == <<window, freeze, spared, lastAc, locked, locks, lapse>>
powerVars ==
    <<hw, saved, disk, asked, radioOn, states, boot, deaf, daemon, phase, posts, reduced, lost>>
driveVars == <<machine, command>>
storageVars == <<data, file, marked, malformed, readOnly, wanted, dirty, edited, slip>>
exchangeVars ==
    <<results, want, handled, told, queue, writer, half, stream, waiter, answer, mixed>>
retentionVars == <<plan, count, db, now, job, local, remote, since, hole, pruned>>
multiVars ==
    <<breaks, cmds, current, life, task, stops, asleep, reported, begun, bailed, overlapped, missed>>
others == <<driveVars, storageVars, exchangeVars, retentionVars, multiVars>>

\* Only the module of the topic has a choice of initial states.
Only(name, pinned) == topic = name \/ pinned

MCInit ==
    /\ topic \in Module
    /\ Init /\ Only("desktop", enabled /\ auto)
    /\ S!SessionInit /\ Only("session", freeze /\ \A w \in Window : window[w] = "run")
    /\ P!PowerInit /\ Only("power", radioOn = {})
    /\ C!StorageInit /\ Only("storage", readOnly)
    /\ X!ExchangeInit
    /\ Only("exchange", \A n \in 1..Hooks : results[n] = "none")
    /\ Only("exchange", want = [head |-> "own", key |-> FALSE, ok |-> TRUE, errors |-> TRUE])
    /\ R!RetentionInit
    /\ Only("retention", plan.cycle = 0 /\ plan.keep = 0 /\ plan.increment /\ plan.upload)
    /\ M!MultiInit /\ Only("multi", breaks)
    /\ D!DrivesInit(IF topic = "drives" THEN Drives ELSE 0, Adapters)
    /\ Only("drives", machine.drives = <<>> /\ machine.q35 /\ machine.adapters = 0)

MCNext ==
    \/ topic = "desktop" /\ Next /\ UNCHANGED <<topic, sessionVars, powerVars, others>>
    \/ topic = "session" /\ S!SessionNext /\ UNCHANGED <<topic, vars, powerVars, others>>
    \/ topic = "power" /\ lost = {} /\ P!PowerNext     \* bound: until settings may be lost
       /\ UNCHANGED <<topic, vars, sessionVars, others>>
    \/ /\ UNCHANGED <<topic, vars, sessionVars, powerVars>>
       /\ \/ topic = "drives" /\ D!DrivesNext
             /\ UNCHANGED <<storageVars, exchangeVars, retentionVars, multiVars>>
          \/ topic = "storage" /\ C!StorageNext
             /\ UNCHANGED <<driveVars, exchangeVars, retentionVars, multiVars>>
          \/ topic = "exchange" /\ X!ExchangeNext
             /\ UNCHANGED <<driveVars, storageVars, retentionVars, multiVars>>
          \/ topic = "retention" /\ R!RetentionNext
             /\ UNCHANGED <<driveVars, storageVars, exchangeVars, multiVars>>
          \/ topic = "multi" /\ M!MultiNext
             /\ UNCHANGED <<driveVars, storageVars, exchangeVars, retentionVars>>

MCSpec == MCInit /\ [][MCNext]_<<topic, vars, sessionVars, powerVars, others>>

\* Every field of the modules has a value that the code gives it.
ModulesTypeOK == TypeOK /\ S!SessionTypeOK /\ P!PowerTypeOK

(* The properties of a module are looked at in its topic: elsewhere it does not move. *)

\* Session: once the screen is unlocked, every window runs (see Session).
WindowsThaw == topic = "session" => S!WindowsThaw

\* Power: settings outlast hibernates, stops and losses of power (see Power).
SettingsKept == topic = "power" => P!SettingsKept

\* Hydra: the drives and interfaces of a command line do not collide (see Drives).
DrivesPlaced == topic = "drives" => D!DrivesPlaced

\* Configuration: what was set or edited last is kept (see Storage).
ConfigKept == topic = "storage" => C!ConfigKept

\* Messages: a tool that waits is answered by its hooks (see Exchange).
AnswersArrive == topic = "exchange" => X!AnswersArrive

\* Backup: what is left of the runs of a plan can be restored (see Retention).
BackupsRestore == topic = "retention" => R!BackupsRestore

\* Backup: the commands of a list run one after the other, once (see Multi).
CommandsInTurn == topic = "multi" => M!CommandsInTurn
===============================================================================
