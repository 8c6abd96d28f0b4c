-------------------------------- MODULE Power --------------------------------
(***************************************************************************)
(* lib/modules/cpu.py and radio.py in the daemon: the settings of the      *)
(* processors, which a user changes and the configuration keeps, and the   *)
(* radios.  Before the system hibernates the settings are saved and the    *)
(* largest ones set, and the radios that are on are switched off; after it *)
(* both come back.  All of it is done by the dispatcher, whose messages    *)
(* are taken last first (Dispatcher).                                      *)
(***************************************************************************)
EXTENDS Naturals, Sequences, SequencesExt

CONSTANTS
    Cpus,        \* how many processors there are
    Value,       \* values of a setting
    Maximum,     \* the one that is set for hibernate and at the end
    Radio,       \* RADIO_NAMES
    MaxPosts     \* bound: messages that wait when the system begins to hibernate

Setting == 1..(Cpus + 1)     \* one of each processor, in order; the last is the turbo mode

VARIABLES
    hw,          \* the settings that are in force
    saved,       \* those in the configuration: for all of Setting, or none
    disk,        \* what the file of the configuration has of saved and of boot
    asked,       \* the last ones of a user that were answered with True
    radioOn,     \* radios that are on
    states,      \* _states: radios that should be on
    boot,        \* radio.*.boot: radios that are on after a boot
    deaf,        \* has a command of a radio failed?
    daemon,      \* does the daemon run?
    phase,       \* the system: "awake", "going" (to hibernate) or "asleep"
    posts,       \* messages that wait, of "pre", "post" (HOOK_HIBERNATE)
    reduced,     \* was a "pre" handled, and no "post" after it?
    lapse        \* why settings may be lost: see Lapsed

cpuVars == <<hw, saved, disk, asked>>
radioVars == <<radioOn, states, boot, deaf>>
systemVars == <<daemon, phase, posts>>
powerVars == <<cpuVars, radioVars, systemVars, reduced, lapse>>

\* "swapped": the settings were reduced after the hibernate they were reduced for, or saved
\* while they were, because messages were handled out of order or a user or a stop came
\* between; "failed": the settings could not be read, or not all be set; "stale": the daemon
\* started with other settings than the last ones saved, which had not reached the file or
\* could not be loaded from it.
Lapsed(l, happened) == IF happened THEN {l} ELSE {}

Blank == [cpu |-> <<>>, boot |-> Radio]     \* without a configuration

PowerInit ==
    /\ hw = [s \in Setting |-> Maximum] /\ asked = hw
    /\ saved = <<>> /\ disk = Blank
    /\ boot = Radio /\ states = {} /\ radioOn \in SUBSET Radio /\ deaf = FALSE
    /\ daemon = FALSE /\ phase = "awake" /\ posts = <<>>
    /\ reduced = FALSE /\ lapse = {}

-----------------------------------------------------------------------------
(* cpu.py                                                                  *)

Overlay(new, old) == [s \in Setting |-> IF s \in DOMAIN new THEN new[s] ELSE old[s]]

\* _set(): a processor whose governor is busy is left and the others are set; an error ends
\* it before the turbo mode, which may also fail by itself, and is not looked at in a request
\* that names no processors.  These are the sets of settings that may be written.
Written(values) == SUBSET DOMAIN values

Set(values, written) == Overlay([s \in written |-> values[s]], hw)

Maxima == [s \in Setting |-> Maximum]

\* save() of the service: nothing is written when it is read-only or the file cannot be
\* opened, and a write that fails leaves an empty file.
Files(settings, radios) == {[cpu |-> settings, boot |-> radios], disk, Blank}

\* _save(): unless the settings cannot be read.  The dispatcher saves again when it ends.
Save(read, settings, ends) ==
    /\ saved' = IF read THEN settings ELSE saved
    /\ disk' \in IF read \/ ends THEN Files(saved', boot) ELSE {disk}

\* config(): what the validation accepts.  The answer does not say what was written.
Config(values) ==
    /\ daemon /\ phase # "asleep"
    /\ \E written \in Written(values), read \in BOOLEAN :
          /\ hw' = Set(values, written)
          /\ asked' = Overlay(values, asked)
          /\ Save(read, hw', FALSE)
          /\ lapse' = lapse \cup Lapsed("failed", ~read \/ written # DOMAIN values)
                           \cup Lapsed("swapped", reduced)
    /\ UNCHANGED <<radioVars, systemVars, reduced>>

\* Mutated: the maxima are set before they are saved.
KeepAfter(read, maxima, ends) == Save(read, maxima, ends)

Keep(read, maxima, ends) == Save(read, hw, ends)

\* shutdown(): the settings are saved, then read again and the maxima set.
Reduce(late, ends) ==
    /\ \E written \in Written(Maxima), read \in BOOLEAN :
          /\ hw' = Set(Maxima, written)
          /\ Keep(read, hw', ends)
          /\ lapse' = lapse \cup Lapsed("failed", ~read) \cup Lapsed("swapped", late)
    /\ UNCHANGED asked

\* startup(): what is saved is set.
Restore(settings, stale) ==
    \E written \in Written(settings) :
       /\ hw' = Set(settings, written)
       /\ lapse' = lapse \cup Lapsed("failed", written # DOMAIN settings)
                        \cup Lapsed("stale", stale)

-----------------------------------------------------------------------------
(* radio.py                                                                *)

\* _set(): the commands of each radio may fail, which is only logged.
Switch(on) ==
    \/ radioOn' = on /\ UNCHANGED deaf
    \/ on # radioOn /\ UNCHANGED radioOn /\ deaf' = TRUE

\* hook(): an action, unless the radio is known to be that way.
Act(r, on, force) ==
    /\ daemon /\ phase # "asleep"
    /\ force \/ (r \in states) # on
    /\ states' = IF on THEN states \cup {r} ELSE states \ {r}
    /\ Switch(IF on THEN radioOn \cup {r} ELSE radioOn \ {r})
    /\ UNCHANGED <<cpuVars, boot, systemVars, reduced, lapse>>

BootConfig(r, on) ==     \* hook(): saved at once
    /\ daemon /\ phase # "asleep"
    /\ boot' = IF on THEN boot \cup {r} ELSE boot \ {r}
    /\ disk' \in Files(saved, boot')
    /\ UNCHANGED <<hw, saved, asked, radioOn, states, deaf, systemVars, reduced, lapse>>

-----------------------------------------------------------------------------
(* Messages of systemd, and the daemon.                                    *)

Take(m) ==
    /\ daemon /\ phase # "asleep"
    /\ posts # <<>> /\ Last(posts) = m
    /\ posts' = Front(posts)
    /\ UNCHANGED <<daemon, phase>>

\* One that comes after the message for its end, or again before it, reduces or saves what it
\* should not.
Pre ==
    /\ Take("pre")
    /\ Reduce(phase = "awake" \/ reduced, FALSE)
    /\ reduced' = TRUE
    /\ Switch(radioOn \ states)     \* update=False
    /\ UNCHANGED <<states, boot>>

Post ==
    /\ Take("post")
    /\ Restore(saved, FALSE)
    /\ reduced' = FALSE
    /\ Switch(radioOn \cup states)
    /\ UNCHANGED <<saved, disk, asked, states, boot>>

\* run() of the dispatcher: the file is loaded, if it can be, setup_server() and HOOK_STARTUP
\* are run, and the configuration is saved.
Start ==
    /\ ~daemon /\ phase # "asleep"
    /\ daemon' = TRUE
    /\ \E loaded \in {disk, Blank} :
          /\ saved' = loaded.cpu /\ boot' = loaded.boot
          /\ Restore(saved', saved' # saved)
          /\ disk' \in Files(saved', boot')
    /\ states' = boot'
    /\ Switch(boot')
    /\ UNCHANGED <<asked, phase, posts, reduced>>

\* HOOK_SHUTDOWN: radios that are off after a boot are switched off.  Messages that wait are
\* dropped.
Stop ==
    /\ daemon /\ phase # "asleep"
    /\ daemon' = FALSE
    /\ Reduce(reduced, TRUE)
    /\ states' = states \cap boot
    /\ Switch(radioOn \cap boot)
    /\ posts' = <<>> /\ reduced' = FALSE
    /\ UNCHANGED <<boot, phase>>

Crash ==
    /\ daemon
    /\ daemon' = FALSE
    /\ posts' = <<>> /\ reduced' = FALSE
    /\ \/ phase # "asleep" /\ UNCHANGED <<hw, phase>>
       \/ hw' = Maxima /\ phase' = "awake"     \* the power is lost
    /\ UNCHANGED <<saved, disk, asked, radioVars, lapse>>

Tell(m) == posts' = IF daemon THEN Append(posts, m) ELSE posts

Hibernate ==     \* also while messages of the last one wait
    /\ phase = "awake" /\ Len(posts) < MaxPosts
    /\ phase' = "going"
    /\ Tell("pre")
    /\ UNCHANGED <<cpuVars, radioVars, daemon, reduced, lapse>>

Sleep ==     \* also before the message is handled
    /\ phase = "going"
    /\ phase' = "asleep"
    /\ UNCHANGED <<cpuVars, radioVars, daemon, posts, reduced, lapse>>

Wake ==
    /\ phase = "asleep"
    /\ phase' = "awake"
    /\ Tell("post")
    /\ UNCHANGED <<cpuVars, radioVars, daemon, reduced, lapse>>

PowerNext ==
    \/ \E some \in SUBSET Setting : \E values \in [some -> Value] : some # {} /\ Config(values)
    \/ \E r \in Radio, on, force \in BOOLEAN : Act(r, on, force)
    \/ \E r \in Radio, on \in BOOLEAN : BootConfig(r, on)
    \/ Pre \/ Post \/ Start \/ Stop \/ Crash
    \/ Hibernate \/ Sleep \/ Wake

PowerSpec == PowerInit /\ [][PowerNext]_powerVars

-----------------------------------------------------------------------------
(* Properties.                                                             *)

PowerTypeOK ==
    /\ {hw, asked} \subseteq [Setting -> Value]
    /\ {saved, disk.cpu} \subseteq [Setting -> Value] \cup {<<>>}
    /\ radioOn \cup states \cup boot \cup disk.boot \subseteq Radio
    /\ {deaf, daemon, reduced} \subseteq BOOLEAN
    /\ phase \in {"awake", "going", "asleep"}
    /\ posts \in Seq({"pre", "post"})
    /\ lapse \subseteq {"swapped", "failed", "stale"}

Settled == daemon /\ phase = "awake" /\ posts = <<>> /\ lapse = {}

\* When the system is awake and nothing waits, the settings in force are those that a user was
\* last told are set, through hibernates that follow each other before their messages are
\* handled, stops, losses of power and saves that fail; the configuration has them or none;
\* and the radios that are on are those that should be, unless a command has failed.  Up to
\* the lapses.
SettingsKept ==
    Settled =>
        /\ hw = asked
        /\ saved \in {<<>>, asked}
        /\ ~deaf => radioOn = states
===============================================================================
