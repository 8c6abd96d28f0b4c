# A verification of the SMD daemon

SMD is the System Management Daemon of Spaceport (`src/usr/lib/smd`, Python).
One daemon runs as root and one client runs in each user session; both are the
same program: a *service* with a message loop, a scheduler, a socket and a set
of modules whose functions ("hooks") are called for messages. This directory
holds TLA+ specifications of the service (message loop, scheduler, connections,
configuration, requests and replies) and of the modules that keep a state: backups,
the Lockers that keep the system from sleeping, the lock screen, virtual machines,
backgrounds and displays, frozen windows, processors and radios. With them are the TLC
configurations that check them, and proofs about the message loop, the scheduler, the
connections, backups and the commands they run, windows, configuration and power.

Paths below are relative to `src/usr/lib/smd/lib`.

## 1. The system

### Components, their state and their operations

| Component | State it keeps | Operations | Threads |
|---|---|---|---|
| Dispatcher (`structs/dispatcher.py`) | `_messages` (a list, no lock), events `_waiting`, `_running`, `_complete` | `add`, `stop`, the loop `run` | its own; `add` by every thread |
| Executer (`structs/dispatcher.py`) | `_sched` (created on first use), `_watch` (a list, no lock), `_signal` | `add_task`, `cancel_task`, `watch_process`, the loop `run` | its own; the calls by dispatcher and executer |
| Server (`server.py`) | `_clients` (file descriptor → `Conn`); in each `Conn` a socket and a list `_queue` | accept, read, close, `send` (reply or broadcast), `_flush`, `_stop` | main thread reads and closes, every thread sends |
| Backup (`modules/backup.py`) | `_current`, `_queue`, the state file; in each `Backup` `_state`, `_proc`, `_timeout`, events `_cancel`, `_paused` | start, stop, suspend, resume, clear, the seven steps of a job, timeouts, end of a job | dispatcher (requests, messages), executer (exits, timeouts) |
| Locker, server half (`modules/locker.py`) | `_lockers` (name → Locker), `_update`, `_backoff`, `_suspending`, `_hibernating`, `_wake_alarm` | set, remove, expire, reload, broadcast; before and after a sleep; lid switch and screens | dispatcher, executer |
| Locker, client half | `_lockscreen`, `_idle`, `_dpms`, `_sleeper`, `_ability`, two backoffs | lock, trigger, unlock, sleep, reload, timers of suspend and of the backoffs | dispatcher (messages), executer (a look each second, timers); both lock |
| Hydra (`modules/hydra.py`) | `_vms`, `_usb`, `_running`, reserved memory; in each `VM` its `_state`, `_proc`, `_usb`, interfaces, timer | start, stop (by force or not), sleep, wake, hibernate, add and remove USB devices, the visit of every VM each second, exits; building the command line | dispatcher (requests), executer (visits, timers, exits) |
| Background (`modules/background.py`) | `_handle`, `_lock`, `_size`, `_proc`, the cache of pictures | pick a picture, show it, convert it, link it for the lock screen | dispatcher (requests, reload), executer (rotation, end of a conversion) |
| Display (`modules/display.py`) | `_last`, the list of outputs | compare, light new outputs, follow the lid, tell of a change | dispatcher |
| Session (`modules/session.py`) | which windows count, the last source of power; the windows themselves are stopped and kept nowhere | freeze, thaw, reload, run commands | dispatcher |
| CPU, Radio (`modules/cpu.py`, `modules/radio.py`) | the saved settings, `_states` and the sysfs files | apply, save, reduce before a hibernate, restore | dispatcher |
| Brightness | none: each request reads and writes one file | set | dispatcher |
| Notify, Forwarder, Waybar | none | translate a message into a program call | dispatcher |
| Storage (`structs/storage.py`) | the configuration, a tree of dicts, and its file | get, set, save, load | every thread |
| Message, Hook (`structs/`) | none | framing, turning the results of hooks into messages, waiting for an answer | every thread, and the tools |
| Client (`client.py`) | its socket | connects once, reads until the daemon goes away, and ends | its main thread |
| Loader, Constants, Utilities, Tools | none | start-up; command line requests | none of their own |

### How they interact

- The main thread of the server reads a request from a `Conn` and gives it to
  `Dispatcher.add()` with the descriptor of the connection as address (`eid`).
- The dispatcher thread pops messages **from the end** of the list, calls the
  hooks of the module that registered for them and sends the results back
  through the server.
- A hook may call `forward()`, which is `Dispatcher.add()` on its own service,
  `task()`/`watch()`, which are `add_task()` and `watch_process()`, and
  `notify()`/`send()`, which write to clients.
- The executer calls modules back, on its own thread, when a task is due or a
  watched process has exited. A module is thus worked on by two threads.
- `service.stop()` sends HOOK_SHUTDOWN to the clients, stops the dispatcher (which runs the
  SHUTDOWN hooks and stops the executer) and closes the connections.

### What is hard about it

There is no lock in the program. Lists and dicts are shared by three threads;
single operations on them are atomic (the interpreter lock), but a test and the
use of what was tested are two operations. Events are set and cleared by
different threads. Messages are handled last first. Processes exit when they
like, and a killed process still causes the callback of its watch. Exceptions
end a hook, a callback or a whole thread depending on where they are raised.

### What makes each component correct

- Dispatcher: an accepted message is taken exactly once while the loop is open;
  stop() ends the loop.
- Executer: a task runs once or is cancelled, never both; an exit is noticed once.
- Server: every message is written once to the connection it is meant for, and
  nothing waits in a queue while nobody is going to write it.
- Backup: at most one job runs; a job has one process; it ends in the end; what
  it reports (state, state file, Locker) is true.
- Locker: a Locker that is set lasts until it is removed or expires, and the
  clients learn of both; after a sleep the daemon knows that it is awake, and
  hibernates only when the alarm it set has woken the system (apart from two races).
- Hydra: every VM that runs is known; what it claims (memory, interfaces, devices)
  is given back; one whose process has exited is removed.
- Locker, client half: whatever a lock has changed (the idle process, the display,
  the timer that asks to suspend) is undone with it, and nothing but the user ends the lock
  screen.
- Hydra's command lines: no two drives on one unit, no two devices at one address.
- Background, Display: one task rotates the pictures, the guard of a conversion is
  opened again, the size pictures are converted to is that of an output that is lit.
- Session: what was stopped at the lock runs after the unlock.
- CPU, Radio: settings that were accepted outlast hibernates, stops and losses of power.
- Storage: what was set or edited last survives saving and loading.
- Messages: a tool that waits gets an answer if a hook gave one, and no other.
- Archives of a Backup: what is left of the runs of a Plan is enough to restore the files.

## 2. Modules and how they correspond to the code

| Module | Models | EXTENDS / instances |
|---|---|---|
| `MessageBus` | the abstract promise of the message loop | |
| `Dispatcher` | `structs/dispatcher.py` 59–200 | instance of `MessageBus` |
| `DispatcherProofs` | theorems about `Dispatcher` and `Executer` | the modules, `ListLemmas` |
| `ListLemmas` | lemmas about lists without repetition, which the proofs below cite | `SequencesExt`, `TLAPS` |
| `ServerProofs`, `BackupProofs`, `LockerProofs` | theorems about `Server`, `Backup`, and `LockerServer` with `LockerClient` | the modules, `ListLemmas` |
| `HydraProofs` | theorems about `Hydra` | `Hydra`, `TLAPS` |
| `DesktopProofs` | theorems about `Desktop`, that is `Background` with `Display` | `Desktop`, `ListLemmas` |
| `ModulesProofs` | theorems about `Session`, `Storage`, `Power` and `Multi`, and about them and `Desktop` in `MCModules` | `MCModules`, `DesktopProofs` |
| `Executer` | `structs/dispatcher.py` 59–279: `Dispatcher.add_task`, `cancel_task`, `watch_process`, `DispatchExecuter` | |
| `Server`, `MCServer` | `server.py`, `Message.send` of `structs/message.py` (`MCServer` adds the symmetry set) | |
| `Backup` | `modules/backup.py`: `Backup`, `BackupServer`; `util/exec.py`: `stop` | |
| `Multi` | `modules/backup.py` 456–527: `Multi`, as `Backup` and the executer use it | |
| `LockerServer`, `MCLockers` | `modules/locker.py` 829–1327: `LockerServer` (`MCLockers` bounds what a behaviour does) | `Threads` |
| `LockerClient` | `modules/locker.py` 413–827: `LockerClient` | `Threads` |
| `Threads` | the two threads of a process, which both halves of the Lockers have | |
| `Hydra` | `modules/hydra.py`: `VM`, `HydraServer` | |
| `Drives` | `modules/hydra.py`: `_build_drives`, `_build_adapters`, `_build` | |
| `Background` | `modules/background.py` | |
| `Display` | `modules/display.py` | |
| `Desktop` | the two on one client, with the messages between them | `Background`, `Display` |
| `Session` | `modules/session.py` | |
| `Power` | `modules/cpu.py`, `modules/radio.py`, `shared/cpu.py`, `shared/radio.py` | |
| `Storage` | `structs/storage.py`, `load` and `save` of `service.py` | |
| `Exchange` | `structs/message.py`, `structs/hook.py` | |
| `Retention` | `modules/backup.py`: `Plan.incremental`, `Schedule.is_full`, `_step_compress`, `_cleanup` | |
| `MCModules` | the modules from `Drives` to `Retention`, each in the behaviours of its topic | `Desktop`; instances of the others |

In all modules a thread has a program counter, and an action is what the thread
does between two places where another thread can see or disturb it: a test of an
event, an append, a pop, a `set()`, an assignment to a field that another thread
reads. Operators whose comment begins with "Mutated:" are plausible wrong
variants of the definition that follows them. They are used in no
specification; substituting one for the definition it precedes makes TLC report
a violation of a property (`PROJECT.json`, "mutants"), which shows that the
property depends on that code.

**MessageBus.** `pending`, `taken`, `open`: a message is accepted, taken at most
once, and none is taken after the bus is closed.

**Dispatcher.** `messages`, `waiting`, `running`, `complete` are the four fields
of the class; `pc` is the place in `run()`, `apc[t]` the place of thread `t` in
`add()`. `AddTest`, `AddAppend`, `AddSet` are the three statements of `add()`;
`Test`, `Check`, `Clear`, `Wait`, `Pop` those of the loop. The hooks of a
message are the places "boot", "hooks" and "shutdown", where the dispatcher
thread itself may add messages; they return or raise, which is the same to the
loop except for log messages (`LogDone`), whose send is outside of the try block.

**Executer.** `sched` is the reference `_sched`, `queue[s]` the queue of the
`s`-th scheduler that was created (there may be two, because the test for None
and the assignment are two steps). A task's time is abstracted to its place in
the queue, and `due` is a prefix of it. `idx` is the position of Python's
iterator over `_watch`, from which `Reap` removes entries; a `poll()` that raises (`PollRaises`) or a
task that does ends the thread.

**Server.** `clients` is `_clients`, a dict that keeps its order of insertion;
`sock` and `queue` the fields of each `Conn`.
`SendBegin` … `FlushEnd` are `send`, `_send_one`, `Conn.add`, `_flush` and
`Conn.flush`, statement by statement, on any thread, on the main thread only
for the broadcast of `_stop`. `SendHead` and `SendBody` are the two `sendall()` of
`Message.send` (`structs/message.py` 228–229); a connection in `Slow` may have a full
buffer, which loses the part and all that follows of the message. `CloseSocket`, `ClearQueue`, `DropFields`,
`Forget` are `Conn.close`. Exceptions (KeyError, IndexError, AttributeError) are
the place "raised". `DropReply` is a single reply to a client that is gone, which ends the send without a flush.

**Backup.** `current`, `queue`, `saved` belong to `BackupServer`, the variables
indexed by a job to each `Backup`. `_next`, `_update` and `_stop` call one
another in tail position, so a thread in them is at one place (`pc`) of one
`job`; `cont` says who called. `Reap` and the two timeouts are the executer's
callbacks, `HandleLock` and `HandleEnd` the dispatcher's handling of forwarded
messages (`bus`, last first, as `Dispatcher` shows), `StartPlan`, `StartDue`,
`UserStop`, `Dequeue`, `ClearState`, `Suspend`, `Resume`, `ShutdownHook` the
requests. `Kill` is `util.exec.stop`; it may raise after the kill because
`returncode` is read from objects that have none.

**LockerServer.** `table` is the dict `_lockers`; a Locker object has a `name`
and the state of its expiry, `task`: in the queue of the scheduler, taken from it
(when `cancel_task` no longer has an effect, as `Executer` shows), or closed.
`Add`, `Drop`, `PopName`, `Close`, `Store`, `Mark` are the statements of
`_locker_add`, `_locker_remove` and `_locker_close` on the dispatcher, `Expire`,
`ExpirePop`, `ExpireMark` those of an expiring Locker on the executer, and
`NotifyTest`, `Tell`, `ClearUpdate` those of `_notify`, where `told` is what the
clients were sent. `ReloadNext` is one round of the loop over the dict, which
raises when the dict has changed. `PreSuspend` … `Restart` are `suspend`,
`hibernate`, `_wake_set` and `_wake_check`, `ScreenTest` and `ScreenSet` the test
and the assignment of `_backoff` in `screen`, which both threads call. systemd,
the hardware clock and the user are the environment: `Leave` puts the message
"pre" in the `inbox`, the system sleeps whether or not it was handled (systemd
waits only for a time), `WakeUp` puts "post"; the list is handed out last first.
`rtc` is the alarm of the hardware clock, `alarm` the flag `_wake_alarm`, and `woken` (which no
code has) what woke the system last: that alarm or something else.
`history` records the races of the code that the properties make an
exception for (see `Raced`), and without the exceptions the properties fail; a run
records those (`Race`) that its properties name.

**Hydra.** `vm` holds the fields of the VM objects, `vms` is `_vms`, `owner` is
`_usb` of the server (which VM a device was given to), `pages` the ids memory is
reserved for, `taps` those that have network interfaces, `running` is `_running` and
stands for the bridge, its services and the directory too. `alive` and `watch` are
the processes and the executer's list of them. `th[t]` is where a thread is
(`at`), with what it has read: the VM, its copy of the list of VMs (`todo`) or of
devices (`usb`), the state it is about to assign (`next`). `Boot` is
`HydraServer.start`; `Build`, `Spawn`, `Poll`, `Perm` are `VM._start` and the
listing in `hook`; `Kill` and `StopEnd` are `VM._stop`; `StopNext`, `StopClear`,
`StopDown` are `HydraServer.stop`; `ThreadBegin`, `Visit`, `Promote`, `Drop` are
`thread()` and `VM._thread`; `TimerDue` is the timer of a soft shutdown; `Reap`
and `Verdict` are the read and the assignment in `VM.__stop`. The other actions of
the dispatcher are requests, each split where the executer can come between.
`history` records the races named at `Raced`, as in `LockerServer`.

**LockerClient.** `screen` is `_lockscreen`, `up` the lock screen processes that run;
`idle` and `dpms` are the processes `_idle` and `_dpms`, `fits` says which timeouts the
first was started with, `sleeper` and `wakes` are `_sleeper` and the scheduler's queue.
What both halves have a name for is prefixed here (`clientTold`, `ClientNext`), so that one
module can prove about both.
`LockExec` … `LockTell` are `_lock`, `UnlockKill` … `UnlockReset` are `_unlock`, `Check`
and `Make` are `_wake_check`: each may be run by the dispatcher (`Handler`: messages, keys,
sleeps, sources of power, reload, shutdown) and by the executer (`Round`, `Look`, `DropIdle`:
the visit each second; `Timer`). `th[t]` is the place of a thread with the place it returns
to. `clientHistory` records the races that the comment at `ClientRaced` names; `Torn` ends a behaviour
after one of those from which the code does not recover.

**Background, Display, Desktop.** `handle` and `tasks` are `_handle` and the queued calls of
`_change`; `lock` is `_lock`, the guard of a conversion; `viewers` are the swaybg processes.
`Begin` … `Mark` are `_background()`, which both threads run; `Fire` and `Again` are the begin
and the end of `_change()`, `Link` the end of a conversion. `output` and `last` of `Display`
are what sway says and `_last`; `Check` is `_check`, each of whose commands to sway may fail. `Desktop` hands messages out last
first: "monitor" by the daemon, "display" by Display for Background. `unseen` records that an
output has changed without `_last` telling so (an unplugged output stays in it).

**Session.** `window` is the state of each window, `locks` the messages of the lock screen
that wait. `lapse` records why a window may stay frozen: the configuration was reloaded,
the windows could not be listed, or the two messages were swapped.

**Power.** `hw` are the settings in force, `saved` those of the configuration in memory, `disk`
what the file has of them, `asked` the last that a user was told are set: `config()` answers True
whatever `_set()` has written. `Reduce` and `Restore` are the handlers before and after a hibernate, also
at stop and start. Of a write of several settings any may be left out (`Written`: an error ends it,
a busy governor is stepped over, the turbo mode fails by itself), and a save may leave the file as it
was or empty (`Files`). `phase` is the system, which sleeps whether or not the handler was run, and
again before the message of its last wake is handled; `posts` are the messages that wait, taken
last first. `lapse` records why settings may be lost: "swapped", "failed", "stale" (see `Lapsed`).

**Drives.** A pure algorithm: `CheckDrive` and `PlaceDrive` are the bodies of the two loops of
`_build_drives`, folded over the drives; `Buildable` is the reference that says, without the
loops, which machines have a command line.

**Storage.** `data` and `file` are two trees of names of one or two parts; `Set`, `Default`,
`Save`, `Load` the operations with their error paths, `Edit` the user: a save may fail before the
file is opened, or after that has emptied it ("torn"). `wanted` is what was
set or edited last. `lapse` records why a value may go.

**Exchange.** One request with its hooks: `Reply` is what `Hook.run` makes of a result, `Match` the
condition of `_wait_for`; `SendHeader` and `SendPayload` the two writes of a message, on both
threads; `mixed` records that they met.

**Retention.** `count` is the entry of the state file, `db` what tar's database has seen, `local`
and `remote` the archives, each with the range of changes it holds. `hole` and `pruned` record
the two ways in which archives stop being enough (see the observations).

**Multi.** `cmds`, `current` and `life` are the list, its process and what became of each command;
`Poll`, `Test`, `Pop` and `Start` are the steps of `poll()`, which the executer's visit, `suspend()`,
`resume()` and `stop()` all run: `task[t].op` says for what, and `ReturnsNone` and `ReturnsExit` where
that goes on. `command_pre` may be worked on by both threads, `command_post` (`breaks` is FALSE)
only by the executer, as its Backup is stopped by then. `Clear` and `Kill` are the rest of a stop.
`overlapped`, `bailed` and `missed` record what the property excepts.

**MCModules, MCLockers.** In `MCModules` the variable `topic` names one of several specifications
that share no variable and no message; the others keep their initial state. One run then checks
them all, and the states add up instead of multiplying. In `MCLockers` there is one specification,
and `OfTopic` says which of its behaviours are considered: those without a sleep, or those with
one Locker.

### Abstractions

- Messages, tasks, processes, Plans are model values; what is in them is not
  modelled. A hook is a place where its thread may call the service, return or raise.
- The commands a Backup runs succeed or fail as they like. A command that is a
  pipe (`Dual`) or a list (`Multi`) is one process in `Backup`; what a list does inside is
  in `Multi`. `_step_read`, which only logs output, is left out, as are
  the status reply and the parsing of `backup.json`.
- Hours of BACKUP_TIMEOUT do not pass inside one call (`Starting`); otherwise a
  timeout may come at any time, and processes exit at any time or never.
- In `LockerServer` durations are left out: an expiry, a backoff or an alarm may
  come at any time after it was set, but not within the call that sets it.
  Connected displays, the bytes of the lid switch and errors of the sysfs files
  are free choices; the lid file is open whenever the client has the ability.
- In `Hydra` the guest agent, `restart`, and requests to all VMs at once are left out,
  as are the window of a VM and the options of QEMU; a guest that is told
  to shut down may exit, like any process, at any time. The reservation of memory is
  by id, and whether there is enough is a free choice.
- The SIGALRM watchdog of the executer only logs. Setting up and accepting on
  the socket are I/O.
- In `LockerClient`, `Background`, `Power` and `Session` durations are left out in the same way.
  Programs (swaylock, swayidle, swaybg, the conversion, rfkill) are processes that may exit or
  fail at any time, pictures and sizes are small sets, and swaymsg is a free choice of
  success or failure.
- `Exchange` counts a header and its payload as two writes also when the payload is empty; the
  wire format and the encoding are left out. `Storage` leaves out JSON: a file can be loaded or not.
- `Retention` keeps of the steps of a run what bears on the archives; that they follow one
  another is in `Backup`.
- Identifiers are fresh: `uuid4` of a Backup does not repeat. File descriptors
  do: `Server` reuses them.

## 3. Runs

Passing runs:

| Run | Properties | What it shows |
|---|---|---|
| `Dispatcher` | `TypeOK` `Conservation` `BusSpec` `Wakes` | Three messages (hooked, log, un-hooked), three adding threads and a stop in every interleaving. No message is lost from the unlocked list or is in it twice; the loop implements `MessageBus`; apart from the window between the length test and `clear()`, a finished `add()` and `stop()` have their effect. |
| `Executer` | `ExecuterTypeOK` `CancelIsFinal` `CalledOnce` `ExitNoticed` `TaskRuns` | Two threads add and cancel two tasks and watch two processes. `cancel_task()` returning True is final; removing entries under the iterator delays a callback but never loses or repeats it; a due task runs unless a second scheduler was being created. |
| `Server_safety` | `TypeOK` `Delivered` `NoneStranded` | Two threads reply and broadcast over two connections while the main thread accepts and closes them. |
| `Server_live` | `QueuedIsWritten` | Two connections take turns on one descriptor: what is queued for a connected client is written unless a send has raised. |
| `Backup_job` | `TypeOK` `Controlled` `DoneIsPacked` `JobEnds` | One Backup with both commands, all steps and every request at any moment. |
| `Backup_queue` | `OneAtATime` | Two Plans, two jobs in a row, the queue, its removal requests and the daily timer; the upload of one Plan raises. |
| `Lockers` | `TypeOK` `ExpiryFits` `ToldIsHeld` `SleepEnds` `HibernateByAlarm` | Topic "expiry": two names, two Locker objects, the dispatcher and the executer: a Locker that is held keeps its expiry, one that was removed takes it along, and the clients know what is held. Topic "sleep": the system sleeps and wakes in every order of its messages: a backoff ends, the daemon knows that it is awake, and a resume leads to hibernation only when the alarm that was set for it has woken the system, up to the races "early" and "past". |
| `LockerClient` | `ClientTypeOK` `LockUndone` `LockStays` | The dispatcher and the executer lock, clean up, sleep, change the source of power, reload and shut down in every order: what a lock has changed is undone with it, the timer that suspends is the one that can be cancelled, and no step of the client ends a lock screen that runs. |
| `Hydra` | `TypeOK` `Accounted` `Released` `DownIsEmpty` `ExitCleaned` | VMs of one id, started, stopped, put to sleep, shut down and given a device while the executer visits them and their processes exit: no running VM and no device in use is unknown, what was claimed is given back, the bridge goes only when no VM runs, an exit is noticed. |
| `Modules` | `ModulesTypeOK` `BackgroundHolds` `WindowsThaw` `SettingsKept` `DrivesPlaced` `ConfigKept` `AnswersArrive` `BackupsRestore` `CommandsInTurn` | Eight topics: one rotation of backgrounds whose guard opens again, in spite of two threads and a reload; pictures of the size of a lit output; no window stays stopped; settings outlast hibernates, partial writes and losses of power; command lines without collisions, built exactly when they can be; no value of the configuration is lost except in the four ways named; a tool that waits is answered; archives that can be restored after failures, interruptions and pruning; and commands of a list that run in turn, each once. |

Runs that show where the code does not do what it says:

| Run | Property | What happens |
|---|---|---|
| `Dispatcher_lost` | `EveryMessageCalled` | A message appended, and its event set, between "is the list empty" and `_waiting.clear()` waits until another message comes (`structs/dispatcher.py` 99–101). |
| `Backup_sleep` | `SuspendSurvives` | The timeout of the step goes on while the Backup is suspended and stops it (`modules/backup.py` 795–803). |

Both are findings in `PROJECT.json` with the text they contradict.
The following was seen with the same models and is recorded here without a run of
its own. In the service:

- `close()` clears the list of a connection between `len()` and `pop()` of its flush:
  IndexError, which the handler for exactly this race ("Catch race condition") does not name
  (`server.py` 104–113). It ends the send, and the messages after it are not written (`Server`,
  place "raised").
- An executer that dies sends its own process SIGINT (`service.py` 136–141): one task that raises
  ends the daemon; so does a `poll()` that raises, as that of a list of commands may
  (`structs/dispatcher.py` 259, `PollRaises`).
- The client does not connect again: when the daemon goes away, it ends (`client.py`).
- `_wait_for` without a timeout blocks for ever when no message matches, which it does for a
  hook that returns None; `AnswersArrive` speaks of what is left in the connection.
- The payload of a message is read with a single `recv()`: a short read is an exception
  (`structs/message.py`).
- A reload merges the file into memory: values that were set and not saved are replaced
  ("unsaved"), a save writes over edits that were not loaded ("unread"), and what was
  removed from the file stays in memory ("removed").
- The loader runs the setup of a class again that has failed at it.
- Two threads that flush one connection write a header, then a header, then two
  payloads: the client takes the one header for the payload of the other
  (`structs/message.py` 228–229; `SendHead` and `SendBody` of `Server`).

In the modules of the daemon:

- The end of a Backup is announced a second time when its killed process exits,
  and `control` does not compare the uuid of the message: the announcement may
  stop the Backup that was started since (`modules/backup.py` 1886). The bound of
  two jobs in `Backup_queue` contains this; `OneLiveJob` holds all the same.
- The lock and unlock messages of a Backup that ends within the call that starts
  it wait together and are handled in reverse: the Locker stays (1347, 1376).
- An expiring Locker removes whatever is held under its name
  (`modules/locker.py` 1321): when it was replaced after its task was taken, the
  new Locker goes and its own task remains ("hit").
- A reload (1093) iterates the Lockers while the executer may remove one: the
  RuntimeError leaves the Lockers it had visited in the table, without a task
  ("torn"). A reload that succeeds clears `_update` (1096), so the clients keep
  the Lockers they were told of ("silent").
- The messages before and after a sleep are handled in reverse when they wait
  together: `_suspending` stays set after the resume, which disables the lid
  switch until the next sleep ("swapped").
- When a Hibernate Locker is set while the system sleeps, or the client loses
  the ability, `_wake_check` returns before it resets the hardware alarm (996).
- `screen()` after a resume does nothing, since `_backoff` was set just before
  (1180–1181): the state of the displays is as old as the last call.
- A status request for a Locker that is held reads `message.lower` instead of
  `message.locker` (1063) and raises KeyError.
- `_update` is cleared after the broadcast (`modules/locker.py` 889–890): a Locker
  that is set while the executer is in between is not announced until the next change
  ("silent").
- A suspended Backup whose process exits all the same (it was about to be
  replaced when SIGSTOP was sent) enters its next step and is no longer paused:
  `wait()` on an event that is set returns at once (`modules/backup.py` 1266).
- A Plan without a key makes `_step_keygen` read `self.server`, which a Backup
  does not have (992–1000); a Plan without upload section makes `_step_upload`
  call a method of None (1041). The job is then left to its timeout, which
  `Guarded` and `JobEnds` show to exist.
- `_cancel` is set before `_state` (1092, 1109): a shutdown that comes while the
  executer is in between saves a state that does not yet say how the Backup
  ended.
- A shutdown during the upload marks the Backup DONE although the upload was
  killed: `_stop(force=False)` takes UPLOADING for success (1108).
- Processes given to `watch_process()` outlive the service: the executer
  means to stop them when it ends, but passes `stop()` the entries of its list, which are
  tuples and not processes (`structs/dispatcher.py` 228–229).
- A VM whose process has exited and that is started again before the executer has seen
  it is taken off the list with the new process ("again"); a VM that is being started
  while the executer shuts Hydra down for inactivity loses its bridge and its directory
  ("overlap"; `modules/hydra.py` 1748, 1875).
- `HydraServer.start()` may return without an exception and without having started
  anything; `hook()` starts the VM all the same, and the executer's next round takes all VMs
  off the list, the running ones too (1744, "unready").
- When the number of reserved pages cannot be written at the end of a VM, this is logged and the
  memory stays reserved for its id (1417, 2009, "kept").
- A start that fails leaves the memory reserved and the interfaces made: `_stop()`,
  called with its first two arguments swapped (870), returns at once since the state is
  "stopped" ("failed"). When the interfaces cannot be made, the second try (861) does
  nothing, as the first has emptied `_adapters`: the VM runs without them (`Spawn`).
- `VM.__stop` writes what it has made of the exit; the assignment of `_sleep`, of
  `_start` or of the visit may overwrite that, and the VM stays listed as running or
  sleeping without a process ("undone").
- A device that is added while its VM is cleaned up stays registered ("late"); a second
  device always fails, since `max(self._usb.keys()) + 1` adds a number to a string (1490).
- KeyError in `_usb_clean` during the timer of a soft shutdown is caught nowhere and ends
  the executer thread (place "dead"); in a request it ends the request. The loop over
  `_vms` before a sleep of the system raises RuntimeError when the executer removes a VM.
- `_update` tests `_cancel` before the step starts its process (1260): a stop in
  between leaves a process that nobody kills. `OneProcess` is therefore about
  jobs that are not stopped.

- Two threads that poll a list of commands (`Multi`) at once start two commands at a time, report its
  end while the last one is being started, or take from an empty list: an IndexError that ends the
  executer ("overlapped"). A stop that comes while the executer starts a command does not kill it.
- When the next command of a list cannot be started, `poll()` returns the exit code of the one before
  (490): the list counts as a success. The later ones stay in the list, and when it was `suspend()` or
  `stop()` that polled, the executer's next visit starts them, even of a stopped Backup ("bailed").
- A command that exits between the poll and the SIGSTOP of `suspend()` (794–796): the next one is
  started although the Backup is suspended ("missed").
- `save()` of a Backup adds one to the count that `incremental()` has raised already (302): full
  backups are made about twice as often as the cycle says.
- tar brings its database up to date before the later steps; when one of those fails, the
  archive is removed, and the next increment leaves out what was in it ("hole" of `Retention`).
- `_cleanup` keeps the last archives by number: the full one that the increments need may be among
  those it removes ("pruned").
- When the messages before and after a hibernate are handled in reverse, the radios stay off and
  the largest settings are what is in force; the next stop saves them. A hibernate that begins before
  the message of the last wake is handled, and a change by a user or a stop between the two messages,
  save the largest settings too ("swapped" of `Power`).
- `config()` of the processors answers True also when settings were not written (201–204, "failed"),
  and a configuration that is read-only or cannot be written is only logged (`service.py` 81–92): the next
  start of the daemon sets what the file had before ("stale").
- A file is emptied when it is opened for writing: a save that fails after that leaves one that
  cannot be loaded (`util/file.py` 522, "torn").
- The settings of processors are found with the pattern `cpu[0-9+]`, which is one digit: from
  the eleventh processor on they are left alone.
- `max()` of an empty list is taken when the first drive has no index, so such a machine does
  not start; a drive that is a block device reuses the loop's counter `i` for a name (1205), with a
  TypeError after it; on machines that are not q35 the units of IDE drives are divided by two with a
  fraction (`Drives`).

In the modules of the client:

- Both threads may start a lock screen ("twin") or a timer that asks to suspend ("twice"), make
  the timer for a screen that is unlocked by then ("stray"), or clean up after one lock screen
  while the next is started ("late"). `LockUndone` and `LockStays` hold up to these.
- A reload of the client clears the list of the lock command. When that is the default of the module,
  it is the module's own constant that is emptied, and the next lock raises IndexError
  ("emptied").
- A reload of Background while the executer is at the end of `_change()` begins a second rotation
  ("forked"), though a comment (`modules/background.py` 149–150) has it that the task is guarded.
  Two threads in `_background()` may leave the guard closed ("met"), and a conversion that ends
  before `_lock` is set closes it for good ("early").
- Display keeps outputs that are gone in `_last`: unplugging one is told to nobody, and
  plugging it in again only when it comes in another state ("unseen").
- A reload that takes a window out of what counts leaves it stopped, as does a failed listing of the
  windows at the unlock ("reloaded", "unlisted" of `Session`).
- `_nodes` of `sway.py` calls `lower()` of a name that may be missing: AttributeError, where the
  callers expect OSError.

### Bounds, and why they are enough

- `Dispatcher`: `Msg` has three messages, one for each branch of the loop; three
  threads can be inside `add()` at once, which is every thread the daemon has.
- `Executer`: two tasks are needed for one to be due while another is queued,
  two callers for two schedulers; two processes for the skipped entry, one of
  them (`Silent`) without a callback. Each caller creates at most one scheduler.
- `Server`: two connections (with distinct descriptors, and with one that is
  reused), two senders and the main thread. `MaxBatch` = 2 in `Server_live`,
  because a reply list of two is what leaves one message queued
  while the other is written; in `Server_safety`, where two threads send, two lists
  of one do the same. `Msg` bounds the sends.
- `Backup`: `MaxJob` bounds the jobs of a behaviour (one for what concerns a
  single job, two for succession). `MaxBus` bounds how far the dispatcher
  may fall behind the executer: a job forwards three messages at its
  start and end, and a reversal needs two. `Event` says which requests are
  considered besides starting a Plan, so that the run about succession need not
  explore suspension.
- `Lockers`: the topic without sleep has two names, that of a Backup, which
  is not announced, and one that is; two objects are what it takes for a Locker
  to be replaced while the one before is being removed. The topic with sleep has a
  single Locker, the one that bears on hibernation, and two backoff tasks, one of
  which is taken while the other is begun. `MaxInbox` = 2: a "pre" and a "post"
  that wait together are what is needed for them to be swapped. The two concerns
  share only `_lockers`, of which sleep reads whether the Hibernate Locker is in it,
  so each topic leaves the other's data at its smallest: no ability in the first, in the second no
  change of what the clients were told (`ExpiryName`, `SleepName`, `SleepLocker`; `SleepRace` are
  the races a sleep goes on after).
- `LockerClient`: two lock screens and two timers, one that is being replaced and one that
  replaces it; a source of power on which it may lock by itself and suspend, and one on which it
  may hibernate and has the key; the daemon reports one Locker or none. `ClientInbox` = 1: swapped messages of a sleep are the topic of `Lockers`.
- `Hydra`: the VMs of one id, with two objects so that one succeeds another, two
  processes and one device; ids do not meet in anything but the list. Three requests
  (`MaxHooks`) are enough to start a VM, disturb it and start or stop it once more. After a race in `Disturbed` no further
  request is considered, as `Known` says nothing of such a VM any more. `WaitTime` is 2
  for the 10 rounds of `HYDRA_WAIT_TIME`: one round that is counted and one that ends the wait.
- `Modules`: two outputs of different size, one picture, two swaybg processes and two tasks
  (the one that is replaced and the one that replaces it); two windows, one that counts and one
  that is spared; one processor and the turbo mode, which are two writes of which the second fails,
  and a radio; a system that begins to
  hibernate with fewer than two messages waiting (`MaxPosts`), of which the last wake's is one, up to the first
  lapse; every machine of up to three drives of any type, and of five that are counted, one
  more than the limit; two names with two names below each; two hooks with any results, and a
  message for every client with the header of the request; five runs of a Plan with a cycle of two
  and of none, keeping one archive or all: two full backups and the increments of one; a list of
  three commands: one that runs, one to start, and one that must not be.
- The types of every module that has threads are checked by one run of it, the safety invariants by
  the run with the larger instance.

Deadlock is not checked: every one of these systems may stop (the service
is shut down, all bounded inputs are used up) and a thread may have died.

### Fairness

Only threads that are able to run are assumed to run: weak fairness of the
dispatcher loop, of each thread inside `add()`, `send()`, `close()`, `_stop()`,
of the executer loop (in `Hydra` of it alone), and of time (`TimeComes`, `StepTimeout`, `PostTimeout`).
The interpreter schedules every thread that is not blocked, hooks and callbacks
are assumed to return, and the clock goes on. No client is assumed to ask, to
read or to leave; no process is assumed to exit; nobody is assumed to stop the
service or to resume a Backup. Weak fairness is enough because an action of a
thread, once enabled, stays enabled until that thread takes it; where it does
not (`Wait` of the dispatcher after a late `clear()`), the code has the lost
wake-up that `Dispatcher_lost` shows, and strong fairness would hide nothing.

## 4. Proofs

### Dispatcher

`DispatcherProofs`, for every set of messages and threads, from
`DispatcherAssumption` alone (the kinds of messages are disjoint subsets of
`Msg`, `NoMsg` is not a message, the executer is a producer and the dispatcher
thread is not):

| Theorem | States |
|---|---|
| `Typing` | `Spec => []TypeOK` |
| `MessagesConserved` | `Spec => []Conservation` |
| `LoopImplementsBus` | `Spec => BusSpec` |

The inductive invariant is `TypeOK /\ Conservation`. `Conservation` alone is not
inductive: that an append does not duplicate a message needs to know that a
thread that is at "append" holds a message which no other thread holds and which
is in none of the four sets, and the conjunct of `TypeOK` that ties `arg` to
`apc`. The refinement follows step by step: `AddAppend` is the bus's accept,
`Pop` its take, `Shutdown` (or the death of the thread) its close, and every
other action a stutter; that a popped message leaves `pending` needs `Distinct`.
Lemmas about appending to and taking the last element of a sequence without
duplicates are stated once and cited.

### Lists

`ListLemmas` says of each operation on a list that the code uses (`append`, `insert`, `remove`,
`pop` at either end, a slice, `+`) which type, which elements and whether no repetition it leaves.
The queue of a scheduler, the watched processes, the table of connections, what threads route
and what waits to be written, and the queue of Plans are such lists; the proofs about them use these lemmas and never look
into a sequence again.

### Executer

`DispatcherProofs`, for any tasks and processes, from `ExecuterAssumption` (the two threads
differ, `NoTask` is not a task). The threads that call are the two the daemon has, each of which
may create one scheduler.

| Theorem | States |
|---|---|
| `ExecuterTyping` | `ExecuterSpec => []ExecuterTypeOK` |
| `CancelledNeverRun` | `ExecuterSpec => []CancelIsFinal` |
| `NothingCalledTwice` | `ExecuterSpec => []CalledOnce` |

The inductive invariant `IInv` adds to the three: a thread that is about to use the
scheduler finds one (`Places`: the reference is never None again once it is set, although two
schedulers may be created); a task that is on its way into a queue is in no queue, not started,
not cancelled and held by nobody else (`Held`), without which the insertion could double it; a
process that was not handed over yet is neither watched nor called back (`NotYetWatched`).
`TaskOnce` and `CallbackOnce`, the halves of `CalledOnce`, are then kept by every
step: a removal from the list under the loop that walks it moves entries, but adds none.

### Server

`ServerProofs`, for any connections, descriptors, messages and threads that send, from
`ServerAssumption` (`None` is none of them, the main thread is not a sender):

| Theorem | States |
|---|---|
| `ServerTyping` | `Spec => []TypeOK` |
| `WhatIsWrittenIsRight` | `Spec => []Delivered` |
| `NothingStranded` | `Spec => []NoneStranded` |

- Types alone are not inductive. `TInv` adds `TableInv` (each connection is in the table once,
  under a descriptor that no other open connection has, and nobody works on one that was not
  accepted; while the main thread polls, all of them are open) and `Batches` (what a thread has
  still to route is its own).
- `Delivered` speaks of what was written. `DInv` follows a message to there: from the batch of the
  thread that sends it, over the connections it is still due at (`Due`), the queue and the thread
  that has popped it; at each connection it is in one of these places only (`Spread`,
  `Unique`), and it is for that connection (`Routed`: the descriptor it was sent to is that of
  the connection that asked, or of one accepted on the descriptor later).
- `NoneStranded` is inductive once `TInv` holds: the queue grows only by a thread that will flush
  it, and that thread leaves only when it has seen the queue empty.

### Backup

`BackupProofs`, for any Plans (finitely many, as `BackupAssumption` says of a JSON file), any
number of Backups, of messages that wait, and any of the requests:

| Theorem | States |
|---|---|
| `BackupTypes` | `Spec => []TypeOK` |
| `OneBackupAtATime` | `Spec => []OneAtATime` |
| `DoneWasPacked` | `Spec => []DoneIsPacked` |
| `BackupsControlled` | `Spec => []Controlled` |

None of the four is inductive, nor are they together: two threads are anywhere in the methods of a
Backup, and what they may do depends on how they got there. `BInv` says it:

- `Made`: a Backup is blank until it is made, and the dispatcher works on the current one only.
- `Afterwards`: what a thread is going to do when the method has returned fits the place it is
  at; a thread that forgets or replaces the current Backup comes from a stop, so that Backup
  is cancelled. `OneLiveJob` rests on this.
- `Alone`: the call that starts a Backup has it to itself until the first process runs: no process
  of it is watched and its timeout does not come (hours do not pass inside the call).
- `Singles`: a Backup that is not stopped has the process of its state, watched or alive, and no
  other one; while a thread is on the way from one process to the next there is none, so the
  two threads never are on it together. `OneProcess`, the first half of `Controlled`, is what this
  says of the processes that are alive.
- `Target`, `Packings`: a thread sets the state UPLOADING only when the process that packed has
  passed `_check_proc()`. The case that needs care is the one in which `_proc` is set to None late,
  by `_check_proc()` after its `_stop()`: the Backup is cancelled then.
- `Watched`: a Backup that is not stopped has its timeout, or a thread is about to set one or to
  stop the Backup. It is stronger than `Guarded`, the second half of `Controlled`.

The fifteen steps of a Backup's methods are treated one by one. The other steps (requests,
messages, callbacks, the environment) are sorted into five kinds by what they do to threads and
Backups: a thread leaves its Backup, a Backup is made, the dispatcher takes the current one, the
executer is called back, or no thread moves to a Backup (`StepKinds`). Each part of the
invariant is then shown for five kinds instead of twenty actions. That the queue holds a Plan once
(`PlanOnce`) is shown apart, with `ListLemmas`.

### Hydra

`HydraProofs`, for any VMs, devices and processes and any number of requests, from
`HydraAssumption` (there is an id, the two threads differ, `None` is none of the others, a VM is waited
for at least one round):

| Theorem | States |
|---|---|
| `HydraTyping` | `Spec => []TypeOK` |
| `VMsKnown` | `Spec => []Known`, the first half of `Accounted` |
| `AllAccounted` | `Spec => []Accounted` |
| `AllReleased` | `Spec => []Released` |
| `DownOnlyEmpty` | `Spec => DownIsEmpty` |

All but the first assume that `Race` has "again", "overlap" and "unready", `AllReleased` that it has
"failed", "late" and "kept" too. `Race` is the set of races the behaviours record in `history`, so this
restricts no behaviour: after one of the three a VM may be lost, after one of the six something
may stay taken, which the properties allow, and they must be recorded to be recognised. The
theorems say that this happens in no other way.

- Types alone need to know what each thread can be at with which call (`DispWork`, `ExecWork`): a
  thread inside a method has a VM, only the dispatcher starts VMs, and an object that is made anew
  is not listed, so that each VM stays listed under its own id.
- `Known` is kept together with `InOrder`, which says why no thread removes a VM that runs:
  one that is listed as stopped does not run (`StoppedIdle`), the VM that is started is in nobody
  else's hands and none is listed under its id (`NewApart`), the executer's removal by id meets the VM
  it has visited or none (`VisitsApart`), a stop of all VMs has each listed one that runs still
  ahead of it although it works on a copy (`AllSwept`), and `_stop()` has killed the process before it
  ends (`EndsIdle`).
- Nearly every step only takes away: it ends processes, removes VMs that do not run from the list,
  and moves its own thread. `Moves` states this, `MovesKeep` shows once that it keeps `InOrder`,
  and the lemmas `..Moves` and `..Calm` show it action by action. Three kinds of steps do more and are
  treated apart: a VM is made (`StartNewKeeps`), its process is run (`RunKeeps`), it is listed
  (`ListedKeeps`).
- `DownOnlyEmpty` follows: at the end of `HydraServer.stop()` nothing is left to sweep, so no
  listed VM runs, and with `LiveListed` none at all.
- `AllAccounted` adds the devices: one that a listed VM holds is registered for it (`Registered`).
  It is kept by `UsbInv`. What two threads could spoil is that a device goes from one VM to the next
  while the first still has it; so a listed VM shares no device with one that anybody works on
  (`HeldOnce`), what is about to be given is held by none that counts (`AddsAlone`), and a VM that
  is started has none (`NewEmpty`). Three places give devices back without a look at who holds them
  now, and each needs a reason why they are still the VM's own: the list that `_usb_clean()` has made
  before its loop, `stop()` that empties `_usb` at once (`AllEmptied`: each VM that holds a device
  is still ahead of it), and a VM whose `_stop()` ended while the other thread was giving it
  a device (`StoppedLeft`, `AddsApart`, `AddsListed`, `LeftInert`: it keeps the device, but is in
  nobody's hand any more, so it is neither listed again nor emptied again). As for `Known`, most steps
  only take away (`UsbMachines`, `UsbOwners`, `UsbLists`); the ones that give are treated apart.
- `Released` speaks of a moment of rest, with no VM listed; `ClaimsHeld` says of every moment to whom
  what is taken belongs. Memory belongs to a listed VM that is not stopped or to the one being
  started (`Reserved`), interfaces to one that has adapters (`Tapped`), a registered device to a
  listed VM that holds it (`Owned`). For these to outlast a VM's removal from the list a stopped
  one must have nothing left (`StoppedBare`), and at the end of `_stop()` no more than the devices
  its thread is about to give back (`EndsBare`). `HydraServer.stop()`, which empties the list at
  once, has each VM that claims still ahead of it (`AllGiven`), although the list was copied
  before. A VM holds one device at most (`OneDevice`): giving a second one fails in the code
  (1490), so the loop that gives devices back has one round. `ClaimInv` is kept on top of `KnownInv` and `UsbInv`, from which come that a VM of
  the same id is not started meanwhile (memory and interfaces are given back by the id, not by the VM)
  and that a device which is given back is still the VM's own. Most steps leave the claims alone
  (`SparingKeeps`); the starts, `_stop()` and its end, and the removals are treated apart.

The attempt to prove `Known` corrected the model in two places. `Boot` let `_running` fall when
`start()` fails, which `start()` never does: it leaves it alone or sets it. And "again" was recorded when
a VM of the same id was listed; a VM that the executer has already in hand in its round and that
is no more listed is removed by its id too (`del self._vms[v]`, `hydra.py:1760`), and takes the one
that was started meanwhile off the list. `Uncleaned` has both cases.

### Lockers

`LockerProofs`, for any names, Lockers, lock screens, timers, abilities and any number of
messages that wait, from `LockerAssumption` and `ClientAssumption`:

| Theorem | States | Records at least |
|---|---|---|
| `Types`, `LockersTyped` | `Spec => []LockerTypes`, `Spec => []TypeOK` | |
| `ExpiriesFit` | `Spec => []ExpiryFits` | "torn", "hit" |
| `ClientsTold` | `Spec => []ToldIsHeld` | "silent" |
| `SleepsEnd` | `Spec => []SleepEnds` | "swapped" |
| `HibernatesByAlarm` | `Spec => HibernateByAlarm` | |
| `ClientTyping`, `ClientsTyped` | `ClientSpec => []ClientTypes`, `ClientSpec => []ClientTypeOK` | |
| `LocksUndone` | `ClientSpec => []LockUndone` | "late", "twin", "twice", "stray", "undimmed" |
| `LocksStay` | `ClientSpec => LockStays` | "late", "twin" |

`Race` (`ClientRace`) is what the behaviours record in `history` (`clientHistory`); that it has the
races of the last column restricts no behaviour. The theorems say that each property fails after
these races only.

The daemon:

- `LockerTypes` is inductive. `TypeOK` leaves open what a request carries from one place of the
  dispatcher to the next (`ControlOK`, `EntryFits`): an entry has a name until it is marked, and
  one that is on its way to `arm` is neither stored nor marked.
- `ExpiryFits` rests on `Closing` (what the dispatcher is closing is out of the table, so the
  executer's expiry no longer finds it, and what it stores meets no other of its name) and on
  `Sweeping`: the loop of a reload has closed what it is past of, and at its end all, or the dict
  changed under it ("torn").
- `ToldInv` says of every moment what `ToldIsHeld` says of rest: what the clients do not know
  yet is on its way, by `_update` that is set and will not be cleared before the next
  telling, or by a thread that is about to set it.
- `FlagsEnd` follows the messages: a flag that is set has its end to come, as has each "pre" that
  waits. `BackoffEnds` is inductive as it stands.
- `HibernateByAlarm` is an action property; `AlarmArmed` ties the flag `_wake_alarm` to the alarm
  of the hardware and to what has woken the system: when the daemon finds the flag set and the time of
  the alarm past, the alarm has woken it, or it has fired while the system was awake ("early", "past").

The client, where both threads run `_lock()` and `_lock_unlock()`:

- `ClientTypes` adds to the types that what a thread carries fits its place (`Fits`): a call knows
  where it returns to, the lock screen is left to itself at the end of the client only, and only
  `_lock()` goes on from `_wake_check()` to the others.
- `KillsNone`: the lock screen that `_lock_unlock()` is about to kill has exited already. `LockStays`
  follows from it.
- `LockKept` follows a lock from `_lock()` to its end: unless the threads have met, a thread amidst
  a lock (`Holding`) has the lock screen to itself, the other is neither amidst a lock nor an
  unlock (`Freeing`), and of a lock screen that is known the others were told, or a thread is about
  to tell or to give it up. `DimKept`: while the idle process is paused, a lock screen is known and
  the process is there that has the unlock continue it. Both except the end of a client
  (`Ending`), which leaves the lock screen to itself by design.
- `IdleFits`: only the thread that is about to replace the idle process leaves it the timeouts of
  another ability. `SleeperKept`: the timer that is queued is the one known, while a lock
  screen is.
- At rest the five together give `LockUndone` (`RestUndone`).

In both halves most steps are aside of most properties. `ExpiryAside`, `ToldAside`, `SleepAside`,
`AlarmAside` and `LockAside` say what such a step leaves alone; one lemma shows that this keeps the
invariant, one which steps are of the kind, and the step lemmas treat the others.

The attempt to prove `SleepEnds` corrected the model. "swapped" was cleared as soon as the
daemon knew that it is awake, with a "pre" of the other kind still waiting behind; with three messages
that wait (the run has two) the flag of that kind was then set for good with nothing recorded.
`Swaps` clears it now only when no begin is to come.

### Multi

`ModulesProofs`, on the instance `M` of `MCModules`, for any number of commands:
`CommandsTakeTurns`, `M!MultiInit /\ [][M!MultiNext]_M!multiVars => []M!CommandsInTurn`. What holds whatever the threads do (`Typed`, `Handed`: the list is the end of
all commands, what was popped is before it and is started once; `Purposes`) is separate from what
holds while they have not overlapped (`Alone`: what a thread has seen of the process is still so
when it acts) and while in addition no start has failed (`Counted`: commands begin in order,
none after the end was reported, a stop or a suspend leaves none running). `overlapped` and
`bailed` are the exceptions that `CommandsInTurn` names, and the invariant `InTurn` has the
same.

### Background and Display

`DesktopProofs`, for any pictures, viewers, task handles and finitely many outputs, and any number of
messages that wait, from `BackgroundAssumption` and `DisplayAssumption` (the scheduler has
a handle to give; the least of the handles and the largest of the outputs exist: `LeastIs`,
`LargestIs`):

| Theorem | States |
|---|---|
| `DesktopTyping` | `Spec => []DesktopTypes`, which implies `TypeOK` |
| `BackgroundsHold` | `Spec => []BackgroundHolds`, where `Race` has "forked", "met" and "early" |

A behaviour is followed up to the first of the three races only (`Torn`), after which the flag
and the tasks no longer fit.

- `DesktopTypes` says more than `TypeOK` of a thread: what it carries fits its place (`RunFits`).
- `BackgroundHolds` speaks of the moments when both threads rest, and each of its three parts has an
  invariant of its own for the others. `RotationKept`: the tasks are those that should be, or
  the executer is in `_change()` and about to schedule the next, or the client has ended.
  `GuardKept`: one thread at most is past the test of the guard, and the guard is closed only by it,
  or by a conversion whose end will open it; the one viewer is the known one until that
  thread replaces it. `SizeKept`: the size that is known, or that a thread has just read, is that of
  the largest output that is lit, or a message is under way that will have it forgotten.
- The steps of one part are mostly aside of the others (`RotationAside`, `GuardAside`, `SizeAside`).

### Session, Storage, Power

`ModulesProofs` proves, of three modules with one thread, the invariants that the run `Modules`
checks on small instances, for any windows, names, paths, values, processors and radios.
Messages wait in any number, of those of a hibernate as many as `MaxPosts` allows, whatever it
is. Only the types of `Power` assume something of the constants: that the largest settings are
values (`ModulesAssumption`).

| Theorem | States |
|---|---|
| `SessionTyping`, `EveryWindowThaws` | `SessionSpec => []SessionTypeOK`, `SessionSpec => []WindowsThaw` |
| `ValuesAreKept` | `StorageInit /\ [][StorageNext]_storageVars => []ConfigKept` |
| `PowerTyping`, `SettingsOutlast` | `PowerSpec => []PowerTypeOK`, `PowerSpec => []SettingsKept` |
| `WindowsThawBeside`, `ConfigKeptBeside`, `SettingsKeptBeside`, `CommandsTakeTurnsBeside`, `BackgroundHoldsBeside` | the same, `CommandsTakeTurns` and `BackgroundsHold`, of the composition `MCSpec` |
| `ModulesTyped` | `MCSpec => []ModulesTypeOK`: the types of `Desktop`, `Session` and `Power` together |

- `EveryWindowThaws`. `WindowsThaw` speaks only of the moment when nothing waits. The
  inductive `Thawing` adds that frozen windows are among those that count, so that the thaw
  reaches them, and that while the screen is unlocked with windows frozen, the one message
  that waits is that of the unlock. Both hold while no lapse has happened (a reload that
  changes which windows count while some are frozen, the messages of a lock and an unlock
  handled in the other order, a frozen window the thaw does not find): these are the ways
  `lapse` records, and the theorem says there are no others.
- `ValuesAreKept`. `ConfigKept` is inductive once memory, the file and what is wanted are
  functions on the same names (`Trees`); the rest is that setting a path changes the name it
  begins with and no other (`PutKeepsOthers`).
- `SettingsOutlast`. `SettingsKept` speaks only of a daemon at rest. The inductive `Kept`
  follows a hibernate through its messages (`Stage`: while the settings are reduced in a system
  that is awake again, the message that restores them waits), says where the accepted settings are
  meanwhile (`Held`: in force or in the configuration, and with nothing in the configuration
  they are the largest ones), and ties the radios that are on to the states to restore (`Tuned`).
- The composition. `EachModule` says that a step of `MCSpec` is a step of one module or leaves its
  variables alone, so that what is proved of the module holds in it.

### Only model-checked

All liveness (`Wakes`, `ExitNoticed`, `TaskRuns`, `QueuedIsWritten`, `JobEnds`, `ExitCleaned`): the
proof system does not reason about ENABLED, hence not about fairness. What folds and recursive
functions compute (`DrivesPlaced`): induction over data is out of its reach too.
The same goes for `AnswersArrive` (the flattening of what the hooks return) and `BackupsRestore`
(what a chain of archives holds).

## 5. Plan

Done: `MessageBus`, `Dispatcher`, the eight modules of proofs, `Executer`, `Server`,
`Backup`, `Multi`, `Retention`, `LockerServer`, `LockerClient`, `Hydra`, `Drives`, `Background`,
`Display`, `Desktop`, `Session`, `Power`, `Storage`, `Exchange`.

Next, in this order:

1. Composition of `Server` and `Dispatcher` for shutdown, and of `Server` and
   `Backup` for the `notify()` that raises inside `start()`. No property covers this hazard
   yet; all others are covered.
2. An abstract specification `Lock` of a Locker (held from its set to its removal or
   expiry, and a client's view is one the daemon had), with `LockerServer` as its refinement.

Every safety property of a passing run is proved, but for the three that compute over data
(`DrivesPlaced`, `AnswersArrive`, `BackupsRestore`). A theorem to state next is the refinement of 2.

## 6. Not modelled

Listed with reasons in `PROJECT.json` ("components"): the
stateless translators of messages and brightness, the command line tools (one request, one
reply; how they wait for it is in `Exchange`), the client process (a peer in `Server`), the
module loader (runs once, before there are threads; `Dispatcher` has its outcomes), the
file helpers, constants, the shell scripts, units and themes of the host.
Of the components that are modelled in part, left out are: of Backup the parsing of its
configuration and the status reply; of the Lockers the replies
that only report; of Hydra the guest agent, restart, requests to all VMs and the options of QEMU
other than drives and addresses; of Session the programs it starts and never looks at again; of messages the log.
