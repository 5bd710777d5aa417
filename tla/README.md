# A verification of windows-gaming

`windows-gaming` runs Windows in QEMU with devices passed through, and lets the
user switch keyboard, mouse and USB devices between host and guest.  This
directory holds TLA+ modules of its core, the TLC runs that check them on small
instances, and TLAPS proofs of what holds for every instance.

## 1. Inventory

The **driver** (`windows-gaming/driver`) is one process with one thread: a tokio
`current_thread` runtime on which eleven futures are joined (`lib.rs:151`), plus
tasks spawned locally.  A handler runs to its next `await` without interruption.
The **guest agent** (GA, `guest-agent`) is a Windows process that talks to the
driver through a QEMU character device.

| component | state | operations | hard parts |
|---|---|---|---|
| controller (`controller.rs`) | `ga: State`, `io_state: IoState`, `suspend_senders`, one pending clipboard request | attach, try, force, light, temporary entry and exit, detach, suspend, shutdown, hotkey, hello, ping, pong, suspending, mouse edge, backup, clipboard | two state machines that meet in every handler; any message in any state |
| GA pipe (`clientpipe/`) | framing buffer, outgoing queue, ping timers | decode, dispatch, spawn a timer on `ReportBoot` | timers outlive suspends and GA restarts |
| control socket (`control/`) | per client: reader, `temp_entry` flag, outgoing queue; per temporary entry: a forwarding task | decode, dispatch, forward, hang-up | clients that leave, commands sent ahead, tasks of earlier entries |
| monitor (`monitor/`) | command queue, `held_keys`, `pending_disk_commits` | execute commands one by one; `SUSPEND`, `BLOCK_JOB_READY` | events between a command and its answer, block jobs, lost acknowledgements |
| light-entry input (`libinput.rs`, `common/hotkeys`) | open devices, event channel, modifiers | suspend, resume, dispatch, translate, match hotkeys | events that were queued before the devices were closed |
| backup mode (`controller.rs:439`, `windows-gaming/src/main.rs`) | snapshot files, jobs, acknowledgements | enter, leave, commit | two clients, `exists()` against work in flight, the offline path |
| sleep inhibitor (`sleep_inhibitor.rs`, `dbus.rs`) | the inhibitor's file descriptor | take, suspend, release | host sleeps while the guest does not |
| host clipboard (`clipboard.rs`, `zerocost-clipboard/src/wayland`) | claim, offer, pending request | grab, read, answer | one slot for many requests, cancellation |
| guest agent (`guest-agent/src`) | connection, hotkeys, shutdown state | boot report, pong, suspend, edges | messages left over from a predecessor |
| guest clipboard (`zerocost-clipboard/src/windows`) | delayed rendering, Windows' clipboard lock | offer, render, receive | locks held while waiting for the host |
| Windows event loop (`windows-eventloop`) | window, wakers | post, dispatch | wake-ups across threads |
| QEMU command line, configuration, samba, systemd | none | format, parse, spawn | numbering of USB ports |

Interaction: control socket, GA pipe, hotkeys, monitor events, timers, signals
and the sleep inhibitor all call the controller (`Rc<RefCell<Controller>>`); the
controller answers through unbounded queues to the GA and to the monitor,
through a channel to the client of a temporary entry, and opens and closes the
input devices directly.

What makes each correct: the controller must never lock the user out of the
host's input, leave a device behind, or believe in a GA that is gone; the
control socket must keep entry, task and client in agreement; the monitor must
release every key it pressed; the backup must acknowledge what it did and only
that; the inhibitor must let the host sleep after the guest.

## 2. Plan

Written in this order, the most important behaviour first:

1. `Controller`, `ControllerProofs`: the state machine every other part calls.
2. `ControlServer` (extends `Controller` with its clients), `ControlServerProofs`.
3. `Backup`, `BackupProofs`: backup mode with the monitor's and QEMU's part of it;
   `BackupRequestProofs` follows each client's request through it.
4. `Input` (extends `Controller` with the way of a key to the guest), `InputProofs`.
5. `SuspendWithHost`, the abstract promise of the sleep inhibitor, and `Power`, which
   extends `Controller` with the guest agent, Windows, the monitor, the inhibitor and logind,
   and is shown to implement both `Controller` and `SuspendWithHost` in `PowerProofs`.
6. `ClipboardGuest`, the clipboard in the guest with the agent's two threads; `Clipboard`
   extends it with the host's relay and both users; `ClipboardProofs`.

What could follow is small beside this: the codecs' skipping of malformed messages, the
numbering of USB ports by `qemu.rs` as a function, and the Wayland event loop's
cancellation.  Section 6 says why each is left out.

## 3. The modules

### Controller

One action per handler of `struct Controller`; names follow the source
(`io_attach` is `IoAttach`, `ga_hello` with the timer its caller spawns is
`ReportBoot`, `ga_ping` called by timer `t` is `Tick(t)`).

| variable | code |
|---|---|
| `ga` | `ga: State`; `Resuming(true)`, `Resuming(false)` are `ResumingFull`, `ResumingLight` |
| `io`, `tempSender` | `io_state` and the sender inside `TemporaryLightEntry` |
| `entryChan` | what was sent through the channel of each temporary entry and not yet taken |
| `grabs` | `device_handles`, counted in calls of `Input::resume` since the last `suspend` |
| `usb` | devices added and not deleted once the monitor's queue has drained |
| `timers` | the interval timers that `ReportBoot` spawned and that still run |
| `waiters` | `suspend_senders` |
| `toGa`, `toQemu` | the message and the power command of the last handler |

`pinger`, `demoted` and `bootInSuspend` are history variables that only the
properties read.  The handlers are atomic because the driver has one thread and
none of them awaits.  The environment is open: a message of the GA, a command,
a hotkey, QEMU's event or a tick may come in any state, because the GA can
crash, restart and be suspended at any time.  That covers every guest agent; what
this repository's agent can do, and Windows behind it, is in `Power`.

Left out: hooks, the clipboard (module `Clipboard`) and the backup commands (module
`Backup`), which touch none of this state, hotkey registration, and which keys are held (module `Input`).

### ControlServer

Extends `Controller` with the clients' connections, the readers, and one
forwarding task for each accepted temporary entry.  `Handle`, `EnterTemporarily`,
`RefuseTemporary`, `ExitTemporary` and `BreakTemporary` are the branches of the
reader's closure.  `writer.select(reader)` drops the connection with whichever ends first:
`EndOfStream` is the end of the reader, `WriterFails` the writer's, when the client has gone
and a message cannot be written, with commands still unread or the reader in a suspend.
The model does not keep which messages have been written, so that any of a client that has
gone may be the one that fails.  `FinishTask` is the last poll of a
forwarding task: it calls `temporary_exit` whoever the current entry belongs to.
A place in `Conns` or `Senders` is used again by a later client or entry;
`Gone` stands for a connection that is no more, so that a task that outlives its
connection does not write to the next one.

### Backup

Both commands of backup mode over the whole of their way: the handlers of the
controller, the monitor's command loop, QEMU's block jobs, the task that
waits for the acknowledgements, and the client that works on the files itself while
Windows is down.

| variable | code |
|---|---|
| `up` | driver and QEMU run |
| `left` | a QEMU that outlived its driver, for which `lib.rs:176-179` waits after an error |
| `file` | the snapshot files that exist, which both handlers and `qemu.rs:302` look at |
| `redirected`, `job` | QEMU: where writes go, and the commit job of each disk |
| `queue` | the monitor's commands that are about disks |
| `pending` | `pending_disk_commits` |
| `removing` | the local variables of a `JobReady` between `block-job-complete` and `remove_file` |
| `cmd`, `at`, `owed`, `dropped` | each client: its request, where it is, the acknowledgements or disks still to come, and whether one was dropped |

`before`, `after` and `calm` are history variables.  `Stop` ends the driver, with QEMU or
without it (`QemuEnds` is then the end of that one, before which no other can lock the disks).
`TakeSnapshot`,
`CommitSnapshot` and `JobReady` with `RemoveSnapshot` are the branches of the
monitor's match; each holds what it does after its `await`, and only `JobReady` is
split, because QEMU's events and other handlers can come between.  The controller's
handlers read the files and queue commands in one step, in any order of disks.

Assumptions about what is not under `src/`: a command that QEMU refuses has no
effect; QMP does not order the end of a job and the answer to `block-job-complete`; a
job may fail at any time, also after `block-job-complete` was accepted; `qemu-img` can fail and cannot lock a disk that is in use.

### Input

Extends `Controller` with what becomes of keys and buttons during a light entry.

| variable | code |
|---|---|
| `pressed`, `libinput` | external: what libinput takes to be pressed, and events it has not handed over |
| `inputEvents` | the channel from `InputListener` to the handler of `create_handler` |
| `modifiers` | `KeyboardState` |
| `hotkeys` | the hotkeys of `input_linux` that the handler's loop has still to call |
| `monitorQueue` | the monitor's queue: `InputSendEvent` and `ReleaseAllKeys` |
| `heldKeys`, `guest` | `held_keys`, and what is down in the guest |

`seen` and `late` are history variables.  A poll of the listener is `Press`, `Release`
or `Flush`, the handler's closure is `HandleInput` followed by one `CallHotkey` for each
hotkey; while `hotkeys` is not empty nothing else runs, as the closure does not await.
`EntryChanges` adds to every handler of `Controller` what `io_detach` and
`io_force_attach` do to the input: `Input::suspend`, after which libinput makes up
releases for what was pressed, and `ReleaseAllKeys`.  Motion and the wheel are left
out, as nothing of them stays; so are keys and buttons without a name.

Assumptions: libinput reports presses and releases of a key in turn, and releases
what is pressed on a device that is removed; QEMU carries out every
`input-send-event`.  The removal of a device does not make libinput's descriptor ready
(`libinput.rs:171-188`), so `Flush` may happen and nothing says that it does: the made-up
releases come with it or with the first event of the next entry.

### SuspendWithHost and Power

`Power` extends `Controller` with everything that takes part when Windows is suspended,
woken or shut down.

| variable | code |
|---|---|
| `os` | external: Windows as QEMU sees it |
| `agent`, `toAgent`, `fromAgent` | the process of `guest-agent/src/main.rs`, whose loop is blocked while `SetSuspendState` runs, and the two directions of its pipe |
| `qmp`, `suspends` | the monitor's power commands, and the `SUSPEND` events it has not yet passed to `qemu_suspended` |
| `host`, `bus` | external: logind, and its `PrepareForSleep` signals |
| `fd`, `inhib` | the `Option<OwnedFd>` of `sleep_inhibitor`, and whether its `for_each` waits for the callback |

`Driver(handler)` runs one handler of `Controller` and puts what it writes (`toGa`,
`toQemu`) into the queues.  `HostWillSleep` is the branch of `PrepareForSleep(true)`
with the poll in which a future that is ready drops the lock; `DropsLock` is the later
poll; `HostWokeUp` is the other branch, with the two `unwrap()`s of `inhibit()`.
`AnswersPing`, `CallsSuspend` and `CallsShutdown` are the branches of the agent's loop.
Commands that change only input and devices are left out (temporary and forced entries,
detaching): they neither read nor write what the others of this module do, apart from
a wake-up that `IoAttach` and `LightAttach` show as well.

`SuspendWithHost` is the abstract specification, five actions over three variables:
the host sleeps only with a guest that is asleep, or with an excuse.  The excuses are in
the refinement mapping: logind's delay ran out; an entry woke the guest while the host
prepared; the lock was not there, or was about to go, when the sleep began (`slipped`);
or Windows once woke without the driver (`ownWake`), which the driver does not learn.

Assumptions about what is not under `src/`: `SetSuspendState` returns after the wake-up or
fails; QEMU sends one `SUSPEND` per sleep and ignores a `system_wakeup` when awake and
a `system_powerdown` when asleep; bytes under way when the agent ends arrive at the next
one or are lost, the oldest for the agent and the newest for the driver first; logind
grants no delay lock while it prepares, and waits for locks up to its limit.

### ClipboardGuest and Clipboard

`ClipboardGuest` has the agent's main thread, whose tasks run one at a time, the window
thread of `windows-eventloop`, which handles one message at a time, and the Windows
clipboard they share with applications.

| variable | code |
|---|---|
| `holder`, `owner`, `avail`, `delayed`, `asked`, `taken` | external: the Windows clipboard and a `GetClipboardData` in progress |
| `window`, `wanted`, `update`, `destroy` | what the window thread is at, and the messages for it |
| `renderers` | `delay_renderers`; its mutex is held exactly while `window = "rendering"` |
| `offer`, `current`, `changed` | the `ClipboardOffer` in the watch channel, whether its sequence number is still the clipboard's, whether the task of `main.rs:51` has seen it |
| `answer` | the host's contents on their way to the window thread: at the renderer's `task`, or sent on to the `window` |
| `main`, `request` | where the main thread stands in a call that can wait |
| `fresh` | whether the offer that `request` was made of, cloned at its begin, is still the clipboard's (`offer.rs:107-110`) |
| `outstanding` | `outstanding_clipboard_request`, by the type it asked for |
| `toGuest`, `toHost` | the clipboard messages on the pipe |

`GrabBegins`, `GrabOpens` and `GrabEnds` are `WindowsClipboard::send` with the two places
where it can wait: for the open clipboard, and, holding that, for the mutex.
`RequestBegins` to `RequestAnswered` or `RequestAsksItself` are the agent's
`RequestClipboardContents` with `ClipboardOffer::receive_bytes`, which asks the agent's own window if
that is the owner.  A `WM_RENDERFORMAT` is `RenderBegins` in the window thread, `RendererAsks` in
the task behind it, and on the way back `ContentsArrive` in the main loop, `RendererAnswers`
in the task, and `RenderEnds` in the window thread.  Between any two the main loop may read the
next message, and with a `Grab` block in `open()` before the task has run.
`WindowsTimesOut` lets Windows give up on the rendering.

`Clipboard` adds the driver: the listener, the responder and the command handler of
`clipboard.rs`, the two forwarders of `lib.rs:121-129` (`join_all` polls the grabber first,
which is the guard `grabs = 0` of `ForwardsRead`), `win_clipboard_request` (`slot`), and
whose offer the Wayland selection is: for the compositor (`sel`), and for the driver (`known`, its
`current_offer`), which learns of a change, its own claim included, from an event on its way
(`coming`).  Until then it reads from the offer that it knows; that of an application is
read as long as its owner lives, and the driver's own has `Expired` once it is replaced.
`ReadWinClipboard` overwrites the slot; a request
of the driver's own command handler that is dropped so ends its `receive_bytes` with nothing.
`mixed` is a history field of requests and contents: the request was made before an
earlier one was answered.

Assumptions: every copy offers all types; an application closes the clipboard when it has what it
asked for; Windows stops waiting for a `WM_RENDERFORMAT` at some time, removes the
format, and then refuses the data; the order of Windows' messages to one window is free, but
`WM_CLIPBOARDUPDATE` is sent once however often the clipboard changed.

## 4. The runs

| run | shows | bounds |
|---|---|---|
| `controller` | type correctness, nine safety invariants and two action properties of `Controller` | 2 devices, 2 temporary entries, 2 timers, 2 waiters, 2 queued edges |
| `control_server` | agreement of entry, task and client, and that the composition implements `Controller` | 2 clients, 2 entries, 1 timer, one command ahead plus the end of the stream |
| `control_server_live` | the ends of entries and connections are noticed, and a ping is resolved | 1 client, 1 entry, 1 timer |
| `backup` | types, no panic, files and disks agree, a request alone does its work, clients are answered | 2 disks, 2 clients |
| `input` | no key hangs, exits release the keys, hotkeys have their modifiers | 1 modifier, 1 key with 2 hotkeys, 1 button, 2 events and 2 commands on their way |
| `power` | what the driver believes of a sleeping guest, `SuspendWithHost` as a property, and that waiters are answered | 1 timer, 1 waiter beside the inhibitor, 1 message to the agent, 2 from it, 1 command, 1 event, 3 signals |
| `clipboard` | renderers are kept, answers fit, nothing echoes, all comes to rest | 2 types, 2 copies on each side, 2 pastes in all |
| `second_timer`, `devices_left` | two comments of `controller.rs` that the code does not keep | 1 of each, 2 timers |
| `enter_during_leave`, `leave_twice` | two promises about backup mode that do not hold with two clients | 1 disk, 2 clients |
| `guest_hangs` | a comment of `raw.rs` that the clipboard does not keep | as `clipboard` |

Why the bounds are enough.  Two timers are what it takes for a tick of a timer
other than the one that pinged; a third behaves like the second.  Devices never
interact, and two show a partial attach.  Two entries are what it takes for a
task of an earlier entry to meet a later one.  `MaxEdges` bounds a channel that
is emptied in one step; two messages distinguish "last" from "only".  Two disks show
a request of which one disk fails, two clients every conflict about a disk.  No
client of `control_server` asks for a suspend, which multiplies its states: that a client in the
temporary mode waits for none, the second half of `EntrantCanLeave`, is left to the theorem
(`EntrantCanAlwaysLeave`).  In
`input`, two queued commands are a press behind a `ReleaseAllKeys` or in front of it; the
bounds on events and commands are guards of `Press`, `Release`, `Forward` and `OthersNext`, no
property is about them, and made-up releases always fit.

In `power`, `MaxPipe` and `MaxPending` are guards of the driver's handlers and of Windows
(a further `Pong` fits, so that a ping never waits for the driver), and `MaxBus` one of
logind: three signals are a sleep, the wake-up after it and the next sleep before the inhibitor has
handled the first.  With one message under way a second `Suspend`
comes while the agent is busy with the first, which is what makes Windows sleep twice; the
safety proofs are for any bounds.  Devices and temporary entries are empty sets, as no action of `Power`
uses them.  In `clipboard`, `MaxCopies` and `MaxPastes` count what the users do in
a whole behaviour; two copies are an application's after the agent's and the reverse, and two
pastes are what it takes to overwrite a request or to give up on one rendering and begin
another.  The queues need no bound: users cause a bounded number of messages.

The views hide the history variables of `Controller` and the
outputs of its last handler, which no guard and no invariant of those runs reads; that of
`MCPower` hides `ioVars`, too, as the handlers in `Power` read `io` only to choose between
values of `io` and of the outputs.

Fairness.  `TimerFairness`: tokio polls a spawned interval timer at every period
until its `for_each` ends.  `ServerFairness`: a spawned connection or task is
polled whenever it can go on; a client need never send anything.  `Fairness` of
`Backup`: the same for the command loop, its panics included, and for the tasks of
requests; a block job makes progress (or fails) except while it is ready, where QEMU
may leave it for ever.  `PowerFairness`: the driver polls what is ready, but for the inhibitor: `dbus.rs:43` and `:48`
never call `clear_ready`, so that after the first signal nothing but another future's
wake-up has the bus polled, and no property relies on it.  The monitor's task goes on, an agent that is missing is started (an
assumption about the guest: without an agent nothing answers a suspend), and `SetSuspendState` ends.  The agent's loop gets strong
fairness, as a Windows that sleeps and wakes disables it again and again without making it lose
its message.  `ClipboardFairness`: both threads and the relay go on when
they can, an application of Linux answers or goes away, and Windows' patience ends.

Deadlock is checked in all passing runs but `clipboard`, where the users may have done all
that the bounds allow and everything is at rest; `Rests` says what the end looks like.
`MCPower` adds a stutter for the end of the driver.

Each property is paired in `PROJECT.json` with a variant of a definition (the
operators marked "Fault" in the modules) that breaks it.

### Where the code does not do what it says

* **A second ping timer** (`controller.rs:154-166`).  `ga_hello` returns true for
  `State::Suspended` although the timer of before the suspend may still be there:
  it ends only at its next tick.  A suspend and a boot within five seconds give two
  timers.
* **Devices left behind** (`controller.rs:222-225`, `:356`).  `io_attach` in `Down` sets
  `AwaitingUpgrade` whatever was there before; from a forced `FullEntry` the
  devices stay, and `io_detach` no longer detaches them.
* **A backup that a `stop` ends after it was acknowledged** (`controller.rs:444`).
  `enter_backup_mode` takes a file that exists for a disk that is redirected.  While a
  commit of that file is under way it asks for nothing and acknowledges at once; when
  the job completes, the guest writes to the disk again.
* **A client that is never told** (`monitor/mod.rs:170`).  A second `backup stop` for the
  same disk overwrites the entry of the first in `pending_disk_commits`, whose
  acknowledgement is dropped although the job succeeds.  Both clients work over the control
  socket, and nothing fails.
* **An agent that hangs with the clipboard open** (`zerocost-clipboard/src/windows/mod.rs:177`).
  Windows asks the agent to render, the window thread locks `delay_renderers` and waits
  for the host's answer, and Windows gives up.  When Linux copies again before that answer, the
  main thread opens the clipboard and waits for the mutex, so that the answer is never
  read.  `raw.rs:14` forbids just that.

What each of the last three needs to happen is proved, see section 5:
`EnteringLastsUndisturbed`, `SuccessAlwaysToldUndisturbed`, `HangsOnlyAfterTimeout`.

One more disagreement has a theorem in place of a run.  `controller.rs:475` says that it waits "for the
qemu jobs to return success".  `monitor/mod.rs:192-203` waits for QEMU to accept
`block-job-complete`, removes the file and acknowledges; the job can fail after that, or QEMU
end, with the file gone and the client told.  `FileFollowsDisk` names this as the second of
the two windows in which file and disk disagree (`job[d] = "completing"`), beside the one in
which the file is about to go, and
`LeavingToldWhileCompleting` proves what such a client does know: every disk that is still
redirected has a job that QEMU is completing.

Some properties carry a proviso instead, where the code promises nothing.
`HeartbeatRuns` excepts a `ReportBoot` in state `Suspending` (`controller.rs:175` returns
false, and the timer may have ended, so nobody pings).  `LightEntryHasInput` and
`DevicesMatchEntry` except the `FullEntry` that `io_attach` took away (`demoted`).
`NeverPanics`, `FileFollowsDisk` and `SuccessIsTold` hold, or are claimed, while no job failed
after its `BLOCK_JOB_READY` and no Windows was started under a client that works offline
(`calm`).  `ExitReleasesKeys` excepts presses that were forwarded after the exit, and a
temporary entry that a full one ended (`late`).  `KnowsWhetherItSleeps` excepts a Windows that
once woke on its own (`ownWake`; QEMU's `WAKEUP` event is not read), `SuspendIsAnswered` a
`Suspend` that was lost with the agent, a failed `SetSuspendState`, and the sleep that is
taken for over because a boot report was read after its `SUSPEND` event
(`AsleepUnnoticed`).  `AnswerFits` excepts what was asked before an earlier request was
answered (`mixed`): there is one slot and no number on the answers.  `Rests` excepts the
agent that hangs.

## 5. The proofs

`ControllerProofs` proves every invariant and action property of the run
`controller`, and `UpgradePending`, for arbitrary sets of devices, entries, timers and waiters and any
`MaxEdges`.  The assumptions are only that `NoSender` and `NoTimer` are not members of
`Senders` and `Timers`.

* `TypeInv` adds `SenderKept` to the types: there is a current sender exactly in
  `TemporaryLightEntry`.  Without it a step could append to the channel of `NoSender`.
* `EntryInv` is the conjunction of six invariants.  None is inductive alone:
  `InputReleased` after a detach needs `LightEntryHasInput` before it, `UpgradePending`
  and `TemporaryNeedsAgent` constrain the pairs of the two state machines from
  which the others are reached.
* `WatchInv` is about waiters, the outstanding ping and the timers; a timer that
  ends is never the one that pings, which needs `PingWatched` and `HeartbeatRuns`
  together.
* `DetachedIsLast` rests on `SenderKept`: whoever was told the end is no longer the
  current sender.
* `UpgradeHonoured` follows from `EntryInv`: with an upgrade waiting the GA is not
  alive, and only `ReportBoot` makes it so.  `LeavesClean` holds of each step by itself.

`ControlServerProofs` proves that `ControlServer` implements `Controller`
(`ServerSpec => Spec`), so that all of the above holds of the composition, and the
three invariants of the run `control_server`, together as `EntrantInv`.  Its
forwarding step needs `DetachedIsLast` of the controller: what is forwarded while
the entry goes on cannot be its end.  Two theorems are about the other end of an entry.
`ModeIsKnown`: a client in the temporary mode, where every command but `IoExit` costs it the
connection, was last told that its entry is over, or a task is there that will
tell it.  `EndIsFinal`: an entry that is over stays over, and its task
goes only once the client is told, or is left behind by a connection that is dropped.
`ChannelHasTask`: what the controller has sent through a channel has a task that will read it, as
only the channel of the current entry is written to (`OthersQuiet`), that entry has its task,
and a task empties its channel before it goes.  From it follows
`ServerStandsStillOnlyWhenTold`, freedom from deadlock: when no reader and no
task can go on (`ReaderRests`, `TaskRests`, the negated guards of their actions, as for
`NothingToDo` below), no entry that is over still has its task, no channel is filled, and no connection that
its client has closed is left, but for one that waits for a suspend.  It supposes that there is at least one sender: a
command for a temporary entry waits for a free one, which is the model's bound and not the code's,
and with none at all it would wait for ever.

`BackupProofs` proves `NeverPanics` and `FileFollowsDisk` for any finite set of disks and
any set of clients.  The invariant is `BackupInv == TypeOK /\ (calm => CalmInv)`: types
hold whatever happens, the rest as long as it is calm.  `CalmInv` adds three bonds to
the two properties.  `JobInv`: a job that runs has its entry in the table and no event
yet, and the one `JobReady` in the queue of a disk belongs to a job that is ready and
whose entry is there; this is why a commit, which overwrites the entry but never empties
it, cannot make `unwrap()` fail.  `RemovalInv`: while a file is about to go the command loop
rests, so no job and no snapshot of that disk can begin.  `TurnInv`: the driver and
clients that work offline take turns.  Lemmas say which `JobReady` commands a step adds
to the queue or takes from it.

`BackupRequestProofs` follows each acknowledgement, whatever fails, stops or panics.  An
acknowledgement is held in one of three places (`Held`): a command in the queue, the
table of pending commits, the removal the command loop is at.  `HeldInv` says that it is
in one place only, and only for a client that waits for it; `NoneForgotten`, that a
client is in `dropped` exactly if it waits for an acknowledgement that is in none of them.
So one that is neither sent nor dropped is never lost sight of.  On top of that,
`RequestInv` follows a request that meets no other.  `LoneInv`: such a client is the only one
at work, and what it was told is done on every disk that it does not wait for;
this gives `DoneIfAlone`, over failures and restarts.  `UndisturbedInv` is about a request that meets
no other that leaves: nobody else removes files, and a disk that is being committed is one
that its own client waits for.  From it follow the counterparts of two findings
of section 4, which say what those runs' counterexamples cannot do without:
`EnterLastsUndisturbed` (while it is calm, disks stay redirected under a client that was told so,
unless somebody was leaving as it came or came to leave since) and
`SuccessIsToldUndisturbed` (with nobody else leaving, no acknowledgement is lost when all files are
gone).  The first is false without `calm`: a client that works offline while Windows is started
can make a new file for a disk whose commit has removed the old one and is not yet
complete, and a third client that enters then takes it for a disk that is redirected.  The two have no run of their own, as the runs
`enter_during_leave` and `leave_twice` already show what the provisos are for.
`LeavingToldWhileCompleting`, the other side of `DoneIfAlone`, says what is left to happen when a
client that leaves is told (section 4).
Last, `StandsStillOnlyWhenTold`: when neither the driver nor QEMU has anything left to do, whoever
still waits is a client that cannot be told: one of its acknowledgements was dropped, or is
in the table for a job that failed or never began.

`InputProofs` proves that the composition implements `Controller` and the four
properties of the run `input`, for any finite keyboard with disjoint buttons, any
bindings, and any bounds.  The argument is about the queues: `DownAfter(q, k, b)` says whether
key `k` is down after the events of queue `q`, if `b` says whether it was before.  Its lemmas tell
what appending, taking the head, and appending only releases do to it.  `StreamInv`: what
the events up to the handler make of the handler's view is within `pressed`, and what
the monitor's queue makes of the guest is within what the handler has seen.  With
empty queues the two chain up to `NoHungKeys`.  A swallowed press leaves the guest
behind the handler, a swallowed release would put it ahead, which is why only presses
trigger hotkeys.  `ExitInv` is the same for keys out of light entry: the monitor's queue
leaves none down.  `ModifierInv` bonds `KeyboardState` to the keys seen, from which
`HotkeysAreHeld` follows when a hotkey is matched.

`PowerProofs` proves that `Power` implements `Controller` (`PowerSpec => Spec`; every action is a
handler of `Controller` or leaves its variables alone), the types, `KnowsWhetherItSleeps`,
and the refinement `PowerSpec => SuspendsTheGuest`, for any waiters, timers, devices and bounds.
`SleepInv` orders what happens around a sleep, as long as Windows has not woken on its own: the one
`SUSPEND` event, the belief `Suspended` and the one `SystemWakeup` follow each other, and
only after the last does the guest run again.  It needs a lemma about what handlers may do (`HandlerEffects`:
whatever leaves `Suspended` queues a `SystemWakeup` or came from a boot report, and only
`qemu_suspended` leads there), and that each queue holds at most one of them.
`BusInv` says that the signals on the bus alternate, that the last says where logind is, and
that to an idle inhibitor the end of a sleep is the next signal exactly when it has no lock.  `LockInv`
says that while the host prepares without an excuse and nothing holds the lock any more, the
guest does not run: the lock goes when `qemu_suspended` has drained the waiters, or when `suspend`
found `State::Suspended`, and `KnowsWhetherItSleeps` says that this is true.  Each action
then maps to one of `SuspendWithHost` or a stutter.  Two more theorems are about whoever
waits.  `AnsweredWhileAsleep`: no waiter is answered while the guest runs, unless it once woke on its
own.  `SuspendUnderWay`: while somebody waits, a `Suspend` is in the agent's pipe or in
Windows' hands, or QEMU's event is on its way back, or a `Suspend` was lost or Windows is
off.  It needs that this agent never announces a suspend (`ga` is never `Suspending`,
where the controller would send none).

`ClipboardProofs` proves all safety properties of the run `clipboard`, for any set of
types and any bounds.  `GuestInv` says who holds the clipboard open while somebody waits for data, that a rendering Windows
waits for is the one the window thread is at, and that delayed data is the agent's; with it
`RenderersKept` is inductive, as renderers go only when somebody else owns the clipboard, whose
contents are not delayed.  `EchoInv` follows what a copy on one side causes on the other
through every queue, the compositor's events and what the driver knows of them included, which gives
`NoEcho`.  `AnswerInv`, for `AnswerFits`: unless the
request in the slot is mixed, everything under way for Linux, on both pipes and in the main
thread, has the type of that request.  `RenderInv`, for `RenderFits`: the agent's one
outstanding request, or its answer, is in at most one of the pipe, the reader's channel, the command queue, the
command handler and the pipe back, and `HeldFits` follows the answer on from there to the window
thread.  That there is only one follows from the window thread: it
does not begin a second rendering before the first has its answer, even if Windows has
given up on it.  `AwaitedInv` is the other half: a request in the slot and the agent's
outstanding one are in at *least* one of those places, so nothing that was asked for is
forgotten.  `StandsStillOnlyAtRest` puts all of them together into freedom from deadlock: when
nobody who is taken to be fair can go on (`NothingToDo`, the negated guards of their
actions, written out because `ENABLED` is out of the prover's reach; every guard is to
be found in its action), everything is at rest, or the agent hangs.  Of that hang
`HangsOnlyAfterTimeout` says that it needs a rendering that Windows has given up on, and
`HangIsForever` that no step ends it.  The assumptions are that `NoType`, `Empty`, `NoRequest` and `NoRead` are
not among the values they stand beside.

Every invariant and every action property that a passing run checks is thereby proved.  Only
model-checked is liveness (`PingResolved`, `EntryEndIsTold`, `OrphanEndsAtMessage`,
`LeftIsDropped`, `WaitingEnds`, `SuspendIsAnswered`, `Rests`): it rests on fairness and
`ENABLED`, which the prover does not handle.  The safety part of each is
proved, which is what fairness alone cannot give: `PingWatched` for `PingResolved`; `EndIsFinal` and
`ServerStandsStillOnlyWhenTold` for `EntryEndIsTold`, `OrphanEndsAtMessage` and `LeftIsDropped`;
`NoneForgotten` and `StandsStillOnlyWhenTold` for `WaitingEnds`; `SuspendUnderWay` for
`SuspendIsAnswered`; `StandsStillOnlyAtRest` for `Rests`.  That a standstill is reached, and
nothing goes on for ever instead, is left to TLC.

## 6. Not modelled

* Formatting, logging, hooks, start-up and tear-down of processes, the key tables, samba,
  systemd, motion and the wheel, and the resolution of devices by udev beyond "any of them
  may be there".  No property here depends on them.
* The arguments of QEMU (`qemu.rs`) and the configuration: formatting without state.  The
  numbering of USB ports there is a pure function of the configuration.
* The codecs' framing.  Messages are whole; what a peer of another version could send,
  and the skipping of it, is left out.
* In the guest agent: `RegisterHotKey`, `ReleaseModifiers` and the debug console, whose effects
  are Windows' own, and `windows-keybinds`, a map that is filled at the start.  Its loop and
  its clipboard are in two modules: that `SetSuspendState` also stops the clipboard's
  messages, or that the agent ends while it renders, is in neither.
* In the guest's clipboard: `WM_RENDERALLFORMATS`, which comes when the window is
  destroyed, and the conversions of text and images.  `EmptyClipboard` waits in Windows
  until `WM_DESTROYCLIPBOARD` was handled; here the message is only queued, so that it may
  also come late.  While the window thread renders, the real call would hang already
  there, one step before the mutex of `guest_hangs`.
* On the host: a request of the driver to its own offer goes through the compositor like any
  other, and is one step here; the Wayland event loop's cancellation, the list of MIME types, and an
  application that takes the pipe and neither writes nor reads (`clipboard.rs:96`, `:134`); the
  fairness of `clipboard` excludes it.
* In `Power`: a driver that is started anew, and what logind does between two delays.
