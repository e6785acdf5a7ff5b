# aelkey in TLA+

aelkey runs a Lua script that remaps input devices: it opens evdev, hidraw,
libusb and GATT devices, feeds their events to callbacks, and writes to virtual
uinput devices. The program is a single thread around one `epoll` loop, so
there are no data races in it; what goes wrong in such a program comes from the
*order* of things:

- hardware comes and goes between any two steps, and three independent channels
  tell of it (a hang-up on the descriptor, a queued udev message, a failed
  transfer);
- descriptor numbers are reused, while tables indexed by descriptor live on;
- an `epoll_wait` batch is handled over time, and what it says gets old;
- every callback may call back into the API in the middle of a handler, closing
  the very thing the handler works on;
- signals arrive between any two instructions.

These modules model the parts of the program where that matters, check them
with TLC on small instances, and prove the main invariants with TLAPS for all.

## The system

| Part | Source (`src/source/`) | State | Operations | Module |
|---|---|---|---|---|
| Dispatchers | `dispatcher.cc`, `dispatcher.h` | `pollfds_`: a payload per descriptor, alive or dead; the epoll set | `register_fd`, `unregister_fd`, (`flush_deferred`, never called) | in each user |
| DeviceManager and backends | `device_manager.cc`, `device_backend_*` | `input_map` | match, attach, detach | `DeviceLifecycle`, `UsbTransfers` |
| evdev, hidraw | `dispatcher_evdev.h`, `dispatcher_hidraw.h` | `devices_`, `idev_map_`, `frames` | open, close, `handle_event` | `DeviceLifecycle` |
| udev | `dispatcher_udev.cc` | monitor socket, `devnode` of the declarations | add, remove, notify | `DeviceLifecycle`, `Watchlist` |
| Device API | `aelkey_device.cc`, `aelkey_state.cc` | `input_decls`, `output_decls` | `open_device`, `close_device` | `Attachments`, `DeviceLifecycle` |
| Event loop | `aelkey_loop.cc` | `epfd`, `loop_should_stop`, `sigint` | `start`, `stop`, signals, cleanup | `EventLoop` |
| Timers | `tick_scheduler.h`, `aelkey_core.cc` | `callbacks_`, timerfds | `tick` | `Timers`, `TickScheduler` |
| Haptics | `dispatcher_haptics.cc`, `aelkey_haptics.cc` | sources' effects, sinks' slots | upload, erase, create, play, stop | `Haptics` |
| USB transfers | `aelkey_usb.cc`, `dispatcher_libusb.h`, `device_backend_libusb.h` | transfers in flight, open handles | submit, cancel, resubmit, completion, blocking transfers | `UsbTransfers` |
| Watchlist | `aelkey_daemon.cc`, `dispatcher_udev.cc` | `watch_map`, `on_watchlist` | watch, unwatch, set_callback, notices | `Watchlist` |
| GATT | `device_backend_gatt.*`, `dispatcher_gatt.h`, `aelkey_gatt.cc` | the D-Bus connection with its queue, `gatt_paths_`; in BlueZ, notify sessions and match rules | match, attach, detach, pump, read, write | `Channel`, `Gatt` |
| Lua: keyboard | `aelkey_keyboard.lua` | `active_keys`, `fn_down`, the last report | `feed_events`, `set_fn_down`, `parse_report` | `Keyboard` |
| Lua: click | `aelkey_click.lua` | the session: button, count, actions, heartbeats | `configure`, `detect`, `reset`, heartbeat | `Click` |
| Lua: sequence | `aelkey_sequence.lua` | patterns and their progress, the session | `configure`, `add_pattern`, `clear_patterns`, `detect`, `reset`, heartbeat | `Sequence` |
| Lua: ticker | `aelkey_ticker.lua` | a registry of tickers | `set`, `start`, `stop`, `reset`, heartbeat | `Ticker` |
| Lua: edge | `aelkey_edge.lua` | the state last reported of each id | `detect`, `reset`, `get_active` | `Edge` |
| Lua: touchpad | `aelkey_touchpad.lua` | contacts, slots, tracking ids, tools | `begin_frame`, `feed_contact`, `end_frame` | `Touchpad` over `Edge` |
| Lua: mouse | `aelkey_mouse.lua` | none but its edges | `emit_buttons`, `emit_events` | `Mouse` over `Edge` |
| Lua: tracker, filter, log, util | `aelkey_*.lua` | | | not modelled |
| Outputs, HID, parsing | `device_output.cc`, `aelkey_hid.cc`, `device_parser.cc` | none that lasts | | not modelled |

How they interact: the loop hands each event of a batch to its payload's
dispatcher, unless the payload is dead. A dispatcher calls Lua functions by name
(`on_event`, `on_state`, `on_haptics`, timer callbacks, the watchlist callback),
which may call any API function. Hot-plug goes through DispatcherUdev to
DeviceManager, which asks a backend to match and open; an evdev device with force
feedback becomes a haptics sink under its descriptor. libusb's descriptors get to
epoll through notifiers. The helpers of the Lua library are clients of `tick()` (click,
sequence, ticker) and of `aelkey.edge` (touchpad, mouse), in the script's own thread.

## The modules

### Attachments and DeviceLifecycle

`Attachments` is what the API promises the script: a declaration is on at most one node, of the
kind it asks for, from attach to detach; every attach calls `on_state` with "add", every detach
the script did not ask for calls it with "remove", and then no other function of the script is
interrupted by it. It knows nothing of descriptors, payloads, batches or udev. `DeviceLifecycle`
is shown to implement it with `on <- NodeBehind` (the node that the descriptor in `input_map` was
opened on), `running <- script`, `waiting <- resume`.

`DeviceLifecycle` is the heart of the project: kernel (nodes, hardware, descriptors, readiness, the
udev queue), both dispatchers with their payloads and `devices_`, `input_map`,
the declarations' `devnode`, epoll batches, and the script. One thread is modelled
by the control variables: `script` is the Lua code running, `resume` the Lua code
that waits for an open-all to finish, `reading` the descriptor of the evdev read
loop on the stack, `handling` the udev message being handled, `todo` what is left
of the loop over declarations. While `script` is not `Idle` only API calls and the
kernel take steps. `Return` goes back to whatever called.

`LowestFree` is POSIX's rule for new descriptors; it makes descriptor reuse happen.
`stale` is a history variable: what was released since the last `epoll_wait`.

Simplifications, all of them over-approximations unless said otherwise:

- what the watchlist part of the udev handler does is here just a callback that
  may or may not run (`UdevReceive`); `Watchlist` has the details;
- a frame buffer is present or absent; `idev_map_` goes with `devices_`;
  grabbing and registering with haptics have no effect on these properties;
- `deferred_unregs_` is written and never read by the running program: left out;
- `epoll_ctl` does not fail while `epfd` is valid;
- ids of declarations are distinct;
- a callback inside a callback is not kept apart from it (`Return`);
- excluded: an open-all within an open-all (`ApiOpenAll`), which clears the vector
  that the outer one is iterating over;
- a hidraw node that was unplugged may come back at once, though an old descriptor is
  still open on it; Linux keeps the minor taken until that is closed;
- `SelfClose = FALSE` excludes a script that closes a device in that device's own
  evdev `on_event`. The read loop then goes on with a `libevdev`, a declaration and a
  frame that were freed (`dispatcher_evdev.h:172`); what the program does from there is
  undefined, and no property or theorem here is a claim about such a script.

### EventLoop

`loop_start`, `loop_stop`, `handle_signal` by program counter, with "the condition
was read" and "blocked in epoll_wait" as separate places, so that a signal can come
between them. Devices are opaque. `start()` from within a callback is not modelled.

### Timers and TickScheduler

`Timers` is what `tick()` promises: a callback has at most one timer, and one whose
timer was cancelled is not called. `TickScheduler` is the code: timerfds, payloads,
`callbacks_`, batches with expirations that are stale by the time they are reached,
a limit on descriptors. It is shown to implement `Timers` under the mapping
`active <- requested`, where the history variable `requested` records the keys whose
last `tick()` call set a timer.

### Haptics

A source's effects (`effects`), a sink's `slots`, and the kernel's effect table of
whatever each descriptor is open on (`file`, `ff`). Effects are told apart by kind
only; "spring" stands for the kinds the program replaces by a rumble. Left out:
`register_source` replacing a source when outputs are created again, an effect-less
device re-attached under a sink's id, failing writes. The callbacks of `handle_play`
and `handle_stop` pass an event to the script, whose `play` and `stop` are actions
that can happen at any time.

With two sinks that may both be unplugged, a stale sink's `EVIOCRMFF` also removes
effects of the *other* device, and `SlotsAreCurrent` fails: a consequence of the
finding `sink_reuse`. The run `haptics` therefore has one removable sink, one that
stays, and a file of another kind that may take the descriptor.

### UsbTransfers

Transfers from `submit_transfer` to `destroy_transfer`, each stamped with the number
of the attach whose `input_map` entry its `user_data` points to. libusb is modelled
from how the program uses it: `libusb_close` drops what is in flight without a
callback, a disconnect takes the descriptor out of the set and ends what is in flight
with NO_DEVICE in the same call. `touched` records that freed memory was used.

The blocking transfers (`BlockingTransfer`) handle libusb's events while they wait, so the
callbacks of other transfers run inside the script's call, which returns (`BlockingDone`) once
the device answered or its timeout was over (`Answer`). That answer is assumed: with a timeout
of 0 and a silent device the call, and with it the program, waits for ever.

`Careful` is the precondition of the passing run: the script uses the table that
`submit_transfer` returned only while the transfer is in flight (`MayUse`), and does not
close a device in a callback of that device's transfers (`MayClose`). Without it
(`Careful = FALSE`) TLC finds a use of freed memory in ten steps: `resubmit()` in the
callback of a cancelled transfer succeeds, and the code after the callback destroys the
transfer.

### Watchlist

`watch_map`, the loop over it in the two udev handlers entry by entry with the callback
in the middle, and the kernel's order of messages, in which an event node's parent
(`inputN`, no node of its own) comes first and goes last. A callback may change other
sets than the one whose entry it is told of (`MayChange`; changing that one invalidates
the iterators of the C++ loop). libusb entries are never told of, since `match` gives
their id and no message carries that. `NoticesAlternate` excepts the messages of a parent
without a node (see below), and is about one node: that *every* arrival answers a removal is
false once a hidraw device can come back on another node, because `match` looks at what is
plugged now and takes an earlier device's message on that node for its own, before the removal
from the old node is read (two nodes and five queued messages are enough). The run has one hidraw
node; the theorem is for any number.

### Channel and Gatt

`Channel` is what the reader of a D-Bus connection relies on: signals are handled one at a
time, in order, and none is lost. In `Gatt` the connection is two queues: `socket`, which
epoll sees, and `incoming`, libdbus's own. Every blocking request (`block`) moves the first
into the second; only `pump_messages` empties `incoming`. `Gatt` implements `Channel` with
`queue <- incoming \o socket`.

An attach is a sequence of requests: match (`OpenMatch`), the list of characteristics
(`AttachResolve`), a match rule and a `StartNotify` for each (`AttachSubscribe`), and the
registration (`AttachDone`). `opening` is how far it is; between two requests the device may
connect or disconnect and signals arrive. Objects are triples `<<device, service,
characteristic>>`; what D-Bus calls a path and BlueZ a handle is a number, 0 for none, as in
the declarations. A lookup that iterates a D-Bus array is a set, and "the first one" any of
its members, since BlueZ promises no order.

`cutoff` is a history variable: declarations whose device was lost after the match, or not
there at the match, or of which another declaration's close stopped a characteristic.
`elsewhere` is another: whether a request was made outside the pump since the last one. One
`AttachSubscribe` step is the two or three requests for one characteristic; a disconnect
between them is one before or after. Left out: the inspection lines attach prints, a bus that
goes away, `gatt.read` and `gatt.write` of an unattached device (which address an empty path), and a
pump that finds the socket empty, which handles the same `incoming` sooner.

### Keyboard

`aelkey.keyboard` as two remappers on one virtual keyboard: "hid", fed by `parse_report` with
the reports of any number of keyboards (the last report is shared by all of them, as in the
code), and "evdev", fed with the events of one evdev keyboard at a time. A mapping is a set of output
keys, the empty one for "suppress". `todo` is what is left of a report's events, which are fed
in any order within the four groups the code makes (it iterates tables with `pairs`).
`LoseEvents` is the kernel's queue overflowing (`SYN_DROPPED`, on which the read loop
gives up) or an unplugged keyboard with keys down; `orphans` are the keys that are still
tracked then.

A report is a set of modifiers and a set of keys, and the two may share codes: `HID_TO_KEY`
maps usages to modifiers too ("redundant with MOD_BITS but included for completeness",
`aelkey_keyboard.lua:429`), and the two sets are compared with the last report each for itself.
So a modifier can be pressed a second time while it is tracked, or released while it is still
held, with no event lost; on the evdev keyboard that takes a lost release. The second
press replaces the mapping of the first (line 153), where the comment at line 41 says that the
mapping "is chosen on key press and reused on release". `MappingIsKept` says that this happens
in these two cases and in no other. Two history variables hold what is lost by it: `replaced`
the output keys of the mappings that were replaced, `forced` the remappers whose Fn mode
no tracked key will end (and those `set_fn_down` put in it).

### Click, Sequence, Ticker

Three clients of `tick()`, each with the callback it gives to `tick()` as a constant and with
`timers`, the set of callbacks that have a timer: `Timers`' `active`. That a callback without a
timer is not called is what `TickScheduler` is shown to implement. A call, with the functions of
the script it calls, is one step, since Lua is one thread; what those functions may do to the
helper itself (reset it, stop it) is part of the step.

- `Click`: the window counted in heartbeats; the actions a session began with; `told` is what the
  last step answered, for how many presses. `shrunk` records that `configure` moved the end of the
  window behind a session's back. Left out: an action that calls `detect` itself.
- `Sequence`: the two loops of `detect` over the patterns, each of which breaks at the first pattern
  that completes (`Break`, `Started`, `Advanced`), `match_fn` and `timeout_fn` that may reset, stream
  mode. `SequenceMatches` compares with a definition of its own, subsequences (`Embeds`) of the
  presses since the session began or the last match (`seen`). `configure` may change `stream` and move
  the window (`threshold`) at any time, in a session too; how long one heartbeat is, which a new
  interval changes when the heartbeat is next set, is left out. Left out by name: patterns that begin
  with the same button twice (so `SequenceMatches` says nothing of the double count at line 145),
  `start_fn` that resets, `timeout_fn` that resets in stream mode.
- `Ticker`: one ticker of the global registry; tickers share nothing. `leaked` records that the action
  stopped its ticker while `start` was running, and `start` then set the timer: `TickerRuns` excepts
  that timer, which nothing forbids then.

A `tick()` that fails because there is no descriptor left is in `TickScheduler`, not here.

### Edge, Touchpad, Mouse

`Edge` is `aelkey.edge`, instantiated by its two users for the ids they use. The script, which has
edges of its own in the same table, may reset it at any time (`EdgeReset`).

`Touchpad` has the module's contacts and slots and, next to them, the virtual touchpad (`mt`: the
tracking id its slots show; `keys_down`), to which events are applied where the frame queues them:
`emit_events` sends them in that order. The virtual device changes only by events, so
`ContactsAgree` compares two records of the same thing that are kept by different code. A contact that
is fed and does not touch keeps its slot; that no contact lasts while 65535 others come is assumed
(`TidFree`). The button is modelled as the code has it and no property is about it: it stays down
when the contact that pressed it is no longer fed, against the comment at `aelkey_touchpad.lua:53`,
and when `edge.reset()` comes before its release.

`Mouse` has the buttons of one virtual mouse. `emit_buttons` and `emit_events` detect edges under
different ids, and `ButtonsFollow` says what still holds for a script that uses both.

### LuaLibrary

The helpers in one script. They meet only in `tick(0, nil)` (`CancelAll`), meant for the script's
own timers, which takes theirs too, so a behaviour uses one helper and loses its timer at any time;
`cut` records which. `LuaLibrary` extends `Keyboard`, which is one more helper;
`MCLuaLibrary` gives the constants their values.

## What is checked

| Run | Instance | Shows |
|---|---|---|
| `devices` | an evdev and a hidraw declaration, a node and a device of each, 2 descriptors, 2 queued messages | `RegistryAgreement`, `DevnodeAgrees`, `NoStaleDelivery`, `HidrawIsHeard`, `GoneIsNoticed`, `ImplementsAttachments` |
| `muted` | the same, 1 queued message | violates `AttachedIsHeard` |
| `zombie` | two hidraw declarations that match the one device there is | violates `GoneIsNoticed` |
| `event_loop` | three devices, outputs | `NeverWaitsClosed`, `CleanShutdown`, `StopEndsLoop` |
| `signal` | the same | violates `SignalTerminates` |
| `timers` | two callbacks, 3 descriptors | `OneTimerPerKey`, `CallbacksAreWatched`, `ImplementsTimers`, `LeftAloneKeepsTicking` |
| `haptics` | one source and the script's own, two sinks with tables of 2, 2 one-shots | `SlotsAreCurrent`, `NoEffectLeak`, `PlaySounds` |
| `sink_reuse` | the same | violates `PlaysOnItsDevice` |
| `usb` | two devices, two transfers and blocking ones, 2 attaches | `FlyingIsCurrent`, `NoUseAfterFree`, `LeaksOnlyWithDevice`, `UnplugIsNoticed` |
| `watch` | two refs; an evdev, a hidraw and an unwatchable declaration, three devices, 3 queued messages | `RemovalIsComing`, `NoticesAlternate`, `ArrivalIsHeard` |
| `gatt` | three declarations (a device, a characteristic, a service of either device), two devices, three characteristics, 2 queued signals | `ReadIsHandled`, `AttachedIsNotified`, `ImplementsChannel` |
| `lua_library` | click and mouse with two buttons; three patterns, 2 at a time, windows of 1 and 2 heartbeats; a ticker; a touchpad with two slots and 3 tracking ids; a keyboard with a letter and a modifier that means Fn | `ClicksAreTold`, `ClickEnds`, `SequenceMatches`, `TimeoutFiresOnce`, `SequenceEnds`, `TickerRuns`, `ContactsAgree`, `ButtonsFollow`, `NoStuckKeys`, `MappingIsKept`, `TracksHeld`, `FnIsHeld` |

`lua_library` checks `LibraryTypeOK` as well; the type invariants of all the modules are proved.

Why the bounds are enough: the hazards are about one device following another on a
descriptor or a node, one event of a batch making another one old, and one message
overtaken by the next change. Two declarations, two descriptors (so that one can be
reused while the other is taken) and two queued messages make each of them happen;
the seeded faults next to the definitions ("Mutant: ...") are all found within
these bounds. In `timers` three descriptors are fewer than the timers a script may set,
because cancelled ones are never closed, so running out happens as well. In `haptics`
a table of two effects with three possible effect ids of one kind and another overflows.
In `gatt` the three declarations have one of each kind of path, share a characteristic, and have
each kind of `on_event`; two signals are enough for one to overtake the other. In `lua_library` the
letter's Fn mapping contains the modifier, so that two physical keys can press one output key, and
its normal mapping another key; the modifier itself means Fn in normal mode and itself in Fn mode. So a
second press of either is resolved differently from the first if Fn mode changed. Keys that are
suppressed, and a `modifier_map`, which only comes before the other two, are not in this instance; the
theorems are for any maps. The patterns are one, two and three presses long and begin alike or inside one
another, so that one completes while others are underway, in either order; three tracking ids wrap
around after every third contact; a window of one heartbeat ends between two presses, and `configure`
moves it between one and two.

### Disagreements the runs show

- `muted`: `register_fd` keeps the dead payload of an earlier descriptor of that
  number; an evdev device that is re-plugged is attached and never heard.
- `zombie`: of two declarations attached to one hidraw device (each is given the first device
  that fits it) only the first is detached when it is unplugged; the other stays attached.
- `signal`: SIGTERM between the loop condition and `epoll_wait` is not acted upon until
  another event.
- `sink_reuse`: a detached force-feedback device stays a sink on a descriptor of another
  file.

Seen while modelling, without a run: closing an evdev device in its own `on_event` leaves the
read loop with what was freed (`SelfClose`); watched evdev devices are said to leave
twice, and when others leave, because a parent without a node has the empty name an absent
entry has (`dispatcher_udev.cc:258`); a GATT signal is credited to the first
declaration attached, whatever its path (`Listener`), so that with a first declaration that has
no `on_event` nobody hears anything; signals read by a blocking request outside the pump wait for
the next signal (`ReadIsHandled` is as strong as it gets); closing a declaration of a device or a
service stops no notification, since `StopNotify` goes to its devnode, while closing one of a
characteristic stops it for the others, and match rules are never removed; `gatt.read` without
overrides addresses what `gatt_path` holds, a device or a service, where the comment at
`device_backend_gatt.h:162` says "primary characteristic"; the first press of a sequence counts
twice for a pattern that repeats its first key (`aelkey_sequence.lua:145`); a sequence's
`timeout_fn` that resets in stream mode calls itself without end (line 43), and a `start_fn` that
resets leaves the heartbeat running (line 124); a ticker stopped by its action in the middle of
`start` keeps its timer (`aelkey_ticker.lua:49`), and that module is a global `M` (line 118); a click
action that calls `detect` loses the session it starts (`aelkey_click.lua:79`); a modifier that a report
has in its first byte and among the keys is pressed twice, and what the first press emitted stays down, or
Fn mode on, if Fn mode changed in between (`aelkey_keyboard.lua:153`, against line 41); a touchpad's button
stays down when the contact that pressed it is no longer fed, where the comment at
`aelkey_touchpad.lua:53` has omitted contacts released; `emit_events` and `emit_buttons` of a mouse do
not see each other's presses (`aelkey_mouse.lua:155`, `:239`); hidraw and timer descriptors leak, because only
`flush_deferred` would close them and the loop does not call it (at the descriptor
limit `tick()` cancels the old timer and sets none); `open_device()` opens nothing when
anything is open; `start()` returns at once the second time, and devices opened after the
loop are deaf (the epoll descriptor is gone); a libusb device re-opened on the same
descriptor is not watched; libusb transfer timeouts do not wake the loop; a libusb device
unplugged with nothing in flight stays attached; `on_state` hears "add" and "remove"
where the reference says "connect" and "disconnect"; `close_device` needs an id where the
reference says it is optional; libusb declarations can be watched but are never told of.

### Fairness

- `EventLoop`: weak fairness of the loop's steps as a whole: the thread runs, callbacks
  return. Signals, input and API calls are not fair.
- `TickScheduler`: callbacks return (WF), a periodic timer expires again (WF of `Expire`).
  `EpollWait`, `SkipDead` and `HandleEvent` are strongly fair: between any two of them
  callbacks of other dispatchers may run, so they are not continuously enabled, but a
  batch is finite and the loop gets to every event in it.
- `UsbTransfers`: callbacks return; `handle_event` is called for what epoll reports (SF,
  for the same reason); one call handles each descriptor that was ready when it began
  (SF of `Disconnect` and `Callback`); devices answer blocking transfers (WF of `Answer`).
- `Watchlist`: callbacks return, the loop over the entries goes on (WF), a waiting message
  is received (SF).
- `LuaLibrary` (`LibraryFairSpec`): a timer that is set keeps firing (WF of the two heartbeats), which is what
  `LeftAloneKeepsTicking` says of `TickScheduler`. The script's calls are not fair.
- `DeviceLifecycle`, `Haptics`, `Gatt`, `Keyboard`, `Touchpad` and `Mouse` are checked for safety only.

Where deadlock is not checked (`EventLoop`), the system may stop: the script ended or the
process was killed.

## What is proved

The eight `_proofs` modules hold machine-checked proofs, for every value of the constants that
satisfies the assumptions named in the modules (declaration types, node types, an injective order,
distinct null values). They state every safety property the passing runs check.

- **DeviceLifecycle.** `TypeOK`, `RegistryAgreement`, `DevnodeAgrees`, `NoStaleDelivery`,
  `HidrawIsHeard`, and that it implements `Attachments` (`ApiRefinement`). The invariant that carries
  them is `IInv`: type correctness with `RegInv`, which joins the registries' agreement with three
  facts that are not obvious from any one handler. Registries agree only because an attached
  descriptor is open (so a new one differs from it); a stale reference stays dead because
  `register_fd` never revives a payload, the very behaviour that causes the finding `muted`;
  and a hidraw device is heard because a payload that is dead belongs to a descriptor that is
  still open on the old node (`HidrawKeepsOpen`), so it is never handed out again. The proof
  goes action by action; attach and detach are lemmas of their own, used by the five handlers
  that call each. One more invariant is proved on top of `IInv`. `GoneIsNoticed` is false when a
  type has two declarations (the finding `zombie`), but holds of the first of each type
  (`FirstNoticed`), hence of all when there is one per type (`GoneNoticed`, whose hypothesis
  the two declarations of `zombie` violate): `handle_udev_remove` searches from the front, so nobody can take
  the first one's removal, and `DevnodeFits` says that what it is compared with has the type of its
  declaration. The refinement rests on `AttachBehind` and `DetachBehind`, what the two do to the node
  behind each declaration: an attach takes a descriptor no attached device has, so nobody else's node
  changes. That notices come in pairs (`NoticesArePaired`) follows from it.
- **EventLoop.** `TypeOK`, `NeverWaitsClosed`, `CleanShutdown`. The inductive invariant says
  which places of the cleanup have what done already, and that once the epoll descriptor is
  closed `loop_should_stop` is set and stays set. `StopNeverTurnsBack`, see below.
- **TickScheduler.** `TypeOK`, `OneTimerPerKey`, `CallbacksAreWatched`, and the refinement:
  every step is a step of `Timers` or leaves its variables alone. The refinement rests on the
  invariant that only keys in `requested` have callbacks, and that a live payload has one.
  `CallsAreDue`: an event in the batch has an expiration to read and a callback to call.
- **Gatt.** `TypeOK`, `ReadIsHandled`, `AttachedIsNotified`, and that `Gatt` implements `Channel`.
  `AttachedIsNotified` needs two strengthenings: while an attach is underway with its link up, each
  characteristic it covers is subscribed to or still on the list (`OpeningOK`), which is made
  complete by `ListIsComplete`, a lemma about the path functions; and a path that `match` returned
  belongs to the declaration (`PathOK`). The refinement is `[Next]_vars => [Bus!Next]_queue` under
  the type invariant: a blocking request moves signals and adds at most one.
- **LuaLibrary.** Of the library as a whole, for any buttons, patterns, windows, slots, tracking ids
  and maps: `LibraryTypeOK`, `ClicksAreTold`, `SequenceMatches`, `TimeoutFiresOnce`, `TickerRuns`,
  `ContactsAgree`, `ButtonsFollow`; and of `Keyboard`, which shares nothing with the others, the
  properties below. Each helper has an invariant of its own;
  `LibraryInv` joins them, and `OwnKeeps` says why they do not disturb each other: a helper sets and
  cancels only the timer of its own callback. `tick(0, nil)`, which takes them all, keeps each one.
  - *Click* (`ClickInv`): a session that is pending has another level than the single one, has counted
    the presses there were, and is in its window, unless configure ended that.
  - *Sequence* (`SequenceInv`): `progress` is a position in each pattern, where the property speaks of
    the presses of the session. `Tracks` joins them: the first `progress[i]` presses of pattern `i`
    occur among those seen, in order, and one more would not. That the greedy step keeps it is
    `EmbedsAppend`, a lemma on subsequences: a pattern of k + 1 presses occurs in s followed by b if it
    occurs in s, or its first k do and the last is b. The lemmas construct the embeddings, so no
    induction over the sequences is needed. Patterns that begin with the same press twice are left out
    (`LibraryAssumption`), since the code counts the first press twice for them.
  - *Ticker* (`TickerInv`): `leaked` is the only reason for a timer without an active ticker.
  - *Touchpad* (`TouchpadInv`): in the middle of a frame the tools and `TOUCH` lag behind the contacts
    (`KeysShow`), the slots do not (`SlotsShow`): no two have one contact, and in multitouch every
    contact has one.
  - *Mouse* (`MouseInv`): a function that never reported a button does not remember it as pressed, and
    what the only one that did remembers as pressed is down.
  - *Keyboard*: `TypeOK`, `NoStuckKeys`, `MappingIsKept`, `TracksHeld`, `FnIsHeld`, for all maps and all
    reports, those included that hold a modifier twice. `NoStuckKeys` and `FnIsHeld` are inductive with the
    types, since a press that overwrites a mapping puts what it loses into `replaced` or `forced`
    (`PressKeeps`). `MappingIsKept` needs to know where a press can meet a tracked key: `HidTracks` says,
    in the middle of a report too, that what is tracked and not about to be released is in the report,
    so a key that is only among the keys is not pressed again; `EvdevTracks` that an evdev key that is up
    and tracked is an orphan.
- **Haptics.** `TypeOK`, `SlotsAreCurrent`, `NoEffectLeak`, `PlaySounds`, under the assumption
  `OneRemovable`: at most one sink comes and goes (with two, the finding `sink_reuse` makes them false).
  `SlotsAreCurrent` and `NoEffectLeak` prove each other: an effect is erased from the right device
  because no two slots of a sink share one, and no two share one because a free place in the table is
  in no slot. `PlaySounds` then needs that an eviction, which goes by the slots, empties the table.
- **UsbTransfers.** `TypeOK`, `FlyingIsCurrent`, `LeaksOnlyWithDevice`, whatever the script does, and
  `NoUseAfterFree` for a careful one (`ASSUME Careful`). The invariant behind the last says where the
  program may be in the callback of a transfer whose attach is over, and that nothing it does from there
  looks at the transfer.
- **Watchlist.** `TypeOK`, `RemovalIsComing` and the action property `NoticesAlternate`. A removal that
  is being handled counts for an entry only while the loop has not come to it (`RemovalAhead`), and it
  comes to it only if the entry is in the watchlist and of the message's subsystem (`NodesFit`), which
  `watch` and `unwatch` in the middle of the loop keep. `NoticesAlternate` needs an invariant over the
  whole queue (`AltInv`): the messages of a node take turns, the one being handled first and what is
  plugged last (`TurnsTaken`, `LastIsRemoval`); before the next arrival on a node, its removal reaches
  every entry that remembers the node (`RemovalFirst`, `ArrivalIsNew`); and what the callback heard last
  fits the node remembered (`HeardFits`).

Liveness is out of the proof system's reach, as is `ENABLED`. What can be proved of each liveness
property is its safety half: whatever is to end in the promised state stays on the way to it, step by
step and for all constants, so that only "the next step is taken" is left to fairness and to TLC.

| Liveness, model-checked | Its safety half, proved |
|---|---|
| `StopEndsLoop` | `StopNeverTurnsBack`: after `stop()` a step only brings the end of the loop nearer |
| `LeftAloneKeepsTicking` | `ExpiriesAreKept`: an expiry waits for its own callback, unless a `tick()` cancels the timer |
| `UnplugIsNoticed` | `UsbLossIsKept`: a lost device is found, its transfers called back, it is detached; one of these is always next, and `handle_event` does not return in between |
| `ArrivalIsHeard` | `WatchArrivalIsKept`: an arrival stays in the queue, or the entry ahead of the loop, until it is told |
| `ClickEnds` | `LibraryHeartbeats` (a session has its timer), `LibraryClickAges` (it only grows older) |
| `SequenceEnds` | `LibraryHeartbeats`, `LibrarySequenceAges` (one tick per heartbeat, and over with the first one beyond the window of then; `configure` sets no session back) |

`WatchArrivalIsKept` needs that what the loop has to visit lies at or behind the set it is at
(`LoopGoesOn`), so that `watch` in a callback does not take an entry that was passed for one ahead;
`UsbLossIsKept` that the descriptors of open devices differ (`DevInv`), so that no other device's
open, close or disconnect takes a lost one's out of the epoll set.

Only model-checked: those six properties themselves. Three hypotheses of theorems are shared by the
passing runs and not enforced by the code: `OneRemovable` (Haptics), `Careful` (UsbTransfers)
and one declaration per type (`GoneNoticed`). What happens without them is a finding,
or described above. No module uses a recursive operator.

## Not modelled

- `aelkey_tracker.lua`: a set with a function called for each change, used by nothing else.
- `aelkey_filter.lua`, and motion and wheels of the mouse: arithmetic on samples, no control.
- `aelkey_hid.cc`: one `ioctl` or `read` on an attached descriptor per call, no state.
- `device_output.cc`, `device_capabilities.h`, `device_parser.cc`, `device_helpers.cc`: tables and
  field-by-field copies. An output exists or not in `EventLoop` and `DeviceLifecycle`; `emit` writes
  to it. What a declaration says is a constant of the modules.
- `aelkey.cc`, `aelkey_util.cc`, `aelkey_util.lua`, `aelkey_log.lua`: registration, formatting, clocks.
- Of partly modelled components: creating outputs a second time after the loop has ended (`Haptics`),
  grabbing and the contents of frames (evdev), `flush_deferred` and the destructors' `cleanup_fds`
  (dispatchers), the sandboxed inspection of files (`aelkey_daemon.lua`).
- `src/artifacts/`: separate programs, not part of the library.
