# Verification of the Jolly compositor

TLA+ models, model-checking runs and machine-checked proofs for the Jolly
compositor, a Wayland compositor for handhelds derived from Catacomb.  Paths are
relative to the repository's `src/` directory, the Rust crate: `layout.rs` is
`shell/windows/layout.rs`, `mod.rs` is `shell/windows/mod.rs`.

## The system

The compositor is one process with one event loop (calloop).  Every handler runs
to its end before the next one; what is concurrent is everything outside: Wayland
and X11 clients, the user's fingers and gamepad, IPC messages, timers, the GPU
and the kernel's device events.  Nothing is persisted but the learned launch
mappings.  The hard behaviours come from the *order* of handlers and from changes
that are **staged now and applied later**: almost every change of layout, view or
size waits until the affected clients have acked their new size, or a timeout.

| Component | State | Operations | Hard behaviour |
|---|---|---|---|
| Layouts (`layout.rs`) | layouts with a primary and a secondary window, active index, parent ids, staged changes, focus | create, set_active, cycle_active, set_primary, set_secondary, reap, apply_transaction | batches applied in order on old indices; several deaths in one frame; parents that are gone |
| Window manager (`mod.rs`) | view, pending view, global transaction timer, lock, output | Wayland, X11, IPC and touch handlers, update_transaction, fix_view_after_reap | requests during a pending transaction; timeouts; views of dead windows; the lock |
| Windows (`window.rs`, `surface.rs`) | liveness, visibility, size, its own transaction, acked size | set_dimensions, enter, leave, kill, commit | a client acks late, never, or is blacklisted |
| Frame loop (`state.rs`, `backend/udev.rs`, `backend/drm.rs`) | stalled flag, redraw timers, VBlank, display power, device | create_frame, unstall, schedule_redraw, VBlank, device events | nobody left to draw the next frame |
| Process groups (`mod.rs`, focus) | activated window, role, one pending stop, one pending continue | focus, update_pending_state, update_transaction, close_app | delayed signals overtaking each other |
| Touch (`input/mod.rs`) | queued events, slot, pending single tap, velocity and its timer, touched surface | down, up, motion, frame, cancel, pointer, timers, display off | a second finger, the timer of one touch against the next, a release on another path than its press |
| Keys, bindings, gamepad (`input/mod.rs`, `config.rs`) | active keys, mapped stick and buttons, repeat timer | key and gamepad events | releases after the active window changed |
| Overview (`shell/overview.rs`) | offsets, drag action, hold timer | drag, hold, close | a held position that is stale |
| Layers (`shell/layer.rs`, `output/mod.rs`) | layer windows, focus, exclusive zones | commit, destroy, update, reset, resize_visible | two layers on one edge; zones that change while windows are hidden |
| XWayland (`shell/xwayland`) | pending_configs | associate, map, unmap, destroy, configure | associated twice, configured before mapped |
| IPC and launch (`backend/ipc.rs`, `mod.rs`) | pending_launch, card and command maps, their file | ExecOrFocus, Exec, FocusRole, Toggle, Close, ... | a launch binds to another window, or before it has a name |
| Output, orientation (`output`) | output and canvas, accelerometer, orientation lock | poll, lock, unlock, set_output | the canvas follows the output a transaction later; a new output in between |
| Popups (`window.rs`, `mod.rs`) | orphans, the tree of each window, positioners, locations | adopt, dismiss, configure, reposition, refresh, constrain | parents that are orphans, hidden or dead; siblings that die together; sizes known a frame later |
| Drawing, screencopy | textures, staged copy | render, copy | I/O |

Interaction: the handlers of `Catacomb` (`state.rs`) call methods of `Windows`;
those stage changes in `Layouts`, the windows and the view and start the timer;
the handler then calls `unstall`.  `create_frame` calls `update_transaction`,
which applies everything at once, then `focus`, which moves the activated flag and
schedules signals to process groups, and draws when something is damaged.

What makes each component correct:

* Layouts: a window is in one slot of one layout; no live window is lost; no dead
  one stays; the active layout stays active while others die, and gives way to its
  parent when it dies itself.
* Window manager: a transaction always ends; no view of dead windows; a resize is
  not shown before its client is done or late; the lock is only undone by unlock.
* Frame loop: it never freezes; a transaction that was seen is applied.
* Process groups: the window the user works with is never left stopped.
* Touch: no slot stays taken without a finger; velocity never acts on the next
  touch; what was begun at a client or in the overview is ended.
* Keys: no key stays pressed, active or repeating that nothing holds.
* Layers: reserved space belongs to a live surface, and what is on screen keeps clear of
  it.
* Orientation: lock, sensor, output and windows agree, and a rotation is drawn.
* Popups: each is in one place, every client is answered, none is lost with another, and
  one that may slide is inside of its parent.
* Launch: no window has the process group of another process; a program that is there is not
  started again; nothing learned is lost.

## Modules

| Module | Content |
|---|---|
| `LayoutOps` | layout operations as operators from state to state: the vocabulary of `Layouts` and `Shell` |
| `Layouts` | each layout operation as an action; one variable, `ls` |
| `Shell` | the window manager on top of `LayoutOps`; variables `wm` and `unacked` |
| `WindowSizes` | the transaction of every window: sizes, acks, deadline, blacklist, imported buffers |
| `AtomicResize` | abstract specification: what resizing promises; `WindowSizes` implements it |
| `RenderLoop` | frame loop; the window manager shrinks to what frames depend on |
| `Orientation` | accelerometer, orientation lock and rotations, composed with `RenderLoop` |
| `ProcessGroups` | activation, delayed stop and continue |
| `TouchInput` | touch and pointer: `TouchState` and its handlers |
| `GamepadKeys` | keys of keyboard and gamepad, key bindings |
| `Layers` | layer surfaces, reserved space, and the sizes that depend on it |
| `Launch` | launches over IPC, process groups of windows, learned names and their file |
| `Popups` | orphans and trees of popups, over windows that are shown, hidden and reaped |
| `Placement` | `PopupConstrainer`, and when a popup is placed |
| `MCLayouts`, `MCShell`, `MCWindowSizes`, `MCOrientation`, `MCProcessGroups`, `MCTouchInput`, `MCGamepadKeys`, `MCLayers`, `MCLaunch`, `MCPopups` | values of the constants, symmetry |
| `LayoutOpsProofs` | what the operations on layouts preserve, for the next two |
| `LayoutsProofs`, `ShellProofs` | theorems about `Layouts`, and about `Shell` |
| `SizesProofs` | theorems about `WindowSizes` and `Layers` |
| `OrientationProofs` | theorems about `Orientation` and the loop in it |
| `AppsProofs` | theorems about `Launch` and `ProcessGroups` |
| `InputProofs` | theorems about `GamepadKeys` and `TouchInput` |
| `PopupsProofs` | theorems about `Popups` and `Placement` |

An operator whose comment begins with "Slip" is a plausible mistake in the
operator after it.  No specification uses it; `PROJECT.json` pairs it with the
property that finds the mistake.

### LayoutOps and Layouts

`ls` is a record with the fields of `struct Layouts` and the bits of `Window` the
operations read or write: `visible`, `dead`, `created`.  Indices start at 1, and 0
is Rust's `None`.  `ApplyTransaction` is the whole of `apply_transaction`:
`StagedRun` is the loop over the staged changes, `ReapRun` the `retain_mut` closure
with its running index, `RestoreParent` the block for a dead active layout.  A
position that no longer exists is skipped, as `get_mut` and the early returns do.
`PendingRun` is the loop of `pending_active`.  Loops are functions of the number of rounds
rather than folds, so that they can be reasoned about.

A proof module that covers two components EXTENDS both; for that, some names of `Layers`,
`ProcessGroups`, `TouchInput` and `Placement` carry the component: `LayersSpec`,
`GroupsTypeOK`, `TouchInit`.

`Layouts` offers each operation to an environment that combines them as handlers
do, with `focus_app` on an overlay (`FocusOverlay`: push a parent, then activate) and
`DebugFocus` with an unchecked index.

### Shell

| Model | Code |
|---|---|
| `wm.view` | `Windows::view` |
| `wm.pending` | `transaction`: `NoTransaction` for none, `NoPendingView` for `view: None` |
| `wm.timer` | age of `TRANSACTION_START`: idle (0), fresh (up to 100 ms), aging (up to 1000 ms), expired |
| `unacked` | windows that are resized, not blacklisted and not done |
| `SetView`, `PendingView`, `StartTimer` | the functions of that name |
| `UpdateIdle` / `UpdateTransaction` | the two halves of `update_transaction` |

Handlers are written as `wm -> wm` operators and one `Become(m, resized)`, which
also chooses which of the resized windows have to ack.  `set_dimensions` skips dead
and hidden windows; whether a window is at its size already, or was blacklisted for
missing a transaction, is a choice.

Simplifications: an application id identifies one window; `toggle_app` looks for
home by its registered role, the other handlers also by title, so `HideApp` takes a
flag; an X11 window keeps its `wl_surface` when it is unmapped, and is associated
once; `raise`, `focus_app` and `toggle_app` name windows by identity.  A lock surface
is not in a layout and has only the flags `visible` and `sized`.

### WindowSizes

`Shell` keeps of all resizing only which windows are waited for; here every window has
the fields of `struct Window` that decide about it, and its client's part.

| Model | Code |
|---|---|
| `size`, `staged` | `rectangle` and `transaction`, with the scale that goes with them |
| `acked`, `ignored`, `locked`, `dirty`, `texture` | `acked_size`, `ignore_transactions`, `transaction_locked`, `dirty`, `texture_cache` |
| `configured` | whether `initial_configure` was sent; X11 windows need none |
| `sent`, `drawn` | the client: configures on their way, and the size its last buffer is drawn for |
| `Commit` | `surface_commit`: ack, initial configure, and a window scale for a new app id |
| `Resize`, `Close`, `CloseApp`, `Enter`, `Add` | whatever calls `set_dimensions`, for any windows; a death resizes the sibling |
| `Applies`, `Updated`, `Waits` | the two outcomes of `update_transaction`, then `import_buffers` |

`AtomicResize` says what this machinery is for, without configures, acks and blacklist:
windows are asked for sizes, their clients owe a picture until they draw or the deadline
passes, and one step gives every window that was asked its size.  The mapping
(`Transactions` in `WindowSizes`) reads `size`, `texture` and `staged` as they are; `owing`
is the set of windows `transaction_done` waits for, and `deadline` the timer.
`ResizedTogether` is that specification: every step of the detailed one is one of its
steps or a stutter.

Layouts are left out: any windows may be resized, shown and hidden by any request, which
covers what layouts and views ask for.  A frame may also wait for a layer or for the lock
surface, which are no windows of the layouts.  The view is the workspace: under drag and
drop `damaged` is false and commits bring no frames.  Not modelled: the configure requests
of X11 clients, presentation feedback, layers, and popups, which have no transactions.

### RenderLoop

`Frames` is `create_frame`, from a loop state to the set of states it may leave:
`Updated` (update_transaction, which may stage a fix), then `Drawn`.  `ready` and
`late` say whether the participants are done and whether the timeout has passed.
`fullscreen` is a dead fullscreen window that was not noticed yet.  The module has no
constants and no bound: its state space is finite.  A deadline that is returned only
for a delayed continue (mod.rs:1789) is left out; it can only add a redraw.  The module is
checked as a part of `Orientation`, whose steps are its steps and polls of the sensor.

### Orientation

| Model | Code |
|---|---|
| `accel` | `SensorAccelerometer::last`, and whether `accelerometer_token` is enabled |
| `rotation.locked`, `.unlocked` | `orientation_locked`, `unlocked_orientation` |
| `rotation.output`, `.canvas` | the orientation of `Windows::output` and `Windows::canvas` |
| `Poll` | the timer of `subscribe`, `handle_orientation`, `update_orientation`, and a forced redraw |
| `Turn` | `set_orientation` in a handler that unstalls the loop |
| `ReplaceOutput` | `set_output`, with the four device events of `RenderLoop` |

A rotation is the staged change "rotation" of the loop: a frame that applies it copies the
output to the canvas.  A reading of the sensor is an orientation or `Flat`; `Flat` counts as
the last one.  The dummy accelerometer is a sensor that reports portrait once.  The sizes
windows get with a rotation are in `WindowSizes` (`Resize`).

### ProcessGroups

`GroupOf` is `process_group` as `Launch` records it: the second window of an application has
none, and focusing it stops the group of the first.  Signals carry a delay counted in `Delay`
ticks (100 ms in the code, for both).  The
history variable `raced` is read by properties only.  Not modelled: the
early return of `focus` under a lock view, the role of layer windows that were
activated (any role may be lent by a layer), and the audio and media commands.

### TouchInput

`ts` is `TouchState`, with what its handlers reach outside: the live timers, the slots
that clients believe to be down (`clients`), the focus.  `queue` is
`touch_state.events`.  The loop over the queue in `TouchFrame` is not interrupted by
other handlers but may switch the display on, so `frame` keeps which of the two loops
is running while `HandleEvent` or `HandleEventWhileOff` takes one event after the
other; every other action waits for `Idle`.

| Model | Code |
|---|---|
| `Action(t)` | `TouchState::action`: the action and the state that asking for it leaves |
| `edge` | the window manager reached the end of a drag or gesture (`cycle_edge_reached`, `gesture_threshold_passed`, the edge of the screen) and cancels the velocity |
| `ts.ongoing` | a drag or gesture was reported, but not its end |
| `ts.cut` | it was cut off, by a second finger, a gesture of the user or the display: its end will not be reported |
| `ts.held` | `start.time.elapsed() >= HOLD_DURATION` |
| `lastTap = NoPlace` | no last tap, or one that is too old for a double tap |
| `dropped`, `crowded`, `ran`, `cut` | history, read by properties only |

Points are places, further apart than the tolerance of taps, each in a gesture sector
of its own.  Velocity is there or not; a motion to another place has some, and
`VelocityTick` moves or stops at will.  Surfaces stand for their app ids.  What the
window manager does with a drag or gesture is in `Shell`; offsets are not modelled.
`OnUserGesture` stops the velocity and cancels the clients' touches, and tells the window
manager nothing, as in the code: a drag that was going on stays `ongoing`.

### GamepadKeys

`ks` has the keys the keyboard holds down (`pressed`), `active_keys`, `mapped_buttons`,
`mapped_stick_keys`, the number of live repeat timers and whether `repeat_timer` names one.
`leaked` counts those whose token `start_key_repeat` has overwritten (input/mod.rs:118); a
binding stands for all with the same keys, windows and trigger.
`HandleUserBinding` is the whole function of that name, with its return for surfaces that
inhibit shortcuts.  `active` is the active window that decides about mapping and
bindings; `lastFocus` follows it with a frame.  A stick is at -1, 0 or 1: the dead zone
is the only threshold.  `missed`, `strays` and `unplugged` are history variables: axes
whose last change was ignored, keys whose release was ignored, a gamepad that went away.
Not modelled: modifiers, `send_virtual_key`, and the codes 312 and 313, for which
`keyboard_action` simulates a key inside the closure of `keyboard.input`.

### Layers

A size is what it was computed from: `fit[s]` is the space left out at each edge when
surface `s` was last sized.  `space` is `ExclusiveSpace`; `Reserve`, `Release` and `Rezone`
are `update`, `reset` and `update_layer_state`.  `CommitLayer` is the commit of a layer
surface with everything that follows from it (`resize_visible`, when the space has changed),
`DestroyLayer` is `reap_layer`.  Views and staged layouts are those of `Shell`, reduced to
what `resize_visible` looks at, and an update may come at any time.  `GESTURE_HANDLE_HEIGHT`
is 0 (output/mod.rs:22): the output without the handle is the output.  `contested` is a
history variable, and `Misfit` the history of a surface that keeps a wrong size for a reason
that is known (see the list below).  Not modelled: margins, the order of surfaces on screen,
the focus of layers, and the overview, which has its own rectangle.

### Launch

| Model | Code |
|---|---|
| `process` | processes, started by a launch or elsewhere, and the key of the launch |
| `window`, `order` | the windows with their `process_group` and name, in the order of the layouts, in which `focus_app` looks for a match |
| `pending` | `pending_launch`; `NoLaunch` for `None` |
| `names`, `saved` | `command_map` and `card_map`, and their file |
| `Show`, `ShowAnother`, `ShowForeign` | `add` and `add_x11`: the first window of a launched process, a further window of any, the first one of a process started elsewhere |
| `Valid`, `MatchedBy` | what `AppIdMatcher::try_from` accepts, and the names each pattern matches |
| `crossed`, `unsaved` | history variables |

`add` takes the pending launch, so only the first window that comes gets its process group;
the next window of the same process has none.  An XDG window is added without a name
(`named`), as clients send their app id after `get_toplevel`; an X11 window has its class from
the start.  What is learned is a name and what is looked for is a pattern:
`focus_mapped_command` compiles the name when it is used and finds nothing when that fails.
`AppIdMatcher` is outside the sources, so which names are patterns and what they match is left
to constants, about which the module assumes nothing; the instance has a class that is no
pattern, and the empty name matches all.  A launch notes its context first and the process
group after the spawn, in one handler; the spawn may fail.  `fs::write` empties the file
before it writes it: errors are ignored and leave it as it was, empty, or written, and
`CrashWhileSaving` is an end of the compositor in between.  `normalize_command_key` is any
function from commands to keys or none (`KeyOf`).

### Popups

| Model | Code |
|---|---|
| `orphans` | `Windows::orphan_popups` |
| `children[s]` | the vector `popups` of the window or popup of surface `s` |
| `window` | of all layouts: where a toplevel is (active, in another layout, reaped) |
| `Commit` | `orphan_surface_commit`, then `popup_surface_commit` of layouts and layers |
| `Refreshed`, `Without` | `refresh_popups` of `Windows` and of `Window`, with its `swap_remove` |
| `Dropping` | a `Window` that is dropped takes its popups along |

`Trees` are the popups that hang below any of a set of surfaces, at any depth: the least set
that has the popups of those surfaces and of its own members.  The code recurses over the
vectors, which are as deep as there are popups.

An update may show, hide and reap any toplevels, which covers what `Layouts` does; layer
surfaces stay.  The parent of a popup of a layer is named after the popup was created, by
`get_popup` of the layer shell, before its first commit.  Of a popup the client knows whether it
was configured or dismissed.  Whether a dead popup remembers its parent is decided in
smithay and left open.  Not modelled: grabs (the handler is empty), the visibility and scale
a popup takes over, and what is drawn.  Requests to reposition a popup change nothing here and
are in `Placement`.

### Placement

`Constrained` is `constrained_location`: as it is, flipped, or slid, with the positioner it
leaves behind, as the constrainer writes to the pending state.  A positioner is a record per
axis; anchor and gravity are -1, 0 or 1, so flipping is a change of sign, and
`PositionerState::get_geometry` of smithay is sums of halves and wholes.  `cached` is the size of
the textures, `committed` that of the last buffer: `Import` is the frame in between.
`stale` is history: what has changed since the location was computed.  `Bounds` is empty when the parent is
a popup, since `output_rectangle.size` of popups is never written.  Window and output scale
agree, so that rounding is left out.

## Runs

| Run | Question | Bounds | Distinct states |
|---|---|---|---|
| `layouts` | layouts, single changes and batches | 3 windows, 1 staged, 1 parent; or 2 windows, one X11, 2 staged, 2 parents; 4 ids | 510 000 |
| `shell` | lock, overview, X11, overlay | home and an X11 window, or home and an overlay, 1 staged, 1 parent, 2 ids | 890 000 |
| `window_sizes` | resizing | a toplevel and an X11 window, 2 sizes, the last size sent is answered | 420 000 |
| `orientation` | the loop, rotations | 2 orientations, 1 toplevel, 2 staged changes | 410 000 |
| `process_groups` | signals | 5 windows, 2 of them without a group, 3 groups, delay 2 | 290 000 |
| `touch` | touches, taps, gestures | 2 fingers and a pointer, 2 places, one on the handle, 1 surface, 1 queued event, 2 single taps | 9 640 000 |
| `gamepad_keys` | keys and bindings | 1 axis, a button with the same key, 1 trigger, 3 typed keys, 2 windows, 4 bindings, 2 of which repeat for one key, 2 lost timers | 1 170 000 |
| `layers` | reserved space | 2 layer surfaces, 2 edges, 1 zone, 2 toplevels, 1 staged | 630 000 |
| `launch` | launches | 2 processes beside home, 2 windows, 3 names, one of which is no pattern, 2 commands, 1 card, one launch at a time | 1 920 000 |
| `popups` | trees, or the constrainer | 2 toplevels, 1 layer surface, 3 popups; or 3 sizes, 2 places of the anchor rectangle, all edges on one axis | 66 000 |

Three windows fill both halves of one layout and one more, which is what swapping,
booting and the parent chain need; two staged changes are the least for one to
invalidate another; two parents are needed for one level to be skipped.  `MaxId`
bounds splits: it allows at least one split beyond the layouts the windows came
with.  `MCLayouts` has either more windows or longer batches, `MCShell` an X11 window or an
overlay, never both: the two do not act on each other but through layouts.  In
`window_sizes`, two sizes are the least to be resized away from a size and back before it
is acked, and two windows the least for one to wait for the other; `MaxSent` says that a
client answers the last size it was sent and skips those before it.  A delay of two ticks leaves a tick for events between two deadlines; every
order of two delayed signals occurs.  Two fingers, one of them with the slot of the
pointer, are what `start` tells apart; one queued event and `frame` give every order of
events and timers, and a frame of two events differs from two frames only in what may
come between.  Two single taps are needed for a token to be overwritten.  `gamepad_keys`
has one bound, `MaxLeaked`: each lost timer adds one and changes nothing else; one axis is enough as axes share nothing but `active_keys`, which the button
changes too.  `FewStaged` bounds what handlers stage together: which of several changes is
staged matters to `Drawn` only as none, some, or a switch.  Two panels on two edges can share
an edge, swap edges and be alone; one size of zone is enough, as only zero or not is told
apart by what may go wrong.  Two processes beside home are one that was learned
and one that is started again, or a foreign window beside a launched one.  Home's window may
close, so that two windows of one process, or of two, are there at once.  `Uncrossed` is a
constraint of `launch`: a session in which launches crossed is followed up to the step that
crossed them, as `OwnGroup` and `NotStartedTwice` claim nothing after it and
`NamesSurvive` is about the file; `Files` has what such a session leaves for the next one, a
name of another application and the empty one.  Three popups are two siblings and one more,
or a chain of three; two may be dead when the third is destroyed.  `MCPopups` is about trees or about the
location of one popup, never about both, which share nothing the properties read: there, a
popup sticks out on either side, on both, by as much as a flip brings back or by more, and on
one axis or two; sizes are up to 4, and the theorem is about all.  Symmetry is declared for windows of the same
kind and only in runs without liveness properties.  Deadlock is checked in all
passing runs.

### Properties

* `WellFormed`, `DeadReaped`, `WindowsKept`: windows and layouts under every sequence of
  tiling, dying and applying.
* `ActiveLayoutKept`: the active layout (`SurvivorStaysActive`) and the way back
  (`ParentRestored`), with the condition that at most one layout before the active one dies,
  or none; without it see the list below.
* `PendingReached`: staged switches end where `pending_active` said.
* `PendingHasTimer`: whatever is staged, pending or unacked has a running timer.
* `ViewHasWindow`: after each update the view is one the user can see and leave.
* `LockKept`: the lock is not taken back, and its surface is really waited for.
* `ResizedTogether`, `CommitsKept`, `Converges`: windows change together or at the
  deadline (the refinement); no commit is lost; a client that answers gets its window right
  in the end.
* `NeverFrozen`, `SeenSwitchApplied`: the frame loop, under rotations too.
* `OrientationsAgree`, `RotationDrawn`: output, windows and lock agree, and the sensor is
  polled when it should be (`PollingMatches`); a rotation reaches the screen.
* `FocusedKept`, `FocusedResumes`: the group recorded for the activated window.
* `TouchesEnd`: what a touch takes or begins is given back or ended;
  `VelocityEnds`: velocity acts after its touch, on nothing else, and ends what was begun, or
  it was cut off.
* `MappingFollowsPad`: what is mapped follows the gamepad; `KeysHaveSource`: what is pressed,
  active or repeating follows what is held, but for timers another binding hid.
* `ReservationsMatch`: reserved space and zones; `ShownFits`: what is on screen fits it.
* `OwnGroup`: which window has the group of a launch; `NotStartedTwice`: a program that was
  learned and is there is focused; `NamesSurvive`: what was learned, across restarts.
* `TreesKept`, `Answered`, `DeadLeaveTrees`: popups from their creation to their
  death, under dying siblings, parents and windows.
* `Settled`: a popup is put inside of its parent where it may, and stays there.

### Where code and comments disagree

Two runs expect a violation.  Each checks one statement of a comment; TLC's
counterexample is what the code does instead.

| Property | Comment | What happens |
|---|---|---|
| `LockSurfaceSized` | mod.rs:941 | a lock surface is not visible yet, so no size is sent |
| `LockedKeepsOrientation` | mod.rs:2151 | a changed device gets a new output in portrait, whatever was locked |

Other behaviour met on the way shows as conditions of the properties that hold, each
named in the comment of its property or in the hazards of `PROJECT.json`:

* The size of an X11 window is what it was configured to, acked or not
  (surface.rs:171): any commit after that ends its part of the transaction.
* A blacklisted window leaves the blacklist only with a transaction whose size it acked
  before it was applied; as nothing waits for it, one that is resized alone is applied by
  the next frame, before it can ack, and stays on the blacklist (window.rs:456).
* A hidden window that commits stays dirty, and `damaged` is true as long as it is
  (mod.rs:2172): in the workspace the loop draws on although nothing visible changed.
* The lock surface gets no presentation feedback (mod.rs:1423 covers layouts and layers).
* Several layouts before the active one die at once: the running index of the
  `retain_mut` closure (layout.rs:355, 386) compares each with an index it has already
  decremented, and another layout is active afterwards (`SurvivorStaysActive` allows one).
* The active layout dies together with one before it: the running index misses it, and
  neither is a parent restored nor the active layout cleared (`ParentRestored`).
* A fullscreen window that was alone in the active layout dies: `apply_transaction`
  goes back to its parent and `fix_view_after_reap` to the parent of that.
* New windows and X11 map and destroy events write the view without `set_view`
  (`LockKept` names them).
* A device that was added by the retry timer, or changed, has no frame of its own
  (`swapped` in `NeverFrozen`); the switch `fix_view_after_reap` stages is given no
  deadline by the frame that staged it (`SeenSwitchApplied` is about requests).
* A lone primary window dropped on the lower half ends as a secondary without a
  primary, and `pending_active` reports it in both halves meanwhile
  (`PendingReached` is about activations).
* Minimizing everything and dropping a window on the lower half in one batch puts the
  window in no layout (layout.rs:502).
* `unlock` does not unstall (state.rs:771, mod.rs:955); a stalled loop looks at no
  transaction.
* A second pending stop overwrites the first; the group of the first runs on.  A frame
  executes a due continue before a due stop of the same group, which the next poll then
  stops (mod.rs:1748, `raced`).
* A second finger invalidates the first: its client keeps a touch that never ends
  (`crowded`), and a drag or gesture it began gets no release (`cut`).
  So does a release while the display is off (`cut`, `dropped`), and a cancelled finger keeps
  the slot (`dropped`).
* A gesture of the user that completes while a drag goes on, under the finger or coasting,
  stops the velocity and reports no end of the drag (input/mod.rs:759).  The window
  manager keeps its drag action: in the overview the next touch off the handle resets
  it (mod.rs:2193), in drag and drop the end of the next drag drops the window (`cut`).
* A tap overwrites the token of the one before: of three quick taps, the first fires as a
  single tap after the double tap.
* A stick that is centred while another window is active leaves its key pressed until it
  moves again (`missed`); a key that is released under a surface that inhibits shortcuts
  stays active until it is pressed and released again (`strays`).
* Of two bindings that repeat and match at once, only the last timer can be cancelled; the
  other goes on until the session ends (input/mod.rs:118; `leaked`).  Nothing compares a new
  binding with those that are there (ipc.rs:484).
* A tap on a window where a gesture may start focuses the window and loses the focus 300 ms
  later (input/mod.rs:812, a comment at 808 speaks of taps outside of any window).
* Mode released over home without an overlay stays in `active_keys` (input/mod.rs:1329); no
  binding of another key matches until it is pressed and released again.
* Of two panels at one edge the second to come overwrites the reservation of the first, and
  the first to go clears that of the other (output/mod.rs:347; `contested`).
* `unlock` resizes nothing, and zones that change behind the lock surface resize only that
  (mod.rs:955, 2115); a new window is sized for the workspace and shown fullscreen at once, as
  is a window that is activated while it is fullscreen (`Misfit`).
* `unlock_orientation` enables the poll timer while the display is off, against the comment at
  state.rs:521; `OrientationsAgree` asks for nothing then.
* A new output loses the reserved space and the scale with the orientation (mod.rs:2559); the
  windows keep the transform they were told (`replaced`).
* Launches that cross exchange their process groups, and a failed spawn stays noted: the next
  window, whichever it is, is learned for its command (`crossed`).
* A further window of a launched program has no process group, and focusing it schedules the
  stop of the group of the first one, in which its own process is (mod.rs:795, 843, 1590).
* A learned name that is no valid pattern, or one that does not match itself (`c++`,
  `foo (x64)`), finds nothing: the program is started again while its window is there
  (mod.rs:284; `FindsItself`).
* Commands with one key are one to the mappings (ipc.rs:145: any two commands that begin with
  the same word, unless they are flatpak, gtk-launch or steam): what was learned for the first
  is focused for the second (`OneApplication`).
* `fs::write` empties the mappings file first: when the compositor ends in the middle of it,
  the next session finds a file it cannot parse, and knows nothing (mod.rs:327).
* `add` and `add_x11` set `layouts.focus` only; a layer that had the focus keeps its own.
* Windows of a layout that was left with a booted secondary stay invisible when the layout is
  activated again by a switch that was skipped (layout.rs:170).
* A popup that is adopted while its window is not visible yet, or below a hidden layer
  surface, keeps that: its buffers are never imported (window.rs:769, 229).
* Dead popups that never committed stay in `orphan_popups`, and dead popups of layers in their
  trees: `refresh_popups` looks at the layouts only (mod.rs:1473).
* A popup that is committed without a parent is forgotten and `popup_done` is not sent, against
  the comment at mod.rs:1087 (`Answered` is about popups with a parent).
* A popup of a layer surface, or an orphan, is not found when its client asks to reposition it,
  and gets no answer (mod.rs:924).
* Touches are offered to the lowest popup of a window first, against the comment at
  window.rs:673: textures are listed from the top.
* A popup that changes its size is placed with the size it had (window.rs:904), and a popup of
  a popup is constrained to bounds of size 0 (`Settled` is about what is up to date, and
  these bounds).
* A toplevel has no app id when it is added: the empty name is learned for its command, which
  focuses any window that has a name from then on, against the comment at ipc.rs:100
  (`NotStartedTwice` is about X11 windows).
* When a popup dies, the last of its siblings takes its place in the stack (window.rs:823).
* The app id of a touched layer is taken out before `set_focus` (input/mod.rs:574), so a
  focused layer has none.

### Fairness

Safety needs none.  `SeenSwitchApplied` and `RotationDrawn` assume that time passes (`Tick`), that
calloop fires timers (`RedrawFires`) and that the kernel delivers the VBlank of a
submitted frame (`VBlank`).  Clients, users and devices owe nothing.
`Converges` assumes time and that frames come: a commit unstalls the loop and a dirty
window keeps it drawing, and `NeverFrozen` and `SeenSwitchApplied` show that frames and
deadlines arrive then.  That a client answers is its premise, not an assumption.
`FocusedResumes` assumes time and the 16 ms poll timer (`poll_gamepad`), which is
installed for the life of the process.  `Shell` has no liveness: its frames come
from `RenderLoop`.

## Proofs

The theorems hold for every value of the constants that meets the assumptions of the
modules; TLC evaluates those in the runs.  Every invariant and every action property that a
passing run checks is stated by a theorem; what is left to TLC is liveness.

Loops over sequences are functions of the number of rounds, and `LoopInvariant` (in
`LayoutOpsProofs`) turns a fact that each round keeps into one of all rounds, by the least
number at which it fails.

**Layouts** (`LayoutsProofs`, on the lemmas of `LayoutOpsProofs`).  The inductive
invariant is `Valid(ls)`, that is type correctness and `Disjoint`, with `NoneEmpty` and
`MovesHaveActive`.
`UniqueOwnership` is not inductive by itself: an operation that moves a window must
find its type right, and a split must find the slot it writes to empty.
`NoneEmpty` fails inside an apply, after
`apply_secondary` took a window away, and holds again once `ReapRun` is through:
that is why the reap lemma does not assume it.  From there `TypeCorrect`,
`OneSlotPerWindow`, `LayoutsHoldWindows`, with them `LayoutsWellFormed`, and
`DeadWindowsLeave` follow.  `LiveWindowsAreKept` (`WindowsKept`) follows a window through both loops:
each staged change only adds layouts and leaves every window in one (`Grows`), and reaping
keeps what outlives (`SurvivorsKept`).  For a move that needs a layout to move to, hence
`MovesHaveActive`, which `set_secondary` establishes by looking for a primary first.
`ActiveLayoutIsKept` (`ActiveLayoutKept`) follows the running index of `retain_mut`
(`ActiveMovesAlong`, `ActiveDies`), and `PendingIsActive` (`PendingReached`) runs
`pending_active` and `apply_transaction` side by side (`ActivationsLead`).

**Shell** (`ShellProofs`).  `TypeCorrect`, `TransactionsHaveTimer`, `UpdatesShowWindows` and
`LockIsKept`, for any windows.  Every handler is a chain of operators on `wm`; each keeps
`Good` (type, and layouts as above) and `Timed` (what is staged or pending has a timer), and
tells whether it may lift a lock.  `IInv` adds that windows which are waited for have a timer.
That an update never leaves a view of dead windows (`UpdatesShowWindows`) follows the two halves of
`update_transaction` through `apply_transaction`, whose lemma says that only live windows are
left, to what `fix_view_after_reap` makes of them.

**WindowSizes** (`SizesProofs`).  `TypeCorrect`, `CommitsAreKept` and the refinement
`ResizesAreAtomic`, for any windows, sizes and bound.  `Sound` is what holds of each window:
its type, a target while it lives (the initial configure sends it), and `CommitsKept`.
`Timed` joins windows and timer: without a deadline nothing is staged.  Each operation on a
window has a lemma that says what of it there is to see; all requests are then shown to be
an `Ask` of `AtomicResize`, a tick is `Expire`, and a frame is `Draw` or `Apply`.

**Layers** (`SizesProofs`).  `LayersTypeCorrect`, `ReservationsAgree` and `ShownAlwaysFits`, for any
surfaces, edges, levels and zones.
`ReservationsMatch` is not inductive alone: the death of one of two surfaces at an edge
clears the reservation of the other, so the invariant says that an edge with two claims is
contested (`SoleClaims`).  `MoveKeeps` is the one argument behind commits and deaths: a
surface gives its old edge back and takes a new one, or none.  For `ShownFits` the invariant
(`FitInv`) speaks of the view that is pending rather than of the one that is shown, as a
resize goes to where the staged changes lead, and adds that a fullscreen window fits its own
space and that overlays fit whatever the view is.

**GamepadKeys** (`InputProofs`).  `TypeCorrect`, `MappedAreHeld` and
`KeysFollowStick`, with them `MappingsFollow`, for any axes, buttons, keys, bindings and
windows.  Cancelling a repetition takes the count of timers down, so the type needs
`TokenHasTimer`.  `KeySound` says that no key, whatever its bindings do, touches the maps,
and `AxisSound` what a change of the stick leaves in them.  `PressedHaveSource` and
`ActiveKeysArePressed` are about what is pressed and active (`SourceInv`; no key that switches
the terminal is ever active), and `SourcesKept` adds that at most one timer repeats and is
known, but for those that `leaked` counts (`OneRepeat`), for any bindings.

**TouchInput** (`InputProofs`).  `TouchTypeCorrect`, `VelocityAlwaysEnds` and `TouchesAlwaysEnd`, for
any slots, surfaces and gestures.  `VelocityEnds` needs that a drag or gesture that has begun
decides what the release of its finger means (`OngoingMoved`), that velocity and touch
exclude each other, and that what goes on without either was `cut` off (`Coasting`).
`TouchesEnd` is about the fingers that are in the queue, on the screen and in the slot at once
(`SlotInv`): as long as nothing was dropped or crowded, downs and ups of a slot take turns in
the queue (`TakesTurns`), a down that is waiting has a finger, and the only client with a
touch is that of the slot.

**Orientation** (`OrientationProofs`).  `TypeCorrect`, `LoopNeverFreezes` and
`OrientationsAreOne`, with `SensorPolled` in it, for the composition, any orientations and windows.  The loop half is
about any loop state: every handler maps a typed loop that will draw to such loops
(`Keeps`), because `Frames` ends stalled, with a redraw or with a VBlank.  The orientation
half adds that an unlock turns to what the sensor reported last (`AccelKnown`), and says for
the display what `PollingMatches` says for the screen, as a device may come back later.

**Launch** (`AppsProofs`).  `LaunchTypeCorrect`, `GroupsAreOwn`, `NothingForgotten` and
`NothingStartedTwice`, for any processes, windows, names, patterns, commands and cards.  As
long as no launch crosses another, the process that has yet to show its first window and the
launch that is noted are one (`OneLaunch`, `NotedLaunch`); a window added by anybody else crosses it.  `NothingForgotten`
needs that the file has what was learned unless it could not be written (`Written`).
`NothingStartedTwice` needs that keys are those of the commands processes were launched with
(`KeysOfCommands`), that the window that takes a launch is one of the process launched for its
key (`KeyOfLaunch`), that X11 windows have their names (`X11Named`), and that what was
learned for a key is the name of the processes launched for it (`Learned`); `MappedLemma` then
finds a window by any name that is a pattern and matches itself.

**ProcessGroups** (`AppsProofs`).  `FocusedGroupRuns`, `FocusedGroupStays`
and `StopsBeforeContinuing` (together `FocusedGroupKept`) need each other: the group runs because the stop comes
first, and the stop comes first because both delays are the same and activation
cancels or follows it.  The invariant is the conjunction of the four, for any
windows, groups, sharing of groups, roles and delay.

**Popups** (`PopupsProofs`).  `PopupsTypeCorrect`, `TreesAlwaysKept`, `CommitsAreAnswered` and
`DeadAlwaysLeaveTrees`, for any windows, layer surfaces and popups, any number of which may be dead
or dropped in one update.  `TreesKept`, every popup in one place and none below a window that is
gone, is inductive only with `Answered` and with the order of things (`PopupsInv`): a popup that
was not created is nowhere (`NewIsNowhere`), a parent was there before its child
(`ParentIsKnown`), what hangs below a surface was created for it (`BelowParent`), and a popup
that lives is an orphan until its first commit (`OrphanUntilCommit`).  The lemmas about `Trees`
need nothing but that they are the least closed sets: they shrink with the vectors
(`TreesMonotone`), do not notice what is dropped elsewhere (`TreesAfterDropping`) and grow by an
adopted popup and what hangs below it (`TreesWithAdopted`).  `SwapRemoveLemma` and
`WithoutLemma` are about `refresh_popups`: its `swap_remove` changes the order and nothing
else.

**Placement** (`PopupsProofs`).  `PlacingTypeCorrect` and `PopupsSettle`, for any positioners and
sizes.  The constrainer answers in one of
three ways; two end inside, and the third leaves the positioner as it was, which is why asking
again gives the same (`ConstrainedAgain`).  `SlideFits` is about one axis: where there is
room, sliding ends inside.  The type has to go with both: a flipped positioner is one again.

Assumptions on constants, beyond types: windows, surfaces, processes and the values that stand for none are
different things (`NoWindow`, `NoSurface`, `NoSlot`); no command key is a card, no key of the
gamepad one of the keyboard, layer surfaces are no toplevels and `"none"` is no level, as these
are different types or codes in the source.

Only model-checked: liveness (`Converges`, `SeenSwitchApplied`, `RotationDrawn`,
`FocusedResumes`), as fairness means ENABLED, which the prover cannot reason about; and, in the
other direction, the two statements of comments that do not hold.

## Plan

Modelled, in this order: layouts and window manager, window sizes, frame loop, process
groups; touch input, keys and gamepad; reserved space, orientation, launches; the abstract
`AtomicResize` and the refinement of `WindowSizes`; popups and where they are put.  Left, in the order of what they would
add:

1. A second association of an X11 window, `pending_configs` and fullscreen requests of X11
   clients, in `Shell`.
2. The hold timer of the overview and the position it captured, composed with `TouchInput`
   and `Layouts`: a tap that is held between 0.7 s and 1 s leaves the hold timer running,
   which may then begin a drag without a finger.  Visibility of booted windows.
3. The visibility of popups, in a composition of `Popups` and `WindowSizes`.
4. The confirmation of the lock, in a composition of `Shell` and `RenderLoop`; how a window
   leaves the blacklist; the wall clock of the transaction timer.
5. Proofs of what items 1 to 4 add, and of how a switch that was seen is applied, as a
   bound on the frames and ticks that it may still take.

Bounds grow only where a property needs them: the runs take between one and three minutes.

## Not modelled

Rendering, damage regions, the pixels of imported buffers, screencopy, the protocol
plumbing of smithay, audio and media commands, the parsing of command lines and sensor
readings, the matching of regular expressions (its results are the constants of `Launch`), and logging: no control the properties depend on, or I/O.
Offsets and animations of the overview: positions on screen.  The codes 312 and 313, for
which `keyboard_action` simulates a key inside the closure of `keyboard.input`: whether its
lock is taken again is decided inside smithay.  `PROJECT.json` lists every component with its
status and reason.
