# A verification development of QB64-PE

QB64-PE compiles BASIC programs to C++ and links them with a runtime library. This directory holds
TLA+ modules that model the parts of that system where steps of several actors interleave, or where
a long sequence of legal calls must keep several data structures consistent; TLC configurations that
check them on small instances; and TLAPS proofs of the main results for every instance.

`qbx.cpp` and `libqb.cpp` are in `internal/c`, other `.cpp` files in `internal/c/libqb/src` unless a
path is given, `qb64pe.bas` is in `source`.

Contents: 1 the system · 2 modules and code · 3 runs and bounds · 4 fairness · 5 proofs · 6 where
code and comments disagree · 7 what is not modelled · 8 plan

## 1. The system

### Processes

A compiled program runs these threads.

| Thread | Started by | What it does |
| --- | --- | --- |
| main thread / GLUT thread | the process | with a window: the GLUT main loop, callbacks (`GLUT_DISPLAY_REQUEST`, `GLUT_IDLE_FUNC`, keys, mouse, close), and the queue of requests other threads send it; without one: it runs the main loop |
| `MAIN_LOOP` (`libqb.cpp:29020`) | `libqb_start_main_thread` | keyboard and timing chores, starts the close of the program, the last to leave |
| `QBMAIN` (`qbx.cpp:1671`) | `main()` (`libqb.cpp:29002`) | the BASIC program: generated statements, each followed by a poll of `qbevent` |
| `TIMERTHREAD` (`qbx.cpp:1474`) | `main()` | looks at every ON TIMER slot each millisecond |
| HTTP thread (`qb_http.cpp:249`) | `libqb_http_init` | drives libcurl |
| audio threads | miniaudio | mixing; outside the repository's own code |

They share plain global variables. Apart from the runtime library's own mutexes (GLUT queue, HTTP,
QbList) synchronisation is by flags and counters that one side writes and the other polls. The poll
is the heart of it: generated code tests `qbevent` after each statement and calls `evnt()`, which
handles errors, grants the display lock, pauses, ends the program and calls `events()` for the ON
... GOSUB handlers.

### Components

| Component | State | Operations | Hard behaviour | Correct when |
| --- | --- | --- | --- | --- |
| Timer events (`qbx.cpp:1348-1512, 1586-1654`) | `ontimer[]`, its free list, `ontimerthread_lock`, `qbevent` | `_FREETIMER`, `ON TIMER`, `TIMER ON/OFF/STOP/FREE`, the timer thread's scan, `evnt`, `events` | realloc against scan; stale tests; slots reused under a running handler; events lost | no scan during realloc; a handler is never entered twice; events of enabled timers are handled |
| Event dispatch (`qbx.cpp:1515-1717`, `qb64pe.bas:7830-7990, 9870-9890`) | `onkey[]`, `onstrig[]`, the `<kind>_event_occurred` counters, `return_point[]` | presses, `events()`, entry of `QBMAIN`, `GOSUB`, `RETURN`, `RETURN label`, `CLEAR` | presses on another thread; handlers nested in handlers; non-local `RETURN` | the handler run is that of the event; return markers match handlers; counted presses are handled |
| Display lock, pause (`libqb.cpp:735-830, 27850-27890`, `qbx.cpp:1586-1654`) | three counters, the number of dialogs, `suspend_program` | frame, grant, release, dialog begin and end | four threads, plain counters | `SUB _GL` never runs beside BASIC statements; nobody waits for ever |
| GLUT queue and start (`glut-msg-queue.cpp`, `glut-main-thread.cpp`, `threading.cpp`) | the queue, completions, `glut_is_started` | post, ask and wait, show the window, exit | messages on the sender's stack; start against exit | messages are finished before their senders leave; `exit()` on the right thread |
| End of the program (`libqb.cpp:7000-7030, 29036-29210`) | `exit_value`, `exit_blocked`, `close_program`, `stop_program`, `exit_ok` | close box, break key, `_EXIT`, `END`, `SYSTEM` | each thread parks and says so; files are closed after that | nothing is used after it is closed; the program does end |
| HTTP client (`qb_http.cpp`, `libqb.cpp`) | handle table, two queues, completions, buffers | open, get, length, EOF, close, stop | completions on the caller's stack; data against EOF; failed opens | handles outlive connections; EOF is final; calls return |
| Strings (`qbs.cpp`, `string_functions.cpp`) | `qbs_data`, `qbs_sp`, `qbs_list`, `qbs_tmp_list` | new, free, set, add, parts, cleanup | lists that index each other; compaction; growth in place; temporaries taken over | strings do not overlap; lists are exact |
| Screen frames (`libqb.cpp:22105, 27597-27910, 29225-29970`) | three frames with state and order, `autodisplay`, `lock_display` | `display()`, `GLUT_DISPLAY_REQUEST`, `_DISPLAY`, `_AUTODISPLAY`, `SCREEN` | no lock at all: the order of searches and stores | `display()` finds a frame to draw in, is on one thread, and not while the screen changes; who waits for it goes on; the newest picture is shown (violated, section 6) |
| Hardware images (`libqb.cpp:3900-4160, 26300-26560, 27910-28150`, `graphics.cpp`) | a list of commands with the frame each is for, handles of images | `_PUTIMAGE` and `_MAPTRIANGLE` on hardware images, `_NEWIMAGE(33)`, `_FREEIMAGE`, rendering, removal | the program removes what the renderer walks over; frames that are missed, or rendered again | lasting drawings are done once, in order; nothing removed is used |
| Handle lists (`qblist.cpp`) | index, freed list | add, remove, get | two locks and lock-free readers | an id names one live structure |
| Memory blocks (`memblock.cpp`) | locks with ids, freed locks | `_MEMNEW`, `_MEMFREE`, `_MEM`, what SUBs, images and arrays do with their locks | stale copies of `_MEM` values | a stale `_MEM` is recognised; memory is freed once |
| Device events (`qbx.cpp:985-1091`, `parts/input/game_controller`) | a queue per device | append, `_DEVICEINPUT` | no lock, bounded queue, devices that come back | events are seen once, in order |
| Files (`gfs.cpp`), `FIELD` (`file-fields.cpp`) | handles, file numbers, freed handles; records, strings that are parts of them | `OPEN`, `CLOSE`, `RESET`, `FREEFILE`, `FIELD`, `GET`, `LSET`, assignment | two tables that point at each other; strings that outlive their file | they agree; a record is changed by its own strings only |
| Conventional memory (`libqb.cpp:7106-7196`, `qbs_cmem.cpp`) | a list of blocks, a second string heap | allocate, free | reuse of links | blocks are disjoint |
| Errors (`error_handle.cpp`) | `new_error`, `error_occurred`, the handler | `error()`, `ON ERROR`, `RESUME` | errors in handlers, errors found late | the first error is handled once |
| `_KEYHIT` (`libqb.cpp:1008, 25313, 30238`) | a cyclic buffer, two indices | key down and up, `_KEYHIT`, `_KEYCLEAR` | a writer that drops the oldest entry moves the reader's index | events come in order; only the oldest are lost (violated, section 6) |
| Mouse and held keys (`libqb.cpp`) | a cyclic buffer, a map of keys | `_MOUSEINPUT`, `_KEYDOWN`, `INKEY$` | a writer and a reader thread | the reader sees what was written |
| Graphics, fonts, audio, dialogs, clipboard, printing, sockets, data functions, logging | images, tables of handles | | little of their own | |
| Compiler (`qb64pe.bas`, `subs_functions.bas`, `utilities`) | symbol tables | one pass per compilation | sequential | |
| IDE (`source/ide`), debugger (`internal/support/vwatch`) | text; breakpoints | | a protocol over TCP | |

How they meet: the timer thread, the GLUT callbacks and the input code write event state and raise
`qbevent`; the program's poll consumes it. The display lock and the GLUT queue are two ways in which
the program and the GLUT thread wait for each other; the frames and the list of hardware commands
are how pictures get from the program to the window. At the end `MAIN_LOOP` waits for the program
and the timer thread, closes files and HTTP handles, and has GLUT's thread call `exit()`.

## 2. Modules and code

Each module starts from the code's own control: one action per function, or per stretch of one
between two accesses to shared state where threads interleave. `PROJECT.json` gives the lines of
every definition. An operator whose comment begins with "Mutant of" is not part of the model: it is
a plausible bug, kept to show that a property would notice it.

**OnTimer** (`MCOnTimer`, `MCThreads`; proofs in `OnTimerProofs`, `StackLemmas`). `timer` is
`ontimer[]`: for each slot whether it is allocated, has a handler (`id`), is `active`, is being
measured (`last_time` not 0), and its `state`. `nextfree`, `freelist`, `freelist_size` and `lock`
(`ontimerthread_lock`) have the code's names. `t_pc`, `t_i` are the thread's place and index,
`q_pc`, `q_i` the program's; `frames` are the handlers that run, the error handler among them. The
thread's test of a slot, its stores and its raising of the flag are steps of their own, and so are
the stores of each TIMER statement, which is where the races are. Whether an interval is over is
left open. The slot array is as large as `MaxTimers`; growth by one element is modelled with its
handshake.

**EventDispatch** (`MCWindow`, `MCLive`, `MCEventDispatch`; proofs in `EventDispatchProofs`). All
kinds of events at once: `Scan` is the order in which `events()` looks at slots, a press is a read,
a store and a raise on the input thread, `return_point` the GOSUB stack with 0 as the marker an
event leaves, `frames` what `QBMAIN` was called for and what it runs. `RETURN label` is the only
jump out of handlers that the generated code knows; `Unstructured` allows it and `CLEAR`. A timer
arms by one step here; OnTimer has the detail.

**Runtime** (`MCRuntime`, `MCThreads`; proofs in `RuntimeProofs`). Four program counters; the
display lock's counters; the GLUT queue; the flags that end a program. `features` is a set chosen at
the start, so that a run may speak of programs that do a thing or not. `wanted` is
`display_lock_request` as GLUT's thread sees it, `request` as others do: they differ only while a
store is delayed (`Buffered`). `exit_ok |= n` is a read and a store unless `OrIsAtomic`. HTTP and
files at the end are one step, `MainCloses`. END or SYSTEM while `SUB _GL` runs is error 271: an
alert, counted as a dialog, and then `exit(0)` on the thread that is there (`ErrorInGL`,
`AlertClosed`, `AlertExits`).

**Http** (`MCWindow`, `MCLive`; proofs in `WindowProofs`). The caller (the program, and `MAIN_LOOP`
at the end: they never overlap, by `ClosedAfterParked` of Runtime) and the curl thread with the lock
of `curl_state`, two queues, the completions of the call in progress, and handle objects that are
created once and deleted once, so that a use after deletion shows. Data are counted in blocks.
libcurl (transfers that begin, receive, end or fail) is external.

**Qbs** (`MCState`; proofs in `QbsProofs`). A string is an extent: where it lies, how long it is,
its places in two lists. The functions of `qbs.cpp` are functions on the whole heap as one record;
an action is a statement that uses them. That one string's bytes are another's is a question of
extents alone.

**Frames** (`MCWindow`, `MCLive`; proofs in `WindowProofs`). `frame_state`, `frame_order` and
`picture` are the three entries of `display_frame[]`, a picture being the number of its frame, 0
while it is drawn. `d_pc` says for each of two threads where it is in `display()`, whose static
variables (`d_i`, `frame_i`, ...) they share; `g_pc` where the window is in
`GLUT_DISPLAY_REQUEST()`. Each test of one frame's state is a step. `check_last` is whether the new
picture may be compared with the last: if it is, it need not be shown (`NoNewFrame`). A SCREEN that
changes the mode, WIDTH and _FONT wait for a lock (`Lock`, `Locked`, `Unlock`); a SCREEN that
changes only the page does not, but releases it all the same (`Page`, `Paged`).

**Hardware** (`MCWindow`; proofs in `HandleProofs`). `commands` is the list of hardware graphics
commands as it was built, with the order of each and its successor; `first_command`, `last_added`,
`last_rendered` and `next_to_remove` have the code's roles. Three places: the program, which links a
command or removes those that are past; `display()`, which gives out orders; and the renderer, which
first skips over missed frames (doing only what lasts), then draws two layers, and again for `SUB
_GL`. `mode` chooses whether there is a `SUB _GL` and whether a frame may be published while one is
rendered.

**QbList** (`MCThreads`; proofs in `HandleProofs`). The index arrays ever made, so that a look into
a freed one shows; the stack of removed handles; the two locks; one action per access. Handles whose
structure has its flag are those `list_get()` may return.

**Keyhit** (`MCWindow`, `MCKeyhit`; proofs in `WindowProofs`). The buffer, its two indices, and the
loads and stores of both threads, which wait for nobody. `key_overlaps` records, as history, that
the writer dropped an event while the program was reading, or that _KEYCLEAR met a new event.

**Files** (`MCState`, `MCFiles`; proofs in `FilesProofs`). `gfs_file`, `gfs_fileno`, `gfs_freed` as
in the code; a file FOR RANDOM has its record and the list of FIELD strings, a string has its text
and its place in a record. `FIELD` runs in steps, as generated: the first finds the file, the others
add one string each; a FUNCTION in a width may run any other statement in between, and each step
looks again whether the number is that of a file FOR RANDOM, though not whether of the same one. CLOSE of all files goes through the numbers one
by one (`closing_i`). **FileTable** is what OPEN and CLOSE promise: a number names its file until it
is closed.

**MemBlocks** (`MCState`; proofs in `HandleProofs`). `mem_lock` is the array of locks, `mem_var`
the program's blocks; `Owners` are the SUB calls, images and arrays that own a lock. `allocated`
says which block memory belongs to, so that a second `free()` shows.

**MCState**, **MCThreads**, **MCWindow** and **MCLive** put independent modules into one run each:
`part` is chosen at the start and only that part's steps are taken, so a run is the sum of the runs
of its parts, not their product. The parts share no variable, and each has its own bounds; `MCLive`
and `ThreadsFairSpec` of `MCThreads` give each part its own fairness. Of events, `MCWindow` lets two
kinds at a time be ON ("no strigs", "no timers").

Abstractions shared by the modules: stores become visible in program order and at once, unless said
otherwise; the build is that of Linux or macOS; messages, texts and numbers shrink to what the
properties tell apart.

## 3. Runs and bounds

| Run | Distinct states | Shows |
| --- | --- | --- |
| `threads_safety` | 2 009 000 | timers: realloc excludes scan, a handler is never entered inside itself, the free list is exact, the thread leaves running handlers alone; `SUB _GL` excludes the program, messages are owned by waiting senders, `exit()` on GLUT's thread; handles of lists: found while in use, given to one owner |
| `state_safety` | STATES | files: numbers, files, records and FIELD strings agree; memory blocks: freed once, valid while there; strings do not overlap, both lists are exact |
| `window_safety` | 2 921 000 | events: return markers match handlers, with `RETURN label`, `CLEAR` and nested GOSUBs, no handler is entered twice; frames: one to draw in is always found, `display()` is on one thread and not while the screen changes; hardware images: nothing removed is used, nothing lasting is left out or done twice; keys come in order up to the first overlap; HTTP: handles outlive connections, an EOF is final, failed opens are closed |
| `threads_live` | 225 000 | no timer event is lost, each is handled, without errors (section 6); files are closed after all threads parked; frames are granted and the program released; a program that is to end does |
| `live` | 73 000 | with one kind of events the handler run is that of the event and each press is handled; SCREEN and `_DISPLAY` go on; each HTTP call returns |
| `ontimer_off` | violated | a timer turned OFF gets an event afterwards |
| `events_mixed` | violated | with two kinds of events, an event is taken for one of the other kind |
| `runtime_ask` | violated | a program that asks GLUT a question while `SUB _GL` waits for its poll hangs |
| `runtime_poll` | violated | a program whose `SUB _GL` polls may never end |
| `fields_freed` | violated | a freed FIELD string stays in its file's list |
| `frames_lost` | violated | the last picture never comes to the window |
| `keys_overlap` | violated | a key event dropped during a read: others are lost or come twice |

Where a run checks a conjunction (`HttpInv`, `FieldsExact`, `HandlesExact`, ...), its parts are
named definitions with comments of their own, and `PROJECT.json` has a mutant for several of them.

Bounds, each a constant named in the module (the theorems of section 5 hold for any values of them):

- *OnTimer*: 2 slots: slot 0, which is `TIMER` without a number, and one that can be freed and
  reused; the handler of each may interrupt the other's. The inductive proof covers any number. In
  `threads_live` only one of them at a time is not OFF (`OneTimerOn`), to keep the graph for
  liveness small; the safety half of that run, `NoLostEvent`, is proved for any number, all ON.
- *EventDispatch*: one slot per kind in `window_safety`, two keys in `live`, so that one key is
  pressed while the other's handler runs; 2 presses at most in a behaviour (3 in `events_mixed`), so
  that a second can come during the first's handler; `MaxGosubs` 1 open GOSUB besides the handlers'
  markers, enough for a GOSUB in a handler and a handler in a GOSUB.
- *Runtime*: 2 frames that call `SUB _GL` (a lock that is taken again after release), 1 message that
  waits when a post is made (2 in all). In `threads_safety` a program that does everything, with its
  window hidden at first or shown; three sound programs in `threads_live`, with delayed stores.
- *Http*: 2 connections, which share one id in `live` and have 2 in `window_safety`; two blocks on
  one, none on the other. With one block the race of EOF with data does not occur.
- *Qbs*: 3 descriptors, strings of at most 2 bytes, 2 temporaries; the heap starts at 2 bytes and
  may grow to 5, the list at 2 entries and may grow to 4, so that compaction, growth and renumbering
  all happen. `Pad` is 1 where the code has 32. Descriptors are symmetric.
- *Frames*: 3 pictures in `window_safety` and `frames_lost`: then no frame is EMPTY when one is
  shown, one is READY and a third picture is READY too, and `display()` takes over a READY one. In
  `live` 1, since what `WaitsEnd` is about does not look at pictures. The window may be closed in
  `window_safety`.
- *Hardware*: 2 images, 4 commands, 3 frames: with these a frame is missed, its commands skipped,
  and a command removed while a later one is linked.
- *QbList*: 2 threads, 4 handles, so that the index grows twice; at most 1 growth while a
  `list_get()` runs (section 6).
- *Keyhit*: a buffer of 3 entries (2 usable, 8192 in the code) and 8 events, which fill it several
  times over.
- *Files*: 2 numbers, 2 files in all, 2 strings, records of 2 bytes, texts shorter and longer than a
  field.
- *MemBlocks*: 2 blocks, 2 addresses, 1 owner that is each kind in turn, 3 lock ids, so that a lock
  is used again twice.

Deadlock is checked except in `threads_safety` and `runtime_poll`, some of whose programs hang
(section 6), and in `state_safety`, `window_safety`, `fields_freed` and `keys_overlap`, where the
bounds on files, lock ids, commands, keys, presses and connections end a behaviour (as does that on
handles in `threads_safety`), a program whose return count wrapped stops, and one that waits in
SCREEN for a closed window hangs. Every run ends in four minutes.

## 4. Fairness

Liveness is claimed under these assumptions only.

- *Threads run*: weak fairness of each thread's steps. All are threads of the system's scheduler;
  the program's loops sleep and do not hold locks.
- *Locks are got in the end*: strong fairness for the HTTP caller's steps, since the curl thread
  gives up the lock in each pass, to poll.
- *The program polls*: statements go on being executed, and each has its poll. A program in an
  endless foreign call is outside.
- *Handlers, GOSUBs and `SUB _GL` return*, *error handlers resume*: strong fairness of those steps.
  It is a promise of the BASIC program, not of the library.
- *MAIN_LOOP displays and GLUT redraws* again and again (`FramesFair`): the first is a loop that
  sleeps, the second a timer of the window.
- *The user closes dialogs*; GLUT calls its idle function again and again; *servers answer or fail*.
  Of the last, libcurl's time limits ensure only that connecting fails in the end.

No fairness is assumed of presses, of the user's close or pause, of timers, or of the program's
choice of a statement.

## 5. Proofs

`OnTimerProofs` proves, for any number of slots and any first size of the free list
(`OnTimerAssumption`, the only assumption), with errors except in the last:

- `TypeCorrect`: `Spec => []TypeOK`;
- `ReallocIsExclusive`: `Spec => []ReallocExcludesScan`;
- `NoHandlerReentry`: `Spec => []InProgressIsOnStack`;
- `FreeListIsExact`: `Spec => []FreeListExact`;
- `ThreadIsHarmless`: `Spec => ThreadLeavesRunningAlone`, an action property;
- `NoEventIsLost`: `ErrorFree => []NoLostEvent`.

None of the invariants is inductive alone. `IInv` adds to the types and to `InProgressIsOnStack`:

- `LockInv`: the lock is free exactly while the program is not in `_FREETIMER`'s growth; the realloc
  runs only when the lock is confirmed; it is confirmed only while the thread does not scan. This is
  the mutual exclusion argument: only the program requests and releases, only an idle thread
  confirms.
- `ScanInv`: a timer that the thread has decided to look at has no event and no running handler. It
  is stable although the test is stale, because only the thread arms a timer, and `events()` runs
  only what is armed. This is why a late store can revive a timer that is OFF (section 6) but cannot
  disturb a handler.
- `CursorInv`: the slot a statement or the thread works on, and every handler, is below `nextfree`;
  the slot at `nextfree` is reset by growth and must be nobody's.
- `StackInv`: `InProgressIsOnStack`, and the error handler is on the stack exactly while
  `error_handling` is set; a second error then ends the program, which keeps the stack injective.

The free list is proved on top of `IInv` with `FreeInv`: it is exact, and a slot on its way to it,
between the steps of `TIMER FREE`, is still allocated and not slot 0.

`NoLostEvent` is inductive with `SetupInv`, which says the same of an event that is armed while ON
TIMER registers the timer, and with `IInv` (`EventInv`). `Noticed` lists the reasons for which the
program will look at a slot: the flag, a thread about to raise it, a poll or a statement about to
scan, a scan that has not passed the slot, a handler after which a scan goes on. Each step either
makes no timer due or gives it such a reason, and takes a reason away only with the event
(`NoticedKept`).

One lemma per part of the invariant goes through the actions (`TypeStep`, `LockStep`, `ScanStep`,
`CursorStep`, `StackStep`, `FreeStep`); `StackLemmas` has what pushing and popping do to an
injective sequence. The assumption that grounds them is that each action is one step, as in section
2.

`EventDispatchProofs` proves, for any number of keys, buttons, timers, presses and GOSUBs
(`EventDispatchAssumption`: the count of presses, a uint8, wraps at some number above 2):

- `EventTypeCorrect`: `Spec => []TypeOK`;
- `MarkersAreExact`: `Spec => []MarkersMatch`;
- `HandlersRunOnce`: `Spec => []InProgressMatches`;
- `OneKindIsOwn`: `Spec => []HandlerIsOwn` if the program has one kind of events (`OneKind`); with
  two kinds it is false (`events_mixed`).

`IInv` adds `PlaceInv` to the first three: the slot that `events()` is at is one of `Scan`, and no
handler of it runs once it is chosen. Each of the parts needs the others. That a `RETURN` through a
0 ends a handler rests on the 0s never outnumbering the handlers; that the kind's flag may then be
cleared rests on that handler being the only one of its kind. The lemmas on `Scan` say which slot is
where in it; those on `Zeros` what pushing, popping and cutting `return_point` do to the number of
0s. For `OneKindIsOwn`, `CountInv` says that only kinds the program has are ever counted.

`RuntimeProofs` proves, for any set of programs and any bounds (`RuntimeAssumption`):

- `RuntimeTypeCorrect`: `RuntimeSpec => []RuntimeTypeOK`;
- `ProgramAndGLApart`: `RuntimeSpec => []GLExcludesProgram`, if stores are seen at once
  (`~Buffered`; section 6 has the counterexample otherwise);
- `MessagesHaveOwners`: `RuntimeSpec => []MessageOwned`;
- `ExitsOnGlutThread`: `RuntimeSpec => []ExitOnGlutThread`;
- `ClosesAfterParked`: `RuntimeSpec => []ClosedAfterParked`, if no program polls in `SUB _GL`
  (`NoProgramPolls`: such a program parks GLUT's thread instead of its own, see `runtime_poll`).

The invariants are independent of each other. `LockInv` orders the counters (released, confirmed,
wanted: `CountersInv`), has `modal` count the open dialogs and alerts (`ModalInv`), says that a
frame in work is not yet released (`FrameInv`) and, while the program has not begun to end, that a
frame is acknowledged only by a program that then waits, or for one in a dialog (`GrantInv`). At the
end the program no longer waits, and `GLExcludesProgram` does not ask it to. `MessageInv` is that a
message with an owner is in the queue once until it is finished. `StartInv` and `BitInv` follow the
bits of `exit_ok` through the two steps of each `|=`: also a value that one thread has read and not
yet stored tells that the other has parked. So the property does not depend on `OrIsAtomic`; that
the end comes does (section 6).

`WindowProofs` proves of Frames, for any number of pictures (`FramesAssumption`):

- `FramesTypeCorrect`: `FramesSpec => []FramesTypeOK`;
- `DisplayIsAlone`: `FramesSpec => []DisplayAlone`;
- `FramesAlwaysFound`: `FramesSpec => []FramesFound`.

`Inv1` has the types, who may be in `display()` and what the values of `autodisplay` and
`lock_display` then mean (`ModeInv`), and that the frame a thread works on is one (`PlaceInv`). A
change of page may release a lock but never one that the program waits for or has, as it is the same
program; so `DisplayAlone` is unharmed, but says nothing of the screen during such a change.

That `display()` always finds a frame to draw in is `PoolInv`: one frame at most is displayed and
one drawn (`UseInv`), the window chooses a newer frame than the one displayed and frees that one
before it displays the other (`NewerInv`), and what `display()`'s search has passed so far
(`SearchInv`): once it has found no frame that waits, the window cannot come to display a second one
before the search has reached a free one.

`HandleProofs` proves of QbList, for any number of threads, handles and growths (`ListAssumption`):

- `ListTypeCorrect`: `ListSpec => []ListTypeOK`;
- `OneOwnerEach`: `ListSpec => [](AddsNew /\ StackExact)`;
- `HandlesAreExact`: `ListSpec => []HandlesExact`, if the index grows at most once while a
  `list_get()` runs (`MaxGrowths <= 1`, section 6).

`LInv`: who is where has which lock (`LockInv`); each handle is in one place (`OwnedInv`): given, on
the stack of removed ones once, or held by the one thread that hands it out or takes it back. So the
stack has room when a handle is pushed (`StackHasRoom`, by counting). A structure has its flag while
its handle is given or about to be (`FlagInv`). `list_get()` has no lock; the index it took is as
old as the growths since, and knows the handle it looks for, as no index forgets one (`IndexInv`);
those freed are older than the last two.

`HandleProofs` proves of MemBlocks, for any number of blocks, addresses, owners and ids
(`MemAssumption`):

- `MemTypeCorrect`: `MemSpec => []MemTypeOK`;
- `LocksAreExact`: `MemSpec => []LocksExact`;
- `BlocksAreExact`: `MemSpec => []BlocksExact`, if `_MEMNEW(0)` gets no lock that had a use
  (`~StaleTypes`; with one, `FreedOnce` is false, section 6).

`MInv`: no two locks have one id and none is above the last (`TableInv`); locks to be used again
have no id and are there once (`FreeInv`); what has a lock has one in use, of its type and its own
(`OwnerInv`). So a block whose lock has its id has the lock that it was made with. `HeapInv` adds
that a lock in use stands for memory that has its id, or for what has the lock; it is what `free()`
and `_MEMEXISTS` rely on.

`HandleProofs` proves of Hardware, for any number of images, commands and frames
(`HardwareAssumption`), if no frame is taken while a command is linked, nor one published during a
rendering of a program that has a `SUB _GL` (`KeptApart`, which is what `window_safety`'s modes have
in common; without it `ImagesExist` or `DoneInOrder` is false, section 6):

- `HardwareTypeCorrect`: `HardwareSpec => []HardwareTypeOK`;
- `ObjectsAlwaysExist`: `HardwareSpec => []ObjectsExist`;
- `NothingIsLeftOut`: `HardwareSpec => []NothingLeftOut`;
- `LastingIsDoneOnce`: `HardwareSpec => DoneOnce`, an action property.

`HwInv`: commands are linked in the order in which they were made, and their orders do not fall
(`ListInv`, `OrderInv`), so that what the window may still look at is an interval of the list.
Removed is a beginning of it, of frames before the one rendered last (`RemoveInv`); the renderer
never goes back to those. `PlaceInv` says for each of the renderer's places which command is the
first of its frame, what was rendered last and what lies between them. What lasts is done when it is
passed, so that exactly what was passed is done (`DoneInv`), and of a frame drawn again `DrawnInv`
says what was drawn so far. An image is not valid once its freeing has begun, which therefore begins
once and after all commands that use it, in a later frame than theirs when it is carried out
(`UseInv`); what a freed image was used for is past (`GoneInv`). `BoundInv` counts what
`flush_old_hardware_commands()` appends against what it removes.

`WindowProofs` proves of Keyhit, for a buffer of any size above 1 and any number of keys
(`KeyhitAssumption`):

- `KeysAlwaysInOrder`: `KeyhitSpec => []KeysInOrder`.

The threads are free to overlap; `KeysInOrder` speaks of the time before a drop meets a read, or a
clear a new event (`key_overlaps = {}`, which `OverlapsStay` says is not empty again once it is
not). Reads and puts that drop nothing do meet. Up to then `KInv` says where each thread is in its
change of the indices (`WriterInv`, `ReaderInv`), and finds what is in the buffer by its distance
from the end (`BufferInv`), which taking an event out does not change; and that what was there last
before it was taken out, cleared, or pushed out because the buffer is full. `AfterIs` and
`DistanceIs` turn the masks into arithmetic. What happens at an overlap is `keys_overlap`.

`WindowProofs` proves of Http, for any number of connections and blocks and any ids
(`HttpAssumption`):

- `HttpIsClean`: `HttpSpec => []HttpInv`, the conjunction that `window_safety` checks;
- `EofStaysFinal`: `HttpSpec => []EofIsFinal`.

`HInv` says who has a connection at each place of the two threads. What the caller has pushed and
waits for is in a queue until its completion is finished (`QueueInv`); the table has the live
handles, each once, and that of the call in progress (`TableInv`); a handle gets its info from
whichever comes first, a block or the end of the transfer, and only then answers its opener
(`HandleInv`); libcurl works on what is open or in the list of connections to drop, and on nothing
that waits in a queue (`MultiInv`); the thread is told to stop when all is closed (`EndInv`). So a
completion is used only while its call waits, and `EOF()` tells of a handle that libcurl has left
(`EofInv`).

`FilesProofs` proves, for any numbers, strings, texts, length of records and number of files
(`FilesAssumption`):

- `FilesTypeCorrect`: `FilesSpec => []FilesTypeOK`;
- `NumbersAreExact`: `FilesSpec => []NumbersExact`;
- `RecordsAreOwn`: `FilesSpec => RecordsOwn`, an action property;
- `TableIsImplemented`: `FilesSpec => ImplementsFileTable`;
- `FieldsAreExact`: `FilesSpec => []FieldsExact`, if strings are neither freed nor put in another
  FIELD while their file is open (`~Detaches`; section 6 has the counterexample otherwise).

`IInv` is the types with `NumInv` (the two tables name each other, handles to be used again are
nobody's), `RecordInv` (ids are never used again; an open file's record has its length) and
`PartInv` (a field is inside the record, whatever a FUNCTION did between two steps of FIELD). That
is enough for `RecordsOwn`, since `field_update()` and `lrset_field()` compare ids, not handles or
numbers. In the refinement a CLOSE of all files is as many steps of FileTable as it closes numbers.
`FInv` adds, without `Detaches`, that a string is a field of an open file exactly if that lists it,
once (`FieldInv`), and that both say the same bytes (`FieldsAgree`).

`QbsProofs` proves, for any strings, lengths, temporaries, and sizes of the heap and its list
(`QbsAssumption`, which asks of the list that it begins with one place at least; the code begins
with 65 535):

- `QbsTypeCorrect`: `QbsSpec => []QbsTypeOK`;
- `StringsAreApart`: `QbsSpec => []Ordered`;
- `ListsAreExact`: `QbsSpec => []ListsExact`.

The invariant is `Sound(State)`: the types, strings in the order of the list and below the top
(`OrderSound`), and each of the two lists and the descriptors naming each other (`ListSound`,
`TmpsSound`). The two properties do not stand alone: that compaction moves no string into another
needs the list to be exact, and that `qbs_free()` may lower the top to the end of the last string
listed needs the order. A function of the heap keeps `Sound` as a whole, while inside it a string is
for a time out of a list, so `ListSound(h, u)` and `TmpsSound(h, u)` leave out one string u. One
lemma for each function (`FreeIs`, `NewIs`, `ReallocIs`, ...) says what it does to the rest;
`ThinOrder` and its like carry the order through what removes entries or shortens strings. `Pack`,
`WithoutHoles` and `Cleanup` are recursive functions; what they compute is found by induction on the
entries of a list, where the set of the entries for which a claim holds takes the place of a
predicate (`UpTo`), and well-foundedness gives that a recursive function is what its equation says.

Model-checked only: the type invariants of the composed modules (`StateTypeOK`, `WindowTypeOK`,
`ThreadsTypeOK`), whose conjuncts are proved of each component; and all liveness: leads-to under
fairness, as well as ENABLED, is outside the prover's reach.

## 6. Where code and comments disagree

Found by a run, and listed as findings:

- `ontimer_off`: the timer thread tests a slot (`qbx.cpp:1484`) and stores several accesses later
  (1488-1497). `TIMER OFF` in between leaves an event or a measurement behind, which 1449-1450 say
  it retracts. At the next `TIMER ON` the handler runs at once.
- `events_mixed`: the compiler emits `<kind>_event_occurred++` twice (`qb64pe.bas:7884` and 7886),
  while the entry of `QBMAIN` decrements it once (`qbx.cpp:1698-1711`; the comment at 367 says
  inc/dec). From the second event on, `QBMAIN` takes an event of another kind for one of this.
- `runtime_ask`: `_DESKTOPWIDTH` and other uncached questions (`glut-msg-queue.cpp:98`) block the
  program until GLUT is idle, but GLUT may be waiting for the program's poll (`libqb.cpp:27865`).
  The comment at 748-751 describes this for dialogs, which have a way out.
- `runtime_poll`: a poll in `SUB _GL` that sees `stop_program` parks GLUT's thread in `end()`
  (`qbx.cpp:1639`), which then never executes the queued exit.
- `fields_freed`: `field_free()` shifts the list of its file's strings but leaves their number
  (`file-fields.cpp:142`), so that the freed string, or the last one twice, stays listed, and the
  next `GET` or `LSET` writes to it. The comment at 136 says "remove from string list".
  `FieldsExact` is checked with `Detaches = FALSE`.
- `frames_lost`: with one frame shown and two ready there is none that is EMPTY, and `display()`
  takes the READY frame that is older (`libqb.cpp:29258-29275`). If the window has just chosen it
  (27624-27643), the frame now has the newest order: the window frees the other one, which holds the
  last picture, and shows an unfinished or old one. The next picture equals the last, "no need to
  update display" (29898), and none comes. The order in which the window frees and takes frames is
  enough for `FramesFound`, not for this.
- `keys_overlap`: when the buffer is full `keydown()` advances the index that `_KEYHIT` is advancing
  (`libqb.cpp:30238-30239`, 25315-25316). If the two overlap an event is repeated or others are
  lost, while 1008 says that the oldest is discarded.

Met while modelling, and represented in the models, without a run of their own:

- `display_lock_request++` (`libqb.cpp:27864`) is a plain store followed by a read of the atomic
  number of dialogs. If the store becomes visible late, a dialog that closes sees no frame asked
  for, and GLUT, having seen the dialog, runs `SUB _GL` at the same time, which 763-765 exclude.
  With `Buffered` TRUE and `Programs = {{"_GL", "dialog"}}`, TLC finds `GLExcludesProgram` violated.
- `exit_ok |= 1` and `|= 2` (`libqb.cpp:7022`, `qbx.cpp:1506`) are not atomic. If one is lost
  `MAIN_LOOP` waits for ever (29186). With `OrIsAtomic` FALSE `Ends` is violated.
- `_FREETIMER` that has asked for the lock when the timer thread ends (`qbx.cpp:1375`) spins for
  ever.
- `SYSTEM` or `END` in `SUB _GL` raise error 271, whose alert ends by waiting for a release
  (`gui_modal_lock_end`) that only GLUT's thread could give, and so does a dialog in `SUB _GL`: the
  thread waits for itself, and the `exit(0)` after the alert may never come. `threads_safety`
  includes such programs, `threads_live` leaves them out.
- `RESUME` raises `qbevent` again, `RESUME NEXT` does not (`qb64pe.bas:9936`): an event that was
  noticed while an error was pending waits for the next one. Hence the timers of `threads_live` and
  `NoEventIsLost` are about programs without errors (`ErrorFree`).
- `RETURN label` takes whatever is on top of the return points, an event's marker included
  (`qb64pe.bas:9882`, against 3267); `MarkersMatch` says what is left of the correspondence. RETURN
  without GOSUB raises an error, goes on and decrements the uint32 count below 0 (9881-9882); the
  model stops there (`wrapped`).
- `onkey[i].state++` (`libqb.cpp:30708`) and `--` (`qbx.cpp:1565`) on two threads may lose a press
  or repeat one; `PressServed` is about the presses that are counted. The count is a uint8 and wraps
  (`StateModulus`).
- After `CLOSE`, the special handle of an HTTP connection stays (`libqb.cpp:14463`;
  `connection_close` at 23219 removes it), so `EOF` is 0 for ever and `_CONNECTED` is -1.
- A program that waits in `SCREEN` or `_DISPLAY` for `MAIN_LOOP` (`libqb.cpp:8106`, 22116) when the
  window is closed waits for ever, since MAIN_LOOP displays no more. At 29072 it releases those who
  wait for `lock_mainloop`, "so that any process waiting for a successful lock can continue", but
  not these. With `Closes` TRUE `WaitsEnd` is violated.
- The window may free the only finished frame while `display()` looks for one to compare with, so
  the branch "never occurs, safe-guard only" (`libqb.cpp:29449`) can be taken (`Compare` with
  `found' = -1`).
- A SCREEN that changes only the page takes no lock ("avoid locking when only changing the screen
  page", `libqb.cpp:8103`), so that it may set `display_page` and `screen_last_valid` while
  `display()` draws. `DisplayAlone` is about changes of mode, WIDTH and `_FONT`.
- At the end of a rendering `libqb.cpp:28141` reads `last_hardware_display_frame_order` again and
  counts that frame as rendered; one published meanwhile is never. With `SUB _GL`, whose frames are
  rendered repeatedly, the walk over missed frames (27956-27958) then frees an image again: the
  alert "free_hardware_img: image does not exist" (26506), and a null pointer. `Modes` with `gl` and
  `overlaps` TRUE, `draws` `{<<2, 0>>}` and `MaxOrder = 4` violate `ImagesExist`.
- A command gets its order when it is made and is linked later (`late`): a frame taken in between
  misses it, and `DoneInOrder` is violated. `_PUTIMAGE`, `_MAPTRIANGLE` and `_DEPTHBUFFER` use
  `list_get()` without the test of `valid` that the comment at 774 asks for: the program must not
  use images that it freed.
- `_KEYCLEAR` sets both indices of `_KEYHIT`'s buffer in two stores; a key event between them is
  lost, or leaves old entries to be read again. `KeysInOrder` and `OldestDiscarded` exclude it.
- `_MEMNEW(0)` sets neither type nor address of its lock (`memblock.cpp:114`); if the lock had a
  use, its `_MEMFREE` frees the old memory again. With `StaleTypes = TRUE` `FreedOnce` is violated.
- `list_add` frees the index before the last when it makes a new one (`qblist.cpp`, index_cleanup),
  so that a `list_get()` survives one growth: with `MaxGrowths = 2` `HandleFound` is violated. Two
  growths during one call would need as many additions as there are handles.
- An `OPEN` that fails after it made its file leaves the handle: `gfs_free()` refuses what is not
  open.

Outside the models:

- `_MOUSEINPUT`'s buffer: when it is full, `libqb.cpp:28162-28167` moves `current` to the entry
  about to be written, where it is already, instead of past it. `last` then meets `current`, and the
  whole buffer counts as empty.
- `_DEVICEINPUT` moves its queue down with `memmove` (`qbx.cpp:1085`) while the input thread appends
  to it (1026). Any overlap breaks the queue; nothing prevents one.
- The free list of timers stores from index 1 to its size (`qbx.cpp:1400`), one past its end when
  full.
- `qb_http.cpp:161` deletes a handle before its connection is removed at 171, which "can trigger the
  callbacks" (168): they would use the deleted handle.
- `MID$(a$, 2, 2147483647)` computes `start + l` in int32 (`string_functions.cpp:181`).
- Entry 0 of `qbs_tmp_list` is taken for "no temporary" (`qbs.cpp:72`, 87), although the first
  temporary is put there; it stops the search at 73, and holds a string that is never freed because
  `main()` makes it so (`libqb.cpp:28872`). The case of a temporary source among the next strings
  (`qbs.cpp:354-357`) is never reached, because such a source was taken over before.
- In `error()`, the branch for critical errors (`error_handle.cpp:383`) tests `new_error`, which is
  0 there.

## 7. What is not modelled, and why

`PROJECT.json` lists every component with its status. In short:

- device events and the mouse: queues like `_KEYHIT`'s, on which the two threads disturb each other
  whenever they overlap; what is left without overlaps is arithmetic of one function;
- conventional memory, the full error machinery: planned (section 8);
- calls of the operating system, a window system or a network, with no protocol of the program's
  own: SHELL, LPRINT, console, sockets, dialogs, clipboard;
- arithmetic on pixels, samples, numbers and texts: graphics, fonts, audio, encoding, conversions;
- the compiler and the IDE: sequential transformations of text. The code that the compiler emits for
  events, GOSUB, RETURN, ON ERROR and RESUME is modelled where it runs;
- third-party code: freeglut, libcurl, miniaudio, FreeType and others are external.

In the modelled components: Windows' pause from `MAIN_LOOP`, RUN and CHAIN, the `exit(0)` of
critical errors other than 271 (Runtime); the string of `ON KEY ... CALL` and which scan code a key
has (EventDispatch); headers, redirection, URLs (Http); contents of strings, strings in conventional
memory (Qbs); what is drawn, `$RESIZE`, full screen (Frames, Hardware); the contents of files, and
records of other lengths, so that a file opened again during FIELD has the length that was read at
the start, which `file-fields.cpp:157` goes by (Files); bytes in a block, and the errors that its
use raises (MemBlocks); how structures and the stack grow (QbList); memory ordering other than the
one store named above.

## 8. Plan

Done, most important first: OnTimer, EventDispatch and Runtime with their proofs; Http; Qbs; Frames;
Files with its abstract specification; MemBlocks, QbList, Keyhit and Hardware; proofs
of all of these.

Modules to come:

1. *Errors* (`error_handle.cpp`, generated ON ERROR and RESUME code), composed with OnTimer.
2. *Cmem* (`libqb.cpp:7106-7196`) with the strings of `qbs_cmem.cpp`: blocks are disjoint.
3. *Debugger* (`vwatch.bm`): the protocol between a stopped program and the IDE.

Abstract specifications: a mutex between BASIC statements and `SUB _GL`, implemented by Runtime's
display lock; a stream of bytes with an end, implemented by Http; a set of disjoint extents,
implemented by Qbs.

Theorems to come: that these are implemented; the first is within reach of Runtime's `LockInv`.
