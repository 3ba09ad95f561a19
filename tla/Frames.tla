------------------------------- MODULE Frames -------------------------------
(***************************************************************************)
(* The screen's way to the window.  display() makes a picture of the       *)
(* screen page in one of three frames; GLUT_DISPLAY_REQUEST() takes the    *)
(* newest one. There is no lock between them, only the order of the tests. *)
(* display() runs on MAIN_LOOP's thread or, after _DISPLAY, on the         *)
(* program's: autodisplay says which.  SCREEN, WIDTH and _FONT keep it out *)
(* by lock_display. (internal/c/libqb.cpp)                                 *)
(*                                                                         *)
(* Abstractions.  A picture is the order number of its frame, 0 while it   *)
(* is drawn.  Each test of a frame's state is a step.  Frames for hardware *)
(* images only, which change no state, are in module Hardware.             *)
(***************************************************************************)
EXTENDS Integers

CONSTANTS
    MaxFrames,  \* bound: frames that are drawn
    Closes      \* the user may close the window, which ends MAIN_LOOP

ASSUME FramesAssumption == MaxFrames \in Nat /\ Closes \in BOOLEAN

FrameSlots == 0 .. 2
Builders == {"main", "program"}

VARIABLES
    autodisplay, lock_display, screen_hide, screen_last_valid,
    frame_state, frame_order,   \* of each of display_frame[]
    picture,        \* what its pixels show
    order_next,     \* display_frame_order_next
    d_pc,           \* for each thread its place in display(), "out" if it is not in it
    d_i, frame_i,   \* display()'s static variables: its index, the frame to draw in,
    found, bound,   \* the frame found and its order,
    check_last,     \* and whether the last picture may do
    p_pc,           \* the program
    closed,         \* MAIN_LOOP has ended
    g_pc, g_i,      \* the window: its place and index,
    last_i, next_i, \* the frame it shows, and the one to show,
    g_bound,        \* whose order this is
    published,      \* history: pictures that were finished
    shown           \* the picture in the window

screen == <<screen_hide, screen_last_valid>>
switches == <<autodisplay, lock_display, screen>>
frameData == <<frame_state, frame_order, picture, order_next, published>>
last == <<found, check_last>>
locals == <<d_i, frame_i, bound, last>>
window == <<g_pc, g_i, last_i, next_i, g_bound, shown>>
framesVars == <<switches, frameData, d_pc, locals, p_pc,
                   closed, window>>

FramesInit ==
    /\ autodisplay = 1 /\ lock_display = 0 /\ screen_hide = FALSE /\ screen_last_valid = FALSE
    /\ frame_state = [s \in FrameSlots |-> "EMPTY"] /\ frame_order = [s \in FrameSlots |-> 0]
    /\ picture = [s \in FrameSlots |-> 0] /\ order_next = 1 /\ published = {}
    /\ d_pc = [t \in Builders |-> "out"]
    /\ d_i = 0 /\ frame_i = -1 /\ found = -1 /\ bound = 0 /\ check_last = FALSE
    /\ p_pc = "stmt" /\ closed = FALSE
    /\ g_pc = "idle" /\ g_i = 0 /\ last_i = -1 /\ next_i = -1 /\ g_bound = 0 /\ shown = 0

\* The newest frame that is finished, or shown, is what display() compares with.
Finished(s) == frame_state[s] \in {"READY", "DISPLAYING"}

Goto(t, there) == d_pc' = [d_pc EXCEPT ![t] = there]

\* Mutant of Step: one frame too many.
StepPast(t, there) ==
    IF d_i < 3 THEN d_i' = d_i + 1 /\ UNCHANGED d_pc ELSE d_i' = 0 /\ Goto(t, there)

\* A loop over the frames: on to the next, or to another place.
Step(t, there) ==
    IF d_i < 2 THEN d_i' = d_i + 1 /\ UNCHANGED d_pc ELSE d_i' = 0 /\ Goto(t, there)

-----------------------------------------------------------------------------
(* display().                                                              *)

\* A request for the lock is granted at the start; there is nothing to draw in a
\* hidden window.
Enter(t) ==
    /\ d_pc[t] = "enter"
    /\ lock_display' = IF lock_display = 1 THEN 2 ELSE lock_display
    /\ Goto(t, IF screen_hide THEN "out" ELSE "test")
    /\ UNCHANGED <<autodisplay, screen, frameData, locals, p_pc, closed, window>>

\* Mutant of Test: the lock is not looked at.
TestNothing(t) ==
    /\ d_pc[t] = "test"
    /\ Goto(t, "ready") /\ d_i' = 0 /\ frame_i' = -1 /\ bound' = order_next
    /\ UNCHANGED <<switches, frameData, last, p_pc, closed, window>>

Test(t) ==
    /\ d_pc[t] = "test"
    /\ IF lock_display = 0
       THEN Goto(t, "ready") /\ d_i' = 0 /\ frame_i' = -1 /\ bound' = order_next
       ELSE Goto(t, "granted") /\ UNCHANGED <<d_i, frame_i, bound>>
    /\ UNCHANGED <<switches, frameData, last, p_pc, closed, window>>

\* The oldest frame that waits to be shown ...
FindReady(t) ==
    /\ d_pc[t] = "ready"
    /\ IF frame_order[d_i] < bound /\ frame_state[d_i] = "READY"
       THEN bound' = frame_order[d_i] /\ frame_i' = d_i
       ELSE UNCHANGED <<bound, frame_i>>
    /\ Step(t, "empty")
    /\ UNCHANGED <<switches, frameData, last, p_pc, closed, window>>

\* Mutant of FindEmpty: only if no other was found before.
FindEmptyFirst(t) ==
    /\ d_pc[t] = "empty"
    /\ frame_i' = IF frame_state[d_i] = "EMPTY" /\ d_i = 0 THEN d_i ELSE frame_i
    /\ Step(t, "take")
    /\ UNCHANGED <<switches, frameData, last, bound, p_pc, closed, window>>

\* ... or rather one that is not in use.
FindEmpty(t) ==
    /\ d_pc[t] = "empty"
    /\ frame_i' = IF frame_state[d_i] = "EMPTY" THEN d_i ELSE frame_i
    /\ Step(t, "take")
    /\ UNCHANGED <<switches, frameData, last, bound, p_pc, closed, window>>

\* No frame found: an alert, and an early return.  Past the bound order_next stays,
\* and nothing is drawn (NoNewFrame): a frame that is not drawn leaves no trace.  Text
\* modes and those of 32 bits look for the frame of the last picture, to copy it or to
\* compare with it; the others compare with a copy of their own.
Take(t) ==
    /\ d_pc[t] = "take"
    /\ IF frame_i = -1
       THEN Goto(t, "out") /\ UNCHANGED <<frame_state, frame_order, order_next, check_last>>
       ELSE /\ frame_state' = [frame_state EXCEPT ![frame_i] = "BUILDING"]
            /\ frame_order' = [frame_order EXCEPT ![frame_i] = order_next]
            /\ order_next' = IF order_next <= MaxFrames THEN order_next + 1 ELSE order_next
            /\ check_last' = screen_last_valid
            /\ \E there \in {"compare", "draw"} : Goto(t, there)
    /\ d_i' = 0 /\ found' = -1 /\ bound' = 0
    /\ UNCHANGED <<switches, picture, published, frame_i, p_pc, closed, window>>

\* If there is none they draw anew.
Compare(t) ==
    /\ d_pc[t] = "compare"
    /\ IF Finished(d_i) /\ frame_order[d_i] > bound
       THEN bound' = frame_order[d_i] /\ found' = d_i
       ELSE UNCHANGED <<bound, found>>
    /\ check_last' = (check_last /\ (d_i < 2 \/ found' # -1))
    /\ Step(t, "draw")
    /\ UNCHANGED <<switches, frameData, frame_i, p_pc, closed, window>>

\* no_new_frame: the picture would be the same as the last.
NoNewFrame(t) ==
    /\ d_pc[t] = "draw"
    /\ check_last \/ frame_order[frame_i] > MaxFrames
    /\ Goto(t, "cancel")
    /\ UNCHANGED <<switches, frameData, locals, p_pc, closed, window>>

Draw(t) ==
    /\ d_pc[t] = "draw"
    /\ frame_order[frame_i] <= MaxFrames
    /\ picture' = [picture EXCEPT ![frame_i] = 0]
    /\ Goto(t, "publish")
    /\ UNCHANGED <<switches, frame_state, frame_order, order_next, published, locals, p_pc,
                   closed, window>>

\* screen_refreshed.
Publish(t) ==
    /\ d_pc[t] = "publish"
    /\ screen_last_valid' = TRUE
    /\ frame_state' = [frame_state EXCEPT ![frame_i] = "READY"]
    /\ picture' = [picture EXCEPT ![frame_i] = frame_order[frame_i]]
    /\ published' = published \union {frame_order[frame_i]}
    /\ Goto(t, "cancel")
    /\ UNCHANGED <<autodisplay, lock_display, screen_hide, frame_order, order_next, locals,
                   p_pc, closed, window>>

\* A frame that was not drawn is given back.
Cancel(t) ==
    /\ d_pc[t] = "cancel"
    /\ frame_state' = [frame_state EXCEPT ![frame_i] = IF @ = "BUILDING" THEN "EMPTY" ELSE @]
    /\ Goto(t, "granted")
    /\ UNCHANGED <<switches, frame_order, picture, order_next, published, locals, p_pc, closed,
                   window>>

Granted(t) ==
    /\ d_pc[t] = "granted"
    /\ lock_display' = IF lock_display = 1 THEN 2 ELSE lock_display
    /\ Goto(t, "switch")
    /\ UNCHANGED <<autodisplay, screen, frameData, locals, p_pc, closed, window>>

\* Mutant of Switched: a change is taken back rather than confirmed.
SwitchedBack(t) ==
    /\ d_pc[t] = "switch"
    /\ autodisplay' = IF autodisplay = -1 THEN 1 ELSE autodisplay
    /\ Goto(t, "out")
    /\ UNCHANGED <<lock_display, screen, frameData, locals, p_pc, closed, window>>

\* The last call before the program displays by itself says so.
Switched(t) ==
    /\ d_pc[t] = "switch"
    /\ autodisplay' = IF autodisplay = -1 THEN 0 ELSE autodisplay
    /\ Goto(t, "out")
    /\ UNCHANGED <<lock_display, screen, frameData, locals, p_pc, closed, window>>

Display(t) ==
    \/ Enter(t) \/ Test(t) \/ FindReady(t) \/ FindEmpty(t) \/ Take(t)
    \/ Compare(t) \/ NoNewFrame(t) \/ Draw(t) \/ Publish(t)
    \/ Cancel(t) \/ Granted(t) \/ Switched(t)

\* MAIN_LOOP calls it every 32 milliseconds, until the window is closed.
MainDisplays ==
    /\ d_pc["main"] = "out" /\ ~closed /\ autodisplay # 0
    /\ Goto("main", "enter")
    /\ UNCHANGED <<switches, frameData, locals, p_pc, closed, window>>

MainEnds ==
    /\ Closes
    /\ d_pc["main"] = "out" /\ ~closed
    /\ closed' = TRUE
    /\ UNCHANGED <<switches, frameData, d_pc, locals, p_pc, window>>

-----------------------------------------------------------------------------
(* The program.                                                            *)

\* SCREEN that changes the mode, WIDTH, _FONT: the screen must not be displayed while it
\* changes.
Lock ==
    /\ p_pc = "stmt" /\ ~closed
    /\ IF autodisplay # 0
       THEN lock_display' = IF lock_display = 0 THEN 1 ELSE lock_display
       ELSE UNCHANGED lock_display
    /\ p_pc' = IF autodisplay # 0 THEN "wait_lock" ELSE "changing"
    /\ UNCHANGED <<autodisplay, screen, frameData, d_pc, locals, closed, window>>

Locked ==
    /\ p_pc = "wait_lock" /\ lock_display = 2
    /\ p_pc' = "changing"
    /\ UNCHANGED <<switches, frameData, d_pc, locals, closed, window>>

Unlock ==
    /\ p_pc = "changing"
    /\ screen_last_valid' = FALSE
    /\ lock_display' = IF autodisplay # 0 THEN 0 ELSE lock_display
    /\ p_pc' = "stmt"
    /\ UNCHANGED <<autodisplay, screen_hide, frameData, d_pc, locals, closed, window>>

\* SCREEN that changes only the page asks for no lock, and releases it all the same.
Page ==
    /\ p_pc = "stmt" /\ ~closed
    /\ screen_last_valid' = FALSE
    /\ p_pc' = "paging"
    /\ UNCHANGED <<autodisplay, lock_display, screen_hide, frameData, d_pc, locals, closed, window>>

Paged ==
    /\ p_pc = "paging"
    /\ lock_display' = IF autodisplay # 0 THEN 0 ELSE lock_display
    /\ p_pc' = "stmt"
    /\ UNCHANGED <<autodisplay, screen, frameData, d_pc, locals, closed, window>>

\* Mutant of SubDisplay: the program does not wait for MAIN_LOOP to leave display().
SubDisplayAtOnce ==
    /\ p_pc = "stmt" /\ ~closed /\ ~screen_hide
    /\ autodisplay' = 0 /\ p_pc' = "display" /\ Goto("program", "enter")
    /\ UNCHANGED <<lock_display, screen, frameData, locals, closed, window>>

\* _DISPLAY: the first time MAIN_LOOP is asked to stop, and its last call suffices.
SubDisplay ==
    /\ p_pc = "stmt" /\ ~closed /\ ~screen_hide
    /\ IF autodisplay # 0
       THEN autodisplay' = -1 /\ p_pc' = "wait_auto" /\ UNCHANGED d_pc
       ELSE Goto("program", "enter") /\ p_pc' = "display" /\ UNCHANGED autodisplay
    /\ UNCHANGED <<lock_display, screen, frameData, locals, closed, window>>

SwitchedOver ==
    /\ p_pc = "wait_auto" /\ autodisplay = 0
    /\ p_pc' = "stmt"
    /\ UNCHANGED <<switches, frameData, d_pc, locals, closed, window>>

Displayed ==
    /\ p_pc = "display" /\ d_pc["program"] = "out"
    /\ p_pc' = "stmt"
    /\ UNCHANGED <<switches, frameData, d_pc, locals, closed, window>>

\* _AUTODISPLAY
AutoDisplay ==
    /\ p_pc = "stmt" /\ ~closed
    /\ autodisplay' = 1
    /\ UNCHANGED <<lock_display, screen, frameData, d_pc, locals, p_pc, closed, window>>

\* _SCREENHIDE, _SCREENSHOW
HideOrShow ==
    /\ p_pc = "stmt" /\ ~closed
    /\ screen_hide' = ~screen_hide
    /\ UNCHANGED <<autodisplay, lock_display, screen_last_valid, frameData, d_pc, locals,
                   p_pc, closed, window>>

\* The poll after a statement sees stop_program.
Parks ==
    /\ p_pc = "stmt" /\ closed
    /\ p_pc' = "parked"
    /\ UNCHANGED <<switches, frameData, d_pc, locals, closed, window>>

Program ==
    \/ Lock \/ Locked \/ Unlock \/ Page \/ Paged \/ SubDisplay \/ SwitchedOver \/ Displayed
    \/ AutoDisplay \/ HideOrShow \/ Parks

\* What goes on without a statement being chosen.
Waiting == Locked \/ Unlock \/ Paged \/ SwitchedOver \/ Displayed \/ Parks

-----------------------------------------------------------------------------
(* GLUT_DISPLAY_REQUEST().                                                 *)

GStep(there) == IF g_i < 2 THEN g_i' = g_i + 1 /\ UNCHANGED g_pc ELSE g_i' = 0 /\ g_pc' = there

GlutKeeps == UNCHANGED <<switches, frameData, d_pc, locals, p_pc, closed>>

Request ==
    /\ g_pc = "idle"
    /\ g_pc' = "last" /\ g_i' = 0 /\ last_i' = -1 /\ next_i' = -1
    /\ UNCHANGED <<g_bound, shown>> /\ GlutKeeps

\* The frame that is shown.
FindLast ==
    /\ g_pc = "last"
    /\ last_i' = IF frame_state[g_i] = "DISPLAYING" THEN g_i ELSE last_i
    /\ g_bound' = IF last_i' = -1 THEN 0 ELSE frame_order[last_i']
    /\ GStep("find")
    /\ UNCHANGED <<next_i, shown>> /\ GlutKeeps

\* The newest that is finished and newer than it.
FindNext ==
    /\ g_pc = "find"
    /\ IF frame_state[g_i] = "READY" /\ frame_order[g_i] > g_bound
       THEN g_bound' = frame_order[g_i] /\ next_i' = g_i ELSE UNCHANGED <<g_bound, next_i>>
    /\ GStep("choose")
    /\ UNCHANGED <<last_i, shown>> /\ GlutKeeps

Choose ==
    /\ g_pc = "choose"
    /\ g_pc' = IF next_i = -1 THEN "idle" ELSE "clear"
    /\ UNCHANGED <<g_i, last_i, next_i, g_bound, shown>> /\ GlutKeeps

\* Those that are older are free again ...
ClearOlder ==
    /\ g_pc = "clear"
    /\ frame_state' = IF frame_order[g_i] < frame_order[next_i] /\ Finished(g_i)
                THEN [frame_state EXCEPT ![g_i] = "EMPTY"] ELSE frame_state
    /\ GStep("show")
    /\ UNCHANGED <<last_i, next_i, g_bound, shown>>
    /\ UNCHANGED <<switches, frame_order, picture, order_next, published, d_pc, locals, p_pc,
                   closed>>

\* ... and only then it is taken.
Show ==
    /\ g_pc = "show"
    /\ frame_state' = [frame_state EXCEPT ![next_i] = "DISPLAYING"]
    /\ g_pc' = "upload"
    /\ UNCHANGED <<g_i, last_i, next_i, g_bound, shown>>
    /\ UNCHANGED <<switches, frame_order, picture, order_next, published, d_pc, locals, p_pc,
                   closed>>

\* Its pixels become a texture.
Upload ==
    /\ g_pc = "upload"
    /\ shown' = picture[next_i]
    /\ g_pc' = "idle"
    /\ UNCHANGED <<g_i, last_i, next_i, g_bound>> /\ GlutKeeps

Window ==
    \/ Request \/ FindLast \/ FindNext \/ Choose
    \/ ClearOlder \/ Show \/ Upload

FramesNext == (\E t \in Builders : Display(t)) \/ MainDisplays \/ MainEnds \/ Program \/ Window

FramesSpec == FramesInit /\ [][FramesNext]_framesVars

\* Threads run, and GLUT asks for redisplay again and again.
FramesFair ==
    /\ WF_framesVars(MainDisplays \/ Display("main"))
    /\ WF_framesVars(Display("program"))
    /\ WF_framesVars(Waiting)
    /\ WF_framesVars(Window)

FramesFairSpec == FramesSpec /\ FramesFair

-----------------------------------------------------------------------------
(* Properties.                                                             *)

FramesTypeOK ==
    /\ autodisplay \in -1 .. 1 /\ lock_display \in 0 .. 2
    /\ screen_hide \in BOOLEAN /\ screen_last_valid \in BOOLEAN
    /\ frame_state \in [FrameSlots -> {"EMPTY", "BUILDING", "READY", "DISPLAYING"}]
    /\ frame_order \in [FrameSlots -> 0 .. MaxFrames + 1]
    /\ picture \in [FrameSlots -> 0 .. MaxFrames]
    /\ order_next \in 1 .. MaxFrames + 1 /\ published \subseteq 1 .. MaxFrames
    /\ d_pc \in [Builders -> {"out", "enter", "test", "ready", "empty", "take", "compare", "draw",
                              "publish", "cancel", "granted", "switch"}]
    /\ d_i \in FrameSlots /\ frame_i \in -1 .. 2 /\ found \in -1 .. 2
    /\ bound \in 0 .. MaxFrames + 1 /\ check_last \in BOOLEAN
    /\ p_pc \in {"stmt", "wait_lock", "changing", "paging", "wait_auto", "display", "parked"}
    /\ closed \in BOOLEAN
    /\ g_pc \in {"idle", "last", "find", "choose", "clear", "show", "upload"}
    /\ g_i \in FrameSlots /\ last_i \in -1 .. 2 /\ next_i \in -1 .. 2
    /\ g_bound \in 0 .. MaxFrames + 1
    /\ shown \in 0 .. MaxFrames

\* display() always finds a frame to draw in, however its search and the window's
\* interleave (the alert "Failed to find available frame" never comes): frames are freed
\* before the newest is taken, and unused ones looked for last.
FramesFound == \A t \in Builders : d_pc[t] = "take" => frame_i # -1

\* display() is never on two threads: its variables are static.
DisplayOnce == \E t \in Builders : d_pc[t] = "out"

\* The screen is not displayed while its mode, width or font changes: display() is nowhere
\* between its test of lock_display and the end of the drawing, on either thread.  (A change
\* of page takes no lock.)
ScreenUndisturbed ==
    p_pc = "changing" => \A t \in Builders :
        d_pc[t] \in {"out", "enter", "test", "granted", "switch"}

\* Neither display()'s own variables nor a screen that is being changed has two users.
DisplayAlone == DisplayOnce /\ ScreenUndisturbed

\* The last picture comes to the window unless the screen is to be drawn anew: "no need
\* to update display" (libqb.cpp:29898), since the most recent READY or DISPLAYING page
\* (29434) is it.
LatestShown ==
    MaxFrames \in published /\ screen_last_valid ~> shown = MaxFrames \/ ~screen_last_valid

\* SCREEN, _DISPLAY and the like come back.
WaitsEnd == p_pc \in {"wait_lock", "changing", "paging", "wait_auto", "display"} ~> p_pc = "stmt"
=============================================================================
