------------------------------- MODULE Runtime -------------------------------
(***************************************************************************)
(* The threads of a running program and how they wait for each other:      *)
(*   qb     QBMAIN: the BASIC program, with the poll evnt();               *)
(*   glut   the initial thread: the window's callbacks, SUB _GL, the queue *)
(*          of GLUT messages;                                              *)
(*   main   MAIN_LOOP: notices that the program is to end, and ends it;    *)
(*   timer  TIMERTHREAD, of which only the lock and the end matter here.   *)
(* The display lock (three counters that only grow) keeps qb out of BASIC  *)
(* statements while glut runs SUB _GL.  A GLUT message is executed by glut *)
(* for another thread, which waits for a completion if it needs an answer. *)
(* At the end main raises stop_program, waits until exit_ok is 3, and      *)
(* queues a message that makes glut call exit().                           *)
(*                                                                         *)
(* (internal/c/qbx.cpp, internal/c/libqb.cpp, internal/c/libqb/src)        *)
(*                                                                         *)
(* Abstractions.  The build is that of Linux or macOS, where Pause and the *)
(* break keys arrive on glut only.  A store is seen by the other threads   *)
(* at once, except that of display_lock_request if Buffered.               *)
(***************************************************************************)
EXTENDS Integers, Sequences, FiniteSets

CONSTANTS
    Programs,    \* the programs checked: each the set of things it does
    Buffered,    \* whether glut's store of display_lock_request may be delayed
    OrIsAtomic,  \* whether exit_ok |= n is one step
    MaxDisplays, \* bound: frames that call SUB _GL
    MaxQueue     \* bound: messages waiting at which the program still posts one

\* What a program may do: define SUB _GL, and in it have polls, END or a dialog; open
\* dialogs, ask GLUT, post to GLUT, start hidden and show the screen, call
\* _FREETIMER, call _EXIT, end by END or SYSTEM; and its user may pause it.
Features == {"_GL", "gl_poll", "gl_end", "gl_dialog", "dialog", "get", "post", "hidden",
             "_FREETIMER", "_EXIT", "end", "pause"}

ASSUME RuntimeAssumption ==
    /\ Programs \subseteq SUBSET Features
    /\ Buffered \in BOOLEAN /\ OrIsAtomic \in BOOLEAN
    /\ MaxDisplays \in Nat /\ MaxQueue \in Nat

RuntimeThreads == {"qb", "glut", "main", "timer"}

VARIABLES
    features,            \* what the program does
    rt_pc,
    request, confirmed, released, \* display_lock_request, _confirmed, _released
    wanted,             \* display_lock_request as glut sees it
    modal,              \* display_lock_modal_count
    sub_gl_called,
    rt_qbevent,
    suspend_program, close_program, stop_program, dont_call_sub_gl,
    exit_value, exit_blocked,
    exit_ok, seen,      \* the bits of exit_ok; what a thread read of them
    ontimerthread_lock,
    queue, answered,    \* glut_msg_queue; the waiting messages that are finished
    glut_is_started, starter, initialized, \* and the completions of the start
    exited              \* the thread that called exit(), or "no"

locks == <<request, confirmed, released, wanted, modal, sub_gl_called>>
ends == <<close_program, stop_program, dont_call_sub_gl, exit_value, exit_blocked>>
oks == <<exit_ok, seen>>
gluts == <<queue, answered, glut_is_started, starter, initialized>>
runtimeVars == <<features, rt_pc, locks, rt_qbevent, suspend_program, ends, oks,
                 ontimerthread_lock, gluts, exited>>

Does(feature) == feature \in features

\* Thread t goes from one place to another; after exit() no thread does.
Go(t, from, to) ==
    /\ exited = "no"
    /\ rt_pc[t] = from
    /\ rt_pc' = [rt_pc EXCEPT ![t] = to]
    /\ UNCHANGED features

RuntimeInit ==
    /\ features \in Programs
    /\ rt_pc = [qb |-> "stmt", glut |-> IF Does("hidden") THEN "hidden" ELSE "loop",
             main |-> "loop", timer |-> "top"]
    /\ request = 0 /\ confirmed = 0 /\ released = 0 /\ wanted = 0
    /\ modal = 0
    /\ sub_gl_called = FALSE
    /\ rt_qbevent = FALSE
    /\ suspend_program = FALSE /\ close_program = FALSE /\ stop_program = FALSE
    /\ dont_call_sub_gl = FALSE
    /\ exit_value = FALSE /\ exit_blocked = FALSE
    /\ exit_ok = {} /\ seen = [t \in RuntimeThreads |-> {}]
    /\ ontimerthread_lock = 0
    /\ queue = <<>> /\ answered = {}
    /\ glut_is_started = ~Does("hidden")
    /\ starter = FALSE /\ initialized = FALSE
    /\ exited = "no"

-----------------------------------------------------------------------------
(* end(): the calling thread sets its bit of exit_ok and sleeps for ever.  *)

End(t) ==
    /\ Go(t, "end", "or")
    /\ dont_call_sub_gl' = TRUE
    /\ UNCHANGED <<locks, rt_qbevent, suspend_program, close_program, stop_program, exit_value,
                   exit_blocked, oks, ontimerthread_lock, gluts, exited>>

Bit(t) == IF t = "timer" THEN 2 ELSE 1

OrRead(t) ==
    /\ ~OrIsAtomic
    /\ Go(t, "or", "or.store")
    /\ seen' = [seen EXCEPT ![t] = exit_ok]
    /\ UNCHANGED <<locks, rt_qbevent, suspend_program, ends, exit_ok, ontimerthread_lock, gluts,
                   exited>>

OrStore(t) ==
    /\ IF OrIsAtomic THEN Go(t, "or", "parked") ELSE Go(t, "or.store", "parked")
    /\ exit_ok' = (IF OrIsAtomic THEN exit_ok ELSE seen[t]) \cup {Bit(t)}
    /\ UNCHANGED <<locks, rt_qbevent, suspend_program, ends, seen, ontimerthread_lock, gluts,
                   exited>>

Park(t) == End(t) \/ OrRead(t) \/ OrStore(t)

-----------------------------------------------------------------------------
(* qb: statements.                                                         *)

PlainStatement ==
    /\ Go("qb", "stmt", "poll")
    /\ UNCHANGED <<locks, rt_qbevent, suspend_program, ends, oks, ontimerthread_lock, gluts,
                   exited>>

\* gui_modal_lock_begin(): the count, then an acknowledgement for a waiting glut.
DialogCount ==
    /\ Does("dialog")
    /\ Go("qb", "stmt", "modal.begin")
    /\ modal' = modal + 1
    /\ UNCHANGED <<request, confirmed, released, wanted, sub_gl_called, rt_qbevent,
                   suspend_program, ends, oks, ontimerthread_lock, gluts, exited>>

\* Mutant of Acknowledge: without the count of frames asked for.
AcknowledgeNot(at) == FALSE

\* Whether a thread that reads the counters at "at" sees a request to acknowledge.
Acknowledge(at) == request > confirmed

\* if (display_lock_request > display_lock_confirmed)
\*     display_lock_confirmed = display_lock_request;
Confirm(from, to) ==
    /\ Go("qb", from, to)
    /\ confirmed' = IF Acknowledge(from) THEN request ELSE confirmed
    /\ UNCHANGED <<request, released, wanted, modal, sub_gl_called, rt_qbevent, suspend_program,
                   ends, oks, ontimerthread_lock, gluts, exited>>

DialogOpen == Confirm("modal.begin", "dialog")

\* The user closes the dialog; gui_modal_lock_end().
DialogClosed ==
    /\ Go("qb", "dialog", "modal.end")
    /\ modal' = IF modal > 0 THEN modal - 1 ELSE modal
    /\ UNCHANGED <<request, confirmed, released, wanted, sub_gl_called, rt_qbevent,
                   suspend_program, ends, oks, ontimerthread_lock, gluts, exited>>

DialogConfirm == Confirm("modal.end", "modal.release")

\* Mutant of Held: the two counters compared the other way round.
HeldNot == released > confirmed

\* while (display_lock_released < display_lock_confirmed && nothing ends or pauses it)
Held == released < confirmed
Waits == Held /\ ~close_program /\ ~suspend_program /\ ~stop_program

DialogDone ==
    /\ ~Waits
    /\ Go("qb", "modal.release", "poll")
    /\ UNCHANGED <<locks, rt_qbevent, suspend_program, ends, oks, ontimerthread_lock, gluts,
                   exited>>

\* _FREETIMER: the lock of the timers (the handshake is in module OnTimer).
FreeTimer ==
    /\ Does("_FREETIMER")
    /\ Go("qb", "stmt", "freetimer")
    /\ ontimerthread_lock' = 1
    /\ UNCHANGED <<locks, rt_qbevent, suspend_program, ends, oks, gluts, exited>>

FreeTimerWaits ==
    /\ ontimerthread_lock # 1
    /\ Go("qb", "freetimer", "poll")
    /\ ontimerthread_lock' = 0
    /\ UNCHANGED <<locks, rt_qbevent, suspend_program, ends, oks, gluts, exited>>

\* _EXIT: from now on the program itself decides when to end.
Exit ==
    /\ Does("_EXIT")
    /\ Go("qb", "stmt", "poll")
    /\ exit_blocked' = TRUE
    /\ exit_value' = FALSE
    /\ UNCHANGED <<locks, rt_qbevent, suspend_program, close_program, stop_program,
                   dont_call_sub_gl, oks, ontimerthread_lock, gluts, exited>>

\* Error 271, END or SYSTEM while SUB _GL runs: an alert, with the count of dialogs, and
\* exit(0) when it is closed.
ErrorInGL(t, from) ==
    /\ Go(t, from, "alert")
    /\ modal' = modal + 1
    /\ UNCHANGED <<request, confirmed, released, wanted, sub_gl_called, rt_qbevent,
                   suspend_program, ends, oks, ontimerthread_lock, gluts, exited>>

AlertClosed(t) ==
    /\ Go(t, "alert", "exit")
    /\ modal' = IF modal > 0 THEN modal - 1 ELSE modal
    /\ UNCHANGED <<request, confirmed, released, wanted, sub_gl_called, rt_qbevent,
                   suspend_program, ends, oks, ontimerthread_lock, gluts, exited>>

AlertExits(t) ==
    /\ ~Waits
    /\ Go(t, "exit", "exit")
    /\ exited' = t
    /\ UNCHANGED <<locks, rt_qbevent, suspend_program, ends, oks, ontimerthread_lock, gluts>>

\* sub_gl_called is glut's: a program that is ending goes on while SUB _GL runs.
EndInGL ==
    /\ Does("end") /\ sub_gl_called
    /\ ErrorInGL("qb", "stmt")

\* SYSTEM, STOP, and the choice not to go on after an error.
System ==
    /\ Does("end") /\ ~sub_gl_called
    /\ Go("qb", "stmt", "end")
    /\ close_program' = TRUE
    /\ UNCHANGED <<locks, rt_qbevent, suspend_program, stop_program, dont_call_sub_gl, exit_value,
                   exit_blocked, oks, ontimerthread_lock, gluts, exited>>

\* END: waits for a key, or for the program's end.
SubEnd ==
    /\ Does("end") /\ ~sub_gl_called
    /\ Go("qb", "stmt", "sub_end")
    /\ dont_call_sub_gl' = TRUE
    /\ exit_blocked' = FALSE
    /\ UNCHANGED <<locks, rt_qbevent, suspend_program, close_program, stop_program, exit_value,
                   oks, ontimerthread_lock, gluts, exited>>

SubEndKey ==
    /\ Go("qb", "sub_end", "end")
    /\ close_program' = TRUE
    /\ UNCHANGED <<locks, rt_qbevent, suspend_program, stop_program, dont_call_sub_gl, exit_value,
                   exit_blocked, oks, ontimerthread_lock, gluts, exited>>

SubEndStopped ==
    /\ stop_program
    /\ Go("qb", "sub_end", "end")
    /\ UNCHANGED <<locks, rt_qbevent, suspend_program, ends, oks, ontimerthread_lock, gluts,
                   exited>>

-----------------------------------------------------------------------------
(* The queue of GLUT messages, used by qb and by main.                     *)

\* glut holds the lock of the queue while it goes through it.
QueueFree == rt_pc["glut"] # "queue"

\* Mutant of Push: a message that does not fit is taken to be finished.
PushOrDrop(msg) ==
    /\ QueueFree
    /\ IF queue = <<>> THEN queue' = Append(queue, msg) ELSE UNCHANGED queue
    /\ answered' = answered \ {msg}

\* libqb_queue_glut_message() with GLUT running.  A waiting sender's message is new.
Push(msg) ==
    /\ QueueFree
    /\ queue' = Append(queue, msg)
    /\ answered' = answered \ {msg}

\* A message without an answer: a title, the cursor, the window's place.
Post ==
    /\ Does("post")
    /\ Len(queue) < MaxQueue
    /\ Go("qb", "stmt", "poll")
    /\ IF glut_is_started THEN Push("post") ELSE UNCHANGED <<queue, answered>>
    /\ UNCHANGED <<locks, rt_qbevent, suspend_program, ends, oks, ontimerthread_lock,
                   glut_is_started, starter, initialized, exited>>

\* libqb_glut_get(), of _DESKTOPWIDTH and _SCREENMOVE _MIDDLE.
GlutGet ==
    /\ Does("get")
    /\ glut_is_started
    /\ Go("qb", "stmt", "get")
    /\ Push("get")
    /\ UNCHANGED <<locks, rt_qbevent, suspend_program, ends, oks, ontimerthread_lock,
                   glut_is_started, starter, initialized, exited>>

GetAnswered ==
    /\ "get" \in answered
    /\ Go("qb", "get", "poll")
    /\ UNCHANGED <<locks, rt_qbevent, suspend_program, ends, oks, ontimerthread_lock, gluts,
                   exited>>

\* _SCREENSHOW and _SCREENHIDE: libqb_start_glut_thread(), then a message.
ScreenShow ==
    /\ Does("hidden")
    /\ Len(queue) < MaxQueue
    /\ IF glut_is_started
       THEN Go("qb", "stmt", "poll") /\ Push("post") /\ UNCHANGED starter
       ELSE Go("qb", "stmt", "start") /\ starter' = TRUE /\ UNCHANGED <<queue, answered>>
    /\ UNCHANGED <<locks, rt_qbevent, suspend_program, ends, oks, ontimerthread_lock,
                   glut_is_started, initialized, exited>>

ScreenShown ==
    /\ initialized
    /\ Go("qb", "start", "poll")
    /\ Push("post")
    /\ UNCHANGED <<locks, rt_qbevent, suspend_program, ends, oks, ontimerthread_lock,
                   glut_is_started, starter, initialized, exited>>

-----------------------------------------------------------------------------
(* qb: the poll after every statement, and evnt().                         *)

PollStatement ==
    /\ Go("qb", "poll", IF rt_qbevent THEN "evnt" ELSE "stmt")
    /\ rt_qbevent' = FALSE
    /\ UNCHANGED <<locks, suspend_program, ends, oks, ontimerthread_lock, gluts, exited>>

EvntLock ==
    /\ Go("qb", "evnt", IF ~sub_gl_called /\ Acknowledge("evnt") THEN "confirm" ELSE "pause")
    /\ UNCHANGED <<locks, rt_qbevent, suspend_program, ends, oks, ontimerthread_lock, gluts,
                   exited>>

EvntConfirm ==
    /\ Go("qb", "confirm", "release")
    /\ confirmed' = request
    /\ UNCHANGED <<request, released, wanted, modal, sub_gl_called, rt_qbevent, suspend_program,
                   ends, oks, ontimerthread_lock, gluts, exited>>

EvntReleased ==
    /\ ~Waits
    /\ Go("qb", "release", "pause")
    /\ UNCHANGED <<locks, rt_qbevent, suspend_program, ends, oks, ontimerthread_lock, gluts,
                   exited>>

EvntPause ==
    /\ stop_program \/ ~suspend_program
    /\ Go("qb", "pause", IF stop_program THEN "end" ELSE "stmt")
    /\ UNCHANGED <<locks, rt_qbevent, suspend_program, ends, oks, ontimerthread_lock, gluts,
                   exited>>

QbOn ==
    \/ PollStatement \/ EvntLock \/ EvntConfirm \/ EvntReleased \/ EvntPause
    \/ DialogOpen \/ DialogClosed \/ DialogConfirm \/ DialogDone
    \/ FreeTimerWaits \/ GetAnswered \/ ScreenShown \/ SubEndStopped
    \/ AlertClosed("qb") \/ AlertExits("qb")
    \/ Park("qb")

QbStatement ==
    \/ PlainStatement \/ DialogCount \/ FreeTimer \/ Exit \/ System \/ SubEnd
    \/ Post \/ GlutGet \/ ScreenShow \/ SubEndKey \/ EndInGL

-----------------------------------------------------------------------------
(* glut: the start of a hidden program's window, and the user.             *)

GlutStarted ==
    /\ starter
    /\ Go("glut", "hidden", "started")
    /\ glut_is_started' = TRUE
    /\ UNCHANGED <<locks, rt_qbevent, suspend_program, ends, oks, ontimerthread_lock, queue,
                   answered, starter, initialized, exited>>

GlutInitialized ==
    /\ Go("glut", "started", "loop")
    /\ initialized' = TRUE
    /\ UNCHANGED <<locks, rt_qbevent, suspend_program, ends, oks, ontimerthread_lock, queue,
                   answered, glut_is_started, starter, exited>>

\* The window's close button; Ctrl+Break while _EXIT is in use.
CloseWindow ==
    /\ Go("glut", "loop", "loop")
    /\ exit_value' = TRUE
    /\ UNCHANGED <<locks, rt_qbevent, suspend_program, close_program, stop_program,
                   dont_call_sub_gl, exit_blocked, oks, ontimerthread_lock, gluts, exited>>

Break ==
    /\ ~exit_blocked
    /\ Go("glut", "loop", "loop")
    /\ close_program' = TRUE
    /\ UNCHANGED <<locks, rt_qbevent, suspend_program, stop_program, dont_call_sub_gl, exit_value,
                   exit_blocked, oks, ontimerthread_lock, gluts, exited>>

\* The Pause key, and any other key after it.
Pause ==
    /\ Does("pause")
    /\ Go("glut", "loop", "loop")
    /\ suspend_program' = TRUE
    /\ rt_qbevent' = TRUE
    /\ UNCHANGED <<locks, ends, oks, ontimerthread_lock, gluts, exited>>

Unpause ==
    /\ suspend_program
    /\ Go("glut", "loop", "loop")
    /\ suspend_program' = FALSE
    /\ UNCHANGED <<locks, rt_qbevent, ends, oks, ontimerthread_lock, gluts, exited>>

User == CloseWindow \/ Break \/ Pause \/ Unpause

-----------------------------------------------------------------------------
(* glut: the queue, in GLUT_IDLEFUNC.                                      *)

ProcessQueue ==
    /\ queue # <<>>
    /\ Go("glut", "loop", "queue")
    /\ UNCHANGED <<locks, rt_qbevent, suspend_program, ends, oks, ontimerthread_lock, gluts,
                   exited>>

\* Mutant of Returns: the message of libqb_exit() is taken for one to answer.
ReturnsAlways(msg) == TRUE

\* exit() does not.
Returns(msg) == msg # "exit"

\* One message: popped, executed and finished.
Execute ==
    /\ queue # <<>>
    /\ Go("glut", "queue", "queue")
    /\ queue' = Tail(queue)
    /\ IF Returns(Head(queue)) THEN answered' = answered \cup {Head(queue)} /\ UNCHANGED exited
                               ELSE exited' = "glut" /\ UNCHANGED answered
    /\ UNCHANGED <<locks, rt_qbevent, suspend_program, ends, oks, ontimerthread_lock,
                   glut_is_started, starter, initialized>>

ProcessedQueue ==
    /\ queue = <<>>
    /\ Go("glut", "queue", "loop")
    /\ UNCHANGED <<locks, rt_qbevent, suspend_program, ends, oks, ontimerthread_lock, gluts,
                   exited>>

-----------------------------------------------------------------------------
(* glut: a frame with SUB _GL, in GLUT_DISPLAY_REQUEST.                    *)

Ending == close_program \/ dont_call_sub_gl \/ suspend_program \/ stop_program

MayAsk == ~Ending

FrameAsk ==
    /\ Does("_GL")
    /\ wanted < MaxDisplays
    /\ MayAsk
    /\ Go("glut", "loop", "wait")
    /\ wanted' = wanted + 1
    /\ request' = IF Buffered THEN request ELSE wanted + 1
    /\ UNCHANGED <<confirmed, released, modal, sub_gl_called, rt_qbevent, suspend_program, ends,
                   oks, ontimerthread_lock, gluts, exited>>

\* abort_gl without a request.
FrameSkip ==
    /\ Does("_GL")
    /\ ~MayAsk
    /\ Go("glut", "loop", "abort")
    /\ UNCHANGED <<locks, rt_qbevent, suspend_program, ends, oks, ontimerthread_lock, gluts,
                   exited>>

Drain ==
    /\ exited = "no"
    /\ request # wanted
    /\ request' = wanted
    /\ UNCHANGED <<features, rt_pc, confirmed, released, wanted, modal, sub_gl_called, rt_qbevent,
                   suspend_program, ends, oks, ontimerthread_lock, gluts, exited>>

WaitGranted ==
    /\ confirmed >= wanted
    /\ Go("glut", "wait", "call")
    /\ UNCHANGED <<locks, rt_qbevent, suspend_program, ends, oks, ontimerthread_lock, gluts,
                   exited>>

WaitAborts ==
    /\ confirmed < wanted /\ Ending
    /\ Go("glut", "wait", "abort")
    /\ UNCHANGED <<locks, rt_qbevent, suspend_program, ends, oks, ontimerthread_lock, gluts,
                   exited>>

WaitModal ==
    /\ confirmed < wanted /\ ~Ending /\ modal > 0
    /\ Go("glut", "wait", "grant")
    /\ UNCHANGED <<locks, rt_qbevent, suspend_program, ends, oks, ontimerthread_lock, gluts,
                   exited>>

\* A program in a dialog cannot acknowledge: glut does.
Grant ==
    /\ Go("glut", "grant", "call")
    /\ request' = wanted
    /\ confirmed' = wanted
    /\ UNCHANGED <<released, wanted, modal, sub_gl_called, rt_qbevent, suspend_program, ends, oks,
                   ontimerthread_lock, gluts, exited>>

WaitAsks ==
    /\ confirmed < wanted /\ ~Ending /\ modal = 0
    /\ Go("glut", "wait", "wait")
    /\ rt_qbevent' = TRUE
    /\ UNCHANGED <<locks, suspend_program, ends, oks, ontimerthread_lock, gluts, exited>>

Call ==
    /\ Go("glut", "call", "gl")
    /\ sub_gl_called' = TRUE
    /\ UNCHANGED <<request, confirmed, released, wanted, modal, rt_qbevent, suspend_program, ends,
                   oks, ontimerthread_lock, gluts, exited>>

GLReturn ==
    /\ Go("glut", "gl", "abort")
    /\ sub_gl_called' = FALSE
    /\ UNCHANGED <<request, confirmed, released, wanted, modal, rt_qbevent, suspend_program, ends,
                   oks, ontimerthread_lock, gluts, exited>>

\* Mutant of FrameDone: the release is left out.
FrameDoneNot ==
    /\ Go("glut", "abort", "loop")
    /\ UNCHANGED <<locks, rt_qbevent, suspend_program, ends, oks, ontimerthread_lock, gluts,
                   exited>>

FrameDone ==
    /\ Go("glut", "abort", "loop")
    /\ released' = confirmed
    /\ UNCHANGED <<request, confirmed, wanted, modal, sub_gl_called, rt_qbevent, suspend_program,
                   ends, oks, ontimerthread_lock, gluts, exited>>

\* SUB _GL is BASIC code: its polls call evnt() on glut, which does not look at the
\* display lock, but waits while the program is paused and ends when it stops.
GLPoll ==
    /\ Does("gl_poll")
    /\ rt_qbevent
    /\ Go("glut", "gl", "gl.pause")
    /\ rt_qbevent' = FALSE
    /\ UNCHANGED <<locks, suspend_program, ends, oks, ontimerthread_lock, gluts, exited>>

GLPause ==
    /\ stop_program \/ ~suspend_program
    /\ Go("glut", "gl.pause", IF stop_program THEN "end" ELSE "gl")
    /\ UNCHANGED <<locks, rt_qbevent, suspend_program, ends, oks, ontimerthread_lock, gluts,
                   exited>>

\* END and SYSTEM in SUB _GL.
GLSystem ==
    /\ Does("gl_end")
    /\ ErrorInGL("glut", "gl")

\* A dialog in SUB _GL takes the same steps as one of the program.
GLDialog ==
    /\ Does("gl_dialog")
    /\ Go("glut", "gl", "gl.dialog")
    /\ modal' = modal + 1
    /\ UNCHANGED <<request, confirmed, released, wanted, sub_gl_called, rt_qbevent,
                   suspend_program, ends, oks, ontimerthread_lock, gluts, exited>>

GLDialogClosed ==
    /\ Go("glut", "gl.dialog", "gl.release")
    /\ modal' = IF modal > 0 THEN modal - 1 ELSE modal
    /\ UNCHANGED <<request, confirmed, released, wanted, sub_gl_called, rt_qbevent,
                   suspend_program, ends, oks, ontimerthread_lock, gluts, exited>>

GLDialogDone ==
    /\ ~Waits
    /\ Go("glut", "gl.release", "gl")
    /\ UNCHANGED <<locks, rt_qbevent, suspend_program, ends, oks, ontimerthread_lock, gluts,
                   exited>>

GlutOn ==
    \/ GlutStarted \/ GlutInitialized \/ Execute \/ ProcessedQueue
    \/ WaitGranted \/ WaitAborts \/ WaitModal \/ Grant \/ WaitAsks \/ Call \/ FrameDone
    \/ GLPause \/ GLDialogClosed \/ GLDialogDone
    \/ AlertClosed("glut") \/ AlertExits("glut")
    \/ Park("glut")

GlutMay == FrameAsk \/ FrameSkip \/ GLPoll \/ GLSystem \/ GLDialog

-----------------------------------------------------------------------------
(* main and timer.                                                         *)

MustStop == (exit_value /\ ~exit_blocked) \/ close_program

MainStops ==
    /\ MustStop
    /\ Go("main", "loop", "raise")
    /\ stop_program' = TRUE
    /\ UNCHANGED <<locks, rt_qbevent, suspend_program, close_program, dont_call_sub_gl,
                   exit_value, exit_blocked, oks, ontimerthread_lock, gluts, exited>>

\* Mutant of MainRaises: stop_program without rt_qbevent.
MainRaisesNot ==
    /\ Go("main", "raise", "await")
    /\ UNCHANGED <<locks, rt_qbevent, suspend_program, ends, oks, ontimerthread_lock, gluts,
                   exited>>

MainRaises ==
    /\ Go("main", "raise", "await")
    /\ rt_qbevent' = TRUE
    /\ UNCHANGED <<locks, suspend_program, ends, oks, ontimerthread_lock, gluts, exited>>

\* Mutant of AllParked: main does not wait for the timer thread.
ProgramParked == 1 \in exit_ok

AllParked == exit_ok = {1, 2}

\* Files, HTTP handles and devices are closed from here.
MainCloses ==
    /\ AllParked
    /\ Go("main", "await", "closing")
    /\ UNCHANGED <<locks, rt_qbevent, suspend_program, ends, oks, ontimerthread_lock, gluts,
                   exited>>

\* Mutant of ExitsHere: libqb_exit() does not ask whether GLUT runs.
ExitsAnywhere == TRUE

ExitsHere == ~glut_is_started

\* libqb_exit(): main asks whether GLUT runs, and exits or leaves that to glut.
MainAsks ==
    /\ Go("main", "closing", IF ExitsHere THEN "exits" ELSE "queues")
    /\ UNCHANGED <<locks, rt_qbevent, suspend_program, ends, oks, ontimerthread_lock, gluts,
                   exited>>

MainExits ==
    /\ Go("main", "exits", "exit")
    /\ exited' = "main"
    /\ UNCHANGED <<locks, rt_qbevent, suspend_program, ends, oks, ontimerthread_lock, gluts>>

MainQueues ==
    /\ Go("main", "queues", "exit")
    /\ Push("exit")
    /\ UNCHANGED <<locks, rt_qbevent, suspend_program, ends, oks, ontimerthread_lock,
                   glut_is_started, starter, initialized, exited>>

Main == MainStops \/ MainRaises \/ MainCloses \/ MainAsks \/ MainExits \/ MainQueues

TimerLocks ==
    /\ ontimerthread_lock = 1
    /\ Go("timer", "top", "sleep")
    /\ ontimerthread_lock' = 2
    /\ UNCHANGED <<locks, rt_qbevent, suspend_program, ends, oks, gluts, exited>>

TimerScans ==
    /\ ontimerthread_lock # 1
    /\ Go("timer", "top", "sleep")
    /\ UNCHANGED <<locks, rt_qbevent, suspend_program, ends, oks, ontimerthread_lock, gluts,
                   exited>>

TimerSleeps ==
    /\ Go("timer", "sleep", IF stop_program THEN "or" ELSE "top")
    /\ UNCHANGED <<locks, rt_qbevent, suspend_program, ends, oks, ontimerthread_lock, gluts,
                   exited>>

Timer == TimerLocks \/ TimerScans \/ TimerSleeps \/ OrRead("timer") \/ OrStore("timer")

Exited == exited # "no" /\ UNCHANGED runtimeVars

RuntimeNext ==
    \/ QbStatement \/ QbOn
    \/ User \/ ProcessQueue \/ GlutMay \/ GLReturn \/ GlutOn \/ Drain
    \/ Main \/ Timer \/ Exited

RuntimeSpec == RuntimeInit /\ [][RuntimeNext]_runtimeVars

\* All threads run; the program goes on executing statements, the user closes
\* dialogs, GLUT calls the idle function again and again, and SUB _GL returns.
RuntimeFairSpec ==
    /\ RuntimeSpec
    /\ WF_runtimeVars(PlainStatement) /\ WF_runtimeVars(QbOn)
    /\ WF_runtimeVars(GlutOn) /\ SF_runtimeVars(ProcessQueue) /\ SF_runtimeVars(GLReturn)
    /\ WF_runtimeVars(Drain)
    /\ WF_runtimeVars(Main) /\ WF_runtimeVars(Timer)

-----------------------------------------------------------------------------
ProgramPCs == {"stmt", "poll", "evnt", "confirm", "release", "pause", "modal.begin", "dialog",
          "modal.end", "modal.release", "freetimer", "get", "start", "alert", "exit", "sub_end",
          "end", "or", "or.store", "parked"}
GlutPCs == {"hidden", "started", "loop", "queue", "wait", "grant", "call", "gl", "gl.pause",
            "gl.dialog", "gl.release", "alert", "exit", "abort", "end", "or", "or.store", "parked"}
MainPCs == {"loop", "raise", "await", "closing", "exits", "queues", "exit"}
TimerPCs == {"top", "sleep", "or", "or.store", "parked"}

\* Types of all variables.
RuntimeTypeOK ==
    /\ features \in Programs
    /\ rt_pc \in [RuntimeThreads -> ProgramPCs \cup GlutPCs \cup MainPCs \cup TimerPCs]
    /\ rt_pc["qb"] \in ProgramPCs /\ rt_pc["glut"] \in GlutPCs
    /\ rt_pc["main"] \in MainPCs /\ rt_pc["timer"] \in TimerPCs
    /\ request \in Nat /\ confirmed \in Nat /\ released \in Nat /\ wanted \in Nat
    /\ modal \in Nat
    /\ sub_gl_called \in BOOLEAN /\ rt_qbevent \in BOOLEAN
    /\ suspend_program \in BOOLEAN /\ close_program \in BOOLEAN /\ stop_program \in BOOLEAN
    /\ dont_call_sub_gl \in BOOLEAN /\ exit_value \in BOOLEAN /\ exit_blocked \in BOOLEAN
    /\ exit_ok \subseteq {1, 2} /\ seen \in [RuntimeThreads -> SUBSET {1, 2}]
    /\ ontimerthread_lock \in 0 .. 2
    /\ queue \in Seq({"post", "get", "exit"})
    /\ answered \subseteq {"post", "get"}
    /\ glut_is_started \in BOOLEAN /\ starter \in BOOLEAN /\ initialized \in BOOLEAN
    /\ exited \in {"no", "qb", "glut", "main"}

\* SUB _GL runs only while the program is inside the poll, in a dialog or parked, as
\* gui_modal_lock_end() says: "Do not resume QB code until that in-flight SUB _GL
\* call has released the cooperative display lock" (libqb.cpp:763-765).  Only the end
\* of the program lets it go on.
InSubGL == rt_pc["glut"] \in {"call", "gl", "gl.pause", "gl.dialog", "gl.release",
                           "alert", "exit"}
SubGLAlone ==
    InSubGL /\ ~stop_program /\ ~close_program =>
        rt_pc["qb"] \in {"evnt", "confirm", "release", "modal.begin", "dialog", "modal.end",
                      "modal.release"}

\* Each frame is acknowledged once and released once, in this order, and a release
\* that the program waits for is always still to come.
LocksInOrder ==
    /\ released <= confirmed /\ confirmed <= wanted /\ request <= wanted
    /\ rt_pc["qb"] \in {"release", "modal.release"} /\ Waits =>
          \/ InSubGL \/ rt_pc["glut"] \in {"grant", "abort"}
          \/ rt_pc["glut"] = "wait" /\ confirmed = wanted

\* The display lock keeps SUB _GL and the program apart, and its counters in order.
GLExcludesProgram == SubGLAlone /\ LocksInOrder

\* A message on its sender's stack is in the queue only while the sender waits, and
\* a sender waits only for a message that is in the queue or finished.
Queued(msg) == \E n \in DOMAIN queue : queue[n] = msg
MessageOwned ==
    /\ Queued("get") => rt_pc["qb"] = "get"
    /\ rt_pc["qb"] = "get" => Queued("get") \/ "get" \in answered
    /\ exited = "no" => (rt_pc["main"] = "exit" <=> Queued("exit"))
    /\ \A m, n \in DOMAIN queue : queue[m] = queue[n] /\ queue[m] # "post" => m = n

\* libqb_exit() calls exit() on the thread of GLUT once GLUT runs (glut-main-thread.cpp:
\* 171-174): no window is being started when main finds that GLUT does not run.
ExitOnGlutThread == exited = "main" => ~glut_is_started

\* Files, HTTP handles and devices are closed when no thread uses them any more: the
\* program and the timer thread have parked.
ClosedAfterParked ==
    rt_pc["main"] \in {"closing", "exits", "queues", "exit"} =>
        rt_pc["qb"] = "parked" /\ rt_pc["timer"] = "parked"

\* glut never waits for ever for the program to acknowledge a frame.
FrameGranted == rt_pc["glut"] = "wait" ~> rt_pc["glut"] # "wait" \/ exited # "no"

\* A program that waits for glut goes on.
ProgramReleased ==
    rt_pc["qb"] \in {"release", "modal.release", "get", "start"}
        ~> rt_pc["qb"] \notin {"release", "modal.release", "get", "start"} \/ exited # "no"

\* Neither waits for the other for ever.
WaitsGranted == FrameGranted /\ ProgramReleased

\* A program that is to end calls exit(): the message queued by libqb_exit() makes GLUT
\* do so (glut-main-thread.cpp:171-177).
Ends == stop_program \/ close_program ~> exited # "no"
=============================================================================
