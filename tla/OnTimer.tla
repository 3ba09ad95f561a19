------------------------------ MODULE OnTimer ------------------------------
(***************************************************************************)
(* ON TIMER events: the BASIC program (QBMAIN, on its own thread) and the  *)
(* timer thread (TIMERTHREAD) sharing the array ontimer[] and the flag     *)
(* qbevent, without a lock other than the two-way handshake on             *)
(* ontimerthread_lock (internal/c/qbx.cpp).  Each action is one access, or *)
(* one group of accesses, to the shared state that the other thread cannot *)
(* tell from a single one.                                                 *)
(*                                                                         *)
(* Abstractions.  The interval test of the timer thread is a free choice;  *)
(* last_time keeps only whether a measurement is under way.  The id of a   *)
(* timer keeps only whether an ON TIMER statement is registered.  The end  *)
(* of both threads is the subject of module Runtime, the jump into a GOSUB *)
(* handler that of module EventDispatch.                                   *)
(***************************************************************************)
EXTENDS Naturals, SequencesExt

CONSTANTS
    MaxTimers,    \* bound: slots ontimer[] ever grows to
    FreeListSize  \* initial ontimer_freelist_size, 8 in the code

ASSUME OnTimerAssumption ==
    /\ MaxTimers \in Nat \ {0}
    /\ FreeListSize \in Nat \ {0}

Slots == 0 .. MaxTimers - 1

\* The frame of an error handler among the frames of timer handlers.
ErrorFrame == MaxTimers

VARIABLES
    timer,             \* ontimer[]
    nextfree,          \* ontimer_nextfree
    freelist,          \* ontimer_freelist[1 .. ontimer_freelist_available]
    freelist_size,     \* ontimer_freelist_size
    lock,              \* ontimerthread_lock
    qbevent,
    new_error,         \* whether an error is pending
    error_handling,
    t_pc, t_i,         \* the timer thread and its cursor
    q_pc, q_i,         \* the BASIC thread and the slot or cursor it works on
    frames             \* handlers in progress, innermost last

tvars == <<t_pc, t_i>>
errvars == <<new_error, error_handling>>
alloc == <<nextfree, freelist, freelist_size>>
vars == <<timer, alloc, lock, qbevent, errvars, tvars, q_pc, q_i, frames>>

TimerType ==
    [allocated : BOOLEAN, id : BOOLEAN, active : {"OFF", "ON", "STOP"},
     state : {"none", "event", "inprogress"}, measuring : BOOLEAN]

NewTimer == [allocated |-> FALSE, id |-> FALSE, active |-> "OFF",
             state |-> "none", measuring |-> FALSE]

ScanPCs == {"check", "measure", "stamp", "arm", "raise", "next"}
ThreadPCs == {"top", "sleep"} \cup ScanPCs
QbPCs == {"stmt", "poll", "evnt", "events", "grow", "realloc", "init",
          "on.raise", "off.retract", "off.restart", "free.retract",
          "free.release", "setup.restart", "setup.id", "ended"}

Init ==
    /\ timer = [i \in Slots |-> [NewTimer EXCEPT !.allocated = (i = 0)]]
    /\ nextfree = 1
    /\ freelist = <<>>
    /\ freelist_size = FreeListSize
    /\ lock = 0
    /\ qbevent = FALSE
    /\ new_error = FALSE
    /\ error_handling = FALSE
    /\ t_pc = "top"
    /\ t_i = 0
    /\ q_pc = "stmt"
    /\ q_i = 0
    /\ frames = <<>>

-----------------------------------------------------------------------------
(* TIMERTHREAD.                                                            *)

\* Mutant of ThreadTop: any lock that is set is counted up.
ThreadTopCounts ==
    /\ t_pc = "top"
    /\ lock' = IF lock # 0 THEN lock + 1 ELSE lock
    /\ IF lock = 0 THEN t_pc' = "check" /\ t_i' = 0
                   ELSE t_pc' = "sleep" /\ t_i' = t_i
    /\ UNCHANGED <<timer, alloc, qbevent, errvars, q_pc, q_i, frames>>

\* quick_lock: confirm a requested lock, or start a scan when there is none.
ThreadTop ==
    /\ t_pc = "top"
    /\ lock' = IF lock = 1 THEN 2 ELSE lock
    /\ IF lock = 0 THEN t_pc' = "check" /\ t_i' = 0
                   ELSE t_pc' = "sleep" /\ t_i' = t_i
    /\ UNCHANGED <<timer, alloc, qbevent, errvars, q_pc, q_i, frames>>

\* Mutant of ThreadCheck: a handler in progress is not looked at.
ThreadCheckNoState ==
    /\ t_pc = "check"
    /\ t_pc' = IF t_i >= nextfree THEN "sleep"
               ELSE IF /\ timer[t_i].allocated
                       /\ timer[t_i].id
                       /\ timer[t_i].active # "OFF"
                    THEN "measure" ELSE "next"
    /\ UNCHANGED <<timer, alloc, lock, qbevent, errvars, t_i, q_pc, q_i, frames>>

ThreadCheck ==
    /\ t_pc = "check"
    /\ t_pc' = IF t_i >= nextfree THEN "sleep"
               ELSE IF /\ timer[t_i].allocated
                       /\ timer[t_i].id
                       /\ timer[t_i].active # "OFF"
                       /\ timer[t_i].state = "none"
                    THEN "measure" ELSE "next"
    /\ UNCHANGED <<timer, alloc, lock, qbevent, errvars, t_i, q_pc, q_i, frames>>

\* A first look starts the measurement; a later one finds the interval over,
\* or not.
ThreadMeasure ==
    /\ t_pc = "measure"
    /\ IF timer[t_i].measuring
       THEN timer' = timer /\ t_pc' \in {"stamp", "next"}
       ELSE timer' = [timer EXCEPT ![t_i].measuring = TRUE] /\ t_pc' = "next"
    /\ UNCHANGED <<alloc, lock, qbevent, errvars, t_i, q_pc, q_i, frames>>

ThreadStamp ==
    /\ t_pc = "stamp"
    /\ timer' = [timer EXCEPT ![t_i].measuring = TRUE]
    /\ t_pc' = "arm"
    /\ UNCHANGED <<alloc, lock, qbevent, errvars, t_i, q_pc, q_i, frames>>

ThreadArm ==
    /\ t_pc = "arm"
    /\ timer' = [timer EXCEPT ![t_i].state = "event"]
    /\ t_pc' = "raise"
    /\ UNCHANGED <<alloc, lock, qbevent, errvars, t_i, q_pc, q_i, frames>>

ThreadRaise ==
    /\ t_pc = "raise"
    /\ qbevent' = TRUE
    /\ t_pc' = "next"
    /\ UNCHANGED <<timer, alloc, lock, errvars, t_i, q_pc, q_i, frames>>

ThreadNext ==
    /\ t_pc = "next"
    /\ IF lock = 1 THEN t_pc' = "top" /\ t_i' = t_i
                   ELSE t_pc' = "check" /\ t_i' = t_i + 1
    /\ UNCHANGED <<timer, alloc, lock, qbevent, errvars, q_pc, q_i, frames>>

ThreadSleep ==
    /\ t_pc = "sleep"
    /\ t_pc' = "top"
    /\ UNCHANGED <<timer, alloc, lock, qbevent, errvars, t_i, q_pc, q_i, frames>>

TimerThread ==
    \/ ThreadTop \/ ThreadCheck \/ ThreadMeasure \/ ThreadStamp
    \/ ThreadArm \/ ThreadRaise \/ ThreadNext \/ ThreadSleep

-----------------------------------------------------------------------------
(* Statements of the BASIC program.  Every one is followed by a poll.      *)

Usable(i) == i < nextfree /\ timer[i].allocated

\* A statement that touches no timer.
OtherStatement ==
    /\ q_pc = "stmt"
    /\ q_pc' = "poll"
    /\ UNCHANGED <<timer, alloc, lock, qbevent, errvars, tvars, q_i, frames>>

\* Any statement that fails, a timer statement on a bad slot included: error().
StatementError ==
    /\ q_pc = "stmt"
    /\ q_pc' = "poll"
    /\ new_error' = TRUE
    /\ qbevent' = TRUE
    /\ UNCHANGED <<timer, alloc, lock, error_handling, tvars, q_i, frames>>

\* Mutant of FreeTimerReuse: a reused slot starts with a clean state.
FreeTimerReuseResets ==
    /\ q_pc = "stmt"
    /\ freelist # <<>>
    /\ timer' = [timer EXCEPT ![Last(freelist)] = [NewTimer EXCEPT !.allocated = TRUE]]
    /\ freelist' = Front(freelist)
    /\ q_pc' = "poll"
    /\ UNCHANGED <<nextfree, freelist_size, lock, qbevent, errvars, tvars, q_i, frames>>

\* _FREETIMER with a freed slot at hand.
FreeTimerReuse ==
    /\ q_pc = "stmt"
    /\ freelist # <<>>
    /\ LET i == Last(freelist) IN
       timer' = [timer EXCEPT ![i].active = "OFF", ![i].id = FALSE,
                              ![i].allocated = TRUE]
    /\ freelist' = Front(freelist)
    /\ q_pc' = "poll"
    /\ UNCHANGED <<nextfree, freelist_size, lock, qbevent, errvars, tvars, q_i, frames>>

\* _FREETIMER with none: lock the timer thread out, grow ontimer[], unlock.
FreeTimerGrow ==
    /\ q_pc = "stmt"
    /\ freelist = <<>>
    /\ nextfree < MaxTimers
    /\ lock' = 1
    /\ q_pc' = "grow"
    /\ UNCHANGED <<timer, alloc, qbevent, errvars, tvars, q_i, frames>>

\* Mutant of FreeTimerLocked: the confirmation is not awaited.
FreeTimerLockedAtOnce ==
    /\ q_pc = "grow"
    /\ q_pc' = "realloc"
    /\ UNCHANGED <<timer, alloc, lock, qbevent, errvars, tvars, q_i, frames>>

FreeTimerLocked ==
    /\ q_pc = "grow"
    /\ lock # 1
    /\ q_pc' = "realloc"
    /\ UNCHANGED <<timer, alloc, lock, qbevent, errvars, tvars, q_i, frames>>

FreeTimerRealloc ==
    /\ q_pc = "realloc"
    /\ lock' = 0
    /\ q_pc' = "init"
    /\ UNCHANGED <<timer, alloc, qbevent, errvars, tvars, q_i, frames>>

FreeTimerInit ==
    /\ q_pc = "init"
    /\ timer' = [timer EXCEPT ![nextfree].state = "none", ![nextfree].active = "OFF",
                              ![nextfree].id = FALSE, ![nextfree].allocated = TRUE]
    /\ nextfree' = nextfree + 1
    /\ q_pc' = "poll"
    /\ UNCHANGED <<freelist, freelist_size, lock, qbevent, errvars, tvars, q_i, frames>>

Retract(i) ==
    timer' = IF timer[i].state = "event" THEN [timer EXCEPT ![i].state = "none"]
                                         ELSE timer

\* ON TIMER(i, seconds): ontimer_setup, the id last.
Setup(i) ==
    /\ q_pc = "stmt"
    /\ Usable(i)
    /\ Retract(i)
    /\ q_pc' = "setup.restart"
    /\ q_i' = i
    /\ UNCHANGED <<alloc, lock, qbevent, errvars, tvars, frames>>

SetupRestart ==
    /\ q_pc = "setup.restart"
    /\ timer' = [timer EXCEPT ![q_i].measuring = FALSE]
    /\ q_pc' = "setup.id"
    /\ UNCHANGED <<alloc, lock, qbevent, errvars, tvars, q_i, frames>>

SetupId ==
    /\ q_pc = "setup.id"
    /\ timer' = [timer EXCEPT ![q_i].id = TRUE]
    /\ q_pc' = "poll"
    /\ UNCHANGED <<alloc, lock, qbevent, errvars, tvars, q_i, frames>>

\* TIMER(i) ON.
TimerOn(i) ==
    /\ q_pc = "stmt"
    /\ Usable(i)
    /\ timer' = [timer EXCEPT ![i].active = "ON"]
    /\ q_pc' = "on.raise"
    /\ q_i' = i
    /\ UNCHANGED <<alloc, lock, qbevent, errvars, tvars, frames>>

\* Mutant of TimerOnRaise: the flag is left as it is.
TimerOnSilent ==
    /\ q_pc = "on.raise"
    /\ q_pc' = "poll"
    /\ UNCHANGED <<timer, alloc, lock, qbevent, errvars, tvars, q_i, frames>>

TimerOnRaise ==
    /\ q_pc = "on.raise"
    /\ qbevent' = TRUE
    /\ q_pc' = "poll"
    /\ UNCHANGED <<timer, alloc, lock, errvars, tvars, q_i, frames>>

\* TIMER(i) OFF.
TimerOff(i) ==
    /\ q_pc = "stmt"
    /\ Usable(i)
    /\ timer' = [timer EXCEPT ![i].active = "OFF"]
    /\ q_pc' = "off.retract"
    /\ q_i' = i
    /\ UNCHANGED <<alloc, lock, qbevent, errvars, tvars, frames>>

TimerOffRetract ==
    /\ q_pc = "off.retract"
    /\ Retract(q_i)
    /\ q_pc' = "off.restart"
    /\ UNCHANGED <<alloc, lock, qbevent, errvars, tvars, q_i, frames>>

TimerOffRestart ==
    /\ q_pc = "off.restart"
    /\ timer' = [timer EXCEPT ![q_i].measuring = FALSE]
    /\ q_pc' = "poll"
    /\ UNCHANGED <<alloc, lock, qbevent, errvars, tvars, q_i, frames>>

\* TIMER(i) STOP.
TimerStop(i) ==
    /\ q_pc = "stmt"
    /\ Usable(i)
    /\ timer' = [timer EXCEPT ![i].active = "STOP"]
    /\ q_pc' = "poll"
    /\ UNCHANGED <<alloc, lock, qbevent, errvars, tvars, q_i, frames>>

\* Mutant of TimerFree: slot 0 can be freed too.
TimerFreeAny(i) ==
    /\ q_pc = "stmt"
    /\ Usable(i)
    /\ timer' = [timer EXCEPT ![i].active = "OFF"]
    /\ q_pc' = "free.retract"
    /\ q_i' = i
    /\ UNCHANGED <<alloc, lock, qbevent, errvars, tvars, frames>>

\* TIMER(i) FREE: sub_timer, then freetimer.  Slot 0 cannot be freed.
TimerFree(i) ==
    /\ q_pc = "stmt"
    /\ i # 0
    /\ Usable(i)
    /\ timer' = [timer EXCEPT ![i].active = "OFF"]
    /\ q_pc' = "free.retract"
    /\ q_i' = i
    /\ UNCHANGED <<alloc, lock, qbevent, errvars, tvars, frames>>

TimerFreeRetract ==
    /\ q_pc = "free.retract"
    /\ Retract(q_i)
    /\ q_pc' = "free.release"
    /\ UNCHANGED <<alloc, lock, qbevent, errvars, tvars, q_i, frames>>

TimerFreeRelease ==
    /\ q_pc = "free.release"
    /\ timer' = [timer EXCEPT ![q_i].allocated = FALSE, ![q_i].id = FALSE]
    /\ freelist_size' = IF Len(freelist) = freelist_size THEN freelist_size * 2
                                                         ELSE freelist_size
    /\ freelist' = Append(freelist, q_i)
    /\ q_pc' = "poll"
    /\ UNCHANGED <<nextfree, lock, qbevent, errvars, tvars, q_i, frames>>

TimerStatement ==
    \/ FreeTimerReuse \/ FreeTimerGrow
    \/ \E i \in Slots : \/ Setup(i) \/ TimerOn(i) \/ TimerOff(i)
                        \/ TimerStop(i) \/ TimerFree(i)

TimerStatementSteps ==
    \/ FreeTimerLocked \/ FreeTimerRealloc \/ FreeTimerInit
    \/ SetupRestart \/ SetupId
    \/ TimerOnRaise
    \/ TimerOffRetract \/ TimerOffRestart
    \/ TimerFreeRetract \/ TimerFreeRelease

-----------------------------------------------------------------------------
(* The poll after a statement, evnt(), events() and fix_error().           *)

Top == Last(frames)
InHandler == frames # <<>>

\* if (!qbevent) break; evnt(...): evnt clears the flag before all else.
Poll ==
    /\ q_pc = "poll"
    /\ q_pc' = IF qbevent THEN "evnt" ELSE "stmt"
    /\ qbevent' = FALSE
    /\ UNCHANGED <<timer, alloc, lock, errvars, tvars, q_i, frames>>

\* No error: look for events, unless an error handler is running.
EvntEvents ==
    /\ q_pc = "evnt"
    /\ ~new_error
    /\ q_pc' = IF error_handling THEN "stmt" ELSE "events"
    /\ q_i' = 0
    /\ UNCHANGED <<timer, alloc, lock, qbevent, errvars, tvars, frames>>

\* fix_error under ON ERROR GOTO: QBMAIN is called again and jumps to the handler.
EvntFixError ==
    /\ q_pc = "evnt"
    /\ new_error
    /\ ~error_handling
    /\ new_error' = FALSE
    /\ error_handling' = TRUE
    /\ frames' = Append(frames, ErrorFrame)
    /\ q_pc' = "stmt"
    /\ UNCHANGED <<timer, alloc, lock, qbevent, tvars, q_i>>

\* fix_error with no handler to run: the user is asked whether to continue.
EvntUnhandled ==
    /\ q_pc = "evnt"
    /\ new_error
    /\ error_handling
    /\ \/ new_error' = FALSE /\ q_pc' = "stmt"
       \/ new_error' = new_error /\ q_pc' = "ended"
    /\ UNCHANGED <<timer, alloc, lock, qbevent, error_handling, tvars, q_i, frames>>

\* RESUME: the failed statement is executed, and polled, again.
Resume ==
    /\ q_pc = "stmt"
    /\ error_handling /\ InHandler /\ Top = ErrorFrame
    /\ error_handling' = FALSE
    /\ qbevent' = TRUE
    /\ frames' = Front(frames)
    /\ UNCHANGED <<timer, alloc, lock, new_error, tvars, q_pc, q_i>>

\* RESUME NEXT: the program goes on after the failed statement.
ResumeNext ==
    /\ q_pc = "stmt"
    /\ error_handling /\ InHandler /\ Top = ErrorFrame
    /\ error_handling' = FALSE
    /\ frames' = Front(frames)
    /\ UNCHANGED <<timer, alloc, lock, qbevent, new_error, tvars, q_pc, q_i>>

Due(i) ==
    /\ timer[i].allocated
    /\ timer[i].id
    /\ timer[i].active = "ON"
    /\ timer[i].state = "event"

\* events() finds an event: its handler starts.
EventsCall ==
    /\ q_pc = "events"
    /\ q_i < nextfree
    /\ Due(q_i)
    /\ timer' = [timer EXCEPT ![q_i].state = "inprogress"]
    /\ frames' = Append(frames, q_i)
    /\ q_pc' = "stmt"
    /\ UNCHANGED <<alloc, lock, qbevent, errvars, tvars, q_i>>

EventsSkip ==
    /\ q_pc = "events"
    /\ q_i < nextfree
    /\ ~Due(q_i)
    /\ q_i' = q_i + 1
    /\ UNCHANGED <<timer, alloc, lock, qbevent, errvars, tvars, q_pc, frames>>

\* Mutant of EventsDone: the flag is cleared after the scan.
EventsDoneClears ==
    /\ q_pc = "events"
    /\ q_i >= nextfree
    /\ qbevent' = FALSE
    /\ q_pc' = "stmt"
    /\ UNCHANGED <<timer, alloc, lock, errvars, tvars, q_i, frames>>

EventsDone ==
    /\ q_pc = "events"
    /\ q_i >= nextfree
    /\ q_pc' = "stmt"
    /\ UNCHANGED <<timer, alloc, lock, qbevent, errvars, tvars, q_i, frames>>

\* The handler of the innermost timer returns to its events(), which goes on.
HandlerReturn ==
    /\ q_pc = "stmt"
    /\ InHandler /\ Top # ErrorFrame
    /\ timer' = [timer EXCEPT ![Top].state = "none"]
    /\ frames' = Front(frames)
    /\ q_i' = Top + 1
    /\ q_pc' = "events"
    /\ UNCHANGED <<alloc, lock, qbevent, errvars, tvars>>

Dispatch ==
    \/ Poll \/ EvntEvents \/ EvntFixError \/ EvntUnhandled
    \/ Resume \/ ResumeNext
    \/ EventsCall \/ EventsSkip \/ EventsDone \/ HandlerReturn

Program == OtherStatement \/ StatementError \/ TimerStatement
               \/ TimerStatementSteps \/ Dispatch

Next == TimerThread \/ Program

Spec == Init /\ [][Next]_vars

\* A program in which no statement raises an error: after RESUME NEXT an event that was noticed
\* while the error was pending waits for the next one.
ErrorFree == Init /\ [][Next /\ ~new_error']_vars

\* Both threads run; a timer handler, or an error handler, returns in the end.
Fairness ==
    /\ WF_vars(TimerThread)
    /\ WF_vars(Program)
    /\ SF_vars(HandlerReturn)
    /\ SF_vars(Resume \/ ResumeNext)

-----------------------------------------------------------------------------
\* Types of all variables.
TypeOK ==
    /\ timer \in [Slots -> TimerType]
    /\ nextfree \in 1 .. MaxTimers
    /\ freelist \in Seq(Slots)
    /\ freelist_size \in Nat
    /\ lock \in 0 .. 2
    /\ qbevent \in BOOLEAN
    /\ new_error \in BOOLEAN
    /\ error_handling \in BOOLEAN
    /\ t_pc \in ThreadPCs
    /\ t_i \in 0 .. MaxTimers
    /\ q_pc \in QbPCs
    /\ q_i \in 0 .. MaxTimers
    /\ frames \in Seq(0 .. MaxTimers)

\* While _FREETIMER reallocates ontimer[] the timer thread holds no cursor
\* into it: the handshake on ontimerthread_lock is a mutex (qbx.cpp:1374-1380).
ReallocExcludesScan == q_pc = "realloc" => t_pc \notin ScanPCs

\* A slot is marked in progress exactly while its handler is on the stack, and
\* it is there once: an event never starts a handler inside itself, although
\* slots are freed and reused under a running handler (qbx.cpp:1382, 1448).
InProgressIsOnStack ==
    /\ \A i \in Slots : timer[i].state = "inprogress" <=> i \in ToSet(frames)
    /\ IsInjective(frames)

\* The freed slots are those below nextfree that are not allocated, each listed
\* once: no two _FREETIMER calls ever return the same timer.
FreeListExact ==
    /\ ToSet(freelist) = {i \in 1 .. nextfree - 1 : ~timer[i].allocated}
    /\ IsInjective(freelist)

\* An event waiting for a timer that is ON will be noticed: the flag is up, or
\* about to be, or an events() loop has that slot still before it.
NoLostEvent ==
    \A i \in 0 .. nextfree - 1 :
        Due(i) => \/ qbevent
                  \/ t_pc = "raise" /\ t_i = i
                  \/ q_pc \in {"evnt", "on.raise"}
                  \/ q_pc = "events" /\ q_i <= i
                  \/ \E k \in 1 .. Len(frames) : frames[k] < i

\* A timer that was registered and is OFF between statements has no event and
\* no measurement left over: "retract event if not in progress", "when ON is
\* next used, the timer will start over" (qbx.cpp:1449-1450).
OffStartsOver ==
    q_pc \in {"stmt", "poll"} =>
        \A i \in 0 .. nextfree - 1 :
            timer[i].allocated /\ timer[i].id /\ timer[i].active = "OFF" =>
                timer[i].state # "event" /\ ~timer[i].measuring

\* A step of the timer thread never disturbs a handler in progress, and never
\* touches a slot beyond nextfree.
ThreadLeavesRunningAlone ==
    [][t_pc # t_pc' => \A i \in Slots :
          timer[i].state = "inprogress" \/ i >= nextfree => timer'[i] = timer[i]]_vars

\* An event of a timer that stays ON is handled in the end, unless the user ends
\* the program: the poll after each statement and the flag lose none.
EventServed == \A i \in Slots : Due(i) ~> ~Due(i) \/ q_pc = "ended"
=============================================================================
