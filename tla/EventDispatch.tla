---------------------------- MODULE EventDispatch ----------------------------
(***************************************************************************)
(* How an event reaches its BASIC handler: ON KEY, ON STRIG and ON TIMER   *)
(* ... GOSUB.  Another thread counts presses into onkey[i].state (or       *)
(* onstrig[i].state); events() takes one and runs the code generated for   *)
(* the event, which pushes a return point, notes the event in the globals  *)
(* <kind>_event_occurred and <kind>_event_id and calls QBMAIN again;       *)
(* QBMAIN looks at these globals and jumps to the handler's label.         *)
(* (internal/c/qbx.cpp, code generator source/qb64pe.bas)                  *)
(*                                                                         *)
(* Abstractions.  Each slot has one ON ... GOSUB statement, so a slot      *)
(* stands for its event id.  A timer's event is armed in one step (module  *)
(* OnTimer has the details).  Errors and RESUME are in module OnTimer.     *)
(***************************************************************************)
EXTENDS Integers, SequencesExt

CONSTANTS
    NStrigs, NKeys, NTimers, \* slots of each kind
    Unstructured,     \* whether the program uses RETURN label and CLEAR
    StateModulus,     \* onkey[i].state is a uint8: 256 in the code
    MaxPresses,       \* bound: presses, and timer events, in a behaviour
    MaxGosubs         \* bound: height of return_point[] at which GOSUB still pushes

ASSUME EventDispatchAssumption ==
    /\ NStrigs \in Nat /\ NKeys \in Nat /\ NTimers \in Nat
    /\ Unstructured \in BOOLEAN
    /\ StateModulus \in Nat /\ StateModulus > 2
    /\ MaxPresses \in Nat /\ MaxGosubs \in Nat

Kinds == {"strig", "key", "timer"}

\* The slots in the order events() goes through them.
Slot(kind, i) == [kind |-> kind, i |-> i]
Scan == [n \in 1 .. NStrigs |-> Slot("strig", n)] \o [n \in 1 .. NKeys |-> Slot("key", n)]
            \o [n \in 1 .. NTimers |-> Slot("timer", n)]
Slots == ToSet(Scan)
Counted == {s \in Slots : s.kind # "timer"}

\* Mutants of After: the handler moves the cursor of the timers; no recheck.
AfterSkips(n) == CASE Scan[n].kind = "strig" -> 1
                   [] Scan[n].kind = "key" -> NStrigs + 1
                   [] Scan[n].kind = "timer" -> n + 2
AfterGoesOn(n) == n + 1

\* What the cursor restarts from after a handler: onstrig_recheck, onkey_recheck,
\* or the next timer.
After(n) == CASE Scan[n].kind = "strig" -> 1
              [] Scan[n].kind = "key" -> NStrigs + 1
              [] Scan[n].kind = "timer" -> n + 1

NoSlot == Slot("none", 0)

VARIABLES
    active, state,      \* onkey[i].active and .state, onstrig[i], ontimer[i]
    inprogress,         \* onkey_inprogress, onstrig_inprogress
    occurred, event_id, \* <kind>_event_occurred, <kind>_event_id
    return_point,       \* return_point[0 .. next_return_point - 1]
    wrapped,            \* whether next_return_point, a uint32, went below 0
    frames,             \* calls of QBMAIN: the slot they were made for and the
                        \* slot whose handler they run
    qbevent,
    pc, cursor, value,  \* the program; its place in events(), the count it read
    in_pc, in_slot, in_value, \* the input thread: its place in counting a press
    presses, jumped     \* history: presses and timer events so far; whether a
                        \* return point was taken away by RETURN label or CLEAR

input == <<in_slot, in_pc, in_value>>
gosubs == <<occurred, event_id, return_point, wrapped, frames>>
history == <<presses, jumped>>
place == <<pc, cursor, value>>
vars == <<active, state, inprogress, gosubs, qbevent, place, input, history>>

Init ==
    /\ active = [s \in Slots |-> "OFF"]
    /\ state = [s \in Slots |-> 0]
    /\ inprogress = [k \in {"strig", "key"} |-> FALSE]
    /\ occurred = [k \in Kinds |-> 0]
    /\ event_id = [k \in Kinds |-> NoSlot]
    /\ return_point = <<>>
    /\ wrapped = FALSE
    /\ frames = <<>>
    /\ qbevent = FALSE
    /\ pc = "stmt"
    /\ cursor = 1
    /\ value = 0
    /\ in_slot = NoSlot /\ in_pc = "idle" /\ in_value = 0
    /\ presses = 0
    /\ jumped = FALSE

-----------------------------------------------------------------------------
(* The input thread: keydown() for ON KEY, onButtonDown() for ON STRIG, and*)
(* the timer thread.                                                       *)

\* A key or a button whose event is ON or STOPped goes down; ++ reads the count.
PressRead(s) ==
    /\ in_pc = "idle"
    /\ presses < MaxPresses
    /\ active[s] # "OFF"
    /\ in_slot' = s
    /\ in_value' = IF active[s] = "ON" THEN (state[s] + 1) % StateModulus ELSE 1
    /\ presses' = presses + 1
    /\ in_pc' = "store"
    /\ UNCHANGED <<active, state, inprogress, gosubs, qbevent, place, jumped>>

PressStore ==
    /\ in_pc = "store"
    /\ state' = [state EXCEPT ![in_slot] = in_value]
    /\ in_pc' = "raise"
    /\ UNCHANGED <<active, inprogress, gosubs, qbevent, place, in_slot, in_value, history>>

PressRaise ==
    /\ in_pc = "raise"
    /\ qbevent' = TRUE
    /\ in_pc' = "idle"
    /\ UNCHANGED <<active, state, inprogress, gosubs, place, in_slot, in_value, history>>

TimerArms(s) ==
    /\ s.kind = "timer"
    /\ active[s] # "OFF"
    /\ state[s] = 0
    /\ presses < MaxPresses
    /\ presses' = presses + 1
    /\ state' = [state EXCEPT ![s] = 1]
    /\ qbevent' = TRUE
    /\ UNCHANGED <<active, inprogress, gosubs, place, input, jumped>>

InputThread == PressStore \/ PressRaise

-----------------------------------------------------------------------------
(* Statements of the program.                                              *)

\* KEY(i) ON, STRIG(i) ON; TIMER(i) ON raises the flag always.
TurnOn(s) ==
    /\ pc = "stmt"
    /\ active' = [active EXCEPT ![s] = "ON"]
    /\ qbevent' = (qbevent \/ state[s] > 0 \/ s.kind = "timer")
    /\ pc' = "poll"
    /\ UNCHANGED <<state, inprogress, gosubs, cursor, value, input, history>>

\* KEY(i) OFF: active, then state.  TIMER(i) OFF leaves a running handler's state.
TurnOff(s) ==
    /\ pc = "stmt"
    /\ active' = [active EXCEPT ![s] = "OFF"]
    /\ pc' = "off"
    /\ cursor' = CHOOSE n \in DOMAIN Scan : Scan[n] = s
    /\ UNCHANGED <<state, inprogress, gosubs, qbevent, value, input, history>>

\* Mutant of TurnOffForget: a timer's handler in progress is forgotten too.
TurnOffForgetAll ==
    /\ pc = "off"
    /\ state' = [state EXCEPT ![Scan[cursor]] = 0]
    /\ pc' = "poll"
    /\ UNCHANGED <<active, inprogress, gosubs, qbevent, cursor, value, input, history>>

TurnOffForget ==
    /\ pc = "off"
    /\ state' = [state EXCEPT ![Scan[cursor]] =
                    IF Scan[cursor].kind = "timer" /\ @ = 2 THEN 2 ELSE 0]
    /\ pc' = "poll"
    /\ UNCHANGED <<active, inprogress, gosubs, qbevent, cursor, value, input, history>>

\* KEY(i) STOP keeps one press of those queued.
TurnStop(s) ==
    /\ pc = "stmt"
    /\ active' = [active EXCEPT ![s] = "STOP"]
    /\ state' = IF s \in Counted /\ state[s] > 0 THEN [state EXCEPT ![s] = 1] ELSE state
    /\ pc' = "poll"
    /\ UNCHANGED <<inprogress, gosubs, qbevent, cursor, value, input, history>>

OtherStatement ==
    /\ pc = "stmt"
    /\ pc' = "poll"
    /\ UNCHANGED <<active, state, inprogress, gosubs, qbevent, cursor, value, input, history>>

\* GOSUB pushes its own return point, written 1.
Gosub ==
    /\ pc = "stmt"
    /\ ~wrapped /\ Len(return_point) < MaxGosubs
    /\ return_point' = Append(return_point, 1)
    /\ UNCHANGED <<active, state, inprogress, occurred, event_id, wrapped, frames, qbevent,
                   place, input, history>>

\* Mutant of GosubReturn: a 0 is taken for a return point of the program.
GosubReturnAny ==
    /\ pc = "stmt"
    /\ return_point # <<>>
    /\ return_point' = Front(return_point)
    /\ UNCHANGED <<active, state, inprogress, occurred, event_id, wrapped, frames, qbevent,
                   place, input, history>>

\* RETURN to a GOSUB of the program.
GosubReturn ==
    /\ pc = "stmt"
    /\ return_point # <<>> /\ Last(return_point) = 1
    /\ return_point' = Front(return_point)
    /\ UNCHANGED <<active, state, inprogress, occurred, event_id, wrapped, frames, qbevent,
                   place, input, history>>

\* RETURN through a 0: QBMAIN returns to events(), which marks the handler ended
\* and looks again.
HandlerReturn ==
    /\ pc = "stmt"
    /\ return_point # <<>> /\ Last(return_point) = 0
    /\ return_point' = Front(return_point)
    /\ frames' = Front(frames)
    /\ LET n == Last(frames).called IN
       /\ cursor' = After(n)
       /\ IF Scan[n].kind = "timer"
          THEN state' = [state EXCEPT ![Scan[n]] = 0] /\ UNCHANGED inprogress
          ELSE inprogress' = [inprogress EXCEPT ![Scan[n].kind] = FALSE] /\ UNCHANGED state
    /\ pc' = "events"
    /\ UNCHANGED <<active, occurred, event_id, wrapped, qbevent, value, input, history>>

\* RETURN label destroys whatever return point is on top; with none, the count
\* wraps after the error is noted.
ReturnLabel ==
    /\ Unstructured
    /\ pc = "stmt"
    /\ ~wrapped
    /\ IF return_point = <<>> THEN wrapped' = TRUE /\ UNCHANGED return_point
                              ELSE return_point' = Front(return_point) /\ UNCHANGED wrapped
    /\ jumped' = TRUE
    /\ UNCHANGED <<active, state, inprogress, occurred, event_id, frames, qbevent,
                   place, input, presses>>

\* CLEAR "invalidate[s] RETURN location(s)".
Clear ==
    /\ Unstructured
    /\ pc = "stmt"
    /\ return_point' = <<>>
    /\ wrapped' = FALSE
    /\ pc' = "poll"
    /\ jumped' = TRUE
    /\ UNCHANGED <<active, state, inprogress, occurred, event_id, frames, qbevent,
                   cursor, value, input, presses>>

Statement ==
    \/ \E s \in Slots : TurnOn(s) \/ TurnOff(s) \/ TurnStop(s)
    \/ OtherStatement \/ Gosub \/ GosubReturn \/ HandlerReturn \/ ReturnLabel \/ Clear

-----------------------------------------------------------------------------
(* The poll and events().                                                  *)

Poll ==
    /\ pc = "poll"
    /\ pc' = IF qbevent THEN "events" ELSE "stmt"
    /\ qbevent' = FALSE
    /\ cursor' = 1
    /\ UNCHANGED <<active, state, inprogress, gosubs, value, input, history>>

Ready(s) ==
    /\ active[s] = "ON"
    /\ IF s.kind = "timer" THEN state[s] = 1 ELSE state[s] > 0 /\ ~inprogress[s.kind]

EventsSkip ==
    /\ pc = "events"
    /\ cursor <= Len(Scan)
    /\ ~Ready(Scan[cursor])
    /\ cursor' = cursor + 1
    /\ UNCHANGED <<active, state, inprogress, gosubs, qbevent, pc, value, input, history>>

EventsDone ==
    /\ pc = "events"
    /\ cursor > Len(Scan)
    /\ pc' = "stmt"
    /\ UNCHANGED <<active, state, inprogress, gosubs, qbevent, cursor, value, input, history>>

\* An event is taken: the timer's state, or the kind's inprogress flag and, a
\* read and a write later, its count.
EventsTake ==
    /\ pc = "events"
    /\ cursor <= Len(Scan)
    /\ LET s == Scan[cursor] IN
       /\ Ready(s)
       /\ IF s.kind = "timer"
          THEN state' = [state EXCEPT ![s] = 2] /\ pc' = "call" /\ UNCHANGED inprogress
          ELSE /\ inprogress' = [inprogress EXCEPT ![s.kind] = TRUE]
               /\ pc' = "count"
               /\ UNCHANGED state
    /\ UNCHANGED <<active, gosubs, qbevent, cursor, value, input, history>>

\* onkey[i].state--: a read and a write.
EventsCount ==
    /\ pc = "count"
    /\ value' = (state[Scan[cursor]] + StateModulus - 1) % StateModulus
    /\ pc' = "write"
    /\ UNCHANGED <<active, state, inprogress, gosubs, qbevent, cursor, input, history>>

EventsWrite ==
    /\ pc = "write"
    /\ state' = [state EXCEPT ![Scan[cursor]] = value]
    /\ pc' = "call"
    /\ UNCHANGED <<active, inprogress, gosubs, qbevent, cursor, value, input, history>>

\* The kinds QBMAIN tests on entry, in order.
EntryOrder == <<"timer", "key", "strig">>

\* The kind QBMAIN takes for the one that called it: the first with a count.
EntryKind(counts) ==
    EntryOrder[CHOOSE n \in 1 .. 3 : /\ counts[EntryOrder[n]] > 0
                                     /\ \A m \in 1 .. n - 1 : counts[EntryOrder[m]] = 0]

\* Mutant of Handler: the label is that of the slot noted before.
HandlerStale(s, kind) == event_id[kind]

\* The handler it jumps to: of the slot s just noted, or an older one of another kind.
Handler(s, kind) == IF kind = s.kind THEN s ELSE event_id[kind]

\* The generated case: the event is noted, and counted twice, and QBMAIN is entered.
EventsCall ==
    /\ pc = "call"
    /\ ~wrapped
    /\ return_point' = Append(return_point, 0)
    /\ LET s == Scan[cursor]
           noted == [occurred EXCEPT ![s.kind] = @ + 2]
           kind == EntryKind(noted)
       IN /\ event_id' = [event_id EXCEPT ![s.kind] = s]
          /\ occurred' = [noted EXCEPT ![kind] = @ - 1]
          /\ frames' = Append(frames, [called |-> cursor, runs |-> Handler(s, kind)])
    /\ pc' = "stmt"
    /\ UNCHANGED <<active, state, inprogress, wrapped, qbevent, cursor, value, input, history>>

Dispatch ==
    \/ TurnOffForget \/ Poll
    \/ EventsSkip \/ EventsDone
    \/ EventsTake \/ EventsCount \/ EventsWrite \/ EventsCall

Next ==
    \/ \E s \in Counted : PressRead(s)
    \/ \E s \in Slots : TimerArms(s)
    \/ InputThread \/ Statement \/ Dispatch

Spec == Init /\ [][Next]_vars

\* Both threads run; GOSUBs and handlers return, and statements with a poll go on
\* being executed.
FairSpec ==
    /\ Spec
    /\ WF_vars(InputThread)
    /\ WF_vars(Dispatch)
    /\ SF_vars(Statement /\ pc' = "poll")
    /\ SF_vars(GosubReturn)
    /\ SF_vars(HandlerReturn)

-----------------------------------------------------------------------------
\* Types of all variables.
TypeOK ==
    /\ active \in [Slots -> {"OFF", "ON", "STOP"}]
    /\ state \in [Slots -> 0 .. StateModulus - 1]
    /\ inprogress \in [{"strig", "key"} -> BOOLEAN]
    /\ occurred \in [Kinds -> Nat]
    /\ event_id \in [Kinds -> Slots \cup {NoSlot}]
    /\ return_point \in Seq({0, 1})
    /\ wrapped \in BOOLEAN
    /\ frames \in Seq([called : DOMAIN Scan, runs : Slots \cup {NoSlot}])
    /\ qbevent \in BOOLEAN
    /\ pc \in {"stmt", "off", "poll", "events", "count", "write", "call"}
    /\ cursor \in 1 .. Len(Scan) + 1
    /\ value \in 0 .. StateModulus - 1
    /\ in_pc \in {"idle", "store", "raise"}
    /\ in_slot \in Slots \cup {NoSlot}
    /\ in_value \in 0 .. StateModulus - 1
    /\ presses \in 0 .. MaxPresses
    /\ jumped \in BOOLEAN

\* QBMAIN, entered for an event, runs the handler of that event: the counters by
\* which it knows are "inc/dec as each GOSUB to QBMAIN () begins/ends" (qbx.cpp:367).
HandlerIsOwn == \A n \in DOMAIN frames : Scan[frames[n].called] = frames[n].runs

\* Each handler in progress has exactly one 0 among the return points, so that a
\* RETURN through a 0 ends the innermost one (qb64pe.bas:3265-3267); RETURN label
\* and CLEAR take 0s away, but never leave more than handlers.
Zeros == {n \in DOMAIN return_point : return_point[n] = 0}
MarkersMatch ==
    /\ Cardinality(Zeros) <= Len(frames)
    /\ ~jumped => Cardinality(Zeros) = Len(frames)

\* The event events() has taken but not yet called.
Taken(s) == pc \in {"count", "write", "call"} /\ Scan[cursor] = s

Running(s) == \E n \in DOMAIN frames : Scan[frames[n].called] = s

\* A kind is in progress exactly while one handler of it runs, a timer exactly
\* while its own does, and neither is ever entered twice.
InProgressMatches ==
    /\ \A k \in {"strig", "key"} :
          inprogress[k] <=> \E s \in Slots : s.kind = k /\ (Taken(s) \/ Running(s))
    /\ \A s \in Slots \ Counted : state[s] = 2 <=> Taken(s) \/ Running(s)
    /\ \A m, n \in DOMAIN frames :
          LET a == Scan[frames[m].called]  b == Scan[frames[n].called]
          IN (IF a.kind = "timer" THEN a = b ELSE a.kind = b.kind) => m = n

\* Presses of a key or button that stays ON are all handled in the end, those
\* that came while a handler of its kind was running too.
PressServed ==
    \A s \in Counted : (active[s] = "ON" /\ state[s] > 0) ~> (active[s] # "ON" \/ state[s] = 0)
=============================================================================
