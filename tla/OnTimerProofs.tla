--------------------------- MODULE OnTimerProofs ---------------------------
(***************************************************************************)
(* What holds of OnTimer for every number of slots: the types, the mutual   *)
(* exclusion of _FREETIMER's realloc and the timer thread's scan, that no   *)
(* handler is entered twice, that the free list is exact, that the timer    *)
(* thread leaves a handler in progress alone, and that no event is lost in  *)
(* a program without errors (NoEventIsLost).                                *)
(***************************************************************************)
EXTENDS OnTimer, StackLemmas, TLAPS

\* What the handshake on ontimerthread_lock goes through: only the BASIC thread
\* requests and releases it, and only an idle timer thread confirms it.
LockInv ==
    /\ lock = 0 <=> q_pc \notin {"grow", "realloc"}
    /\ q_pc = "realloc" => lock = 2
    /\ lock = 2 => t_pc \notin ScanPCs

\* A timer the thread has decided to look at has no event and no handler.
ScanInv ==
    t_pc \in {"measure", "stamp", "arm"} =>
        timer[t_i].state = "none"

\* The slot a statement works on, or the one _FREETIMER is about to create.
CursorInv ==
    /\ q_pc \in {"setup.restart", "setup.id", "on.raise", "off.retract",
                 "off.restart", "free.retract", "free.release"} => q_i < nextfree
    /\ q_pc \in {"grow", "realloc", "init"} => nextfree < MaxTimers
    /\ q_i <= nextfree
    /\ t_pc \in {"measure", "stamp", "arm", "raise", "next"} => t_i < nextfree
    /\ t_i <= nextfree
    /\ \A k \in 1 .. Len(frames) : frames[k] = ErrorFrame \/ frames[k] < nextfree

\* An error handler is on the stack exactly while error_handling is set.
StackInv ==
    /\ InProgressIsOnStack
    /\ ErrorFrame \in ToSet(frames) <=> error_handling

IInv == TypeOK /\ LockInv /\ ScanInv /\ CursorInv /\ StackInv

-----------------------------------------------------------------------------

\* Assigning one field of one slot keeps the type of ontimer[].
LEMMA FieldUpdate ==
    ASSUME NEW t \in [Slots -> TimerType], NEW i \in Slots
    PROVE  /\ [t EXCEPT ![i].measuring = TRUE] \in [Slots -> TimerType]
           /\ [t EXCEPT ![i].measuring = FALSE] \in [Slots -> TimerType]
           /\ [t EXCEPT ![i].id = TRUE] \in [Slots -> TimerType]
           /\ [t EXCEPT ![i].id = FALSE] \in [Slots -> TimerType]
           /\ [t EXCEPT ![i].allocated = TRUE] \in [Slots -> TimerType]
           /\ [t EXCEPT ![i].allocated = FALSE] \in [Slots -> TimerType]
           /\ \A a \in {"OFF", "ON", "STOP"} : [t EXCEPT ![i].active = a] \in [Slots -> TimerType]
           /\ \A e \in {"none", "event", "inprogress"} :
                 [t EXCEPT ![i].state = e] \in [Slots -> TimerType]
  <1>1. t[i] \in TimerType
    OBVIOUS
  <1>2. /\ [t[i] EXCEPT !.measuring = TRUE] \in TimerType
        /\ [t[i] EXCEPT !.measuring = FALSE] \in TimerType
        /\ [t[i] EXCEPT !.id = TRUE] \in TimerType
        /\ [t[i] EXCEPT !.id = FALSE] \in TimerType
        /\ [t[i] EXCEPT !.allocated = TRUE] \in TimerType
        /\ [t[i] EXCEPT !.allocated = FALSE] \in TimerType
    BY <1>1 DEF TimerType
  <1>3. \A a \in {"OFF", "ON", "STOP"} : [t[i] EXCEPT !.active = a] \in TimerType
    BY <1>1 DEF TimerType
  <1>4. \A e \in {"none", "event", "inprogress"} : [t[i] EXCEPT !.state = e] \in TimerType
    BY <1>1 DEF TimerType
  <1>5. \A r \in TimerType : [t EXCEPT ![i] = r] \in [Slots -> TimerType]
    OBVIOUS
  <1>6. QED BY <1>1, <1>2, <1>3, <1>4, <1>5

\* Assigning another field of a slot changes no slot's state.
LEMMA StateKept ==
    ASSUME NEW t \in [Slots -> TimerType], NEW i, NEW j \in Slots
    PROVE  /\ [t EXCEPT ![i].measuring = FALSE][j].state = t[j].state
           /\ [t EXCEPT ![i].id = TRUE][j].state = t[j].state
           /\ [t EXCEPT ![i].allocated = FALSE, ![i].id = FALSE][j].state = t[j].state
  <1>1. t[j] \in TimerType
    OBVIOUS
  <1>2. /\ [t[j] EXCEPT !.measuring = FALSE].state = t[j].state
        /\ [t[j] EXCEPT !.id = TRUE].state = t[j].state
        /\ [[t[j] EXCEPT !.allocated = FALSE] EXCEPT !.id = FALSE].state = t[j].state
    BY <1>1 DEF TimerType
  <1>3. [t EXCEPT ![i].measuring = FALSE][j].state = t[j].state
    BY <1>2
  <1>4. [t EXCEPT ![i].id = TRUE][j].state = t[j].state
    BY <1>2
  <1>5. [t EXCEPT ![i].allocated = FALSE, ![i].id = FALSE][j].state = t[j].state
    BY <1>2
  <1>6. QED BY <1>3, <1>4, <1>5

LEMMA TypeInit == Init => TypeOK
  <1> SUFFICES ASSUME Init PROVE TypeOK
    OBVIOUS
  <1> USE OnTimerAssumption DEF OnTimerAssumption, Init
  <1>1. timer \in [Slots -> TimerType]
    <2>1. \A i \in Slots : [NewTimer EXCEPT !.allocated = (i = 0)] \in TimerType
      BY Zenon DEF TimerType, NewTimer
    <2>2. QED BY <2>1
  <1>2. freelist \in Seq(Slots) /\ frames \in Seq(0 .. MaxTimers)
    OBVIOUS
  <1>3. /\ nextfree \in 1 .. MaxTimers
        /\ freelist_size \in Nat
        /\ lock \in 0 .. 2
        /\ t_i \in 0 .. MaxTimers
        /\ q_i \in 0 .. MaxTimers
    OBVIOUS
  <1>4. /\ qbevent \in BOOLEAN /\ new_error \in BOOLEAN /\ error_handling \in BOOLEAN
        /\ t_pc \in ThreadPCs /\ q_pc \in QbPCs
    BY DEF ThreadPCs, QbPCs
  <1>5. QED BY <1>1, <1>2, <1>3, <1>4 DEF TypeOK

\* The steps of the timer thread keep the types.
LEMMA TypeThread == TypeOK /\ CursorInv /\ TimerThread => TypeOK'
  <1> SUFFICES ASSUME TypeOK, CursorInv, TimerThread PROVE TypeOK'
    OBVIOUS
  <1> USE DEF TypeOK, ThreadPCs, ScanPCs, alloc, errvars
  <1>0. /\ t_pc \in {"measure", "stamp", "arm", "raise", "next"} => t_i \in Slots
        /\ t_pc = "next" => t_i + 1 \in 0 .. MaxTimers
        /\ 0 \in 0 .. MaxTimers
    BY OnTimerAssumption DEF OnTimerAssumption, CursorInv, Slots
  <1>1. CASE ThreadTop BY <1>0, <1>1 DEF ThreadTop
  <1>2. CASE ThreadCheck
    <2>1. t_pc' \in {"sleep", "measure", "next"}
      BY <1>2, Zenon DEF ThreadCheck
    <2>2. QED BY <1>2, <2>1 DEF ThreadCheck
  <1>3. CASE ThreadMeasure
    <2>1. /\ t_pc' \in {"stamp", "next"}
          /\ timer' = timer \/ timer' = [timer EXCEPT ![t_i].measuring = TRUE]
      BY <1>3, Zenon DEF ThreadMeasure
    <2>2. t_i \in Slots
      BY <1>0, <1>3 DEF ThreadMeasure
    <2>3. [timer EXCEPT ![t_i].measuring = TRUE] \in [Slots -> TimerType]
      BY <2>2, FieldUpdate
    <2>4. QED BY <1>3, <2>1, <2>3 DEF ThreadMeasure
  <1>4. CASE ThreadStamp BY <1>4, <1>0, FieldUpdate DEF ThreadStamp
  <1>5. CASE ThreadArm BY <1>5, <1>0, FieldUpdate DEF ThreadArm
  <1>6. CASE ThreadRaise BY <1>6 DEF ThreadRaise
  <1>7. CASE ThreadNext BY <1>7, <1>0 DEF ThreadNext
  <1>8. CASE ThreadSleep BY <1>8 DEF ThreadSleep
  <1>9. QED BY <1>1, <1>2, <1>3, <1>4, <1>5, <1>6, <1>7, <1>8 DEF TimerThread

\* The statements of the program keep the types.
LEMMA TypeStatement ==
    TypeOK /\ CursorInv /\ (OtherStatement \/ StatementError \/ TimerStatement) => TypeOK'
  <1> SUFFICES ASSUME TypeOK, CursorInv,
                      OtherStatement \/ StatementError \/ TimerStatement
               PROVE  TypeOK'
    OBVIOUS
  <1> USE DEF TypeOK, QbPCs, alloc, errvars, tvars
  <1>0. \A i \in Slots : i \in 0 .. MaxTimers
    BY OnTimerAssumption DEF Slots, OnTimerAssumption
  <1>1. CASE OtherStatement BY <1>1 DEF OtherStatement
  <1>2. CASE StatementError BY <1>2 DEF StatementError
  <1>3. CASE FreeTimerReuse
    <2> DEFINE i == Last(freelist)
    <2>1. i \in Slots /\ Front(freelist) \in Seq(Slots)
      BY <1>3, PopProperties DEF FreeTimerReuse
    <2> DEFINE t1 == [timer EXCEPT ![i].active = "OFF"]
               t2 == [t1 EXCEPT ![i].id = FALSE]
    <2>2. t1 \in [Slots -> TimerType]
      BY <2>1, FieldUpdate
    <2>3. t2 \in [Slots -> TimerType]
      BY <2>1, <2>2, FieldUpdate
    <2>4. [t2 EXCEPT ![i].allocated = TRUE] \in [Slots -> TimerType]
      BY <2>1, <2>3, FieldUpdate
    <2>5. timer' = [t2 EXCEPT ![i].allocated = TRUE]
      BY <1>3 DEF FreeTimerReuse
    <2>6. QED BY <1>3, <2>1, <2>4, <2>5 DEF FreeTimerReuse
  <1>4. CASE FreeTimerGrow BY <1>4 DEF FreeTimerGrow
  <1>5. ASSUME NEW i \in Slots, Setup(i) PROVE TypeOK'
    <2>1. timer' \in [Slots -> TimerType]
      BY <1>5, FieldUpdate DEF Setup, Retract
    <2>2. QED BY <1>0, <1>5, <2>1 DEF Setup
  <1>6. ASSUME NEW i \in Slots, TimerOn(i) PROVE TypeOK'
    <2>1. timer' \in [Slots -> TimerType]
      BY <1>6, FieldUpdate DEF TimerOn
    <2>2. QED BY <1>0, <1>6, <2>1 DEF TimerOn
  <1>7. ASSUME NEW i \in Slots, TimerOff(i) PROVE TypeOK'
    <2>1. timer' \in [Slots -> TimerType]
      BY <1>7, FieldUpdate DEF TimerOff
    <2>2. QED BY <1>0, <1>7, <2>1 DEF TimerOff
  <1>8. ASSUME NEW i \in Slots, TimerStop(i) PROVE TypeOK'
    BY <1>8, FieldUpdate DEF TimerStop
  <1>9. ASSUME NEW i \in Slots, TimerFree(i) PROVE TypeOK'
    <2>1. timer' \in [Slots -> TimerType]
      BY <1>9, FieldUpdate DEF TimerFree
    <2>2. QED BY <1>0, <1>9, <2>1 DEF TimerFree
  <1>10. QED
    BY <1>1, <1>2, <1>3, <1>4, <1>5, <1>6, <1>7, <1>8, <1>9 DEF TimerStatement

\* So do the later steps of a timer statement.
LEMMA TypeStatementSteps == TypeOK /\ CursorInv /\ TimerStatementSteps => TypeOK'
  <1> SUFFICES ASSUME TypeOK, CursorInv, TimerStatementSteps PROVE TypeOK'
    OBVIOUS
  <1> USE DEF TypeOK, QbPCs, alloc, errvars, tvars
  <1>0. /\ q_pc \in {"setup.restart", "setup.id", "on.raise", "off.retract",
                     "off.restart", "free.retract", "free.release"} => q_i \in Slots
        /\ q_pc = "init" => nextfree \in Slots /\ nextfree + 1 \in 1 .. MaxTimers
    BY OnTimerAssumption DEF Slots, OnTimerAssumption, CursorInv
  <1>1. CASE FreeTimerLocked BY <1>1 DEF FreeTimerLocked
  <1>2. CASE FreeTimerRealloc BY <1>2 DEF FreeTimerRealloc
  <1>3. CASE FreeTimerInit
    <2> DEFINE i == nextfree
               t1 == [timer EXCEPT ![i].state = "none"]
               t2 == [t1 EXCEPT ![i].active = "OFF"]
               t3 == [t2 EXCEPT ![i].id = FALSE]
    <2>1. i \in Slots
      BY <1>0, <1>3 DEF FreeTimerInit
    <2>2. t1 \in [Slots -> TimerType]
      BY <2>1, FieldUpdate
    <2>3. t2 \in [Slots -> TimerType]
      BY <2>1, <2>2, FieldUpdate
    <2>4. t3 \in [Slots -> TimerType]
      BY <2>1, <2>3, FieldUpdate
    <2>5. [t3 EXCEPT ![i].allocated = TRUE] \in [Slots -> TimerType]
      BY <2>1, <2>4, FieldUpdate
    <2>6. timer' = [t3 EXCEPT ![i].allocated = TRUE]
      BY <1>3 DEF FreeTimerInit
    <2>7. timer' \in [Slots -> TimerType]
      BY <2>5, <2>6
    <2>8. QED BY <1>0, <1>3, <2>7 DEF FreeTimerInit
  <1>4. CASE SetupRestart BY <1>0, <1>4, FieldUpdate DEF SetupRestart
  <1>5. CASE SetupId BY <1>0, <1>5, FieldUpdate DEF SetupId
  <1>6. CASE TimerOnRaise BY <1>6 DEF TimerOnRaise
  <1>7. CASE TimerOffRetract
    <2>1. timer' \in [Slots -> TimerType]
      BY <1>0, <1>7, FieldUpdate DEF TimerOffRetract, Retract
    <2>2. QED BY <1>7, <2>1 DEF TimerOffRetract
  <1>8. CASE TimerOffRestart BY <1>0, <1>8, FieldUpdate DEF TimerOffRestart
  <1>9. CASE TimerFreeRetract
    <2>1. timer' \in [Slots -> TimerType]
      BY <1>0, <1>9, FieldUpdate DEF TimerFreeRetract, Retract
    <2>2. QED BY <1>9, <2>1 DEF TimerFreeRetract
  <1>10. CASE TimerFreeRelease
    <2> DEFINE t1 == [timer EXCEPT ![q_i].allocated = FALSE]
    <2>1. q_i \in Slots
      BY <1>0, <1>10 DEF TimerFreeRelease
    <2>2. freelist' \in Seq(Slots)
      BY <1>10, <2>1 DEF TimerFreeRelease
    <2>3. freelist_size' \in Nat
      BY <1>10 DEF TimerFreeRelease
    <2>4. t1 \in [Slots -> TimerType]
      BY <2>1, FieldUpdate
    <2>5. [t1 EXCEPT ![q_i].id = FALSE] \in [Slots -> TimerType]
      BY <2>1, <2>4, FieldUpdate
    <2>6. timer' = [t1 EXCEPT ![q_i].id = FALSE]
      BY <1>10 DEF TimerFreeRelease
    <2>7. QED BY <1>10, <2>2, <2>3, <2>5, <2>6 DEF TimerFreeRelease
  <1>11. QED
    BY <1>1, <1>2, <1>3, <1>4, <1>5, <1>6, <1>7, <1>8, <1>9, <1>10
       DEF TimerStatementSteps

\* And the dispatch of events and errors.
LEMMA TypeDispatch == TypeOK /\ CursorInv /\ Dispatch => TypeOK'
  <1> SUFFICES ASSUME TypeOK, CursorInv, Dispatch PROVE TypeOK'
    OBVIOUS
  <1> USE DEF TypeOK, QbPCs, alloc, errvars, tvars
  <1>0. /\ Slots \subseteq 0 .. MaxTimers
        /\ ErrorFrame \in 0 .. MaxTimers
        /\ q_i < nextfree => q_i \in Slots
        /\ \A i \in 0 .. MaxTimers : i # ErrorFrame => i \in Slots /\ i + 1 \in 0 .. MaxTimers
    BY OnTimerAssumption DEF Slots, ErrorFrame, OnTimerAssumption
  <1>1. CASE Poll BY <1>1 DEF Poll
  <1>2. CASE EvntEvents BY <1>2, OnTimerAssumption DEF EvntEvents, OnTimerAssumption
  <1>3. CASE EvntFixError
    <2>1. frames' \in Seq(0 .. MaxTimers)
      BY <1>0, <1>3, AppendProperties DEF EvntFixError
    <2>2. QED BY <1>3, <2>1 DEF EvntFixError
  <1>4. CASE EvntUnhandled BY <1>4 DEF EvntUnhandled
  <1>5. CASE Resume BY <1>5, PopProperties DEF Resume, InHandler
  <1>6. CASE ResumeNext BY <1>6, PopProperties DEF ResumeNext, InHandler
  <1>7. CASE EventsCall
    <2>1. q_i \in Slots
      BY <1>0, <1>7 DEF EventsCall
    <2>2. timer' \in [Slots -> TimerType]
      BY <1>7, <2>1, FieldUpdate DEF EventsCall
    <2>3. frames' \in Seq(0 .. MaxTimers)
      BY <1>7, AppendProperties DEF EventsCall
    <2>4. QED BY <1>7, <2>2, <2>3 DEF EventsCall
  <1>8. CASE EventsSkip
    <2>1. q_i + 1 \in 0 .. MaxTimers
      BY <1>8, OnTimerAssumption DEF EventsSkip, OnTimerAssumption
    <2>2. QED BY <1>8, <2>1 DEF EventsSkip
  <1>9. CASE EventsDone BY <1>9 DEF EventsDone
  <1>10. CASE HandlerReturn
    <2>1. Front(frames) \in Seq(0 .. MaxTimers) /\ Last(frames) \in 0 .. MaxTimers
      BY <1>10, PopProperties DEF HandlerReturn, InHandler
    <2>2. Last(frames) \in Slots /\ Last(frames) + 1 \in 0 .. MaxTimers
      BY <1>0, <1>10, <2>1 DEF HandlerReturn, Top
    <2>3. timer' \in [Slots -> TimerType]
      BY <1>10, <2>2, FieldUpdate DEF HandlerReturn, Top
    <2>4. QED BY <1>10, <2>1, <2>2, <2>3 DEF HandlerReturn, Top
  <1>11. QED
    BY <1>1, <1>2, <1>3, <1>4, <1>5, <1>6, <1>7, <1>8, <1>9, <1>10 DEF Dispatch

LEMMA TypeStep == TypeOK /\ CursorInv /\ [Next]_vars => TypeOK'
  <1>1. TypeOK /\ UNCHANGED vars => TypeOK'
    BY DEF TypeOK, vars, alloc, errvars, tvars
  <1>2. QED
    BY <1>1, TypeThread, TypeStatement, TypeStatementSteps, TypeDispatch
       DEF Next, Program

-----------------------------------------------------------------------------

\* Every step keeps the handshake: a confirmed lock finds no scan under way.
LEMMA LockStep == TypeOK /\ LockInv /\ [Next]_vars => LockInv'
  <1> SUFFICES ASSUME TypeOK, LockInv, [Next]_vars PROVE LockInv'
    OBVIOUS
  <1> USE DEF LockInv, TypeOK, ScanPCs
  <1>1. CASE TimerThread
    <2>1. CASE ThreadTop BY <2>1 DEF ThreadTop
    <2>2. CASE ThreadCheck
      <3>1. lock' = lock /\ q_pc' = q_pc /\ t_pc = "check"
        BY <2>2 DEF ThreadCheck
      <3>2. QED BY <3>1
    <2>3. CASE ThreadMeasure
      <3>1. lock' = lock /\ q_pc' = q_pc /\ t_pc = "measure"
        BY <2>3 DEF ThreadMeasure
      <3>2. QED BY <3>1
    <2>4. CASE ThreadStamp BY <2>4 DEF ThreadStamp
    <2>5. CASE ThreadArm BY <2>5 DEF ThreadArm
    <2>6. CASE ThreadRaise BY <2>6 DEF ThreadRaise
    <2>7. CASE ThreadNext BY <2>7 DEF ThreadNext
    <2>8. CASE ThreadSleep BY <2>8 DEF ThreadSleep
    <2>9. QED
      BY <1>1, <2>1, <2>2, <2>3, <2>4, <2>5, <2>6, <2>7, <2>8 DEF TimerThread
  <1>2. CASE FreeTimerGrow BY <1>2 DEF FreeTimerGrow, tvars
  <1>3. CASE FreeTimerLocked BY <1>3 DEF FreeTimerLocked, tvars
  <1>4. CASE FreeTimerRealloc BY <1>4 DEF FreeTimerRealloc, tvars
  <1>5. CASE /\ q_pc \notin {"grow", "realloc"}
             /\ q_pc' \notin {"grow", "realloc"}
             /\ UNCHANGED <<lock, t_pc>>
    BY <1>5
  <1>6. ASSUME OtherStatement \/ StatementError \/ FreeTimerReuse
                 \/ \E i \in Slots : \/ Setup(i) \/ TimerOn(i) \/ TimerOff(i)
                                     \/ TimerStop(i) \/ TimerFree(i)
        PROVE  LockInv'
    BY <1>5, <1>6 DEF OtherStatement, StatementError, FreeTimerReuse, Setup, TimerOn,
                      TimerOff, TimerStop, TimerFree, tvars
  <1>7. ASSUME \/ FreeTimerInit \/ SetupRestart \/ SetupId \/ TimerOnRaise
               \/ TimerOffRetract \/ TimerOffRestart
               \/ TimerFreeRetract \/ TimerFreeRelease
        PROVE  LockInv'
    BY <1>5, <1>7 DEF FreeTimerInit, SetupRestart, SetupId, TimerOnRaise, TimerOffRetract,
                      TimerOffRestart, TimerFreeRetract, TimerFreeRelease, tvars
  <1>8. ASSUME Dispatch PROVE LockInv'
    <2>1. CASE Poll
      <3>1. q_pc' \in {"evnt", "stmt"}
        BY <2>1 DEF Poll
      <3>2. QED BY <1>5, <2>1, <3>1 DEF Poll, tvars
    <2>2. CASE EvntEvents
      <3>1. q_pc' \in {"events", "stmt"}
        BY <2>2 DEF EvntEvents
      <3>2. QED BY <1>5, <2>2, <3>1 DEF EvntEvents, tvars
    <2>3. CASE EvntFixError \/ EvntUnhandled
      BY <1>5, <2>3 DEF EvntFixError, EvntUnhandled, tvars
    <2>4. CASE Resume \/ ResumeNext
      BY <1>5, <2>4 DEF Resume, ResumeNext, tvars
    <2>5. CASE EventsCall \/ EventsSkip \/ EventsDone \/ HandlerReturn
      BY <1>5, <2>5 DEF EventsCall, EventsSkip, EventsDone, HandlerReturn, tvars
    <2>6. QED BY <1>8, <2>1, <2>2, <2>3, <2>4, <2>5 DEF Dispatch
  <1>9. CASE UNCHANGED vars BY <1>9 DEF vars, tvars
  <1>10. QED
    BY <1>1, <1>2, <1>3, <1>4, <1>6, <1>7, <1>8, <1>9
       DEF Next, Program, TimerStatement, TimerStatementSteps

\* A slot in the thread's hands gets no event and no handler from the program.
LEMMA ScanStep == IInv /\ [Next]_vars => ScanInv'
  <1> SUFFICES ASSUME IInv, [Next]_vars PROVE ScanInv'
    OBVIOUS
  <1> USE DEF ScanInv, TypeOK, IInv
  <1>0. t_pc \in {"measure", "stamp", "arm"} => t_i \in Slots
    BY OnTimerAssumption DEF CursorInv, Slots, OnTimerAssumption
  <1>1. CASE TimerThread
    <2>1. CASE ThreadCheck
      <3>1. t_pc' = "measure" => timer[t_i].state = "none"
        BY <2>1 DEF ThreadCheck
      <3>2. t_pc' \in {"sleep", "measure", "next"} /\ t_i' = t_i /\ timer' = timer
        BY <2>1, Zenon DEF ThreadCheck
      <3>3. QED BY <3>1, <3>2
    <2>2. CASE ThreadMeasure
      <3>1. /\ t_pc = "measure" /\ t_i' = t_i
            /\ timer' = timer \/ timer' = [timer EXCEPT ![t_i].measuring = TRUE]
        BY <2>2 DEF ThreadMeasure
      <3>2. [timer EXCEPT ![t_i].measuring = TRUE][t_i].state = timer[t_i].state
        BY <1>0, <3>1 DEF TimerType
      <3>3. QED BY <3>1, <3>2
    <2>3. CASE ThreadStamp BY <1>0, <2>3 DEF ThreadStamp, TimerType
    <2>4. CASE ThreadTop BY <2>4 DEF ThreadTop
    <2>5. CASE ThreadArm \/ ThreadRaise \/ ThreadNext \/ ThreadSleep
      BY <2>5 DEF ThreadArm, ThreadRaise, ThreadNext, ThreadSleep
    <2>6. QED BY <1>1, <2>1, <2>2, <2>3, <2>4, <2>5 DEF TimerThread
  <1>2. CASE UNCHANGED <<t_pc, t_i>> /\ t_pc \notin {"measure", "stamp", "arm"}
    BY <1>2
  <1>3. CASE /\ UNCHANGED <<t_pc, t_i>>
             /\ t_pc \in {"measure", "stamp", "arm"}
             /\ timer[t_i].state = "none" => timer'[t_i].state = "none"
    BY <1>3
  <1>4. CASE UNCHANGED tvars /\ t_pc \in {"measure", "stamp", "arm"} /\ ~TimerThread
    <2> USE <1>0, <1>4 DEF tvars
    <2>1. CASE UNCHANGED timer
      BY <1>3, <2>1
    <2>2. CASE FreeTimerReuse
      <3>1. Last(freelist) \in Slots
        BY <2>2, PopProperties DEF FreeTimerReuse
      <3>2. timer'[t_i].state = timer[t_i].state
        BY <2>2, <3>1 DEF FreeTimerReuse, TimerType
      <3>3. QED BY <1>3, <3>2
    <2>3. ASSUME NEW i \in Slots,
                 Setup(i) \/ TimerOn(i) \/ TimerOff(i) \/ TimerStop(i) \/ TimerFree(i)
          PROVE  ScanInv'
      <3>1. timer[t_i].state = "none" => timer'[t_i].state = "none"
        BY <2>3 DEF Setup, Retract, TimerOn, TimerOff, TimerStop, TimerFree, TimerType
      <3>2. QED BY <1>3, <3>1
    <2>4. CASE FreeTimerInit
      <3>1. timer[t_i].state = "none" => timer'[t_i].state = "none"
        BY <2>4 DEF FreeTimerInit, TimerType
      <3>2. QED BY <1>3, <3>1
    <2>5. CASE SetupRestart \/ SetupId \/ TimerOffRetract \/ TimerOffRestart
                 \/ TimerFreeRetract \/ TimerFreeRelease
      <3>1. timer[t_i].state = "none" => timer'[t_i].state = "none"
        <4>1. CASE SetupRestart \/ TimerOffRestart
          <5>1. timer' = [timer EXCEPT ![q_i].measuring = FALSE]
            BY <4>1 DEF SetupRestart, TimerOffRestart
          <5>2. QED BY <1>0, <1>4, <5>1, StateKept
        <4>2. CASE SetupId
          <5>1. timer' = [timer EXCEPT ![q_i].id = TRUE]
            BY <4>2 DEF SetupId
          <5>2. QED BY <1>0, <1>4, <5>1, StateKept
        <4>3. CASE TimerOffRetract \/ TimerFreeRetract
          BY <4>3 DEF TimerOffRetract, TimerFreeRetract, Retract, TimerType
        <4>4. CASE TimerFreeRelease
          <5>1. timer' = [timer EXCEPT ![q_i].allocated = FALSE, ![q_i].id = FALSE]
            BY <4>4 DEF TimerFreeRelease
          <5>2. QED BY <1>0, <1>4, <5>1, StateKept
        <4>5. QED BY <2>5, <4>1, <4>2, <4>3, <4>4
      <3>2. QED BY <1>3, <3>1
    <2>6. CASE EventsCall
      <3>1. timer[t_i].state = "none" => timer'[t_i].state = "none"
        BY <2>6 DEF EventsCall, Due, TimerType
      <3>2. QED BY <1>3, <3>1
    <2>7. CASE HandlerReturn
      <3>1. timer[t_i].state = "none" => timer'[t_i].state = "none"
        BY <2>7 DEF HandlerReturn, TimerType
      <3>2. QED BY <1>3, <3>1
    <2>8. QED
      BY <2>1, <2>2, <2>3, <2>4, <2>5, <2>6, <2>7
         DEF Next, Program, OtherStatement, StatementError, TimerStatement,
             FreeTimerGrow, TimerStatementSteps, FreeTimerLocked, FreeTimerRealloc,
             TimerOnRaise, Dispatch, Poll, EvntEvents, EvntFixError, EvntUnhandled,
             Resume, ResumeNext, EventsSkip, EventsDone, vars
  <1>5. [Next]_vars => TimerThread \/ UNCHANGED tvars
    BY DEF Next, Program, OtherStatement, StatementError, TimerStatement,
           FreeTimerReuse, FreeTimerGrow, Setup, TimerOn, TimerOff, TimerStop, TimerFree,
           TimerStatementSteps, FreeTimerLocked, FreeTimerRealloc, FreeTimerInit,
           SetupRestart, SetupId, TimerOnRaise, TimerOffRetract, TimerOffRestart,
           TimerFreeRetract, TimerFreeRelease, Dispatch, Poll, EvntEvents,
           EvntFixError, EvntUnhandled, Resume, ResumeNext, EventsCall, EventsSkip,
           EventsDone, HandlerReturn, vars
  <1>6. QED
    BY <1>1, <1>2, <1>4, <1>5 DEF tvars

\* Cursors and slots in use stay below nextfree, which only grows.
LEMMA CursorStep == IInv /\ [Next]_vars => CursorInv'
  <1> SUFFICES ASSUME IInv, [Next]_vars PROVE CursorInv'
    OBVIOUS
  <1> USE DEF CursorInv, TypeOK, IInv
  <1>0. /\ nextfree \in Nat /\ nextfree <= MaxTimers /\ MaxTimers \in Nat
        /\ \A i \in Slots : i \in Nat
    BY OnTimerAssumption DEF OnTimerAssumption, Slots
  <1>8. frames # <<>> =>
          /\ Last(frames) \in 0 .. MaxTimers
          /\ Last(frames) = ErrorFrame \/ Last(frames) < nextfree
          /\ \A k \in 1 .. Len(Front(frames)) :
                Front(frames)[k] = ErrorFrame \/ Front(frames)[k] < nextfree
    <2>1. frames # <<>> =>
            /\ Last(frames) \in 0 .. MaxTimers
            /\ Len(frames) \in Nat /\ Len(frames) > 0
            /\ Len(Front(frames)) = Len(frames) - 1
            /\ \A k \in 1 .. Len(frames) - 1 : Front(frames)[k] = frames[k]
            /\ Last(frames) = frames[Len(frames)]
      BY PopProperties
    <2>2. QED BY <2>1
  <1>1. CASE TimerThread
    <2> USE DEF alloc
    <2>1. CASE ThreadTop BY <2>1 DEF ThreadTop
    <2>2. CASE ThreadCheck
      <3>1. t_pc' \in {"sleep", "measure", "next"}
        BY <2>2, Zenon DEF ThreadCheck
      <3>2. t_i >= nextfree => t_pc' = "sleep"
        BY <2>2 DEF ThreadCheck
      <3>3. UNCHANGED <<nextfree, t_i, q_pc, q_i, frames>>
        BY <2>2 DEF ThreadCheck
      <3>4. QED BY <1>0, <3>1, <3>2, <3>3
    <2>3. CASE ThreadMeasure
      <3>1. t_pc = "measure" /\ UNCHANGED <<nextfree, t_i, q_pc, q_i, frames>>
        BY <2>3 DEF ThreadMeasure
      <3>2. QED BY <3>1
    <2>4. CASE ThreadStamp BY <2>4 DEF ThreadStamp
    <2>5. CASE ThreadArm BY <2>5 DEF ThreadArm
    <2>6. CASE ThreadRaise BY <2>6 DEF ThreadRaise
    <2>7. CASE ThreadNext BY <2>7 DEF ThreadNext
    <2>8. CASE ThreadSleep BY <2>8 DEF ThreadSleep
    <2>9. QED
      BY <1>1, <2>1, <2>2, <2>3, <2>4, <2>5, <2>6, <2>7, <2>8 DEF TimerThread
  <1>2. CASE TimerStatement
    <2> USE DEF alloc, tvars
    <2>1. CASE FreeTimerReuse BY <2>1 DEF FreeTimerReuse
    <2>2. CASE FreeTimerGrow BY <2>2 DEF FreeTimerGrow
    <2>3. ASSUME NEW i \in Slots,
                 Setup(i) \/ TimerOn(i) \/ TimerOff(i) \/ TimerFree(i)
          PROVE  CursorInv'
      <3>1. q_i' < nextfree /\ q_i' <= nextfree
        BY <1>0, <2>3 DEF Setup, TimerOn, TimerOff, TimerFree, Usable
      <3>2. QED BY <2>3, <3>1 DEF Setup, TimerOn, TimerOff, TimerFree
    <2>4. ASSUME NEW i \in Slots, TimerStop(i) PROVE CursorInv'
      BY <2>4 DEF TimerStop
    <2>5. QED BY <1>2, <2>1, <2>2, <2>3, <2>4 DEF TimerStatement
  <1>3. CASE TimerStatementSteps
    <2> USE DEF alloc, tvars
    <2>1. CASE FreeTimerLocked \/ FreeTimerRealloc
      BY <2>1 DEF FreeTimerLocked, FreeTimerRealloc
    <2>2. CASE FreeTimerInit
      BY <1>0, <2>2 DEF FreeTimerInit
    <2>3. CASE SetupRestart \/ SetupId \/ TimerOnRaise
      BY <2>3 DEF SetupRestart, SetupId, TimerOnRaise
    <2>4. CASE TimerOffRetract \/ TimerOffRestart
      BY <2>4 DEF TimerOffRetract, TimerOffRestart
    <2>5. CASE TimerFreeRetract \/ TimerFreeRelease
      BY <2>5 DEF TimerFreeRetract, TimerFreeRelease
    <2>6. QED BY <1>3, <2>1, <2>2, <2>3, <2>4, <2>5 DEF TimerStatementSteps
  <1>4. CASE OtherStatement \/ StatementError
    BY <1>4 DEF OtherStatement, StatementError, alloc, tvars
  <1>5. CASE Dispatch
    <2> USE DEF alloc, tvars
    <2>1. CASE Poll
      <3>1. q_pc' \in {"evnt", "stmt"}
        BY <2>1 DEF Poll
      <3>2. QED BY <2>1, <3>1 DEF Poll
    <2>2. CASE EvntEvents
      <3>1. q_pc' \in {"events", "stmt"}
        BY <2>2 DEF EvntEvents
      <3>2. QED BY <1>0, <2>2, <3>1 DEF EvntEvents
    <2>3. CASE EvntFixError
      <3>1. \A k \in 1 .. Len(frames') : frames'[k] = ErrorFrame \/ frames'[k] < nextfree
        <4>1. ErrorFrame \in 0 .. MaxTimers
          BY <1>0 DEF ErrorFrame
        <4>2. QED BY <2>3, <4>1, AppendProperties DEF EvntFixError
      <3>2. QED BY <2>3, <3>1 DEF EvntFixError
    <2>4. CASE EvntUnhandled BY <2>4 DEF EvntUnhandled
    <2>5. CASE Resume \/ ResumeNext
      <3>1. frames # <<>> /\ frames' = Front(frames)
        BY <2>5 DEF Resume, ResumeNext, InHandler
      <3>2. \A k \in 1 .. Len(frames') : frames'[k] = ErrorFrame \/ frames'[k] < nextfree
        BY <1>8, <3>1
      <3>3. QED BY <2>5, <3>2 DEF Resume, ResumeNext
    <2>6. CASE EventsCall
      <3>1. \A k \in 1 .. Len(frames') : frames'[k] = ErrorFrame \/ frames'[k] < nextfree
        BY <2>6, AppendProperties DEF EventsCall
      <3>2. QED BY <2>6, <3>1 DEF EventsCall
    <2>7. CASE EventsSkip BY <1>0, <2>7 DEF EventsSkip
    <2>8. CASE EventsDone BY <2>8 DEF EventsDone
    <2>9. CASE HandlerReturn
      <3>1. frames # <<>> /\ frames' = Front(frames) /\ Top # ErrorFrame
        BY <2>9 DEF HandlerReturn, InHandler
      <3>2. /\ \A k \in 1 .. Len(frames') : frames'[k] = ErrorFrame \/ frames'[k] < nextfree
            /\ Top < nextfree /\ Top \in 0 .. MaxTimers
        BY <1>8, <3>1 DEF Top
      <3>3. Top + 1 <= nextfree
        BY <1>0, <3>2
      <3>4. q_i' <= nextfree
        BY <2>9, <3>3 DEF HandlerReturn
      <3>5. QED BY <2>9, <3>2, <3>4 DEF HandlerReturn
    <2>10. QED
      BY <1>5, <2>1, <2>2, <2>3, <2>4, <2>5, <2>6, <2>7, <2>8, <2>9 DEF Dispatch
  <1>6. CASE UNCHANGED vars BY <1>6 DEF vars, alloc, tvars
  <1>7. QED BY <1>1, <1>2, <1>3, <1>4, <1>5, <1>6 DEF Next, Program

\* Starting a handler that is not running yet keeps the stack without repetition.
LEMMA FramePush ==
    ASSUME frames \in Seq(0 .. MaxTimers), IsInjective(frames)
    PROVE  \A e \in 0 .. MaxTimers : e \notin ToSet(frames) =>
             /\ ToSet(Append(frames, e)) = ToSet(frames) \cup {e}
             /\ IsInjective(Append(frames, e))
  <1>1. SUFFICES ASSUME NEW e \in 0 .. MaxTimers, e \notin ToSet(frames)
                 PROVE  /\ ToSet(Append(frames, e)) = ToSet(frames) \cup {e}
                        /\ IsInjective(Append(frames, e))
    OBVIOUS
  <1> DEFINE S == 0 .. MaxTimers
  <1> HIDE DEF S
  <1>2. frames \in Seq(S) /\ e \in S
    BY DEF S
  <1>3. /\ ToSet(Append(frames, e)) = ToSet(frames) \cup {e}
        /\ IsInjective(frames) /\ e \notin ToSet(frames) => IsInjective(Append(frames, e))
    BY <1>2, PushInjective
  <1>4. QED BY <1>1, <1>3

\* The handlers on the stack and the slots marked in progress change together.
LEMMA StackStep == IInv /\ [Next]_vars => StackInv'
  <1> SUFFICES ASSUME IInv, [Next]_vars PROVE StackInv'
    OBVIOUS
  <1>a. frames \in Seq(0 .. MaxTimers) /\ IsInjective(frames)
    BY DEF IInv, TypeOK, StackInv, InProgressIsOnStack
  <1>p. \A e \in 0 .. MaxTimers : e \notin ToSet(frames) =>
          /\ ToSet(Append(frames, e)) = ToSet(frames) \cup {e}
          /\ IsInjective(Append(frames, e))
    BY <1>a, FramePush
  <1> USE DEF StackInv, InProgressIsOnStack, TypeOK, IInv
  <1>0. /\ ErrorFrame \notin Slots /\ ErrorFrame \in 0 .. MaxTimers
        /\ Slots \subseteq 0 .. MaxTimers
        /\ nextfree # ErrorFrame => nextfree \in Slots
        /\ \A i \in 0 .. MaxTimers : i # ErrorFrame => i \in Slots
    BY OnTimerAssumption DEF OnTimerAssumption, Slots, ErrorFrame
  <1>1. CASE /\ UNCHANGED <<frames, error_handling>>
             /\ \A i \in Slots :
                  timer'[i].state = "inprogress" <=> timer[i].state = "inprogress"
    BY <1>1
  <1>2. CASE UNCHANGED <<timer, frames, error_handling>>
    BY <1>2
  <1>3. ASSUME TimerThread PROVE StackInv'
    <2> USE DEF errvars
    <2>1. CASE ThreadMeasure
      <3>1. /\ t_pc = "measure" /\ UNCHANGED <<frames, error_handling>>
            /\ timer' = timer \/ timer' = [timer EXCEPT ![t_i].measuring = TRUE]
        BY <2>1 DEF ThreadMeasure
      <3>2. \A i \in Slots :
               [timer EXCEPT ![t_i].measuring = TRUE][i].state = timer[i].state
        BY DEF TimerType
      <3>3. QED BY <1>1, <3>1, <3>2
    <2>2. CASE ThreadStamp
      <3>1. \A i \in Slots : timer'[i].state = timer[i].state
        BY <2>2 DEF ThreadStamp, TimerType
      <3>2. QED BY <1>1, <2>2, <3>1 DEF ThreadStamp
    <2>3. CASE ThreadArm
      <3>1. timer[t_i].state = "none"
        BY <2>3 DEF ThreadArm, ScanInv
      <3>2. \A i \in Slots :
              timer'[i].state = "inprogress" <=> timer[i].state = "inprogress"
        BY <2>3, <3>1 DEF ThreadArm, TimerType
      <3>3. QED BY <1>1, <2>3, <3>2 DEF ThreadArm
    <2>4. CASE ThreadTop \/ ThreadCheck \/ ThreadRaise \/ ThreadNext \/ ThreadSleep
      BY <1>2, <2>4 DEF ThreadTop, ThreadCheck, ThreadRaise, ThreadNext, ThreadSleep
    <2>5. QED BY <1>3, <2>1, <2>2, <2>3, <2>4 DEF TimerThread
  <1>4. ASSUME TimerStatement PROVE StackInv'
    <2> USE DEF errvars
    <2>1. CASE FreeTimerReuse
      <3>1. Last(freelist) \in Slots
        BY <2>1, PopProperties DEF FreeTimerReuse
      <3>2. \A i \in Slots : timer'[i].state = timer[i].state
        BY <2>1, <3>1 DEF FreeTimerReuse, TimerType
      <3>3. QED BY <1>1, <2>1, <3>2 DEF FreeTimerReuse
    <2>2. CASE FreeTimerGrow BY <1>2, <2>2 DEF FreeTimerGrow
    <2>3. ASSUME NEW j \in Slots,
                 Setup(j) \/ TimerOn(j) \/ TimerOff(j) \/ TimerStop(j) \/ TimerFree(j)
          PROVE  StackInv'
      <3>1. \A i \in Slots :
              timer'[i].state = "inprogress" <=> timer[i].state = "inprogress"
        <4>1. CASE Setup(j)
          BY <4>1 DEF Setup, Retract, TimerType
        <4>2. CASE TimerOn(j) \/ TimerStop(j)
          <5>1. \E a \in {"ON", "STOP"} : timer' = [timer EXCEPT ![j].active = a]
            BY <4>2 DEF TimerOn, TimerStop
          <5>2. QED BY <5>1 DEF TimerType
        <4>3. CASE TimerOff(j) \/ TimerFree(j)
          <5>1. timer' = [timer EXCEPT ![j].active = "OFF"]
            BY <4>3 DEF TimerOff, TimerFree
          <5>2. QED BY <5>1 DEF TimerType
        <4>4. QED BY <2>3, <4>1, <4>2, <4>3
      <3>2. QED
        BY <1>1, <2>3, <3>1 DEF Setup, TimerOn, TimerOff, TimerStop, TimerFree
    <2>4. QED BY <1>4, <2>1, <2>2, <2>3 DEF TimerStatement
  <1>5. ASSUME TimerStatementSteps PROVE StackInv'
    <2> USE DEF errvars
    <2>1. CASE FreeTimerInit
      <3>0. nextfree < MaxTimers /\ nextfree \in Nat
        BY <2>1, OnTimerAssumption DEF FreeTimerInit, CursorInv, OnTimerAssumption
      <3>1. nextfree \in Slots /\ nextfree \notin ToSet(frames)
        <4>1. \A k \in 1 .. Len(frames) : frames[k] # nextfree
          BY <3>0, OnTimerAssumption DEF CursorInv, ErrorFrame, OnTimerAssumption
        <4>2. DOMAIN frames = 1 .. Len(frames)
          BY LenProperties
        <4>3. nextfree \notin ToSet(frames)
          BY <4>1, <4>2 DEF ToSet
        <4>4. nextfree \in Slots
          BY <3>0, OnTimerAssumption DEF Slots, OnTimerAssumption
        <4>5. QED BY <4>3, <4>4
      <3>2. timer[nextfree].state # "inprogress"
        BY <3>1
      <3>3. \A i \in Slots :
              timer'[i].state = "inprogress" <=> timer[i].state = "inprogress"
        BY <2>1, <3>1, <3>2 DEF FreeTimerInit, TimerType
      <3>4. QED BY <1>1, <2>1, <3>3 DEF FreeTimerInit
    <2>2. CASE SetupRestart \/ SetupId \/ TimerOffRetract \/ TimerOffRestart
                 \/ TimerFreeRetract \/ TimerFreeRelease
      <3>1. \A i \in Slots :
              timer'[i].state = "inprogress" <=> timer[i].state = "inprogress"
        <4>1. CASE SetupRestart \/ TimerOffRestart
          <5>1. timer' = [timer EXCEPT ![q_i].measuring = FALSE]
            BY <4>1 DEF SetupRestart, TimerOffRestart
          <5>2. QED BY <5>1, StateKept
        <4>2. CASE SetupId
          <5>1. timer' = [timer EXCEPT ![q_i].id = TRUE]
            BY <4>2 DEF SetupId
          <5>2. QED BY <5>1, StateKept
        <4>3. CASE TimerOffRetract \/ TimerFreeRetract
          BY <4>3 DEF TimerOffRetract, TimerFreeRetract, Retract, TimerType
        <4>4. CASE TimerFreeRelease
          <5>1. timer' = [timer EXCEPT ![q_i].allocated = FALSE, ![q_i].id = FALSE]
            BY <4>4 DEF TimerFreeRelease
          <5>2. QED BY <5>1, StateKept
        <4>5. QED BY <2>2, <4>1, <4>2, <4>3, <4>4
      <3>2. QED
        BY <1>1, <2>2, <3>1 DEF SetupRestart, SetupId, TimerOffRetract, TimerOffRestart,
                    TimerFreeRetract, TimerFreeRelease
    <2>3. CASE FreeTimerLocked \/ FreeTimerRealloc \/ TimerOnRaise
      BY <1>2, <2>3 DEF FreeTimerLocked, FreeTimerRealloc, TimerOnRaise
    <2>4. QED BY <1>5, <2>1, <2>2, <2>3 DEF TimerStatementSteps
  <1>6. CASE OtherStatement \/ StatementError
    BY <1>2, <1>6 DEF OtherStatement, StatementError, errvars
  <1>7. ASSUME Dispatch PROVE StackInv'
    <2> USE DEF errvars
    <2>1. CASE Poll \/ EvntEvents \/ EvntUnhandled \/ EventsSkip \/ EventsDone
      BY <1>2, <2>1 DEF Poll, EvntEvents, EvntUnhandled, EventsSkip, EventsDone
    <2>2. CASE EvntFixError
      <3>1. ErrorFrame \notin ToSet(frames) /\ error_handling' /\ timer' = timer
        BY <2>2 DEF EvntFixError
      <3>2. /\ ToSet(frames') = ToSet(frames) \cup {ErrorFrame}
            /\ IsInjective(frames')
        BY <1>p, <1>0, <2>2, <3>1 DEF EvntFixError
      <3>3. QED BY <1>0, <3>1, <3>2
    <2>3. CASE Resume \/ ResumeNext
      <3>1. /\ frames # <<>> /\ frames' = Front(frames) /\ timer' = timer
            /\ Last(frames) = ErrorFrame /\ error_handling' = FALSE
        BY <2>3 DEF Resume, ResumeNext, InHandler, Top
      <3>2. /\ ToSet(frames') = ToSet(frames) \ {ErrorFrame}
            /\ IsInjective(frames')
        BY <3>1, PopInjective
      <3>3. QED BY <1>0, <3>1, <3>2
    <2>4. CASE EventsCall
      <3>1. q_i \in Slots /\ timer[q_i].state = "event" /\ q_i # ErrorFrame
        BY <1>0, <2>4 DEF EventsCall, Due, ErrorFrame
      <3>2. /\ ToSet(frames') = ToSet(frames) \cup {q_i}
            /\ IsInjective(frames')
        BY <1>p, <1>0, <2>4, <3>1 DEF EventsCall
      <3>3. \A i \in Slots :
              timer'[i].state = "inprogress" <=> timer[i].state = "inprogress" \/ i = q_i
        BY <2>4, <3>1 DEF EventsCall, TimerType
      <3>4. QED BY <2>4, <3>1, <3>2, <3>3 DEF EventsCall
    <2>5. CASE HandlerReturn
      <3>1. frames # <<>> /\ frames' = Front(frames) /\ Last(frames) # ErrorFrame
        BY <2>5 DEF HandlerReturn, InHandler, Top
      <3>2. Last(frames) \in Slots
        BY <1>0, <3>1, PopProperties
      <3>3. /\ ToSet(frames') = ToSet(frames) \ {Last(frames)}
            /\ IsInjective(frames')
        BY <3>1, PopInjective
      <3>4. \A i \in Slots :
              timer'[i].state = "inprogress"
                <=> timer[i].state = "inprogress" /\ i # Last(frames)
        BY <2>5, <3>2 DEF HandlerReturn, Top, TimerType
      <3>5. QED BY <2>5, <3>1, <3>3, <3>4 DEF HandlerReturn
    <2>6. QED BY <1>7, <2>1, <2>2, <2>3, <2>4, <2>5 DEF Dispatch
  <1>8. CASE UNCHANGED vars BY <1>2, <1>8 DEF vars, errvars
  <1>9. QED BY <1>3, <1>4, <1>5, <1>6, <1>7, <1>8 DEF Next, Program

LEMMA InitIInv == Init => IInv
  <1> SUFFICES ASSUME Init PROVE IInv
    OBVIOUS
  <1>1. TypeOK BY TypeInit
  <1>2. LockInv BY DEF Init, LockInv, ScanPCs
  <1>3. ScanInv BY DEF Init, ScanInv
  <1>4. CursorInv BY DEF Init, CursorInv
  <1>5. StackInv
    <2>1. frames = <<>> /\ error_handling = FALSE
      BY DEF Init
    <2>2. ToSet(frames) = {} /\ IsInjective(frames)
      BY <2>1 DEF ToSet, IsInjective
    <2>3. \A i \in Slots : timer[i].state # "inprogress"
      BY DEF Init, NewTimer
    <2>4. QED BY <2>1, <2>2, <2>3 DEF StackInv, InProgressIsOnStack
  <1>6. QED BY <1>1, <1>2, <1>3, <1>4, <1>5 DEF IInv

THEOREM InductiveInvariant == Spec => []IInv
  <1>1. IInv /\ [Next]_vars => IInv'
    BY TypeStep, LockStep, ScanStep, CursorStep, StackStep DEF IInv
  <1>2. QED BY InitIInv, <1>1, PTL DEF Spec

\* Every variable keeps its type, however many timers there are.
THEOREM TypeCorrect == Spec => []TypeOK
  <1>1. IInv => TypeOK
    BY DEF IInv
  <1>2. QED BY <1>1, InductiveInvariant, PTL

\* _FREETIMER never reallocates ontimer[] under a scan of the timer thread.
THEOREM ReallocIsExclusive == Spec => []ReallocExcludesScan
  <1>1. IInv => ReallocExcludesScan
    BY DEF IInv, LockInv, ReallocExcludesScan
  <1>2. QED BY <1>1, InductiveInvariant, PTL

\* A timer's handler is never started inside itself.
THEOREM NoHandlerReentry == Spec => []InProgressIsOnStack
  <1>1. IInv => InProgressIsOnStack
    BY DEF IInv, StackInv
  <1>2. QED BY <1>1, InductiveInvariant, PTL

\* What _FREETIMER and TIMER FREE keep: the free list is exact, and the slot being freed
\* is still allocated, and not slot 0.
FreeInv ==
    /\ FreeListExact
    /\ q_pc \in {"free.retract", "free.release"} => q_i # 0 /\ timer[q_i].allocated

LEMMA InitFreeInv == Init => FreeInv
  <1> SUFFICES ASSUME Init PROVE FreeInv
    OBVIOUS
  <1>1. freelist = <<>> /\ nextfree = 1 /\ q_pc = "stmt"
    BY DEF Init
  <1>2. ToSet(freelist) = {} /\ IsInjective(freelist)
    BY <1>1 DEF ToSet, IsInjective
  <1>3. {i \in 1 .. nextfree - 1 : ~timer[i].allocated} = {}
    BY <1>1
  <1>4. QED BY <1>1, <1>2, <1>3 DEF FreeInv, FreeListExact

\* Only _FREETIMER and TIMER FREE change the free list or what is allocated.
LEMMA FreeStep == IInv /\ FreeInv /\ [Next]_vars => FreeInv'
  <1> SUFFICES ASSUME IInv, FreeInv, [Next]_vars PROVE FreeInv'
    OBVIOUS
  <1> USE DEF IInv, TypeOK, FreeInv, FreeListExact
  <1>0. /\ nextfree \in Nat /\ 1 .. nextfree - 1 \subseteq Slots
        /\ \A i \in Slots : i < nextfree /\ i # 0 => i \in 1 .. nextfree - 1
    BY OnTimerAssumption DEF OnTimerAssumption, Slots
  <1>1. CASE /\ UNCHANGED <<freelist, nextfree>>
             /\ \A i \in Slots : timer'[i].allocated = timer[i].allocated
             /\ \/ q_pc' \notin {"free.retract", "free.release"}
                \/ /\ q_i' = q_i /\ q_i \in Slots
                   /\ q_pc \in {"free.retract", "free.release"}
    BY <1>0, <1>1
  <1>2. CASE UNCHANGED <<freelist, nextfree, timer, q_pc, q_i>>
    BY <1>2
  <1>3. CASE TimerThread
    <2>1. UNCHANGED <<freelist, nextfree, q_pc, q_i>>
      BY <1>3 DEF TimerThread, ThreadTop, ThreadCheck, ThreadMeasure, ThreadStamp, ThreadArm,
                  ThreadRaise, ThreadNext, ThreadSleep, alloc
    <2>2. \A i \in Slots : timer'[i].allocated = timer[i].allocated
      <3>1. CASE UNCHANGED timer
        BY <3>1
      <3>2. CASE timer' = [timer EXCEPT ![t_i].measuring = TRUE]
        BY <3>2 DEF TimerType
      <3>3. CASE ThreadStamp \/ ThreadArm
        BY <3>3 DEF ThreadStamp, ThreadArm, TimerType
      <3>4. QED
        BY <1>3, <3>1, <3>2, <3>3 DEF TimerThread, ThreadTop, ThreadCheck, ThreadMeasure,
                                      ThreadRaise, ThreadNext, ThreadSleep
    <2>3. q_pc \in {"free.retract", "free.release"} => q_i \in Slots
      BY <1>0, OnTimerAssumption DEF CursorInv, Slots, OnTimerAssumption
    <2>4. QED BY <1>1, <2>1, <2>2, <2>3
  <1>4. CASE FreeTimerReuse
    <2> DEFINE j == Last(freelist)
    <2>1. j \in Slots /\ freelist # <<>>
      BY <1>4, PopProperties DEF FreeTimerReuse
    <2>2. /\ ToSet(Front(freelist)) = ToSet(freelist) \ {j}
          /\ IsInjective(Front(freelist))
      BY <2>1, PopInjective
    <2>3. \A i \in Slots : timer'[i].allocated <=> timer[i].allocated \/ i = j
      BY <1>4, <2>1 DEF FreeTimerReuse, TimerType
    <2>4. freelist' = Front(freelist) /\ nextfree' = nextfree /\ q_pc' = "poll"
      BY <1>4 DEF FreeTimerReuse
    <2>5. QED BY <1>0, <2>2, <2>3, <2>4
  <1>5. CASE FreeTimerInit
    <2>1. nextfree \in Slots
      BY <1>5, <1>0, OnTimerAssumption DEF FreeTimerInit, CursorInv, Slots, OnTimerAssumption
    <2>2. \A i \in Slots : timer'[i].allocated <=> timer[i].allocated \/ i = nextfree
      BY <1>5, <2>1 DEF FreeTimerInit, TimerType
    <2>3. freelist' = freelist /\ nextfree' = nextfree + 1 /\ q_pc' = "poll"
      BY <1>5 DEF FreeTimerInit
    <2>4. \A i \in 1 .. nextfree' - 1 : i \in Slots /\ (i = nextfree \/ i \in 1 .. nextfree - 1)
      BY <1>0, <2>1, <2>3
    <2>5. nextfree \notin 1 .. nextfree - 1 /\ 1 .. nextfree - 1 \subseteq 1 .. nextfree' - 1
      BY <1>0, <2>3
    <2>6. QED BY <1>0, <2>1, <2>2, <2>3, <2>4, <2>5
  <1>6. CASE TimerFreeRelease
    <2>1. q_i \in Slots /\ q_i < nextfree /\ q_i # 0 /\ timer[q_i].allocated
      BY <1>6, <1>0, OnTimerAssumption
      DEF TimerFreeRelease, CursorInv, Slots, OnTimerAssumption
    <2>2. q_i \notin ToSet(freelist)
      BY <2>1
    <2>3. /\ ToSet(Append(freelist, q_i)) = ToSet(freelist) \cup {q_i}
          /\ IsInjective(Append(freelist, q_i))
      BY <2>1, <2>2, PushInjective
    <2>4. \A i \in Slots : timer'[i].allocated <=> timer[i].allocated /\ i # q_i
      BY <1>6, <2>1 DEF TimerFreeRelease, TimerType
    <2>5. freelist' = Append(freelist, q_i) /\ nextfree' = nextfree /\ q_pc' = "poll"
      BY <1>6 DEF TimerFreeRelease
    <2>6. QED BY <1>0, <2>1, <2>3, <2>4, <2>5
  <1>7. ASSUME NEW j \in Slots, Setup(j) \/ TimerOn(j) \/ TimerOff(j) \/ TimerStop(j)
        PROVE  FreeInv'
    <2>1. \A i \in Slots : timer'[i].allocated = timer[i].allocated
      BY <1>7 DEF Setup, Retract, TimerOn, TimerOff, TimerStop, TimerType
    <2>2. UNCHANGED <<freelist, nextfree>> /\ q_pc' \notin {"free.retract", "free.release"}
      BY <1>7 DEF Setup, TimerOn, TimerOff, TimerStop, alloc
    <2>3. QED BY <1>1, <2>1, <2>2
  <1>8. ASSUME NEW j \in Slots, TimerFree(j) PROVE FreeInv'
    <2>1. \A i \in Slots : timer'[i].allocated = timer[i].allocated
      BY <1>8 DEF TimerFree, TimerType
    <2>2. /\ UNCHANGED <<freelist, nextfree>> /\ q_i' = j
          /\ j # 0 /\ timer[j].allocated
      BY <1>8 DEF TimerFree, Usable, alloc
    <2>3. QED BY <1>0, <2>1, <2>2
  <1>9. CASE TimerFreeRetract
    <2>1. q_i \in Slots
      BY <1>9, OnTimerAssumption DEF TimerFreeRetract, CursorInv, Slots, OnTimerAssumption
    <2>2. \A i \in Slots : timer'[i].allocated = timer[i].allocated
      BY <1>9 DEF TimerFreeRetract, Retract, TimerType
    <2>3. QED BY <1>1, <1>9, <2>1, <2>2 DEF TimerFreeRetract, alloc
  <1>10. CASE SetupRestart \/ SetupId \/ TimerOffRetract \/ TimerOffRestart
    <2>1. \A i \in Slots : timer'[i].allocated = timer[i].allocated
      <3>1. CASE SetupRestart \/ TimerOffRestart
        BY <3>1 DEF SetupRestart, TimerOffRestart, TimerType
      <3>2. CASE SetupId
        BY <3>2 DEF SetupId, TimerType
      <3>3. CASE TimerOffRetract
        BY <3>3 DEF TimerOffRetract, Retract, TimerType
      <3>4. QED BY <1>10, <3>1, <3>2, <3>3
    <2>2. UNCHANGED <<freelist, nextfree>> /\ q_pc' \notin {"free.retract", "free.release"}
      BY <1>10 DEF SetupRestart, SetupId, TimerOffRetract, TimerOffRestart, alloc
    <2>3. QED BY <1>1, <2>1, <2>2
  <1>11. CASE FreeTimerGrow \/ FreeTimerLocked \/ FreeTimerRealloc \/ TimerOnRaise
    <2>1. /\ UNCHANGED <<freelist, nextfree, timer>>
          /\ q_pc' \notin {"free.retract", "free.release"}
      BY <1>11 DEF FreeTimerGrow, FreeTimerLocked, FreeTimerRealloc, TimerOnRaise, alloc
    <2>2. QED BY <1>1, <2>1
  <1>12. CASE Dispatch
    <2>1. UNCHANGED <<freelist, nextfree>> /\ q_pc' \notin {"free.retract", "free.release"}
      BY <1>12 DEF Dispatch, Poll, EvntEvents, EvntFixError, EvntUnhandled, Resume, ResumeNext,
                   EventsCall, EventsSkip, EventsDone, HandlerReturn, alloc
    <2>2. \A i \in Slots : timer'[i].allocated = timer[i].allocated
      <3>1. CASE EventsCall \/ HandlerReturn
        <4>1. \E j \in 0 .. MaxTimers, e \in {"inprogress", "none"} :
                 timer' = [timer EXCEPT ![j].state = e]
          <5>1. CASE EventsCall
            BY <5>1 DEF EventsCall
          <5>2. CASE HandlerReturn
            <6>1. Top \in 0 .. MaxTimers
              BY <5>2, PopProperties DEF HandlerReturn, InHandler, Top
            <6>2. QED BY <5>2, <6>1 DEF HandlerReturn
          <5>3. QED BY <3>1, <5>1, <5>2
        <4>2. QED BY <4>1 DEF TimerType
      <3>2. CASE UNCHANGED timer
        BY <3>2
      <3>3. QED
        BY <1>12, <3>1, <3>2 DEF Dispatch, Poll, EvntEvents, EvntFixError, EvntUnhandled,
                                 Resume, ResumeNext, EventsSkip, EventsDone
    <2>3. QED BY <1>1, <2>1, <2>2
  <1>13. CASE OtherStatement \/ StatementError
    <2>1. UNCHANGED <<freelist, nextfree, timer>> /\ q_pc' = "poll"
      BY <1>13 DEF OtherStatement, StatementError, alloc
    <2>2. QED BY <1>1, <2>1
  <1>14. CASE UNCHANGED vars
    BY <1>2, <1>14 DEF vars, alloc
  <1>15. QED
    BY <1>3, <1>4, <1>5, <1>6, <1>7, <1>8, <1>9, <1>10, <1>11, <1>12, <1>13, <1>14
    DEF Next, Program, TimerStatement, TimerStatementSteps

\* No two calls of _FREETIMER return the same timer while it is allocated.
THEOREM FreeListIsExact == Spec => []FreeListExact
  <1>1. FreeInv => FreeListExact
    BY DEF FreeInv
  <1>2. QED BY InitFreeInv, FreeStep, InductiveInvariant, <1>1, PTL DEF Spec

\* The timer thread leaves running handlers and unused slots alone.
THEOREM ThreadIsHarmless == Spec => ThreadLeavesRunningAlone
  <1> DEFINE Harmless ==
        t_pc # t_pc' => \A i \in Slots :
          timer[i].state = "inprogress" \/ i >= nextfree => timer'[i] = timer[i]
  <1>1. IInv /\ [Next]_vars => [Harmless]_vars
    <2> SUFFICES ASSUME IInv, Next PROVE Harmless
      BY DEF vars
    <2> USE DEF IInv, TypeOK
    <2>1. ASSUME UNCHANGED timer PROVE Harmless
      BY <2>1
    <2>2. CASE ThreadMeasure
      <3>1. /\ t_i < nextfree /\ timer[t_i].state = "none"
            /\ timer' = timer \/ timer' = [timer EXCEPT ![t_i].measuring = TRUE]
        BY <2>2 DEF ThreadMeasure, ScanInv, CursorInv
      <3>2. QED BY <3>1
    <2>3. CASE ThreadStamp \/ ThreadArm
      <3>1. t_i < nextfree /\ timer[t_i].state = "none"
        BY <2>3 DEF ThreadStamp, ThreadArm, ScanInv, CursorInv
      <3>2. QED BY <2>3, <3>1 DEF ThreadStamp, ThreadArm
    <2>4. CASE ThreadTop \/ ThreadCheck \/ ThreadRaise \/ ThreadNext \/ ThreadSleep
      BY <2>1, <2>4 DEF ThreadTop, ThreadCheck, ThreadRaise, ThreadNext, ThreadSleep
    <2>5. CASE Program
      <3>1. t_pc' = t_pc
        BY <2>5
           DEF Program, OtherStatement, StatementError, TimerStatement,
           FreeTimerReuse, FreeTimerGrow, Setup, TimerOn, TimerOff, TimerStop, TimerFree,
           TimerStatementSteps, FreeTimerLocked, FreeTimerRealloc, FreeTimerInit,
           SetupRestart, SetupId, TimerOnRaise, TimerOffRetract, TimerOffRestart,
           TimerFreeRetract, TimerFreeRelease, Dispatch, Poll, EvntEvents,
           EvntFixError, EvntUnhandled, Resume, ResumeNext, EventsCall, EventsSkip,
           EventsDone, HandlerReturn, tvars
      <3>2. QED BY <3>1
    <2>6. QED BY <2>2, <2>3, <2>4, <2>5 DEF Next, TimerThread
  <1>2. QED BY <1>1, InductiveInvariant, PTL DEF Spec, ThreadLeavesRunningAlone
-----------------------------------------------------------------------------
(* Without errors no event is lost.                                        *)

\* An event that is armed while ON TIMER registers the timer is on its way too.
SetupInv ==
    q_pc \in {"setup.restart", "setup.id"} /\ timer[q_i].state = "event" =>
        qbevent \/ (t_pc = "raise" /\ t_i = q_i)

EventInv == NoLostEvent /\ SetupInv /\ ~new_error /\ ~error_handling

\* Why the program will look at slot i.
Noticed(i) ==
    \/ qbevent
    \/ t_pc = "raise" /\ t_i = i
    \/ q_pc \in {"evnt", "on.raise"}
    \/ q_pc = "events" /\ q_i <= i
    \/ \E k \in 1 .. Len(frames) : frames[k] < i

\* A step that makes no timer due, or one that will be noticed, and leaves the reasons to look
\* at a timer alone, loses no event.
LEMMA NoticedKept ==
    ASSUME NoLostEvent, nextfree' = nextfree,
           \A i \in 0 .. nextfree - 1 : Due(i)' => (Due(i) /\ (Noticed(i) => Noticed(i)'))
                                        \/ Noticed(i)'
    PROVE  NoLostEvent'
  BY DEF NoLostEvent, Noticed

\* The steps of the timer thread: it raises what it has armed.
LEMMA EventThread ==
    ASSUME IInv, EventInv, TimerThread
    PROVE  EventInv'
  <1> USE DEF EventInv, IInv, TypeOK
  <1>0. \A i \in 0 .. nextfree - 1 : i \in Slots
    BY OnTimerAssumption DEF OnTimerAssumption, Slots
  <1>1. CASE ThreadTop \/ ThreadCheck \/ ThreadNext \/ ThreadSleep
    <2>1. UNCHANGED <<timer, nextfree, qbevent, new_error, error_handling, q_pc, q_i, frames>>
          /\ t_pc # "raise"
      BY <1>1 DEF ThreadTop, ThreadCheck, ThreadNext, ThreadSleep, alloc, errvars
    <2>2. NoLostEvent'
      BY <2>1 DEF NoLostEvent, Due
    <2> QED
      BY <2>1, <2>2 DEF SetupInv
  <1>2. CASE ThreadMeasure \/ ThreadStamp
    <2>1. /\ UNCHANGED <<nextfree, qbevent, new_error, error_handling, q_pc, q_i, frames>>
          /\ t_pc # "raise" /\ t_i \in Slots
          /\ timer' = timer \/ timer' = [timer EXCEPT ![t_i].measuring = TRUE]
      BY <1>0, <1>2 DEF ThreadMeasure, ThreadStamp, alloc, errvars, CursorInv
    <2>2. \A i \in Slots : /\ timer'[i].allocated = timer[i].allocated /\ timer'[i].id = timer[i].id
                           /\ timer'[i].active = timer[i].active /\ timer'[i].state = timer[i].state
      BY <2>1 DEF TimerType
    <2>3. NoLostEvent'
      BY <1>0, <2>1, <2>2 DEF NoLostEvent, Due
    <2>4. q_pc \in {"setup.restart", "setup.id"} => q_i \in Slots
      BY <1>0 DEF CursorInv
    <2> QED
      BY <2>1, <2>2, <2>3, <2>4 DEF SetupInv
  <1>3. CASE ThreadArm
    <2>1. /\ UNCHANGED <<nextfree, qbevent, new_error, error_handling, q_pc, q_i, frames, t_i>>
          /\ t_pc = "arm" /\ t_pc' = "raise" /\ t_i \in Slots
          /\ timer' = [timer EXCEPT ![t_i].state = "event"]
      BY <1>0, <1>3 DEF ThreadArm, alloc, errvars, CursorInv
    <2>2. \A i \in Slots : i # t_i => timer'[i] = timer[i]
      BY <2>1
    <2>3. NoLostEvent'
      BY <1>0, <2>1, <2>2 DEF NoLostEvent, Due
    <2>4. q_pc \in {"setup.restart", "setup.id"} => q_i \in Slots
      BY <1>0 DEF CursorInv
    <2> QED
      BY <2>1, <2>2, <2>3, <2>4 DEF SetupInv
  <1>4. CASE ThreadRaise
    BY <1>4 DEF ThreadRaise, NoLostEvent, SetupInv, errvars
  <1> QED
    BY <1>1, <1>2, <1>3, <1>4 DEF TimerThread

\* The statements: a timer that is freed, reused or registered has no event that nobody saw.
LEMMA EventStatement ==
    ASSUME IInv, EventInv, OtherStatement \/ TimerStatement
    PROVE  EventInv'
  <1> USE DEF EventInv, IInv, TypeOK
  <1>0. \A i \in 0 .. nextfree - 1 : i \in Slots
    BY OnTimerAssumption DEF OnTimerAssumption, Slots
  <1>1. /\ UNCHANGED <<nextfree, qbevent, new_error, error_handling, t_pc, t_i, frames>>
        /\ q_pc = "stmt" /\ q_pc' \notin {"evnt", "events", "setup.id"}
    BY DEF OtherStatement, TimerStatement, FreeTimerReuse, FreeTimerGrow, Setup, TimerOn, TimerOff,
           TimerStop, TimerFree, alloc, errvars, tvars
  <1>2. ASSUME NEW i \in 0 .. nextfree - 1, Due(i)' => Due(i) \/ q_pc' = "on.raise"
        PROVE  Due(i)' => (Due(i) /\ (Noticed(i) => Noticed(i)')) \/ Noticed(i)'
    BY <1>1, <1>2 DEF Noticed
  <1>3. ASSUME \A i \in 0 .. nextfree - 1 : Due(i)' => Due(i) \/ q_pc' = "on.raise"
        PROVE  NoLostEvent'
    BY <1>1, <1>2, <1>3, NoticedKept
  <1>4. CASE OtherStatement
    BY <1>1, <1>3, <1>4 DEF OtherStatement, Due, SetupInv
  <1>5. CASE FreeTimerReuse
    <2>1. Last(freelist) \in Slots
      BY <1>5, PopProperties DEF FreeTimerReuse
    <2>2. \A i \in Slots : timer'[i] = timer[i] \/ timer'[i].active = "OFF"
      BY <1>5, <2>1 DEF FreeTimerReuse, TimerType
    <2>3. NoLostEvent'
      BY <1>0, <1>3, <2>2 DEF Due
    <2> QED
      BY <1>1, <1>5, <2>3 DEF FreeTimerReuse, SetupInv
  <1>6. CASE FreeTimerGrow
    BY <1>1, <1>3, <1>6 DEF FreeTimerGrow, Due, SetupInv
  <1>7. ASSUME NEW j \in Slots, Setup(j)
        PROVE  EventInv'
    <2>1. \A i \in Slots : timer'[i] = timer[i] \/ timer'[i].state = "none"
      BY <1>7 DEF Setup, Retract, TimerType
    <2>2. timer'[j].state # "event"
      BY <1>7 DEF Setup, Retract, TimerType
    <2>3. NoLostEvent'
      BY <1>0, <1>3, <2>1 DEF Due
    <2> QED
      BY <1>1, <1>7, <2>2, <2>3 DEF Setup, SetupInv
  <1>8. ASSUME NEW j \in Slots, TimerOn(j)
        PROVE  EventInv'
    BY <1>1, <1>3, <1>8 DEF TimerOn, SetupInv
  <1>9. ASSUME NEW j \in Slots, TimerOff(j) \/ TimerStop(j) \/ TimerFree(j)
        PROVE  EventInv'
    <2>1. \E a \in {"OFF", "STOP"} : timer' = [timer EXCEPT ![j].active = a]
      BY <1>9 DEF TimerOff, TimerStop, TimerFree
    <2>2. \A i \in Slots : timer'[i] = timer[i] \/ timer'[i].active # "ON"
      BY <2>1 DEF TimerType
    <2>3. NoLostEvent'
      BY <1>0, <1>3, <2>2 DEF Due
    <2> QED
      BY <1>1, <1>9, <2>3 DEF TimerOff, TimerStop, TimerFree, SetupInv
  <1> QED
    BY <1>4, <1>5, <1>6, <1>7, <1>8, <1>9 DEF TimerStatement

\* The later steps of the statements.
LEMMA EventStatementSteps ==
    ASSUME IInv, EventInv, TimerStatementSteps
    PROVE  EventInv'
  <1> USE DEF EventInv, IInv, TypeOK
  <1>0. \A i \in 0 .. nextfree - 1 : i \in Slots
    BY OnTimerAssumption DEF OnTimerAssumption, Slots
  <1>1. /\ UNCHANGED <<new_error, error_handling, t_pc, t_i, frames>>
        /\ q_pc \notin {"evnt", "events"} /\ q_pc' \notin {"setup.restart"}
    BY DEF TimerStatementSteps, FreeTimerLocked, FreeTimerRealloc, FreeTimerInit, SetupRestart,
           SetupId, TimerOnRaise, TimerOffRetract, TimerOffRestart, TimerFreeRetract,
           TimerFreeRelease, errvars, tvars
  <1>2. ASSUME UNCHANGED <<nextfree, qbevent>>, q_pc # "on.raise",
               \A i \in 0 .. nextfree - 1 : Due(i)' => Due(i) \/ Noticed(i)
        PROVE  NoLostEvent'
    <2>1. \A i \in 0 .. nextfree - 1 : Noticed(i) => Noticed(i)'
      BY <1>1, <1>2 DEF Noticed
    <2> QED
      BY <1>2, <2>1, NoticedKept
  <1>3. CASE FreeTimerLocked \/ FreeTimerRealloc
    <2>1. UNCHANGED <<timer, nextfree, qbevent>> /\ q_pc # "on.raise"
          /\ q_pc' \notin {"setup.restart", "setup.id"}
      BY <1>3 DEF FreeTimerLocked, FreeTimerRealloc, alloc
    <2>2. NoLostEvent'
      BY <1>2, <2>1 DEF Due
    <2> QED
      BY <1>1, <2>1, <2>2 DEF SetupInv
  <1>4. CASE FreeTimerInit
    <2>1. /\ q_pc = "init" /\ q_pc' = "poll" /\ nextfree' = nextfree + 1 /\ nextfree \in Slots
          /\ UNCHANGED qbevent
      BY <1>4, OnTimerAssumption DEF FreeTimerInit, CursorInv, OnTimerAssumption, Slots
    <2>2. timer'[nextfree].active = "OFF" /\ \A i \in Slots : i # nextfree => timer'[i] = timer[i]
      BY <1>4, <2>1 DEF FreeTimerInit, TimerType
    <2>3. ASSUME NEW i \in 0 .. nextfree' - 1, Due(i)' PROVE Noticed(i)'
      <3>1. i # nextfree
        BY <2>2, <2>3 DEF Due
      <3>2. i \in 0 .. nextfree - 1 /\ i \in Slots
        BY <1>0, <2>1, <3>1
      <3>3. Due(i)
        BY <2>2, <2>3, <3>1, <3>2 DEF Due
      <3>4. Noticed(i)
        BY <3>2, <3>3 DEF NoLostEvent, Noticed
      <3> QED
        BY <1>1, <2>1, <3>4 DEF Noticed
    <2>4. NoLostEvent'
      BY <2>3 DEF NoLostEvent, Noticed
    <2> QED
      BY <1>1, <2>1, <2>4 DEF SetupInv
  <1>5. CASE SetupRestart \/ TimerOffRestart
    <2>1. /\ timer' = [timer EXCEPT ![q_i].measuring = FALSE]
          /\ UNCHANGED <<nextfree, qbevent, q_i>> /\ q_pc # "on.raise"
          /\ q_pc' = "setup.id" => q_pc = "setup.restart"
          /\ q_pc' # "setup.restart"
      BY <1>5 DEF SetupRestart, TimerOffRestart, alloc
    <2>2. \A i \in Slots : /\ timer'[i].allocated = timer[i].allocated /\ timer'[i].id = timer[i].id
                           /\ timer'[i].active = timer[i].active /\ timer'[i].state = timer[i].state
      BY <2>1 DEF TimerType
    <2>3. NoLostEvent'
      BY <1>0, <1>2, <2>1, <2>2 DEF Due
    <2>4. q_pc' = "setup.id" => q_i \in Slots
      BY <1>0, <2>1 DEF CursorInv
    <2> QED
      BY <1>1, <2>1, <2>2, <2>3, <2>4 DEF SetupInv
  <1>6. CASE SetupId
    <2>1. /\ q_pc = "setup.id" /\ q_pc' = "poll" /\ timer' = [timer EXCEPT ![q_i].id = TRUE]
          /\ UNCHANGED <<nextfree, qbevent, q_i>>
      BY <1>6 DEF SetupId, alloc
    <2>2. \A i \in Slots : i # q_i => timer'[i] = timer[i]
      BY <2>1
    <2>3. q_i \in Slots /\ timer'[q_i].state = timer[q_i].state
      BY <1>0, <2>1, StateKept DEF CursorInv
    <2>4. timer'[q_i].state = "event" => Noticed(q_i)
      BY <2>1, <2>3 DEF SetupInv, Noticed
    <2>5. \A i \in 0 .. nextfree - 1 : Due(i)' => Due(i) \/ Noticed(i)
      BY <1>0, <2>2, <2>4 DEF Due
    <2>6. NoLostEvent'
      BY <1>2, <2>1, <2>5
    <2> QED
      BY <1>1, <2>1, <2>6 DEF SetupInv
  <1>7. CASE TimerOnRaise
    BY <1>1, <1>7 DEF TimerOnRaise, NoLostEvent, SetupInv
  <1>8. CASE TimerOffRetract \/ TimerFreeRetract
    <2>1. /\ Retract(q_i) /\ UNCHANGED <<nextfree, qbevent>> /\ q_pc # "on.raise"
          /\ q_pc' \notin {"setup.restart", "setup.id"}
      BY <1>8 DEF TimerOffRetract, TimerFreeRetract, alloc
    <2>2. \A i \in Slots : timer'[i] = timer[i] \/ timer'[i].state = "none"
      BY <2>1 DEF Retract, TimerType
    <2>3. NoLostEvent'
      BY <1>0, <1>2, <2>1, <2>2 DEF Due
    <2> QED
      BY <1>1, <2>1, <2>3 DEF SetupInv
  <1>9. CASE TimerFreeRelease
    <2>1. /\ timer' = [timer EXCEPT ![q_i].allocated = FALSE, ![q_i].id = FALSE]
          /\ UNCHANGED <<nextfree, qbevent>> /\ q_pc # "on.raise" /\ q_pc' = "poll"
      BY <1>9 DEF TimerFreeRelease
    <2>2. \A i \in Slots : timer'[i] = timer[i] \/ ~timer'[i].allocated
      BY <2>1 DEF TimerType
    <2>3. NoLostEvent'
      BY <1>0, <1>2, <2>1, <2>2 DEF Due
    <2> QED
      BY <1>1, <2>1, <2>3 DEF SetupInv
  <1> QED
    BY <1>3, <1>4, <1>5, <1>6, <1>7, <1>8, <1>9 DEF TimerStatementSteps

\* The poll takes the flag with it into evnt(), whose scan begins at the first slot; a handler
\* that returns goes on with the next one.
LEMMA EventPoll ==
    ASSUME IInv, EventInv, Dispatch
    PROVE  EventInv'
  <1> USE DEF EventInv, IInv, TypeOK
  <1>0. /\ \A i \in 0 .. nextfree - 1 : i \in Slots /\ i >= 0
        /\ \A i \in Slots : i \in Nat
        /\ nextfree \in Nat
    BY OnTimerAssumption DEF OnTimerAssumption, Slots
  <1>1. CASE Poll
    <2>1. /\ UNCHANGED <<timer, nextfree, new_error, error_handling, t_pc, t_i, q_i, frames>>
          /\ q_pc = "poll" /\ q_pc' = IF qbevent THEN "evnt" ELSE "stmt"
      BY <1>1 DEF Poll, alloc, errvars, tvars
    <2>2. NoLostEvent'
      BY <2>1 DEF NoLostEvent, Due
    <2> QED
      BY <2>1, <2>2 DEF SetupInv
  <1>2. CASE EvntEvents
    BY <1>0, <1>2 DEF EvntEvents, NoLostEvent, Due, SetupInv, alloc, errvars, tvars
  <1>3. CASE EventsCall
    <2>1. q_i \in Slots /\ q_i < nextfree /\ q_i \in 0 .. MaxTimers
      BY <1>0, <1>3 DEF EventsCall
    <2>2. /\ UNCHANGED <<nextfree, qbevent, new_error, error_handling, t_pc, t_i, q_i>>
          /\ q_pc = "events" /\ q_pc' = "stmt" /\ frames' = Append(frames, q_i)
          /\ timer' = [timer EXCEPT ![q_i].state = "inprogress"]
      BY <1>3 DEF EventsCall, alloc, errvars, tvars
    <2>3. timer'[q_i].state = "inprogress" /\ \A i \in Slots : i # q_i => timer'[i] = timer[i]
      BY <2>1, <2>2 DEF TimerType
    <2>4. /\ Len(frames) \in Nat /\ Len(frames') = Len(frames) + 1
          /\ \A k \in 1 .. Len(frames) : frames'[k] = frames[k]
          /\ frames'[Len(frames) + 1] = q_i
      BY <2>1, <2>2, AppendProperties
    <2>5. \A i \in 0 .. nextfree - 1 : Due(i)' => Due(i) /\ i # q_i
      BY <1>0, <2>3 DEF Due
    <2>6. \A i \in 0 .. nextfree - 1 : i # q_i /\ Noticed(i) => Noticed(i)'
      <3> SUFFICES ASSUME NEW i \in 0 .. nextfree - 1, i # q_i, Noticed(i) PROVE Noticed(i)'
        OBVIOUS
      <3>1. CASE q_i < i
        <4>1. Len(frames) + 1 \in 1 .. Len(frames') /\ frames'[Len(frames) + 1] < i
          BY <2>4, <3>1
        <4> QED
          BY <4>1 DEF Noticed
      <3>2. CASE i < q_i
        BY <2>2, <2>4, <3>2 DEF Noticed
      <3> QED
        BY <3>1, <3>2, <1>0, <2>1
    <2>7. NoLostEvent'
      BY <2>2, <2>5, <2>6, NoticedKept
    <2> QED
      BY <2>2, <2>7 DEF SetupInv
  <1>4. CASE EventsSkip
    <2>1. /\ UNCHANGED <<timer, nextfree, qbevent, new_error, error_handling, t_pc, t_i, q_pc,
             frames>>
          /\ q_i' = q_i + 1 /\ ~Due(q_i) /\ q_pc = "events"
      BY <1>4 DEF EventsSkip, alloc, errvars, tvars
    <2>2. \A i \in 0 .. nextfree - 1 : Due(i) /\ Noticed(i) => Noticed(i)'
      BY <2>1 DEF Noticed
    <2>3. NoLostEvent'
      BY <2>1, <2>2, NoticedKept DEF Due
    <2> QED
      BY <2>1, <2>3 DEF SetupInv
  <1>5. CASE EventsDone
    <2>1. /\ UNCHANGED <<timer, nextfree, qbevent, new_error, error_handling, t_pc, t_i, frames>>
          /\ q_i >= nextfree /\ q_pc = "events" /\ q_pc' = "stmt"
      BY <1>5 DEF EventsDone, alloc, errvars, tvars
    <2>2. \A i \in 0 .. nextfree - 1 : Noticed(i) => Noticed(i)'
      BY <1>0, <2>1 DEF Noticed
    <2>3. NoLostEvent'
      BY <2>1, <2>2, NoticedKept DEF Due
    <2> QED
      BY <2>1, <2>3 DEF SetupInv
  <1>6. CASE HandlerReturn
    <2>1. /\ UNCHANGED <<nextfree, qbevent, new_error, error_handling, t_pc, t_i>>
          /\ q_pc = "stmt" /\ q_pc' = "events" /\ frames # <<>> /\ Last(frames) # ErrorFrame
          /\ frames' = Front(frames) /\ q_i' = Last(frames) + 1
          /\ timer' = [timer EXCEPT ![Last(frames)].state = "none"]
      BY <1>6 DEF HandlerReturn, InHandler, Top, alloc, errvars, tvars
    <2>2. /\ Last(frames) \in 0 .. MaxTimers /\ Last(frames) = frames[Len(frames)]
          /\ Len(frames) \in Nat /\ Len(Front(frames)) = Len(frames) - 1
          /\ \A k \in 1 .. Len(frames) - 1 : Front(frames)[k] = frames[k]
      BY <2>1, PopProperties
    <2>3. Last(frames) \in Slots
      BY <2>1, <2>2, OnTimerAssumption DEF OnTimerAssumption, Slots, ErrorFrame
    <2>4. timer'[Last(frames)].state = "none" /\ \A i \in Slots : i # Last(frames)
          => timer'[i] = timer[i]
      BY <2>1, <2>3 DEF TimerType
    <2>5. \A i \in 0 .. nextfree - 1 : Due(i)' => Due(i)
      BY <1>0, <2>4 DEF Due
    <2>6. \A i \in 0 .. nextfree - 1 : Noticed(i) => Noticed(i)'
      <3> SUFFICES ASSUME NEW i \in 0 .. nextfree - 1, Noticed(i) PROVE Noticed(i)'
        OBVIOUS
      <3>1. CASE qbevent \/ (t_pc = "raise" /\ t_i = i)
        BY <2>1, <3>1 DEF Noticed
      <3>2. CASE \E k \in 1 .. Len(frames) : frames[k] < i
        <4>1. PICK k \in 1 .. Len(frames) : frames[k] < i
          BY <3>2
        <4>2. CASE k = Len(frames)
          <5>1. Last(frames) < i /\ Last(frames) \in Nat /\ i \in Nat
            BY <1>0, <2>2, <2>3, <4>1, <4>2
          <5>2. q_i' <= i
            BY <2>1, <5>1
          <5> QED
            BY <2>1, <5>2 DEF Noticed
        <4>3. CASE k # Len(frames)
          <5>1. k \in 1 .. Len(frames') /\ frames'[k] = frames[k]
            BY <2>1, <2>2, <4>1, <4>3
          <5> QED
            BY <4>1, <5>1 DEF Noticed
        <4> QED
          BY <4>2, <4>3
      <3> QED
        BY <2>1, <3>1, <3>2 DEF Noticed
    <2>7. NoLostEvent'
      BY <2>1, <2>5, <2>6, NoticedKept
    <2> QED
      BY <2>1, <2>7 DEF SetupInv
  <1> QED
    BY <1>1, <1>2, <1>3, <1>4, <1>5, <1>6
       DEF Dispatch, EvntFixError, EvntUnhandled, Resume, ResumeNext

\* As long as no statement fails, an event of a timer that is ON is always on its way to the
\* scan that serves it: raising the flag, the poll and the scan lose none, whatever the
\* statements do to the timers meanwhile.
THEOREM NoEventIsLost == ErrorFree => []NoLostEvent
  <1>1. Init => IInv /\ EventInv
    <2> SUFFICES ASSUME Init PROVE EventInv
      BY InitIInv
    <2>1. \A i \in Slots : timer[i].state = "none"
      BY DEF Init, NewTimer
    <2>2. 0 .. nextfree - 1 \subseteq Slots
      BY OnTimerAssumption DEF OnTimerAssumption, Init, Slots
    <2> QED
      BY <2>1, <2>2 DEF Init, EventInv, NoLostEvent, SetupInv, Due
  <1>2. IInv /\ EventInv /\ [Next /\ ~new_error']_vars => (IInv /\ EventInv)'
    <2> SUFFICES ASSUME IInv, EventInv, [Next /\ ~new_error']_vars PROVE IInv' /\ EventInv'
      OBVIOUS
    <2>1. IInv'
      BY TypeStep, LockStep, ScanStep, CursorStep, StackStep DEF IInv
    <2>2. CASE UNCHANGED vars
      <3>1. UNCHANGED <<timer, nextfree, qbevent, new_error, error_handling, t_pc, t_i, q_pc, q_i,
                        frames>>
        BY <2>2 DEF vars, alloc, errvars, tvars
      <3> QED
        BY <3>1, <2>1 DEF EventInv, NoLostEvent, SetupInv, Due
    <2>3. CASE Next /\ ~new_error'
      <3>1. ~StatementError
        BY <2>3 DEF StatementError
      <3>2. TimerThread \/ OtherStatement \/ TimerStatement \/ TimerStatementSteps \/ Dispatch
        BY <2>3, <3>1 DEF Next, Program
      <3> QED
        BY <3>2, <2>1, EventThread, EventStatement, EventStatementSteps, EventPoll
    <2> QED
      BY <2>1, <2>2, <2>3
  <1>3. IInv /\ EventInv => NoLostEvent
    BY DEF EventInv
  <1> QED
    BY <1>1, <1>2, <1>3, PTL DEF ErrorFree
=============================================================================
