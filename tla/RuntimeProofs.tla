---------------------------- MODULE RuntimeProofs ----------------------------
(***************************************************************************)
(* Proofs about Runtime, for any set of programs and any bounds.           *)
(*                                                                         *)
(* The four properties rest on four invariants that do not need each       *)
(* other.  LockInv: while the program has not begun to end, a frame is     *)
(* acknowledged only by a program that then waits, or for one in a dialog; *)
(* the counters tell which of the two it is.  MessageInv: a message is     *)
(* once in the queue, and not after it is finished.  StartInv and BitInv:  *)
(* what a thread that has parked leaves behind in exit_ok, also when       *)
(* another thread has read it and not yet stored it.                       *)
(***************************************************************************)
EXTENDS Runtime, TLAPS

\* The program has not begun to end.
Lives == ~stop_program /\ ~close_program

\* glut is in a frame that asked for the display lock.
InFrame == rt_pc["glut"] \in {"wait", "grant"} \/ InSubGL

\* The counters only follow each other.
CountersInv == request = wanted /\ released <= confirmed /\ confirmed <= wanted

\* modal counts the dialogs and alerts that are open, the program's and SUB _GL's.
ModalInv ==
    modal = (IF rt_pc["qb"] \in {"modal.begin", "dialog", "alert"} THEN 1 ELSE 0)
            + (IF rt_pc["glut"] \in {"gl.dialog", "alert"} THEN 1 ELSE 0)

\* A frame is still to be released; SUB _GL has been granted.  Pause comes between frames.
FrameInv ==
    /\ InFrame => released < wanted /\ ~suspend_program
    /\ InSubGL => confirmed = wanted

\* Unless the program ends: the frame asked for is acknowledged only by a program that then
\* waits, or for one in a dialog; between frames nothing is asked for.  Only a program that
\* ends meets SUB _GL.
GrantInv ==
    /\ dont_call_sub_gl => rt_pc["qb"] \in {"sub_end", "end", "or", "or.store", "parked"}
    /\ rt_pc["glut"] \notin {"end", "or", "or.store", "parked"}
    /\ rt_pc["glut"] \in {"wait", "grant"} => confirmed \in {released, wanted}
    /\ rt_pc["glut"] = "wait" /\ confirmed = wanted =>
          rt_pc["qb"] \in {"release", "dialog", "modal.end", "modal.release"}
    /\ rt_pc["glut"] = "grant" =>
          \/ rt_pc["qb"] \in {"modal.begin", "dialog", "modal.end"}
          \/ rt_pc["qb"] = "modal.release" /\ confirmed = wanted
    /\ InSubGL =>
          rt_pc["qb"] \in {"release", "modal.begin", "dialog", "modal.end", "modal.release"}
    /\ ~InFrame => confirmed = wanted \/ dont_call_sub_gl
    /\ ~InFrame /\ rt_pc["glut"] # "abort" => released = confirmed
    /\ (sub_gl_called => InSubGL) /\ rt_pc["qb"] \notin {"alert", "exit"}

LockInv == CountersInv /\ ModalInv /\ FrameInv /\ (Lives => GrantInv)

\* Whether msg is in a queue; whether no message that has a sender waiting is twice in it.
In(msg, q) == \E n \in DOMAIN q : q[n] = msg
OnceIn(q) == \A m, n \in DOMAIN q : q[m] = q[n] /\ q[m] # "post" => m = n

\* A message that is finished is out of the queue.
MessageInv == MessageOwned /\ ("get" \in answered => ~Queued("get"))

\* The program or glut has parked.
OneParked == rt_pc["qb"] = "parked" \/ rt_pc["glut"] = "parked"

\* The window is started only for a program that waits for it; the first bit of exit_ok, also
\* as the timer thread read it, comes from a thread that has parked.
StartInv ==
    /\ glut_is_started <=> rt_pc["glut"] # "hidden"
    /\ rt_pc["glut"] = "hidden" => ~initialized /\ (starter => rt_pc["qb"] = "start")
    /\ 1 \in exit_ok \cup seen["timer"] => OneParked
    /\ rt_pc["main"] \in {"closing", "exits", "queues", "exit"} => OneParked
    /\ rt_pc["main"] = "exits" \/ exited = "main" => ~glut_is_started

\* SUB _GL does not park glut, and each bit comes from its own thread.
BitInv ==
    /\ rt_pc["glut"] \notin {"gl.pause", "end", "or", "or.store", "parked"}
    /\ 1 \in exit_ok \cup seen["timer"] => rt_pc["qb"] = "parked"
    /\ 2 \in exit_ok \cup seen["qb"] => rt_pc["timer"] = "parked"
    /\ ClosedAfterParked

\* No program polls in SUB _GL.
NoProgramPolls == \A p \in Programs : "gl_poll" \notin p

-----------------------------------------------------------------------------
(* Types.                                                                  *)

\* Each step keeps the types; a flag that becomes FALSE or is read needs a step of its own.
LEMMA TypeStep == RuntimeTypeOK /\ [RuntimeNext]_runtimeVars => RuntimeTypeOK'
<1> SUFFICES ASSUME RuntimeTypeOK, [RuntimeNext]_runtimeVars PROVE RuntimeTypeOK'
  OBVIOUS
<1> USE DEF RuntimeTypeOK, Go, locks, ends, oks, gluts, runtimeVars, RuntimeThreads,
           ProgramPCs, GlutPCs,
        MainPCs, TimerPCs
<1>1. CASE PlainStatement
  BY <1>1 DEF PlainStatement
<1>2. CASE DialogCount
  BY <1>2 DEF DialogCount
<1>3. CASE FreeTimer
  BY <1>3 DEF FreeTimer
<1>4. CASE Exit
  BY <1>4 DEF Exit
<1>5. CASE System
  BY <1>5 DEF System
<1>6. CASE SubEnd
  BY <1>6 DEF SubEnd
<1>7. CASE Post
  <2> USE <1>7 DEF Post
  <2>1. queue' \in Seq({"post", "get", "exit"})
    BY DEF Push
  <2>2. answered' \subseteq {"post", "get"}
    BY DEF Push
  <2> QED
    BY <2>1, <2>2
<1>8. CASE GlutGet
  BY <1>8 DEF GlutGet, Push
<1>9. CASE ScreenShow
  <2> USE <1>9 DEF ScreenShow
  <2>1. queue' \in Seq({"post", "get", "exit"})
    BY DEF Push
  <2>2. answered' \subseteq {"post", "get"}
    BY DEF Push
  <2>3. starter' \in BOOLEAN
    BY Zenon
  <2> QED
    BY <2>1, <2>2, <2>3
<1>10. CASE PollStatement
  <2> USE <1>10 DEF PollStatement
  <2>1. rt_qbevent' \in BOOLEAN
    BY Zenon
  <2> QED
    BY <2>1
<1>11. CASE EvntLock
  BY <1>11 DEF EvntLock, Acknowledge
<1>12. CASE EvntConfirm
  BY <1>12 DEF EvntConfirm
<1>13. CASE EvntReleased
  BY <1>13 DEF EvntReleased, Waits, Held
<1>14. CASE EvntPause
  BY <1>14 DEF EvntPause
<1>15. CASE DialogOpen
  BY <1>15 DEF DialogOpen, Confirm, Acknowledge
<1>16. CASE DialogClosed
  BY <1>16 DEF DialogClosed
<1>17. CASE DialogConfirm
  BY <1>17 DEF DialogConfirm, Confirm, Acknowledge
<1>18. CASE DialogDone
  BY <1>18 DEF DialogDone, Waits, Held
<1>19. CASE FreeTimerWaits
  BY <1>19 DEF FreeTimerWaits
<1>20. CASE GetAnswered
  BY <1>20 DEF GetAnswered
<1>21. CASE ScreenShown
  BY <1>21 DEF ScreenShown, Push
<1>22. CASE SubEndStopped
  BY <1>22 DEF SubEndStopped
<1>23. CASE SubEndKey
  BY <1>23 DEF SubEndKey
<1>24. CASE CloseWindow
  BY <1>24 DEF CloseWindow
<1>25. CASE Break
  BY <1>25 DEF Break
<1>26. CASE Pause
  BY <1>26 DEF Pause
<1>27. CASE Unpause
  <2> USE <1>27 DEF Unpause
  <2>1. suspend_program' \in BOOLEAN
    BY Zenon
  <2> QED
    BY <2>1
<1>28. CASE ProcessQueue
  BY <1>28 DEF ProcessQueue
<1>29. CASE FrameAsk
  BY <1>29 DEF FrameAsk, MayAsk, Ending
<1>30. CASE FrameSkip
  BY <1>30 DEF FrameSkip, MayAsk, Ending
<1>31. CASE GLPoll
  <2> USE <1>31 DEF GLPoll
  <2>1. rt_qbevent' \in BOOLEAN
    BY Zenon
  <2> QED
    BY <2>1
<1>32. CASE GLSystem
  <2> USE <1>32 DEF GLSystem, ErrorInGL
  <2>1. modal' \in Nat
    OBVIOUS
  <2> QED
    BY <2>1
<1>33. CASE GLDialog
  <2> USE <1>33 DEF GLDialog
  <2>1. modal' \in Nat
    OBVIOUS
  <2> QED
    BY <2>1
<1>34. CASE GLReturn
  <2> USE <1>34 DEF GLReturn
  <2>1. sub_gl_called' \in BOOLEAN
    BY Zenon
  <2> QED
    BY <2>1
<1>35. CASE GlutStarted
  BY <1>35 DEF GlutStarted
<1>36. CASE GlutInitialized
  BY <1>36 DEF GlutInitialized
<1>37. CASE Execute
  <2> USE <1>37 DEF Execute
  <2>1. Head(queue) \in {"post", "get", "exit"}
    OBVIOUS
  <2>2. queue' \in Seq({"post", "get", "exit"})
    OBVIOUS
  <2>3. answered' \subseteq {"post", "get"}
    BY <2>1 DEF Returns
  <2>4. exited' \in {"no", "qb", "glut", "main"}
    OBVIOUS
  <2> QED
    BY <2>1, <2>2, <2>3, <2>4
<1>38. CASE ProcessedQueue
  BY <1>38 DEF ProcessedQueue
<1>39. CASE WaitGranted
  BY <1>39 DEF WaitGranted
<1>40. CASE WaitAborts
  BY <1>40 DEF WaitAborts, Ending
<1>41. CASE WaitModal
  BY <1>41 DEF WaitModal, Ending
<1>42. CASE Grant
  BY <1>42 DEF Grant
<1>43. CASE WaitAsks
  BY <1>43 DEF WaitAsks, Ending
<1>44. CASE Call
  BY <1>44 DEF Call
<1>45. CASE FrameDone
  BY <1>45 DEF FrameDone
<1>46. CASE GLPause
  BY <1>46 DEF GLPause
<1>47. CASE GLDialogClosed
  BY <1>47 DEF GLDialogClosed
<1>48. CASE GLDialogDone
  BY <1>48 DEF GLDialogDone, Waits, Held
<1>49. CASE Drain
  BY <1>49 DEF Drain
<1>50. CASE MainStops
  BY <1>50 DEF MainStops, MustStop
<1>51. CASE MainRaises
  BY <1>51 DEF MainRaises
<1>52. CASE MainCloses
  BY <1>52 DEF MainCloses
<1>53. CASE TimerLocks
  BY <1>53 DEF TimerLocks
<1>54. CASE TimerScans
  BY <1>54 DEF TimerScans
<1>55. CASE TimerSleeps
  BY <1>55 DEF TimerSleeps
<1>56. CASE MainAsks
  BY <1>56 DEF MainAsks
<1>57. CASE MainExits
  BY <1>57 DEF MainExits
<1>58. CASE MainQueues
  BY <1>58 DEF MainQueues, Push
<1>59. CASE End("qb")
  BY <1>59 DEF End
<1>60. CASE OrRead("qb")
  BY <1>60 DEF OrRead
<1>61. CASE OrStore("qb")
  <2> USE <1>61 DEF OrStore
  <2>1. exit_ok' \subseteq {1, 2}
    BY DEF Bit
  <2> QED
    BY <2>1
<1>62. CASE End("glut")
  BY <1>62 DEF End
<1>63. CASE OrRead("glut")
  BY <1>63 DEF OrRead
<1>64. CASE OrStore("glut")
  <2> USE <1>64 DEF OrStore
  <2>1. exit_ok' \subseteq {1, 2}
    BY DEF Bit
  <2> QED
    BY <2>1
<1>65. CASE OrRead("timer")
  BY <1>65 DEF OrRead
<1>66. CASE OrStore("timer")
  <2> USE <1>66 DEF OrStore
  <2>1. exit_ok' \subseteq {1, 2}
    BY DEF Bit
  <2> QED
    BY <2>1
<1>67. CASE EndInGL
  BY <1>67 DEF EndInGL, ErrorInGL
<1>68. CASE \E t \in {"qb", "glut"} : AlertClosed(t)
  BY <1>68 DEF AlertClosed
<1>69. CASE \E t \in {"qb", "glut"} : AlertExits(t)
  BY <1>69 DEF AlertExits
<1>70. CASE UNCHANGED runtimeVars
  BY <1>70
<1> QED
  BY <1>1, <1>2, <1>3, <1>4, <1>5, <1>6, <1>7, <1>8, <1>9, <1>10, <1>11, <1>12, <1>13, <1>14,
     <1>15, <1>16, <1>17, <1>18, <1>19, <1>20, <1>21, <1>22, <1>23, <1>24, <1>25, <1>26, <1>27,
     <1>28, <1>29, <1>30, <1>31, <1>32, <1>33, <1>34, <1>35, <1>36, <1>37, <1>38, <1>39, <1>40,
     <1>41, <1>42, <1>43, <1>44, <1>45, <1>46, <1>47, <1>48, <1>49, <1>50, <1>51, <1>52, <1>53,
     <1>54, <1>55, <1>56, <1>57, <1>58, <1>59, <1>60, <1>61, <1>62, <1>63, <1>64, <1>65, <1>66,
     <1>67, <1>68, <1>69, <1>70
     DEF RuntimeNext, QbStatement, QbOn, User, GlutMay, GlutOn, Main, Timer, Exited, Park

\* The types hold at the start.
LEMMA TypeInit == RuntimeInit => RuntimeTypeOK
<1> SUFFICES ASSUME RuntimeInit PROVE RuntimeTypeOK
  OBVIOUS
<1>1. /\ sub_gl_called \in BOOLEAN /\ rt_qbevent \in BOOLEAN /\ suspend_program \in BOOLEAN
      /\ close_program \in BOOLEAN /\ stop_program \in BOOLEAN /\ dont_call_sub_gl \in BOOLEAN
      /\ exit_value \in BOOLEAN /\ exit_blocked \in BOOLEAN /\ glut_is_started \in BOOLEAN
      /\ starter \in BOOLEAN /\ initialized \in BOOLEAN
  BY Zenon DEF RuntimeInit
<1>2. /\ rt_pc \in [RuntimeThreads -> ProgramPCs \cup GlutPCs \cup MainPCs \cup TimerPCs]
      /\ rt_pc["qb"] \in ProgramPCs /\ rt_pc["glut"] \in GlutPCs
      /\ rt_pc["main"] \in MainPCs /\ rt_pc["timer"] \in TimerPCs
  BY DEF RuntimeInit, RuntimeThreads, ProgramPCs, GlutPCs, MainPCs, TimerPCs
<1>3. /\ request \in Nat /\ confirmed \in Nat /\ released \in Nat /\ wanted \in Nat
      /\ modal \in Nat /\ ontimerthread_lock \in 0 .. 2
  BY DEF RuntimeInit
<1>4. /\ exit_ok \subseteq {1, 2} /\ seen \in [RuntimeThreads -> SUBSET {1, 2}]
      /\ answered \subseteq {"post", "get"} /\ exited \in {"no", "qb", "glut", "main"}
  BY DEF RuntimeInit
<1>5. features \in Programs /\ queue \in Seq({"post", "get", "exit"})
  BY DEF RuntimeInit
<1> QED
  BY <1>1, <1>2, <1>3, <1>4, <1>5 DEF RuntimeTypeOK

\* All variables keep their types, the places of the four threads among them.
THEOREM RuntimeTypeCorrect == RuntimeSpec => []RuntimeTypeOK
  BY TypeInit, TypeStep, PTL DEF RuntimeSpec

-----------------------------------------------------------------------------
(* The display lock.                                                       *)

\* Each step keeps what the counters and the places of qb and glut say of each other.
LEMMA LockStep == RuntimeTypeOK /\ ~Buffered /\ LockInv /\ [RuntimeNext]_runtimeVars => LockInv'
<1> SUFFICES ASSUME RuntimeTypeOK, ~Buffered, LockInv, [RuntimeNext]_runtimeVars PROVE LockInv'
  OBVIOUS
<1> USE DEF RuntimeTypeOK, Go, locks, ends, oks, gluts, runtimeVars, RuntimeThreads, LockInv,
        CountersInv, ModalInv, FrameInv, GrantInv, InFrame, InSubGL, Lives
<1>1. CASE PlainStatement \/ DialogCount \/ FreeTimer \/ Exit
  BY <1>1 DEF PlainStatement, DialogCount, FreeTimer, Exit
<1>2. CASE System \/ SubEnd \/ SubEndKey \/ SubEndStopped \/ EndInGL
  BY <1>2 DEF EndInGL, ErrorInGL, System, SubEnd, SubEndKey, SubEndStopped
<1>3. CASE DialogOpen \/ DialogClosed \/ DialogConfirm \/ DialogDone
  BY <1>3 DEF Acknowledge, DialogOpen, DialogClosed, DialogConfirm, DialogDone, Confirm, Waits,
     Held
<1>4. CASE EvntLock \/ EvntConfirm \/ EvntReleased \/ EvntPause
  BY <1>4 DEF EvntLock, EvntConfirm, EvntReleased, EvntPause, Acknowledge, Waits, Held
<1>5. CASE FreeTimerWaits \/ GetAnswered \/ PollStatement
  BY <1>5 DEF FreeTimerWaits, GetAnswered, PollStatement
<1>6. CASE CloseWindow \/ Break \/ Pause \/ Unpause
  BY <1>6 DEF CloseWindow, Break, Pause, Unpause
<1>7. CASE GlutStarted \/ GlutInitialized \/ ProcessQueue \/ ProcessedQueue
  BY <1>7 DEF GlutStarted, GlutInitialized, ProcessQueue, ProcessedQueue
<1>8. CASE FrameAsk \/ FrameSkip \/ Drain
  BY <1>8 DEF FrameAsk, FrameSkip, Drain, MayAsk, Ending
<1>9. CASE WaitGranted \/ WaitAborts \/ WaitModal \/ WaitAsks
  <2>1. CASE WaitGranted
    BY <2>1 DEF WaitGranted
  <2>2. CASE WaitAborts
    BY <2>2 DEF WaitAborts, Ending
  <2>3. CASE WaitModal
    BY <2>3 DEF WaitModal, Ending
  <2>4. CASE WaitAsks
    BY <2>4 DEF WaitAsks, Ending
  <2> QED
    BY <1>9, <2>1, <2>2, <2>3, <2>4
<1>10. CASE Grant \/ Call \/ GLReturn \/ FrameDone
  BY <1>10 DEF Grant, Call, GLReturn, FrameDone
<1>11. CASE GLPoll \/ GLPause \/ GLSystem
  BY <1>11 DEF GLPoll, GLPause, GLSystem, ErrorInGL
<1>12. CASE GLDialog \/ GLDialogClosed \/ GLDialogDone
  BY <1>12 DEF GLDialog, GLDialogClosed, GLDialogDone, Waits, Held
<1>13. CASE MainStops \/ MainRaises \/ MainCloses \/ MainAsks \/ MainExits
  BY <1>13 DEF MainStops, MainRaises, MainCloses, MainAsks, MainExits
<1>14. CASE TimerLocks \/ TimerScans \/ TimerSleeps
  BY <1>14 DEF TimerLocks, TimerScans, TimerSleeps
<1>15. CASE Park("qb")
  BY <1>15 DEF Park, End, OrRead, OrStore, Bit
<1>16. CASE Park("glut")
  BY <1>16 DEF Park, End, OrRead, OrStore, Bit
<1>17. CASE OrRead("timer") \/ OrStore("timer")
  BY <1>17 DEF OrRead, OrStore, Bit
<1>18. CASE Post \/ GlutGet \/ ScreenShow \/ ScreenShown \/ MainQueues
  BY <1>18 DEF Post, GlutGet, ScreenShow, ScreenShown, MainQueues, Push
<1>19. CASE Execute
  BY <1>19 DEF Execute, Returns
<1>20. CASE \E t \in {"qb", "glut"} : AlertClosed(t) \/ AlertExits(t)
  BY <1>20 DEF AlertClosed, AlertExits
<1>21. CASE UNCHANGED runtimeVars
  BY <1>21
<1> QED
  BY <1>1, <1>2, <1>3, <1>4, <1>5, <1>6, <1>7, <1>8, <1>9, <1>10, <1>11, <1>12, <1>13, <1>14,
     <1>15, <1>16, <1>17, <1>18, <1>19, <1>20, <1>21
     DEF RuntimeNext, QbStatement, QbOn, User, GlutMay, GlutOn, Main, Timer, Exited, Park

\* At the start no frame is asked for.
LEMMA LockInit == RuntimeInit => LockInv
  BY DEF RuntimeInit, LockInv, CountersInv, ModalInv, FrameInv, GrantInv, InFrame, InSubGL,
     RuntimeThreads

\* LockInv is stronger than the property: GrantInv gives both of its parts.
LEMMA LockImplies == RuntimeTypeOK /\ LockInv => GLExcludesProgram
<1> SUFFICES ASSUME RuntimeTypeOK, LockInv PROVE GLExcludesProgram
  OBVIOUS
<1>1. SubGLAlone
  BY DEF LockInv, GrantInv, Lives, SubGLAlone
<1>2. LocksInOrder
  BY DEF RuntimeTypeOK, LockInv, CountersInv, FrameInv, GrantInv, Lives, InFrame, LocksInOrder,
         Waits, Held
<1> QED
  BY <1>1, <1>2 DEF GLExcludesProgram

\* If a store of display_lock_request is seen at once, SUB _GL runs only while the program is
\* in the poll, in a dialog or ending, and a program that waits for its release gets it
\* (libqb.cpp:745-772 and 27857-27879, qbx.cpp:1627-1633).
THEOREM ProgramAndGLApart == ASSUME ~Buffered PROVE RuntimeSpec => []GLExcludesProgram
<1>1. RuntimeInit => RuntimeTypeOK /\ LockInv
  BY TypeInit, LockInit
<1>2. RuntimeTypeOK /\ LockInv /\ [RuntimeNext]_runtimeVars => (RuntimeTypeOK /\ LockInv)'
  BY TypeStep, LockStep
<1> QED
  BY <1>1, <1>2, LockImplies, PTL DEF RuntimeSpec

-----------------------------------------------------------------------------
(* GLUT messages.                                                          *)

\* What is in a queue after a message more and after one less.
LEMMA InAppend ==
  ASSUME NEW S, NEW q \in Seq(S), NEW msg \in S
  PROVE  /\ Append(q, msg) \in Seq(S)
         /\ \A x : In(x, Append(q, msg)) <=> In(x, q) \/ x = msg
         /\ (OnceIn(q) /\ (msg # "post" => ~In(msg, q))) => OnceIn(Append(q, msg))
<1>1. /\ DOMAIN Append(q, msg) = 1 .. Len(q) + 1
      /\ Append(q, msg)[Len(q) + 1] = msg
      /\ DOMAIN q = 1 .. Len(q) /\ Len(q) \in Nat
      /\ \A n \in DOMAIN q : Append(q, msg)[n] = q[n]
  OBVIOUS
<1>2. DOMAIN Append(q, msg) = DOMAIN q \cup {Len(q) + 1}
  BY <1>1
<1>3. \A x : In(x, Append(q, msg)) <=> In(x, q) \/ x = msg
  BY <1>1, <1>2 DEF In
<1>4. (OnceIn(q) /\ (msg # "post" => ~In(msg, q))) => OnceIn(Append(q, msg))
  BY <1>1, <1>2 DEF In, OnceIn
<1> QED
  BY <1>3, <1>4

LEMMA InTail ==
  ASSUME NEW S, NEW q \in Seq(S), q # <<>>
  PROVE  /\ Tail(q) \in Seq(S) /\ Head(q) \in S /\ In(Head(q), q)
         /\ \A x : In(x, q) <=> In(x, Tail(q)) \/ x = Head(q)
         /\ OnceIn(q) => OnceIn(Tail(q)) /\ (Head(q) # "post" => ~In(Head(q), Tail(q)))
<1>1. Len(q) \in Nat /\ Len(q) # 0 /\ DOMAIN q = 1 .. Len(q)
  OBVIOUS
<1>2. Head(q) = q[1] /\ 1 \in DOMAIN q
  BY <1>1
<1>3. DOMAIN Tail(q) = 1 .. Len(q) - 1
  BY <1>1
<1>4. \A n \in 1 .. Len(q) - 1 : Tail(q)[n] = q[n + 1]
  BY <1>1
<1>5. In(Head(q), q)
  BY <1>2 DEF In
<1>6. ASSUME NEW x, In(x, q) PROVE In(x, Tail(q)) \/ x = Head(q)
  <2>1. \A n \in DOMAIN q : n # 1 => n - 1 \in DOMAIN Tail(q) /\ Tail(q)[n - 1] = q[n]
    BY <1>1, <1>3, <1>4
  <2>2. PICK n \in DOMAIN q : q[n] = x
    BY <1>6 DEF In
  <2> QED
    BY <2>1, <2>2, <1>2 DEF In
<1>7. \A n \in DOMAIN Tail(q) : n + 1 \in DOMAIN q /\ n + 1 # 1 /\ Tail(q)[n] = q[n + 1]
  BY <1>1, <1>3, <1>4
<1>8. \A x : In(x, Tail(q)) \/ x = Head(q) => In(x, q)
  BY <1>2, <1>7 DEF In
<1>9. OnceIn(q) => OnceIn(Tail(q))
  BY <1>1, <1>3, <1>7 DEF OnceIn
<1>10. OnceIn(q) => (Head(q) # "post" => ~In(Head(q), Tail(q)))
  BY <1>2, <1>7 DEF OnceIn, In
<1> QED
  BY <1>5, <1>6, <1>8, <1>9, <1>10

\* The queue is empty at the start.
LEMMA MessageInit == RuntimeInit => MessageInv
<1> SUFFICES ASSUME RuntimeInit PROVE MessageInv
  OBVIOUS
<1>1. ~Queued("get") /\ ~Queued("exit") /\ DOMAIN queue = {}
  BY DEF RuntimeInit, Queued
<1> QED
  BY <1>1 DEF RuntimeInit, MessageInv, MessageOwned, RuntimeThreads

\* Each step keeps the owners: only five actions push and one pops.
LEMMA MessageStep == RuntimeTypeOK /\ MessageInv /\ [RuntimeNext]_runtimeVars => MessageInv'
<1> SUFFICES ASSUME RuntimeTypeOK, MessageInv, [RuntimeNext]_runtimeVars PROVE MessageInv'
  OBVIOUS
<1> DEFINE M == /\ In("get", queue) => rt_pc["qb"] = "get"
                /\ rt_pc["qb"] = "get" => In("get", queue) \/ "get" \in answered
                /\ exited = "no" => (rt_pc["main"] = "exit" <=> In("exit", queue))
                /\ OnceIn(queue)
                /\ "get" \in answered => ~In("get", queue)
<1>a. MessageInv <=> M
  BY DEF MessageInv, MessageOwned, Queued, In, OnceIn
<1>b. MessageInv' <=> M'
  BY DEF MessageInv, MessageOwned, Queued, In, OnceIn
<1> SUFFICES M'
  BY <1>b
<1> USE <1>a DEF RuntimeTypeOK, Go, locks, ends, oks, gluts, runtimeVars, RuntimeThreads
<1>1. CASE PlainStatement \/ DialogCount \/ FreeTimer \/ Exit
  BY <1>1 DEF PlainStatement, DialogCount, FreeTimer, Exit
<1>2. CASE System \/ SubEnd \/ SubEndKey \/ SubEndStopped \/ EndInGL
  BY <1>2 DEF EndInGL, ErrorInGL, System, SubEnd, SubEndKey, SubEndStopped
<1>3. CASE DialogOpen \/ DialogClosed \/ DialogConfirm \/ DialogDone
  BY <1>3 DEF DialogOpen, DialogClosed, DialogConfirm, DialogDone, Confirm, Waits, Held
<1>4. CASE EvntLock \/ EvntConfirm \/ EvntReleased \/ EvntPause
  BY <1>4 DEF EvntLock, EvntConfirm, EvntReleased, EvntPause, Acknowledge, Waits, Held
<1>5. CASE FreeTimerWaits \/ GetAnswered \/ PollStatement
  BY <1>5 DEF FreeTimerWaits, GetAnswered, PollStatement
<1>6. CASE CloseWindow \/ Break \/ Pause \/ Unpause
  BY <1>6 DEF CloseWindow, Break, Pause, Unpause
<1>7. CASE GlutStarted \/ GlutInitialized \/ ProcessQueue \/ ProcessedQueue
  BY <1>7 DEF GlutStarted, GlutInitialized, ProcessQueue, ProcessedQueue
<1>8. CASE FrameAsk \/ FrameSkip \/ Drain
  BY <1>8 DEF FrameAsk, FrameSkip, Drain, MayAsk, Ending
<1>9. CASE WaitGranted \/ WaitAborts \/ WaitModal \/ WaitAsks
  BY <1>9 DEF WaitGranted, WaitAborts, WaitModal, WaitAsks, Ending
<1>10. CASE Grant \/ Call \/ GLReturn \/ FrameDone
  BY <1>10 DEF Grant, Call, GLReturn, FrameDone
<1>11. CASE GLPoll \/ GLPause \/ GLSystem
  BY <1>11 DEF GLPoll, GLPause, GLSystem, ErrorInGL, Does
<1>12. CASE GLDialog \/ GLDialogClosed \/ GLDialogDone
  BY <1>12 DEF GLDialog, GLDialogClosed, GLDialogDone, Waits, Held
<1>13. CASE MainStops \/ MainRaises \/ MainCloses \/ MainAsks \/ MainExits
  BY <1>13 DEF MainStops, MainRaises, MainCloses, MainAsks, MainExits, MustStop
<1>14. CASE TimerLocks \/ TimerScans \/ TimerSleeps
  BY <1>14 DEF TimerLocks, TimerScans, TimerSleeps
<1>15. CASE Park("qb")
  BY <1>15 DEF Park, End, OrRead, OrStore, Bit
<1>16. CASE Park("glut")
  BY <1>16 DEF Park, End, OrRead, OrStore, Bit
<1>17. CASE OrRead("timer") \/ OrStore("timer")
  BY <1>17 DEF OrRead, OrStore, Bit
<1>18. CASE Post \/ GlutGet \/ ScreenShow \/ ScreenShown \/ MainQueues
  <2>1. ASSUME NEW msg \in {"post", "get", "exit"}, Push(msg), msg # "post" => ~In(msg, queue)
        PROVE  /\ OnceIn(queue') /\ \A x : In(x, queue') <=> In(x, queue) \/ x = msg
               /\ answered' = answered \ {msg}
    BY <2>1, InAppend DEF Push
  <2>2. CASE Post
    BY <2>1, <2>2 DEF Post
  <2>3. CASE GlutGet
    BY <2>1, <2>3 DEF GlutGet
  <2>4. CASE ScreenShow \/ ScreenShown
    BY <2>1, <2>4 DEF ScreenShow, ScreenShown
  <2>5. CASE MainQueues
    BY <2>1, <2>5 DEF MainQueues
  <2> QED
    BY <1>18, <2>2, <2>3, <2>4, <2>5
<1>19. CASE Execute
  <2>1. /\ OnceIn(queue') /\ (Head(queue) # "post" => ~In(Head(queue), queue'))
        /\ \A x : In(x, queue) <=> In(x, queue') \/ x = Head(queue)
    BY <1>19, InTail DEF Execute
  <2>2. CASE Returns(Head(queue))
    BY <1>19, <2>1, <2>2 DEF Execute, Returns
  <2>3. CASE ~Returns(Head(queue))
    BY <1>19, <2>1, <2>3 DEF Execute, Returns
  <2> QED
    BY <2>2, <2>3
<1>20. CASE \E t \in {"qb", "glut"} : AlertClosed(t) \/ AlertExits(t)
  BY <1>20 DEF AlertClosed, AlertExits
<1>21. CASE UNCHANGED runtimeVars
  BY <1>21
<1> QED
  BY <1>1, <1>2, <1>3, <1>4, <1>5, <1>6, <1>7, <1>8, <1>9, <1>10, <1>11, <1>12, <1>13, <1>14,
     <1>15, <1>16, <1>17, <1>18, <1>19, <1>20, <1>21
     DEF RuntimeNext, QbStatement, QbOn, User, GlutMay, GlutOn, Main, Timer, Exited, Park

\* A message on the stack of the thread that waits for it is in the queue until it is
\* finished and never after (glut-msg-queue.cpp:31-63, 98-110).
THEOREM MessagesHaveOwners == RuntimeSpec => []MessageOwned
<1>1. RuntimeInit => RuntimeTypeOK /\ MessageInv
  BY TypeInit, MessageInit
<1>2. RuntimeTypeOK /\ MessageInv /\ [RuntimeNext]_runtimeVars
         => (RuntimeTypeOK /\ MessageInv)'
  BY TypeStep, MessageStep
<1>3. MessageInv => MessageOwned
  BY DEF MessageInv
<1> QED
  BY <1>1, <1>2, <1>3, PTL DEF RuntimeSpec

-----------------------------------------------------------------------------
(* The end of the program.                                                 *)

\* At the start GLUT runs unless the program starts hidden.
LEMMA StartInit == RuntimeInit => StartInv
<1> SUFFICES ASSUME RuntimeInit PROVE StartInv
  OBVIOUS
<1>1. /\ glut_is_started <=> ~Does("hidden")
      /\ rt_pc["glut"] = IF Does("hidden") THEN "hidden" ELSE "loop"
      /\ rt_pc["main"] = "loop" /\ exited = "no"
  BY DEF RuntimeInit
<1>2. exit_ok \cup seen["timer"] = {} /\ ~initialized /\ ~starter
  BY DEF RuntimeInit, RuntimeThreads
<1>3. glut_is_started <=> rt_pc["glut"] # "hidden"
  BY <1>1
<1> QED
  BY <1>1, <1>2, <1>3 DEF StartInv

\* Each step keeps what the start and the end of the program know of each other.
LEMMA StartStep == RuntimeTypeOK /\ StartInv /\ [RuntimeNext]_runtimeVars => StartInv'
<1> SUFFICES ASSUME RuntimeTypeOK, StartInv, [RuntimeNext]_runtimeVars PROVE StartInv'
  OBVIOUS
<1> USE DEF RuntimeTypeOK, Go, locks, ends, oks, gluts, runtimeVars, RuntimeThreads,
           StartInv, OneParked
<1>1. CASE PlainStatement \/ DialogCount \/ FreeTimer \/ Exit
  BY <1>1 DEF PlainStatement, DialogCount, FreeTimer, Exit
<1>2. CASE System \/ SubEnd \/ SubEndKey \/ SubEndStopped \/ EndInGL
  BY <1>2 DEF EndInGL, ErrorInGL, System, SubEnd, SubEndKey, SubEndStopped
<1>3. CASE DialogOpen \/ DialogClosed \/ DialogConfirm \/ DialogDone
  BY <1>3 DEF DialogOpen, DialogClosed, DialogConfirm, DialogDone, Confirm, Waits, Held
<1>4. CASE EvntLock \/ EvntConfirm \/ EvntReleased \/ EvntPause
  BY <1>4 DEF EvntLock, EvntConfirm, EvntReleased, EvntPause, Acknowledge, Waits, Held
<1>5. CASE FreeTimerWaits \/ GetAnswered \/ PollStatement
  BY <1>5 DEF FreeTimerWaits, GetAnswered, PollStatement
<1>6. CASE CloseWindow \/ Break \/ Pause \/ Unpause
  BY <1>6 DEF CloseWindow, Break, Pause, Unpause
<1>7. CASE GlutStarted \/ GlutInitialized \/ ProcessQueue \/ ProcessedQueue
  BY <1>7 DEF GlutStarted, GlutInitialized, ProcessQueue, ProcessedQueue
<1>8. CASE FrameAsk \/ FrameSkip \/ Drain
  BY <1>8 DEF FrameAsk, FrameSkip, Drain, MayAsk, Ending
<1>9. CASE WaitGranted \/ WaitAborts \/ WaitModal \/ WaitAsks
  BY <1>9 DEF WaitGranted, WaitAborts, WaitModal, WaitAsks, Ending
<1>10. CASE Grant \/ Call \/ GLReturn \/ FrameDone
  BY <1>10 DEF Grant, Call, GLReturn, FrameDone
<1>11. CASE GLPoll \/ GLPause \/ GLSystem
  BY <1>11 DEF GLPoll, GLPause, GLSystem, ErrorInGL, Does
<1>12. CASE GLDialog \/ GLDialogClosed \/ GLDialogDone
  BY <1>12 DEF GLDialog, GLDialogClosed, GLDialogDone, Waits, Held
<1>13. CASE MainStops \/ MainRaises \/ MainCloses \/ MainAsks \/ MainExits
  BY <1>13 DEF MainStops, MainRaises, MainCloses, AllParked, ExitsHere, MainAsks, MainExits,
     MustStop
<1>14. CASE TimerLocks \/ TimerScans \/ TimerSleeps
  BY <1>14 DEF TimerLocks, TimerScans, TimerSleeps
<1>15. CASE Park("qb")
  BY <1>15 DEF Park, End, OrRead, OrStore, Bit
<1>16. CASE Park("glut")
  BY <1>16 DEF Park, End, OrRead, OrStore, Bit
<1>17. CASE OrRead("timer") \/ OrStore("timer")
  BY <1>17 DEF OrRead, OrStore, Bit
<1>18. CASE Post \/ GlutGet \/ ScreenShow \/ ScreenShown \/ MainQueues
  BY <1>18 DEF Post, GlutGet, ScreenShow, ScreenShown, MainQueues, Push
<1>19. CASE Execute
  BY <1>19 DEF Execute, Returns
<1>20. CASE \E t \in {"qb", "glut"} : AlertClosed(t) \/ AlertExits(t)
  BY <1>20 DEF AlertClosed, AlertExits
<1>21. CASE UNCHANGED runtimeVars
  BY <1>21
<1> QED
  BY <1>1, <1>2, <1>3, <1>4, <1>5, <1>6, <1>7, <1>8, <1>9, <1>10, <1>11, <1>12, <1>13, <1>14,
     <1>15, <1>16, <1>17, <1>18, <1>19, <1>20, <1>21
     DEF RuntimeNext, QbStatement, QbOn, User, GlutMay, GlutOn, Main, Timer, Exited, Park

\* When main finds that GLUT does not run, no window is being started: the exit() of
\* libqb_exit() is GLUT's if there is a window (glut-main-thread.cpp:147-184).
THEOREM ExitsOnGlutThread == RuntimeSpec => []ExitOnGlutThread
<1>1. RuntimeInit => RuntimeTypeOK /\ StartInv
  BY TypeInit, StartInit
<1>2. RuntimeTypeOK /\ StartInv /\ [RuntimeNext]_runtimeVars => (RuntimeTypeOK /\ StartInv)'
  BY TypeStep, StartStep
<1>3. StartInv => ExitOnGlutThread
  BY DEF StartInv, ExitOnGlutThread
<1> QED
  BY <1>1, <1>2, <1>3, PTL DEF RuntimeSpec

\* No bit is set at the start.
LEMMA BitInit == RuntimeInit => BitInv
  BY DEF RuntimeInit, BitInv, ClosedAfterParked, RuntimeThreads

\* Without polls in SUB _GL each bit is set by its own thread only.
LEMMA BitStep == RuntimeTypeOK /\ NoProgramPolls /\ BitInv /\ [RuntimeNext]_runtimeVars => BitInv'
<1> SUFFICES ASSUME RuntimeTypeOK, NoProgramPolls, BitInv, [RuntimeNext]_runtimeVars PROVE BitInv'
  OBVIOUS
<1> USE DEF RuntimeTypeOK, Go, locks, ends, oks, gluts, runtimeVars, RuntimeThreads, BitInv,
        ClosedAfterParked, NoProgramPolls
<1>1. CASE PlainStatement \/ DialogCount \/ FreeTimer \/ Exit
  BY <1>1 DEF PlainStatement, DialogCount, FreeTimer, Exit
<1>2. CASE System \/ SubEnd \/ SubEndKey \/ SubEndStopped \/ EndInGL
  BY <1>2 DEF EndInGL, ErrorInGL, System, SubEnd, SubEndKey, SubEndStopped
<1>3. CASE DialogOpen \/ DialogClosed \/ DialogConfirm \/ DialogDone
  BY <1>3 DEF DialogOpen, DialogClosed, DialogConfirm, DialogDone, Confirm, Waits, Held
<1>4. CASE EvntLock \/ EvntConfirm \/ EvntReleased \/ EvntPause
  BY <1>4 DEF EvntLock, EvntConfirm, EvntReleased, EvntPause, Acknowledge, Waits, Held
<1>5. CASE FreeTimerWaits \/ GetAnswered \/ PollStatement
  BY <1>5 DEF FreeTimerWaits, GetAnswered, PollStatement
<1>6. CASE CloseWindow \/ Break \/ Pause \/ Unpause
  BY <1>6 DEF CloseWindow, Break, Pause, Unpause
<1>7. CASE GlutStarted \/ GlutInitialized \/ ProcessQueue \/ ProcessedQueue
  BY <1>7 DEF GlutStarted, GlutInitialized, ProcessQueue, ProcessedQueue
<1>8. CASE FrameAsk \/ FrameSkip \/ Drain
  BY <1>8 DEF FrameAsk, FrameSkip, Drain, MayAsk, Ending
<1>9. CASE WaitGranted \/ WaitAborts \/ WaitModal \/ WaitAsks
  BY <1>9 DEF WaitGranted, WaitAborts, WaitModal, WaitAsks, Ending
<1>10. CASE Grant \/ Call \/ GLReturn \/ FrameDone
  BY <1>10 DEF Grant, Call, GLReturn, FrameDone
<1>11. CASE GLPoll \/ GLPause \/ GLSystem
  BY <1>11 DEF GLPoll, GLPause, GLSystem, ErrorInGL, Does
<1>12. CASE GLDialog \/ GLDialogClosed \/ GLDialogDone
  BY <1>12 DEF GLDialog, GLDialogClosed, GLDialogDone, Waits, Held
<1>13. CASE MainStops \/ MainRaises \/ MainCloses \/ MainAsks \/ MainExits
  BY <1>13 DEF MainStops, MainRaises, MainCloses, AllParked, ExitsHere, MainAsks, MainExits,
     MustStop
<1>14. CASE TimerLocks \/ TimerScans \/ TimerSleeps
  BY <1>14 DEF TimerLocks, TimerScans, TimerSleeps
<1>15. CASE Park("qb")
  BY <1>15 DEF Park, End, OrRead, OrStore, Bit
<1>16. CASE Park("glut")
  BY <1>16 DEF Park, End, OrRead, OrStore, Bit
<1>17. CASE OrRead("timer") \/ OrStore("timer")
  BY <1>17 DEF OrRead, OrStore, Bit
<1>18. CASE Post \/ GlutGet \/ ScreenShow \/ ScreenShown \/ MainQueues
  BY <1>18 DEF Post, GlutGet, ScreenShow, ScreenShown, MainQueues, Push
<1>19. CASE Execute
  BY <1>19 DEF Execute, Returns
<1>20. CASE \E t \in {"qb", "glut"} : AlertClosed(t) \/ AlertExits(t)
  BY <1>20 DEF AlertClosed, AlertExits
<1>21. CASE UNCHANGED runtimeVars
  BY <1>21
<1> QED
  BY <1>1, <1>2, <1>3, <1>4, <1>5, <1>6, <1>7, <1>8, <1>9, <1>10, <1>11, <1>12, <1>13, <1>14,
     <1>15, <1>16, <1>17, <1>18, <1>19, <1>20, <1>21
     DEF RuntimeNext, QbStatement, QbOn, User, GlutMay, GlutOn, Main, Timer, Exited, Park

\* However the two |= on exit_ok interleave, MAIN_LOOP closes files, HTTP handles and devices
\* only after the program and the timer thread have parked (libqb.cpp:7022, 29186-29202).
THEOREM ClosesAfterParked ==
  ASSUME NoProgramPolls PROVE RuntimeSpec => []ClosedAfterParked
<1>1. RuntimeInit => RuntimeTypeOK /\ BitInv
  BY TypeInit, BitInit
<1>2. RuntimeTypeOK /\ BitInv /\ [RuntimeNext]_runtimeVars => (RuntimeTypeOK /\ BitInv)'
  BY TypeStep, BitStep
<1>3. BitInv => ClosedAfterParked
  BY DEF BitInv
<1> QED
  BY <1>1, <1>2, <1>3, PTL DEF RuntimeSpec
=============================================================================
