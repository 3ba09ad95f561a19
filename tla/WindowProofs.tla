---------------------------- MODULE WindowProofs ----------------------------
(***************************************************************************)
(* Proofs about Frames, for any number of frames that are drawn: who may   *)
(* be in display() and what lock_display means (ModeInv), that the frame a *)
(* thread works on is one (PlaceInv), and, for FramesFound, which frames   *)
(* can be in use while display() looks for one (PoolInv).                  *)
(*                                                                         *)
(* Proofs about Keyhit, for any size of the buffer and any number of keys, *)
(* up to the first time that a drop meets a read or a clear a new event.   *)
(* What is in the buffer is found by its distance from the end             *)
(* (BufferInv): the index that the program moves does not matter for it,   *)
(* so either thread may be anywhere.                                       *)
(*                                                                         *)
(* Proofs about Http: the program and the curl thread never use a          *)
(* completion, a handle or a connection that is gone, and leave none       *)
(* behind; what EOF() reported stays true.  The inductive invariant (HInv) *)
(* says who holds a connection: the table of handles, the two queues, the  *)
(* list of connections to drop and libcurl each have it in turn, and the   *)
(* caller waits exactly while a queue or a handle has its completion.      *)
(***************************************************************************)
EXTENDS Frames, Keyhit, Http, StackLemmas, TLAPS

-----------------------------------------------------------------------------
(* Frames.                                                                 *)

\* MAIN_LOOP is in display() only while it displays, the program only in _DISPLAY; a request
\* for the lock is one of SCREEN's, and granted only where nothing is drawn any more.
ModeInv ==
    /\ d_pc["main"] # "out" => autodisplay # 0
    /\ d_pc["program"] # "out" => p_pc = "display"
    /\ p_pc = "display" => autodisplay = 0
    /\ autodisplay = -1 => p_pc = "wait_auto"
    /\ lock_display # 0 => p_pc \in {"wait_lock", "changing"} /\ autodisplay = 1
    /\ p_pc = "changing" /\ autodisplay # 0 => lock_display = 2
    /\ lock_display = 2 => d_pc["main"] \in {"out", "enter", "test", "granted", "switch"}

PlaceInv ==
    /\ \A t \in Builders :
        /\ d_pc[t] \in {"compare", "draw", "publish", "cancel"} =>
              frame_i \in FrameSlots /\ frame_order[frame_i] >= 1
        /\ d_pc[t] = "publish" => frame_order[frame_i] <= MaxFrames
    /\ g_pc \in {"clear", "show", "upload"} => next_i \in FrameSlots

Inv1 == FramesTypeOK /\ ModeInv /\ PlaceInv

-----------------------------------------------------------------------------

LEMMA Init1 == FramesInit => Inv1
<1> SUFFICES ASSUME FramesInit PROVE Inv1
  OBVIOUS
<1> USE FramesAssumption DEF FramesAssumption, FramesInit, FrameSlots, Builders
<1>1. FramesTypeOK
  <2>1. /\ screen_hide \in BOOLEAN /\ screen_last_valid \in BOOLEAN
        /\ closed \in BOOLEAN /\ check_last \in BOOLEAN
    BY Zenon
  <2> QED
    BY <2>1 DEF FramesTypeOK
<1>2. ModeInv
  BY DEF ModeInv
<1>3. PlaceInv
  BY DEF PlaceInv
<1> QED
  BY <1>1, <1>2, <1>3 DEF Inv1

\* Each step of display() keeps the first part of the invariant.
LEMMA Display1 ==
  ASSUME Inv1, NEW t \in Builders, Display(t)
  PROVE  Inv1'
<1> USE FramesAssumption DEF FramesAssumption, Inv1, FrameSlots, Builders, switches, screen,
        frameData, locals, last, window, Goto, Step, Finished
<1>1. CASE Enter(t)
  BY <1>1 DEF Enter, FramesTypeOK, ModeInv, PlaceInv
<1>2. CASE Test(t)
  BY <1>2 DEF Test, FramesTypeOK, ModeInv, PlaceInv
<1>3. CASE FindReady(t)
  BY <1>3 DEF FindReady, FramesTypeOK, ModeInv, PlaceInv
<1>4. CASE FindEmpty(t)
  BY <1>4 DEF FindEmpty, FramesTypeOK, ModeInv, PlaceInv
<1>5. CASE Take(t)
  BY <1>5 DEF Take, FramesTypeOK, ModeInv, PlaceInv
<1>6. CASE Compare(t)
  BY <1>6 DEF Compare, FramesTypeOK, ModeInv, PlaceInv
<1>7. CASE NoNewFrame(t)
  BY <1>7 DEF NoNewFrame, FramesTypeOK, ModeInv, PlaceInv
<1>8. CASE Draw(t)
  BY <1>8 DEF Draw, FramesTypeOK, ModeInv, PlaceInv
<1>9. CASE Publish(t)
  <2> USE <1>9 DEF Publish
  <2>1. frame_i \in 0 .. 2 /\ frame_order[frame_i] \in 1 .. MaxFrames
    BY DEF FramesTypeOK, PlaceInv
  <2>2. published' \subseteq 1 .. MaxFrames
    BY <2>1 DEF FramesTypeOK
  <2>3. picture' \in [FrameSlots -> 0 .. MaxFrames]
    BY <2>1 DEF FramesTypeOK
  <2>4. FramesTypeOK'
    BY <2>2, <2>3 DEF FramesTypeOK
  <2>5. ModeInv' /\ PlaceInv'
    BY DEF FramesTypeOK, ModeInv, PlaceInv
  <2> QED
    BY <2>4, <2>5
<1>10. CASE Cancel(t)
  BY <1>10 DEF Cancel, FramesTypeOK, ModeInv, PlaceInv
<1>11. CASE Granted(t)
  BY <1>11 DEF Granted, FramesTypeOK, ModeInv, PlaceInv
<1>12. CASE Switched(t)
  BY <1>12 DEF Switched, FramesTypeOK, ModeInv, PlaceInv
<1> QED
  BY <1>1, <1>2, <1>3, <1>4, <1>5, <1>6, <1>7, <1>8, <1>9, <1>10, <1>11, <1>12 DEF Display

\* And so does each step of the program, of MAIN_LOOP and of the window.
LEMMA Others1 ==
  ASSUME Inv1, MainDisplays \/ MainEnds \/ Program \/ Window
  PROVE  Inv1'
<1> USE FramesAssumption DEF FramesAssumption, Inv1, FrameSlots, Builders, switches, screen,
        frameData, locals, last, window, Goto, GStep, GlutKeeps, Finished
<1>1. CASE MainDisplays
  BY <1>1 DEF MainDisplays, FramesTypeOK, ModeInv, PlaceInv
<1>2. CASE MainEnds
  BY <1>2 DEF MainEnds, FramesTypeOK, ModeInv, PlaceInv
<1>3. CASE Lock
  BY <1>3 DEF Lock, FramesTypeOK, ModeInv, PlaceInv
<1>4. CASE Locked
  BY <1>4 DEF Locked, FramesTypeOK, ModeInv, PlaceInv
<1>5. CASE Unlock
  <2>1. screen_last_valid' \in BOOLEAN
    BY <1>5, Zenon DEF Unlock
  <2>2. FramesTypeOK'
    BY <2>1, <1>5 DEF Unlock, FramesTypeOK
  <2>3. ModeInv' /\ PlaceInv'
    BY <1>5 DEF Unlock, FramesTypeOK, ModeInv, PlaceInv
  <2> QED
    BY <2>2, <2>3
<1>6. CASE SubDisplay
  BY <1>6 DEF SubDisplay, FramesTypeOK, ModeInv, PlaceInv
<1>7. CASE SwitchedOver
  BY <1>7 DEF SwitchedOver, FramesTypeOK, ModeInv, PlaceInv
<1>8. CASE Displayed
  BY <1>8 DEF Displayed, FramesTypeOK, ModeInv, PlaceInv
<1>9. CASE AutoDisplay
  BY <1>9 DEF AutoDisplay, FramesTypeOK, ModeInv, PlaceInv
<1>10. CASE HideOrShow
  BY <1>10 DEF HideOrShow, FramesTypeOK, ModeInv, PlaceInv
<1>11. CASE Parks
  BY <1>11 DEF Parks, FramesTypeOK, ModeInv, PlaceInv
<1>12. CASE Request
  BY <1>12 DEF Request, FramesTypeOK, ModeInv, PlaceInv
<1>13. CASE FindLast
  BY <1>13 DEF FindLast, FramesTypeOK, ModeInv, PlaceInv
<1>14. CASE FindNext
  BY <1>14 DEF FindNext, FramesTypeOK, ModeInv, PlaceInv
<1>15. CASE Choose
  BY <1>15 DEF Choose, FramesTypeOK, ModeInv, PlaceInv
<1>16. CASE ClearOlder
  BY <1>16 DEF ClearOlder, FramesTypeOK, ModeInv, PlaceInv
<1>17. CASE Show
  BY <1>17 DEF Show, FramesTypeOK, ModeInv, PlaceInv
<1>18. CASE Upload
  BY <1>18 DEF Upload, FramesTypeOK, ModeInv, PlaceInv
<1>19. CASE Page
  BY <1>19 DEF Page, FramesTypeOK, ModeInv, PlaceInv
<1>20. CASE Paged
  BY <1>20 DEF Paged, FramesTypeOK, ModeInv, PlaceInv
<1> QED
  BY <1>1, <1>2, <1>3, <1>4, <1>5, <1>6, <1>7, <1>8, <1>9, <1>10, <1>11, <1>12,
     <1>13, <1>14, <1>15, <1>16, <1>17, <1>18, <1>19, <1>20
     DEF Program, Window

LEMMA Inv1Step == Inv1 /\ [FramesNext]_framesVars => Inv1'
<1> SUFFICES ASSUME Inv1, [FramesNext]_framesVars PROVE Inv1'
  OBVIOUS
<1>1. CASE FramesNext
  BY <1>1, Display1, Others1 DEF FramesNext
<1>2. CASE UNCHANGED framesVars
  BY <1>2 DEF framesVars, switches, screen, frameData, locals, last, window, Inv1, FramesTypeOK,
     ModeInv, PlaceInv
<1> QED
  BY <1>1, <1>2

LEMMA Inv1Holds == FramesSpec => []Inv1
  BY Init1, Inv1Step, PTL DEF FramesSpec

\* Every variable keeps its type: a frame that display() or the window works on is one of the
\* three, although its index is -1 at times.
THEOREM FramesTypeCorrect == FramesSpec => []FramesTypeOK
  BY Inv1Holds, PTL DEF Inv1

\* display(), whose variables are static, is never on two threads, in spite of _DISPLAY and
\* _AUTODISPLAY, and nowhere in its drawing while SCREEN, WIDTH or _FONT change the screen.
THEOREM DisplayIsAlone == FramesSpec => []DisplayAlone
<1>1. Inv1 => DisplayAlone
  BY DEF Inv1, FramesTypeOK, ModeInv, DisplayAlone, DisplayOnce, ScreenUndisturbed, Builders
<1> QED
  BY <1>1, Inv1Holds, PTL

-----------------------------------------------------------------------------
(* There is always a frame.                                                *)

Shows(s) == frame_state[s] = "DISPLAYING"

\* The window is not about to show another frame.
Unpicked == g_pc \in {"idle", "last", "upload"} \/ (g_pc \in {"find", "choose"} /\ next_i = -1)

\* Whatever the two do meanwhile, one frame is shown at most, and one is drawn; those that wait
\* are older than the next.
UseInv ==
    /\ \A r, s \in FrameSlots : Shows(r) /\ Shows(s) => r = s
    /\ \A s \in FrameSlots : frame_order[s] <= order_next
    /\ \A s \in FrameSlots : frame_state[s] = "READY" => frame_order[s] < order_next
    /\ \A s \in FrameSlots : frame_state[s] = "BUILDING" =>
          s = frame_i /\ \E t \in Builders : d_pc[t] \in {"compare", "draw", "publish", "cancel"}
    /\ \A t \in Builders :
          d_pc[t] \in {"compare", "draw", "publish"} /\ frame_order[frame_i] <= MaxFrames =>
             frame_order[frame_i] < order_next

\* The window chooses a frame that is newer than the one it shows, and frees that one first.
NewerInv ==
    /\ g_pc = "last" => \A s \in FrameSlots : Shows(s) /\ s < g_i => last_i = s
    /\ g_pc = "last" => next_i = -1
    /\ g_pc = "find" => \A s \in FrameSlots : Shows(s) => frame_order[s] <= g_bound
    /\ g_pc = "choose" => g_i = 0
    /\ g_pc \in {"find", "choose", "clear"} /\ next_i # -1 =>
          \A s \in FrameSlots : Shows(s) => frame_order[s] < frame_order[next_i]
    /\ g_pc = "clear" => \A s \in FrameSlots : Shows(s) => s >= g_i
    /\ g_pc = "show" => \A s \in FrameSlots : ~Shows(s)

\* While display() finds nothing, no frame waits, and those it has passed were on display one
\* after the other: not two without the window showing another in between.
SearchInv == \A t \in Builders : frame_i = -1 =>
    /\ d_pc[t] = "ready" =>
          bound = order_next /\ \A s \in FrameSlots : s < d_i => frame_state[s] # "READY"
    /\ d_pc[t] = "empty" =>
          /\ \A s \in FrameSlots : frame_state[s] # "READY"
          /\ d_i = 1 => \/ Shows(0)
                        \/ g_pc \in {"clear", "show"} /\ \A s \in FrameSlots : ~Shows(s)
                        \/ Unpicked
          /\ d_i = 2 => Shows(1) /\ Unpicked
    /\ d_pc[t] # "take"

PoolInv == UseInv /\ NewerInv /\ SearchInv

\* No step of display() or of the others lets a second frame be shown or drawn ...
LEMMA DisplayUse ==
  ASSUME Inv1, Inv1', PoolInv, NEW t \in Builders, Display(t)
  PROVE  UseInv'
<1> USE FramesAssumption DEF FramesAssumption, Inv1, FrameSlots, Builders, switches, screen,
        frameData, locals, last, window, Goto, Step, GStep, GlutKeeps, Finished, Shows, Unpicked
<1>1. CASE Enter(t)
  BY <1>1 DEF Enter, FramesTypeOK, ModeInv, PlaceInv, UseInv, NewerInv, SearchInv, PoolInv
<1>2. CASE Test(t)
  BY <1>2 DEF Test, FramesTypeOK, ModeInv, PlaceInv, UseInv, NewerInv, SearchInv, PoolInv
<1>3. CASE FindReady(t)
  BY <1>3 DEF FindReady, FramesTypeOK, ModeInv, PlaceInv, UseInv, NewerInv, SearchInv, PoolInv
<1>4. CASE FindEmpty(t)
  BY <1>4 DEF FindEmpty, FramesTypeOK, ModeInv, PlaceInv, UseInv, NewerInv, SearchInv, PoolInv
<1>5. CASE Take(t)
  BY <1>5 DEF Take, FramesTypeOK, ModeInv, PlaceInv, UseInv, NewerInv, SearchInv, PoolInv
<1>6. CASE Compare(t)
  BY <1>6 DEF Compare, FramesTypeOK, ModeInv, PlaceInv, UseInv, NewerInv, SearchInv, PoolInv
<1>7. CASE NoNewFrame(t)
  BY <1>7 DEF NoNewFrame, FramesTypeOK, ModeInv, PlaceInv, UseInv, NewerInv, SearchInv, PoolInv
<1>8. CASE Draw(t)
  BY <1>8 DEF Draw, FramesTypeOK, ModeInv, PlaceInv, UseInv, NewerInv, SearchInv, PoolInv
<1>9. CASE Publish(t)
  BY <1>9 DEF Publish, FramesTypeOK, ModeInv, PlaceInv, UseInv, NewerInv, SearchInv, PoolInv
<1>10. CASE Cancel(t)
  BY <1>10 DEF Cancel, FramesTypeOK, ModeInv, PlaceInv, UseInv, NewerInv, SearchInv, PoolInv
<1>11. CASE Granted(t)
  BY <1>11 DEF Granted, FramesTypeOK, ModeInv, PlaceInv, UseInv, NewerInv, SearchInv, PoolInv
<1>12. CASE Switched(t)
  BY <1>12 DEF Switched, FramesTypeOK, ModeInv, PlaceInv, UseInv, NewerInv, SearchInv, PoolInv
<1> QED
  BY <1>1, <1>2, <1>3, <1>4, <1>5, <1>6, <1>7, <1>8, <1>9, <1>10, <1>11, <1>12 DEF Display

LEMMA OthersUse ==
  ASSUME Inv1, Inv1', PoolInv, MainDisplays \/ MainEnds \/ Program \/ Window
  PROVE  UseInv'
<1> USE FramesAssumption DEF FramesAssumption, Inv1, FrameSlots, Builders, switches, screen,
        frameData, locals, last, window, Goto, Step, GStep, GlutKeeps, Finished, Shows, Unpicked
<1>1. CASE MainDisplays
  BY <1>1 DEF MainDisplays, FramesTypeOK, ModeInv, PlaceInv, UseInv, NewerInv, SearchInv, PoolInv
<1>2. CASE MainEnds
  BY <1>2 DEF MainEnds, FramesTypeOK, ModeInv, PlaceInv, UseInv, NewerInv, SearchInv, PoolInv
<1>3. CASE Lock
  BY <1>3 DEF Lock, FramesTypeOK, ModeInv, PlaceInv, UseInv, NewerInv, SearchInv, PoolInv
<1>4. CASE Locked
  BY <1>4 DEF Locked, FramesTypeOK, ModeInv, PlaceInv, UseInv, NewerInv, SearchInv, PoolInv
<1>5. CASE Unlock
  BY <1>5 DEF Unlock, FramesTypeOK, ModeInv, PlaceInv, UseInv, NewerInv, SearchInv, PoolInv
<1>6. CASE SubDisplay
  BY <1>6 DEF SubDisplay, FramesTypeOK, ModeInv, PlaceInv, UseInv, NewerInv, SearchInv, PoolInv
<1>7. CASE SwitchedOver
  BY <1>7 DEF SwitchedOver, FramesTypeOK, ModeInv, PlaceInv, UseInv, NewerInv, SearchInv, PoolInv
<1>8. CASE Displayed
  BY <1>8 DEF Displayed, FramesTypeOK, ModeInv, PlaceInv, UseInv, NewerInv, SearchInv, PoolInv
<1>9. CASE AutoDisplay
  BY <1>9 DEF AutoDisplay, FramesTypeOK, ModeInv, PlaceInv, UseInv, NewerInv, SearchInv, PoolInv
<1>10. CASE HideOrShow
  BY <1>10 DEF HideOrShow, FramesTypeOK, ModeInv, PlaceInv, UseInv, NewerInv, SearchInv, PoolInv
<1>11. CASE Parks
  BY <1>11 DEF Parks, FramesTypeOK, ModeInv, PlaceInv, UseInv, NewerInv, SearchInv, PoolInv
<1>12. CASE Request
  BY <1>12 DEF Request, FramesTypeOK, ModeInv, PlaceInv, UseInv, NewerInv, SearchInv, PoolInv
<1>13. CASE FindLast
  BY <1>13 DEF FindLast, FramesTypeOK, ModeInv, PlaceInv, UseInv, NewerInv, SearchInv, PoolInv
<1>14. CASE FindNext
  BY <1>14 DEF FindNext, FramesTypeOK, ModeInv, PlaceInv, UseInv, NewerInv, SearchInv, PoolInv
<1>15. CASE Choose
  BY <1>15 DEF Choose, FramesTypeOK, ModeInv, PlaceInv, UseInv, NewerInv, SearchInv, PoolInv
<1>16. CASE ClearOlder
  BY <1>16 DEF ClearOlder, FramesTypeOK, ModeInv, PlaceInv, UseInv, NewerInv, SearchInv, PoolInv
<1>17. CASE Show
  BY <1>17 DEF Show, FramesTypeOK, ModeInv, PlaceInv, UseInv, NewerInv, SearchInv, PoolInv
<1>18. CASE Upload
  BY <1>18 DEF Upload, FramesTypeOK, ModeInv, PlaceInv, UseInv, NewerInv, SearchInv, PoolInv
<1>19. CASE Page
  BY <1>19 DEF Page, FramesTypeOK, ModeInv, PlaceInv, UseInv, NewerInv, SearchInv, PoolInv
<1>20. CASE Paged
  BY <1>20 DEF Paged, FramesTypeOK, ModeInv, PlaceInv, UseInv, NewerInv, SearchInv, PoolInv
<1> QED
  BY <1>1, <1>2, <1>3, <1>4, <1>5, <1>6, <1>7, <1>8, <1>9, <1>10, <1>11, <1>12,
     <1>13, <1>14, <1>15, <1>16, <1>17, <1>18, <1>19, <1>20
     DEF Program, Window

\* ... or a frame on display be as new as the one that is chosen ...
LEMMA DisplayNewer ==
  ASSUME Inv1, Inv1', PoolInv, NEW t \in Builders, Display(t)
  PROVE  NewerInv'
<1> USE FramesAssumption DEF FramesAssumption, Inv1, FrameSlots, Builders, switches, screen,
        frameData, locals, last, window, Goto, Step, GStep, GlutKeeps, Finished, Shows, Unpicked
<1>1. CASE Enter(t)
  BY <1>1 DEF Enter, FramesTypeOK, ModeInv, PlaceInv, UseInv, NewerInv, SearchInv, PoolInv
<1>2. CASE Test(t)
  BY <1>2 DEF Test, FramesTypeOK, ModeInv, PlaceInv, UseInv, NewerInv, SearchInv, PoolInv
<1>3. CASE FindReady(t)
  BY <1>3 DEF FindReady, FramesTypeOK, ModeInv, PlaceInv, UseInv, NewerInv, SearchInv, PoolInv
<1>4. CASE FindEmpty(t)
  BY <1>4 DEF FindEmpty, FramesTypeOK, ModeInv, PlaceInv, UseInv, NewerInv, SearchInv, PoolInv
<1>5. CASE Take(t)
  BY <1>5 DEF Take, FramesTypeOK, ModeInv, PlaceInv, UseInv, NewerInv, SearchInv, PoolInv
<1>6. CASE Compare(t)
  BY <1>6 DEF Compare, FramesTypeOK, ModeInv, PlaceInv, UseInv, NewerInv, SearchInv, PoolInv
<1>7. CASE NoNewFrame(t)
  BY <1>7 DEF NoNewFrame, FramesTypeOK, ModeInv, PlaceInv, UseInv, NewerInv, SearchInv, PoolInv
<1>8. CASE Draw(t)
  BY <1>8 DEF Draw, FramesTypeOK, ModeInv, PlaceInv, UseInv, NewerInv, SearchInv, PoolInv
<1>9. CASE Publish(t)
  BY <1>9 DEF Publish, FramesTypeOK, ModeInv, PlaceInv, UseInv, NewerInv, SearchInv, PoolInv
<1>10. CASE Cancel(t)
  BY <1>10 DEF Cancel, FramesTypeOK, ModeInv, PlaceInv, UseInv, NewerInv, SearchInv, PoolInv
<1>11. CASE Granted(t)
  BY <1>11 DEF Granted, FramesTypeOK, ModeInv, PlaceInv, UseInv, NewerInv, SearchInv, PoolInv
<1>12. CASE Switched(t)
  BY <1>12 DEF Switched, FramesTypeOK, ModeInv, PlaceInv, UseInv, NewerInv, SearchInv, PoolInv
<1> QED
  BY <1>1, <1>2, <1>3, <1>4, <1>5, <1>6, <1>7, <1>8, <1>9, <1>10, <1>11, <1>12 DEF Display

LEMMA OthersNewer ==
  ASSUME Inv1, Inv1', PoolInv, MainDisplays \/ MainEnds \/ Program \/ Window
  PROVE  NewerInv'
<1> USE FramesAssumption DEF FramesAssumption, Inv1, FrameSlots, Builders, switches, screen,
        frameData, locals, last, window, Goto, Step, GStep, GlutKeeps, Finished, Shows, Unpicked
<1>1. CASE MainDisplays
  BY <1>1 DEF MainDisplays, FramesTypeOK, ModeInv, PlaceInv, UseInv, NewerInv, SearchInv, PoolInv
<1>2. CASE MainEnds
  BY <1>2 DEF MainEnds, FramesTypeOK, ModeInv, PlaceInv, UseInv, NewerInv, SearchInv, PoolInv
<1>3. CASE Lock
  BY <1>3 DEF Lock, FramesTypeOK, ModeInv, PlaceInv, UseInv, NewerInv, SearchInv, PoolInv
<1>4. CASE Locked
  BY <1>4 DEF Locked, FramesTypeOK, ModeInv, PlaceInv, UseInv, NewerInv, SearchInv, PoolInv
<1>5. CASE Unlock
  BY <1>5 DEF Unlock, FramesTypeOK, ModeInv, PlaceInv, UseInv, NewerInv, SearchInv, PoolInv
<1>6. CASE SubDisplay
  BY <1>6 DEF SubDisplay, FramesTypeOK, ModeInv, PlaceInv, UseInv, NewerInv, SearchInv, PoolInv
<1>7. CASE SwitchedOver
  BY <1>7 DEF SwitchedOver, FramesTypeOK, ModeInv, PlaceInv, UseInv, NewerInv, SearchInv, PoolInv
<1>8. CASE Displayed
  BY <1>8 DEF Displayed, FramesTypeOK, ModeInv, PlaceInv, UseInv, NewerInv, SearchInv, PoolInv
<1>9. CASE AutoDisplay
  BY <1>9 DEF AutoDisplay, FramesTypeOK, ModeInv, PlaceInv, UseInv, NewerInv, SearchInv, PoolInv
<1>10. CASE HideOrShow
  BY <1>10 DEF HideOrShow, FramesTypeOK, ModeInv, PlaceInv, UseInv, NewerInv, SearchInv, PoolInv
<1>11. CASE Parks
  BY <1>11 DEF Parks, FramesTypeOK, ModeInv, PlaceInv, UseInv, NewerInv, SearchInv, PoolInv
<1>12. CASE Request
  BY <1>12 DEF Request, FramesTypeOK, ModeInv, PlaceInv, UseInv, NewerInv, SearchInv, PoolInv
<1>13. CASE FindLast
  BY <1>13 DEF FindLast, FramesTypeOK, ModeInv, PlaceInv, UseInv, NewerInv, SearchInv, PoolInv
<1>14. CASE FindNext
  BY <1>14 DEF FindNext, FramesTypeOK, ModeInv, PlaceInv, UseInv, NewerInv, SearchInv, PoolInv
<1>15. CASE Choose
  BY <1>15 DEF Choose, FramesTypeOK, ModeInv, PlaceInv, UseInv, NewerInv, SearchInv, PoolInv
<1>16. CASE ClearOlder
  BY <1>16 DEF ClearOlder, FramesTypeOK, ModeInv, PlaceInv, UseInv, NewerInv, SearchInv, PoolInv
<1>17. CASE Show
  BY <1>17 DEF Show, FramesTypeOK, ModeInv, PlaceInv, UseInv, NewerInv, SearchInv, PoolInv
<1>18. CASE Upload
  BY <1>18 DEF Upload, FramesTypeOK, ModeInv, PlaceInv, UseInv, NewerInv, SearchInv, PoolInv
<1>19. CASE Page
  BY <1>19 DEF Page, FramesTypeOK, ModeInv, PlaceInv, UseInv, NewerInv, SearchInv, PoolInv
<1>20. CASE Paged
  BY <1>20 DEF Paged, FramesTypeOK, ModeInv, PlaceInv, UseInv, NewerInv, SearchInv, PoolInv
<1> QED
  BY <1>1, <1>2, <1>3, <1>4, <1>5, <1>6, <1>7, <1>8, <1>9, <1>10, <1>11, <1>12,
     <1>13, <1>14, <1>15, <1>16, <1>17, <1>18, <1>19, <1>20
     DEF Program, Window

\* ... or be found in use behind display()'s search without the window being where it should.
LEMMA DisplaySearch ==
  ASSUME Inv1, Inv1', PoolInv, NEW t \in Builders, Display(t)
  PROVE  SearchInv'
<1> USE FramesAssumption DEF FramesAssumption, Inv1, FrameSlots, Builders, switches, screen,
        frameData, locals, last, window, Goto, Step, GStep, GlutKeeps, Finished, Shows, Unpicked
<1>1. CASE Enter(t)
  BY <1>1 DEF Enter, FramesTypeOK, ModeInv, PlaceInv, UseInv, NewerInv, SearchInv, PoolInv
<1>2. CASE Test(t)
  BY <1>2 DEF Test, FramesTypeOK, ModeInv, PlaceInv, UseInv, NewerInv, SearchInv, PoolInv
<1>3. CASE FindReady(t)
  BY <1>3 DEF FindReady, FramesTypeOK, ModeInv, PlaceInv, UseInv, NewerInv, SearchInv, PoolInv
<1>4. CASE FindEmpty(t)
  BY <1>4 DEF FindEmpty, FramesTypeOK, ModeInv, PlaceInv, UseInv, NewerInv, SearchInv, PoolInv
<1>5. CASE Take(t)
  BY <1>5 DEF Take, FramesTypeOK, ModeInv, PlaceInv, UseInv, NewerInv, SearchInv, PoolInv
<1>6. CASE Compare(t)
  BY <1>6 DEF Compare, FramesTypeOK, ModeInv, PlaceInv, UseInv, NewerInv, SearchInv, PoolInv
<1>7. CASE NoNewFrame(t)
  BY <1>7 DEF NoNewFrame, FramesTypeOK, ModeInv, PlaceInv, UseInv, NewerInv, SearchInv, PoolInv
<1>8. CASE Draw(t)
  BY <1>8 DEF Draw, FramesTypeOK, ModeInv, PlaceInv, UseInv, NewerInv, SearchInv, PoolInv
<1>9. CASE Publish(t)
  BY <1>9 DEF Publish, FramesTypeOK, ModeInv, PlaceInv, UseInv, NewerInv, SearchInv, PoolInv
<1>10. CASE Cancel(t)
  BY <1>10 DEF Cancel, FramesTypeOK, ModeInv, PlaceInv, UseInv, NewerInv, SearchInv, PoolInv
<1>11. CASE Granted(t)
  BY <1>11 DEF Granted, FramesTypeOK, ModeInv, PlaceInv, UseInv, NewerInv, SearchInv, PoolInv
<1>12. CASE Switched(t)
  BY <1>12 DEF Switched, FramesTypeOK, ModeInv, PlaceInv, UseInv, NewerInv, SearchInv, PoolInv
<1> QED
  BY <1>1, <1>2, <1>3, <1>4, <1>5, <1>6, <1>7, <1>8, <1>9, <1>10, <1>11, <1>12 DEF Display

LEMMA OthersSearch ==
  ASSUME Inv1, Inv1', PoolInv, MainDisplays \/ MainEnds \/ Program \/ Window
  PROVE  SearchInv'
<1> USE FramesAssumption DEF FramesAssumption, Inv1, FrameSlots, Builders, switches, screen,
        frameData, locals, last, window, Goto, Step, GStep, GlutKeeps, Finished, Shows, Unpicked
<1>1. CASE MainDisplays
  BY <1>1 DEF MainDisplays, FramesTypeOK, ModeInv, PlaceInv, UseInv, NewerInv, SearchInv, PoolInv
<1>2. CASE MainEnds
  BY <1>2 DEF MainEnds, FramesTypeOK, ModeInv, PlaceInv, UseInv, NewerInv, SearchInv, PoolInv
<1>3. CASE Lock
  BY <1>3 DEF Lock, FramesTypeOK, ModeInv, PlaceInv, UseInv, NewerInv, SearchInv, PoolInv
<1>4. CASE Locked
  BY <1>4 DEF Locked, FramesTypeOK, ModeInv, PlaceInv, UseInv, NewerInv, SearchInv, PoolInv
<1>5. CASE Unlock
  BY <1>5 DEF Unlock, FramesTypeOK, ModeInv, PlaceInv, UseInv, NewerInv, SearchInv, PoolInv
<1>6. CASE SubDisplay
  BY <1>6 DEF SubDisplay, FramesTypeOK, ModeInv, PlaceInv, UseInv, NewerInv, SearchInv, PoolInv
<1>7. CASE SwitchedOver
  BY <1>7 DEF SwitchedOver, FramesTypeOK, ModeInv, PlaceInv, UseInv, NewerInv, SearchInv, PoolInv
<1>8. CASE Displayed
  BY <1>8 DEF Displayed, FramesTypeOK, ModeInv, PlaceInv, UseInv, NewerInv, SearchInv, PoolInv
<1>9. CASE AutoDisplay
  BY <1>9 DEF AutoDisplay, FramesTypeOK, ModeInv, PlaceInv, UseInv, NewerInv, SearchInv, PoolInv
<1>10. CASE HideOrShow
  BY <1>10 DEF HideOrShow, FramesTypeOK, ModeInv, PlaceInv, UseInv, NewerInv, SearchInv, PoolInv
<1>11. CASE Parks
  BY <1>11 DEF Parks, FramesTypeOK, ModeInv, PlaceInv, UseInv, NewerInv, SearchInv, PoolInv
<1>12. CASE Request
  BY <1>12 DEF Request, FramesTypeOK, ModeInv, PlaceInv, UseInv, NewerInv, SearchInv, PoolInv
<1>13. CASE FindLast
  BY <1>13 DEF FindLast, FramesTypeOK, ModeInv, PlaceInv, UseInv, NewerInv, SearchInv, PoolInv
<1>14. CASE FindNext
  BY <1>14 DEF FindNext, FramesTypeOK, ModeInv, PlaceInv, UseInv, NewerInv, SearchInv, PoolInv
<1>15. CASE Choose
  BY <1>15 DEF Choose, FramesTypeOK, ModeInv, PlaceInv, UseInv, NewerInv, SearchInv, PoolInv
<1>16. CASE ClearOlder
  BY <1>16 DEF ClearOlder, FramesTypeOK, ModeInv, PlaceInv, UseInv, NewerInv, SearchInv, PoolInv
<1>17. CASE Show
  BY <1>17 DEF Show, FramesTypeOK, ModeInv, PlaceInv, UseInv, NewerInv, SearchInv, PoolInv
<1>18. CASE Upload
  BY <1>18 DEF Upload, FramesTypeOK, ModeInv, PlaceInv, UseInv, NewerInv, SearchInv, PoolInv
<1>19. CASE Page
  BY <1>19 DEF Page, FramesTypeOK, ModeInv, PlaceInv, UseInv, NewerInv, SearchInv, PoolInv
<1>20. CASE Paged
  BY <1>20 DEF Paged, FramesTypeOK, ModeInv, PlaceInv, UseInv, NewerInv, SearchInv, PoolInv
<1> QED
  BY <1>1, <1>2, <1>3, <1>4, <1>5, <1>6, <1>7, <1>8, <1>9, <1>10, <1>11, <1>12,
     <1>13, <1>14, <1>15, <1>16, <1>17, <1>18, <1>19, <1>20
     DEF Program, Window

\* All this holds initially, and all the time.
LEMMA InitPool == FramesInit => PoolInv
<1> SUFFICES ASSUME FramesInit PROVE PoolInv
  OBVIOUS
<1> USE FramesAssumption DEF FramesAssumption, FramesInit, FrameSlots, Builders, Finished, Shows,
        Unpicked
<1>1. UseInv /\ NewerInv
  BY DEF UseInv, NewerInv
<1>2. SearchInv
  BY DEF SearchInv
<1> QED
  BY <1>1, <1>2 DEF PoolInv

LEMMA PoolStep == Inv1 /\ PoolInv /\ [FramesNext]_framesVars => PoolInv'
<1> SUFFICES ASSUME Inv1, PoolInv, [FramesNext]_framesVars PROVE PoolInv'
  OBVIOUS
<1>1. Inv1'
  BY Inv1Step
<1>2. CASE \E t \in Builders : Display(t)
  BY <1>1, <1>2, DisplayUse, DisplayNewer, DisplaySearch DEF PoolInv
<1>3. CASE MainDisplays \/ MainEnds \/ Program \/ Window
  BY <1>1, <1>3, OthersUse, OthersNewer, OthersSearch DEF PoolInv
<1>4. CASE UNCHANGED framesVars
  BY <1>4 DEF framesVars, switches, screen, frameData, locals, last, window, PoolInv, UseInv,
                 NewerInv,
     SearchInv, Shows, Unpicked
<1> QED
  BY <1>2, <1>3, <1>4 DEF FramesNext

\* display() never fails for want of a frame to draw in, however its search and the window's
\* interleave: the code's alert for that never comes.
THEOREM FramesAlwaysFound == FramesSpec => []FramesFound
<1>1. FramesInit => Inv1 /\ PoolInv
  BY Init1, InitPool
<1>2. Inv1 /\ PoolInv /\ [FramesNext]_framesVars => (Inv1 /\ PoolInv)'
  BY Inv1Step, PoolStep
<1>3. PoolInv => FramesFound
  BY DEF FramesFound, PoolInv, SearchInv
<1> QED
  BY <1>1, <1>2, <1>3, PTL DEF FramesSpec

-----------------------------------------------------------------------------
(* Keyhit.                                                                 *)

Indices == 0 .. KeyhitSize - 1

\* How far it is from one index to another, and how much is in the buffer.
Distance(i, j) == IF j >= i THEN j - i ELSE j - i + KeyhitSize

Buffered == Distance(keyhit_next, keyhit_nextfree)

\* The last event that can be taken out, and the last one that no longer can.
Published == IF kw_pc = "publish" THEN key_events - 1 ELSE key_events

Gone == Published - Buffered

KeyTypeOK ==
    /\ keyhit \in [Indices -> Nat] /\ keyhit_nextfree \in Indices /\ keyhit_next \in Indices
    /\ kw_pc \in {"idle", "test", "drop", "dropped", "put", "publish"}
    /\ kw_next \in Indices /\ kw_z \in Indices
    /\ kr_pc \in {"idle", "read", "next", "store", "clear"}
    /\ kr_next \in Indices /\ kr_x \in Nat
    /\ key_events \in Nat /\ key_hit \in Nat /\ key_cleared \in Nat

\* The window: an event is put in where there is room, after the oldest was dropped if not.
WriterInv ==
    /\ kw_pc # "idle" => kw_z = KeyAfter(keyhit_nextfree)
    /\ kw_pc \in {"drop", "dropped"} => kw_z = keyhit_next /\ kr_pc = "idle"
    /\ kw_pc = "dropped" => kw_next = KeyAfter(keyhit_next)
    /\ kw_pc \in {"put", "publish"} => kw_z # keyhit_next
    /\ kw_pc = "publish" => key_events > 0 /\ keyhit[keyhit_nextfree] = key_events

\* The program: there is an event as long as it reads; it has the oldest one.
ReaderInv ==
    /\ kr_pc \in {"read", "next", "store"} => keyhit_next # keyhit_nextfree
    /\ kr_pc \in {"next", "store"} => kr_x = Gone + 1
    /\ kr_pc = "store" => kr_next = KeyAfter(keyhit_next)
    /\ kr_pc = "clear" => /\ kw_pc = "idle" /\ keyhit_nextfree = 0
                          /\ key_cleared = key_events /\ key_hit <= key_events

\* What is in the buffer, and why the event before it is not.
BufferInv ==
    kr_pc # "clear" =>
        /\ \A i \in Indices : Distance(i, keyhit_nextfree) \in 1 .. Buffered =>
               keyhit[i] = Published + 1 - Distance(i, keyhit_nextfree)
        /\ key_hit <= Gone /\ key_cleared <= Gone
        /\ \/ Gone \in {key_hit, key_cleared}
           \/ Buffered = KeyhitSize - 1
           \/ kw_pc \in {"put", "publish"} /\ Buffered = KeyhitSize - 2

KInv == KeyTypeOK /\ WriterInv /\ ReaderInv /\ BufferInv

-----------------------------------------------------------------------------
(* Indices go around.                                                      *)

LEMMA AfterIs ==
  ASSUME NEW i \in Indices
  PROVE  KeyAfter(i) = (IF i = KeyhitSize - 1 THEN 0 ELSE i + 1) /\ KeyAfter(i) \in Indices
<1>1. KeyhitSize \in Nat /\ KeyhitSize > 1
  BY KeyhitAssumption
<1>2. CASE i = KeyhitSize - 1
  BY <1>1, <1>2 DEF KeyAfter, Indices
<1>3. CASE i # KeyhitSize - 1
  <2>1. i + 1 \in 0 .. KeyhitSize - 1
    BY <1>1, <1>3 DEF Indices
  <2>2. (i + 1) % KeyhitSize = i + 1
    BY <1>1, <2>1
  <2> QED
    BY <1>3, <2>1, <2>2 DEF KeyAfter, Indices
<1> QED
  BY <1>2, <1>3

LEMMA DistanceIs ==
  ASSUME NEW i \in Indices, NEW j \in Indices
  PROVE  /\ Distance(i, j) \in 0 .. KeyhitSize - 1
         /\ Distance(i, j) = 0 <=> i = j
         /\ (j - i) % KeyhitSize = Distance(i, j)
         /\ Distance(KeyAfter(i), j) = IF i = j THEN KeyhitSize - 1 ELSE Distance(i, j) - 1
         /\ Distance(i, KeyAfter(j)) = IF i = KeyAfter(j) THEN 0 ELSE Distance(i, j) + 1
         /\ i = KeyAfter(j) <=> Distance(i, j) = KeyhitSize - 1
<1>1. KeyhitSize \in Nat /\ KeyhitSize > 1 /\ i \in 0 .. KeyhitSize - 1 /\ j \in 0 .. KeyhitSize - 1
  BY KeyhitAssumption DEF Indices
<1>2. (j - i) % KeyhitSize = Distance(i, j)
  <2>1. CASE j >= i
    <3>1. j - i \in 0 .. KeyhitSize - 1
      BY <1>1, <2>1
    <3>2. (j - i) % KeyhitSize = j - i
      BY <1>1, <3>1
    <3> QED
      BY <2>1, <3>2 DEF Distance
  <2>2. CASE ~(j >= i)
    <3>1. j - i \in -KeyhitSize .. -1
      BY <1>1, <2>2
    <3>2. (j - i) % KeyhitSize = j - i + KeyhitSize
      BY <1>1, <3>1
    <3> QED
      BY <2>2, <3>2 DEF Distance
  <2> QED
    BY <2>1, <2>2
<1>3. /\ KeyAfter(i) = IF i = KeyhitSize - 1 THEN 0 ELSE i + 1
      /\ KeyAfter(j) = IF j = KeyhitSize - 1 THEN 0 ELSE j + 1
  BY AfterIs
<1>4. Distance(i, j) \in 0 .. KeyhitSize - 1 /\ (Distance(i, j) = 0 <=> i = j)
  BY <1>1 DEF Distance
<1>5. Distance(KeyAfter(i), j) = IF i = j THEN KeyhitSize - 1 ELSE Distance(i, j) - 1
  BY <1>1, <1>3 DEF Distance
<1>6. Distance(i, KeyAfter(j)) = IF i = KeyAfter(j) THEN 0 ELSE Distance(i, j) + 1
  BY <1>1, <1>3 DEF Distance
<1>7. i = KeyAfter(j) <=> Distance(i, j) = KeyhitSize - 1
  BY <1>1, <1>3 DEF Distance
<1> QED
  BY <1>2, <1>4, <1>5, <1>6, <1>7

-----------------------------------------------------------------------------
(* Each step keeps the invariant.                                          *)

LEMMA KeyTypes ==
  ASSUME KInv
  PROVE  /\ keyhit_next \in Indices /\ keyhit_nextfree \in Indices
         /\ kw_z \in Indices /\ kw_next \in Indices /\ kr_next \in Indices
         /\ KeyhitSize \in Nat /\ KeyhitSize > 1
         /\ Buffered \in 0 .. KeyhitSize - 1 /\ Buffered \in Int
         /\ Buffered = 0 <=> keyhit_next = keyhit_nextfree
         /\ key_events \in Nat /\ key_hit \in Nat /\ key_cleared \in Nat
         /\ Published \in Int /\ Published <= key_events /\ Gone \in Int
         /\ Gone = Published - Buffered
<1>1. keyhit_next \in Indices /\ keyhit_nextfree \in Indices /\ KeyTypeOK
  BY DEF KInv, KeyTypeOK
<1>2. Buffered \in 0 .. KeyhitSize - 1 /\ (Buffered = 0 <=> keyhit_next = keyhit_nextfree)
  BY <1>1, DistanceIs DEF Buffered
<1>3. KeyhitSize \in Nat /\ KeyhitSize > 1
  BY KeyhitAssumption
<1>4. Published \in Int /\ Published <= key_events
  BY <1>1 DEF Published, KeyTypeOK
<1> QED
  BY <1>1, <1>2, <1>3, <1>4 DEF KeyTypeOK, Gone

\* Neither the buffer nor what was taken out of it changes.
LEMMA BufferKept ==
  ASSUME KInv, UNCHANGED <<keyhit, keyhit_next, keyhit_nextfree, key_events, key_hit, key_cleared>>,
         kr_pc = "clear" <=> kr_pc' = "clear",
         kw_pc \in {"put", "publish"} => kw_pc' = kw_pc,
         kw_pc' = "publish" => kw_pc = "publish"
  PROVE  /\ BufferInv'
         /\ Buffered' = Buffered /\ Published' = Published /\ Gone' = Gone
<1>1. Buffered' = Buffered /\ Published' = Published /\ Gone' = Gone
  BY DEF Buffered, Published, Gone, Distance
<1>2. \A i : Distance(i, keyhit_nextfree)' = Distance(i, keyhit_nextfree)
  BY DEF Distance
<1> QED
  BY <1>1, <1>2 DEF KInv, BufferInv

LEMMA KeyStep ==
  ASSUME KInv, key_overlaps' = {}, Key \/ Full \/ DropLoad
  PROVE  KInv'
<1>1. BufferInv' /\ Buffered' = Buffered /\ Published' = Published /\ Gone' = Gone
  BY BufferKept DEF Key, Full, DropLoad, keyBuffer, keyReader, WriterKeeps
<1>2. KeyAfter(keyhit_nextfree) \in Indices /\ KeyAfter(keyhit_next) \in Indices
  BY KeyTypes, AfterIs
<1>3. KeyTypeOK'
  BY <1>2 DEF KInv, KeyTypeOK, Key, Full, DropLoad, keyBuffer, keyReader, WriterKeeps
<1>4. WriterInv'
  BY DEF KInv, WriterInv, KeyAfter, Key, Full, DropLoad, keyBuffer, keyReader, WriterKeeps,
         Overlaps
<1>5. ReaderInv'
  BY <1>1 DEF KInv, ReaderInv, KeyAfter, Key, Full, DropLoad, keyBuffer, keyReader, WriterKeeps,
              Overlaps
<1> QED
  BY <1>1, <1>3, <1>4, <1>5 DEF KInv

LEMMA DropStoreStep ==
  ASSUME KInv, key_overlaps' = {}, DropStore
  PROVE  KInv'
<1>1. /\ kw_pc = "dropped" /\ keyhit_next' = KeyAfter(keyhit_next)
      /\ kw_z = keyhit_next /\ kw_z = KeyAfter(keyhit_nextfree) /\ kr_pc = "idle"
      /\ UNCHANGED <<keyhit, keyhit_nextfree, kw_z, key_events, kr_pc, kr_next, kr_x,
                     key_hit, key_cleared>>
      /\ kw_pc' = "put" /\ kw_next' = 0
  BY DEF DropStore, KInv, WriterInv, WriterKeeps, keyReader
<1>2. /\ Buffered = KeyhitSize - 1 /\ Buffered' = KeyhitSize - 2
      /\ keyhit_next # keyhit_nextfree /\ KeyAfter(keyhit_next) # keyhit_next
      /\ KeyAfter(keyhit_next) \in Indices
  <2>1. keyhit_next = KeyAfter(keyhit_nextfree)
    BY <1>1
  <2>2. /\ Buffered = KeyhitSize - 1 /\ keyhit_next # keyhit_nextfree
        /\ Distance(KeyAfter(keyhit_next), keyhit_nextfree) = Buffered - 1
    BY <2>1, KeyTypes, DistanceIs DEF Buffered
  <2>3. Buffered' = Distance(KeyAfter(keyhit_next), keyhit_nextfree)
    BY <1>1 DEF Buffered
  <2>4. KeyAfter(keyhit_next) # keyhit_next /\ KeyAfter(keyhit_next) \in Indices
    BY KeyTypes, AfterIs DEF Indices
  <2> QED
    BY <2>2, <2>3, <2>4, KeyTypes
<1>3. Published' = Published /\ Gone' = Gone + 1
  BY <1>1, <1>2, KeyTypes DEF Published, Gone
<1>4. KeyTypeOK'
  BY <1>1, <1>2, KeyTypes DEF KInv, KeyTypeOK, Indices
<1>5. WriterInv'
  BY <1>1, <1>2 DEF KInv, WriterInv, KeyAfter
<1>6. ReaderInv'
  BY <1>1 DEF ReaderInv
<1>7. BufferInv'
  <2>1. \A i \in Indices : Distance(i, keyhit_nextfree') \in 1 .. Buffered' =>
            keyhit'[i] = Published' + 1 - Distance(i, keyhit_nextfree')
    BY <1>1, <1>2, <1>3, KeyTypes, DistanceIs DEF KInv, BufferInv
  <2>2. key_hit' <= Gone' /\ key_cleared' <= Gone'
    BY <1>1, <1>3, KeyTypes DEF KInv, BufferInv
  <2>3. \A i : Distance(i, keyhit_nextfree)' = Distance(i, keyhit_nextfree')
    BY DEF Distance
  <2> QED
    BY <1>1, <1>2, <2>1, <2>2, <2>3 DEF BufferInv
<1> QED
  BY <1>4, <1>5, <1>6, <1>7 DEF KInv

LEMMA PutKeyStep ==
  ASSUME KInv, key_overlaps' = {}, PutKey
  PROVE  KInv'
<1>1. /\ kw_pc = "put" /\ kw_pc' = "publish" /\ key_events' = key_events + 1
      /\ keyhit' = [keyhit EXCEPT ![keyhit_nextfree] = key_events + 1]
      /\ UNCHANGED <<keyhit_nextfree, keyhit_next, kw_next, kw_z, kr_pc, kr_next, kr_x,
                     key_hit, key_cleared>>
  BY DEF PutKey, WriterKeeps, keyReader
<1>2. keyhit \in [Indices -> Nat]
  BY DEF KInv, KeyTypeOK
<1>3. Buffered' = Buffered /\ Published' = Published /\ Gone' = Gone
  BY <1>1, KeyTypes DEF Buffered, Published, Gone, Distance
<1>4. KeyTypeOK'
  BY <1>1, <1>2, KeyTypes DEF KInv, KeyTypeOK
<1>5. WriterInv'
  BY <1>1, <1>2, KeyTypes DEF KInv, WriterInv, KeyAfter
<1>6. ReaderInv'
  BY <1>1, <1>3 DEF KInv, ReaderInv, KeyAfter
<1>7. BufferInv'
  <2>1. \A i \in Indices : Distance(i, keyhit_nextfree) \in 1 .. Buffered => keyhit'[i] = keyhit[i]
    BY <1>1, <1>2, KeyTypes, DistanceIs
  <2>2. \A i : Distance(i, keyhit_nextfree)' = Distance(i, keyhit_nextfree)
    BY <1>1 DEF Distance
  <2> QED
    BY <1>1, <1>3, <2>1, <2>2 DEF KInv, BufferInv
<1> QED
  BY <1>4, <1>5, <1>6, <1>7 DEF KInv

LEMMA PublishKeyStep ==
  ASSUME KInv, key_overlaps' = {}, PublishKey
  PROVE  KInv'
<1>1. /\ kw_pc = "publish" /\ kw_pc' = "idle" /\ keyhit_nextfree' = kw_z /\ kw_z' = 0
      /\ UNCHANGED <<keyhit, keyhit_next, kw_next, key_events, kr_pc, kr_next, kr_x,
                     key_hit, key_cleared>>
  BY DEF PublishKey, WriterKeeps, keyReader
<1>2. /\ kw_z = KeyAfter(keyhit_nextfree) /\ kw_z # keyhit_next /\ key_events > 0
      /\ keyhit[keyhit_nextfree] = key_events
      /\ kr_pc # "clear"
  BY <1>1 DEF KInv, WriterInv, ReaderInv
<1>3. Buffered' = Buffered + 1 /\ Buffered < KeyhitSize - 1
  BY <1>1, <1>2, KeyTypes, DistanceIs DEF Buffered
<1>4. Published' = Published + 1 /\ Published' = key_events /\ Gone' = Gone
  BY <1>1, <1>3, KeyTypes DEF Published, Gone
<1>5. KeyTypeOK'
  BY <1>1, KeyTypes DEF KInv, KeyTypeOK, Indices
<1>6. WriterInv'
  BY <1>1 DEF WriterInv
<1>7. ReaderInv'
  BY <1>1, <1>2, <1>4 DEF KInv, ReaderInv, KeyAfter
<1>8. BufferInv'
  <2>1. \A i \in Indices : Distance(i, keyhit_nextfree)' \in 1 .. Buffered' =>
            keyhit'[i] = Published' + 1 - Distance(i, keyhit_nextfree)'
    <3> SUFFICES ASSUME NEW i \in Indices, Distance(i, kw_z) \in 1 .. Buffered + 1
                 PROVE  keyhit[i] = key_events + 1 - Distance(i, kw_z)
      BY <1>1, <1>3, <1>4 DEF Distance
    <3>1. Distance(i, kw_z) = Distance(i, keyhit_nextfree) + 1
      BY <1>2, KeyTypes, DistanceIs
    <3>2. CASE Distance(i, keyhit_nextfree) = 0
      BY <1>2, <3>1, <3>2, KeyTypes, DistanceIs
    <3>3. CASE Distance(i, keyhit_nextfree) # 0
      <4>1. Distance(i, keyhit_nextfree) \in 1 .. Buffered
        BY <3>1, <3>3, KeyTypes, DistanceIs
      <4>2. keyhit[i] = Published + 1 - Distance(i, keyhit_nextfree)
        BY <1>2, <4>1 DEF KInv, BufferInv
      <4> QED
        BY <1>4, <3>1, <4>1, <4>2, KeyTypes
    <3> QED
      BY <3>2, <3>3
  <2>2. key_hit' <= Gone' /\ key_cleared' <= Gone'
    BY <1>1, <1>2, <1>4 DEF KInv, BufferInv
  <2>3. Gone' \in {key_hit', key_cleared'} \/ Buffered' = KeyhitSize - 1
    BY <1>1, <1>2, <1>3, <1>4, KeyTypes DEF KInv, BufferInv
  <2> QED
    BY <2>1, <2>2, <2>3 DEF BufferInv
<1> QED
  BY <1>5, <1>6, <1>7, <1>8 DEF KInv

LEMMA ReadStep ==
  ASSUME KInv, key_overlaps' = {}, Read \/ ReadKey \/ NextLoad
  PROVE  KInv'
<1>1. BufferInv' /\ Buffered' = Buffered /\ Published' = Published /\ Gone' = Gone
  BY BufferKept DEF Read, ReadKey, NextLoad, keyWriter, ReaderKeeps
<1>2. KeyAfter(keyhit_next) \in Indices /\ keyhit[keyhit_next] \in Nat
  BY KeyTypes, AfterIs DEF KInv, KeyTypeOK
<1>3. KeyTypeOK'
  BY <1>2 DEF KInv, KeyTypeOK, Read, ReadKey, NextLoad, keyWriter, ReaderKeeps
<1>4. WriterInv'
  BY DEF KInv, WriterInv, KeyAfter, Read, ReadKey, NextLoad, keyWriter, ReaderKeeps, Overlaps
<1>5. ReadKey => keyhit[keyhit_next] = Gone + 1
  <2> SUFFICES ASSUME ReadKey
               PROVE  keyhit[keyhit_next] = Gone + 1
    OBVIOUS
  <2>1. Buffered # 0 /\ kr_pc # "clear"
    BY KeyTypes DEF ReadKey, KInv, ReaderInv
  <2>2. Distance(keyhit_next, keyhit_nextfree) \in 1 .. Buffered
    BY <2>1, KeyTypes DEF Buffered
  <2>3. keyhit[keyhit_next] = Published + 1 - Buffered
    BY <2>1, <2>2, KeyTypes DEF KInv, BufferInv, Buffered
  <2> QED
    BY <2>3, KeyTypes
<1>6. ReaderInv'
  BY <1>1, <1>5 DEF KInv, ReaderInv, KeyAfter, Read, ReadKey, NextLoad, keyWriter, ReaderKeeps
<1> QED
  BY <1>1, <1>3, <1>4, <1>6 DEF KInv

LEMMA NextStoreStep ==
  ASSUME KInv, key_overlaps' = {}, NextStore
  PROVE  /\ KInv'
         /\ key_hit' = Gone + 1 /\ key_hit < key_hit' /\ key_hit' <= key_events
<1>1. /\ kr_pc = "store" /\ kr_pc' = "idle" /\ keyhit_next' = KeyAfter(keyhit_next)
      /\ key_hit' = Gone + 1 /\ kr_next' = 0 /\ kr_x' = 0 /\ keyhit_next # keyhit_nextfree
      /\ UNCHANGED <<keyhit, keyhit_nextfree, kw_pc, kw_next, kw_z, key_events, key_cleared>>
  BY DEF NextStore, KInv, ReaderInv, ReaderKeeps, keyWriter
<1>2. Buffered' = Buffered - 1 /\ Buffered > 0 /\ KeyAfter(keyhit_next) \in Indices
  BY <1>1, KeyTypes, DistanceIs, AfterIs DEF Buffered
<1>3. Published' = Published /\ Gone' = Gone + 1
  BY <1>1, <1>2, KeyTypes DEF Published, Gone
<1>4. key_hit <= Gone /\ key_cleared <= Gone
  BY <1>1 DEF KInv, BufferInv
<1>5. key_hit < key_hit' /\ key_hit' <= key_events /\ key_hit' \in Nat
  BY <1>1, <1>2, <1>4, KeyTypes
<1>6. KeyTypeOK'
  <2>1. 0 \in Indices
    BY KeyTypes DEF Indices
  <2> QED
    BY <1>1, <1>2, <1>5, <2>1 DEF KInv, KeyTypeOK
<1>7. WriterInv'
  <2>1. kw_pc \notin {"drop", "dropped"}
    BY <1>1 DEF KInv, WriterInv
  <2>2. kw_pc \in {"put", "publish"} => kw_z # KeyAfter(keyhit_next)
    BY <1>2, KeyTypes, DistanceIs DEF KInv, WriterInv, Buffered
  <2> QED
    BY <1>1, <2>1, <2>2 DEF KInv, WriterInv, KeyAfter
<1>8. ReaderInv'
  BY <1>1 DEF ReaderInv
<1>9. BufferInv'
  <2>1. \A i \in Indices : Distance(i, keyhit_nextfree)' \in 1 .. Buffered' =>
            keyhit'[i] = Published' + 1 - Distance(i, keyhit_nextfree)'
    <3>1. \A i \in Indices : Distance(i, keyhit_nextfree) \in 1 .. Buffered - 1 =>
              keyhit[i] = Published + 1 - Distance(i, keyhit_nextfree)
      BY <1>1, KeyTypes DEF KInv, BufferInv
    <3>2. \A i : Distance(i, keyhit_nextfree)' = Distance(i, keyhit_nextfree)
      BY <1>1 DEF Distance
    <3> QED
      BY <1>1, <1>2, <1>3, <3>1, <3>2
  <2> QED
    BY <1>1, <1>3, <1>4, <2>1, KeyTypes DEF BufferInv
<1> QED
  BY <1>1, <1>5, <1>6, <1>7, <1>8, <1>9 DEF KInv

LEMMA ClearStep ==
  ASSUME KInv, key_overlaps' = {}, KeyClear \/ KeyCleared
  PROVE  KInv'
<1>1. CASE KeyClear
  <2>1. /\ kr_pc = "idle" /\ kw_pc = "idle" /\ keyhit_nextfree' = 0 /\ kr_pc' = "clear"
        /\ key_cleared' = key_events
        /\ UNCHANGED <<keyhit, keyhit_next, kr_next, kr_x, key_hit, kw_pc, kw_next, kw_z,
                       key_events>>
    BY <1>1 DEF KeyClear, ReaderKeeps, keyWriter, Overlaps
  <2>2. key_hit <= key_events
    BY <2>1, KeyTypes DEF KInv, BufferInv
  <2>3. KeyTypeOK'
    BY <2>1, KeyTypes DEF KInv, KeyTypeOK, Indices
  <2> QED
    BY <2>1, <2>2, <2>3 DEF KInv, WriterInv, ReaderInv, BufferInv
<1>2. CASE KeyCleared
  <2>1. /\ kr_pc = "clear" /\ kr_pc' = "idle" /\ keyhit_next' = 0 /\ keyhit_nextfree = 0
        /\ kw_pc = "idle" /\ key_cleared = key_events /\ key_hit <= key_events
        /\ UNCHANGED <<keyhit, keyhit_nextfree, kr_next, kr_x, key_hit, kw_pc, kw_next, kw_z,
                       key_events, key_cleared>>
    BY <1>2 DEF KeyCleared, ReaderKeeps, keyWriter, KInv, ReaderInv
  <2>2. Buffered' = 0 /\ Published' = key_events /\ Gone' = key_events
    BY <2>1, KeyTypes DEF Buffered, Published, Gone, Distance
  <2>3. KeyTypeOK'
    BY <2>1, KeyTypes DEF KInv, KeyTypeOK, Indices
  <2>4. BufferInv'
    BY <2>1, <2>2, KeyTypes DEF BufferInv
  <2> QED
    BY <2>1, <2>3, <2>4 DEF KInv, WriterInv, ReaderInv
<1> QED
  BY <1>1, <1>2

LEMMA KInvStep ==
  ASSUME KInv, key_overlaps' = {}, [KeyhitNext]_keyhitVars
  PROVE  KInv'
<1>1. CASE UNCHANGED keyhitVars
  <2>1. UNCHANGED <<kw_pc, kw_next, kw_z, kr_pc, kr_next, kr_x>>
    BY <1>1 DEF keyhitVars, keyWriter, keyReader
  <2>2. UNCHANGED <<keyhit, keyhit_next, keyhit_nextfree, key_events, key_hit, key_cleared>>
    BY <1>1 DEF keyhitVars, keyBuffer
  <2>3. BufferInv' /\ Gone' = Gone
    BY <2>1, <2>2, BufferKept
  <2> QED
    BY <2>1, <2>2, <2>3 DEF KInv, KeyTypeOK, WriterInv, ReaderInv, KeyAfter
<1> QED
  BY <1>1, KeyStep, DropStoreStep, PutKeyStep, PublishKeyStep, ReadStep, NextStoreStep, ClearStep
     DEF KeyhitNext

LEMMA KInvFirst ==
  KeyhitInit => KInv
<1> SUFFICES ASSUME KeyhitInit
             PROVE  KInv
  OBVIOUS
<1>1. KeyhitSize \in Nat /\ KeyhitSize > 1
  BY KeyhitAssumption
<1>2. KeyTypeOK
  BY <1>1 DEF KeyhitInit, KeyTypeOK, Indices
<1>3. Buffered = 0 /\ Published = 0 /\ Gone = 0
  BY <1>1 DEF KeyhitInit, Buffered, Published, Gone, Distance
<1>4. WriterInv /\ ReaderInv
  BY DEF KeyhitInit, WriterInv, ReaderInv
<1>5. BufferInv
  BY <1>3 DEF KeyhitInit, BufferInv
<1> QED
  BY <1>2, <1>4, <1>5 DEF KInv

-----------------------------------------------------------------------------
(* Theorems.                                                               *)

\* Once they met, that is not forgotten.
LEMMA OverlapsStay ==
  ASSUME [KeyhitNext]_keyhitVars, key_overlaps' = {}
  PROVE  key_overlaps = {}
BY DEF KeyhitNext, keyhitVars, Overlaps, Apart, Key, Full, DropLoad, DropStore, PutKey, PublishKey,
       Read, ReadKey, NextLoad, NextStore, KeyClear, KeyCleared

LEMMA KInvAlways == KeyhitSpec => [](key_overlaps = {} => KInv)
<1>1. KeyhitInit => (key_overlaps = {} => KInv)
  BY KInvFirst
<1>2. (key_overlaps = {} => KInv) /\ [KeyhitNext]_keyhitVars => (key_overlaps = {} => KInv)'
  BY KInvStep, OverlapsStay
<1> QED
  BY <1>1, <1>2, PTL DEF KeyhitSpec

LEMMA BufferIsExact ==
  ASSUME KInv
  PROVE  KeysWaiting
<1> SUFFICES ASSUME kw_pc = "idle", kr_pc = "idle"
             PROVE  /\ \A i \in 1 .. Buffered :
                         keyhit[(keyhit_next + i - 1) % KeyhitSize] = key_events - Buffered + i
                    /\ {e \in 1 .. key_events : KeyWaits(e)} =
                         key_events - Buffered + 1 .. key_events
  BY KeyTypes, DistanceIs DEF KeysWaiting, Buffered
<1>1. Published = key_events /\ Gone = key_events - Buffered
  BY DEF Published, Gone
<1>2. ASSUME NEW i \in 1 .. Buffered
      PROVE  keyhit[(keyhit_next + i - 1) % KeyhitSize] = key_events - Buffered + i
  <2> DEFINE x == keyhit_next + i - 1
             j == x % KeyhitSize
  <2>1. x \in 0 .. 2 * KeyhitSize - 1
    BY KeyTypes DEF Indices
  <2>2. j = IF x < KeyhitSize THEN x ELSE x - KeyhitSize
    <3>1. CASE x < KeyhitSize
      BY <2>1, <3>1, KeyTypes
    <3>2. CASE ~(x < KeyhitSize)
      <4>1. x \in KeyhitSize .. 2 * KeyhitSize - 1
        BY <2>1, <3>2, KeyTypes
      <4>2. KeyhitSize \in Nat /\ KeyhitSize > 0
        BY KeyTypes
      <4> HIDE DEF x
      <4> QED
        BY <3>2, <4>1, <4>2
    <3> QED
      BY <3>1, <3>2
  <2> HIDE DEF j
  <2>3. j \in Indices
    BY <2>1, <2>2, KeyTypes DEF Indices
  <2>4. Distance(j, keyhit_nextfree) = Buffered - i + 1
    BY <2>2, <2>3, KeyTypes DEF Buffered, Distance, Indices
  <2>5. keyhit[j] = Published + 1 - (Buffered - i + 1)
    BY <2>3, <2>4, KeyTypes DEF KInv, BufferInv
  <2> QED
    BY <1>1, <2>5, KeyTypes DEF j
<1>3. {e \in 1 .. key_events : KeyWaits(e)} = key_events - Buffered + 1 .. key_events
  <2>1. /\ key_hit <= key_events - Buffered /\ key_cleared <= key_events - Buffered
        /\ key_events - Buffered \in {key_hit, key_cleared} \/ Buffered = KeyhitSize - 1
    BY <1>1 DEF KInv, BufferInv
  <2>2. key_events - Buffered >= 0 /\ key_events - (KeyhitSize - 1) <= key_events - Buffered
    BY <2>1, KeyTypes
  <2>3. \A e \in 1 .. key_events : KeyWaits(e) <=> e > key_events - Buffered
    BY <2>1, <2>2, KeyTypes DEF KeyWaits
  <2>4. key_events - Buffered + 1 .. key_events =
           {e \in 1 .. key_events : e > key_events - Buffered}
    BY <2>2, KeyTypes
  <2> QED
    BY <2>3, <2>4
<1> QED
  BY <1>2, <1>3

\* Up to the first time that a drop meets a read or a clear a new event, the buffer of _KEYHIT
\* has, in order, every event but those taken out, cleared, or pushed out by KeyhitSize - 1
\* later ones, and the event that the program has in hand is newer than all it got before.
THEOREM KeysAlwaysInOrder == KeyhitSpec => []KeysInOrder
<1>1. (key_overlaps = {} => KInv) => KeysInOrder
  <2> SUFFICES ASSUME KInv
               PROVE  KeysWaiting /\ (kr_pc \in {"next", "store"} => kr_x > key_hit)
    BY DEF KeysInOrder
  <2>1. kr_pc \in {"next", "store"} => kr_x = Gone + 1 /\ key_hit <= Gone
    BY DEF KInv, ReaderInv, BufferInv
  <2> QED
    BY <2>1, BufferIsExact, KeyTypes
<1> QED
  BY <1>1, KInvAlways, PTL

-----------------------------------------------------------------------------
(* Http.                                                                   *)
Closing == {"closing", "open.closing", "end.closing"}

\* What the program has queued it waits for, and nothing else is queued.
QueueInv ==
    /\ add_queue = IF q_pc = "added" /\ "added" \notin finished THEN <<q_id>> ELSE <<>>
    /\ close_queue = IF q_pc \in Closing /\ "closed" \notin finished THEN <<q_id>> ELSE <<>>

\* The table has the handles that are alive, each once; what the program works on is there.
TableInv ==
    /\ \A i \in Ids : handle_table[i] <= opens /\ (Valid(i) => i \in special)
    /\ \A i, j \in Ids : Valid(i) /\ handle_table[i] = handle_table[j] => i = j
    /\ \A n \in Objects : handle[n].alive <=> \E i \in Ids : handle_table[i] = n
    /\ q_pc \in {"added", "info", "get", "eof", "close", "open.close", "end.close"} => Valid(q_id)
    /\ q_pc \in Closing => (Valid(q_id) <=> "closed" \notin finished)
    /\ q_pc \in {"stop", "join", "ended"} => \A i \in Ids : ~Valid(i)

\* A handle gets its info from the first block or from the end of the transfer, whichever is
\* first, and only then tells whoever opened it.
HandleInv == \A n \in Objects :
    /\ ~handle[n].alive => handle[n] = NoHandle
    /\ handle[n].alive =>
          /\ handle[n].response_started <=> ~handle[n].has_info
          /\ ~handle[n].has_info =>
                q_pc \in {"added", "info"} /\ handle_table[q_id] = n /\ "info" \notin finished
          /\ handle[n].con /\ handle[n].has_info => sent[n] >= 1
          /\ handle[n].closed <=> ~handle[n].con
          /\ ~handle[n].con =>
                handle[n].has_info /\ (handle[n].err <=> result[n] = "error")

\* libcurl works on the connections that have not ended, or are about to be dropped.
MultiInv ==
    /\ c_pc \notin {"closes", "drop"} => drop = <<>>
    /\ IsInjective(drop) /\ ToSet(drop) = {n \in multi : ~handle[n].alive}
    /\ \A n \in multi : handle[n].alive => handle[n].con
    /\ \A n \in Objects : handle[n].con =>
          n \in multi \/ (add_queue # <<>> /\ handle_table[q_id] = n)
    /\ add_queue # <<>> => handle_table[q_id] \notin multi /\ ~Of(q_id).has_info
    /\ \A n \in Objects : n > opens => n \notin multi /\ sent[n] = 0 /\ result[n] = "none"

\* The curl thread ends when it is told to, which is when all is closed.
EndInv ==
    /\ stop_curl => q_pc \in {"join", "ended"}
    /\ c_pc = "ended" => stop_curl
    /\ q_pc = "ended" => c_pc = "ended"

\* What EOF() reported is closed.
EofInv ==
    /\ q_pc = "eof" => Of(q_id).closed
    /\ \A n \in reported :
          /\ n <= opens /\ handle[n].out = 0 /\ n \notin multi
          /\ handle[n].alive => handle[n].closed

HInv ==
    /\ HttpTypeOK /\ QueueInv /\ TableInv /\ HandleInv /\ MultiInv /\ EndInv /\ EofInv
    /\ FailedOpenIsClosed

-----------------------------------------------------------------------------
(* What the steps do to a handle object.                                   *)

HandleObject == [alive : BOOLEAN, con : BOOLEAN, closed : BOOLEAN, err : BOOLEAN,
                 has_info : BOOLEAN, response_started : BOOLEAN, out : Nat]

\* A handle of the table is alive.
LEMMA ValidHandle ==
    ASSUME HttpTypeOK, TableInv, NEW i \in Ids, Valid(i)
    PROVE  handle_table[i] \in Objects /\ handle[handle_table[i]].alive
  <1>1. handle_table[i] \in Objects
    BY HttpAssumption DEF HttpAssumption, HttpTypeOK, Valid, Objects
  <1> QED
    BY <1>1 DEF TableInv

\* Data taken from a buffer leaves the rest of its handle alone.
LEMMA LessOut ==
    ASSUME HttpTypeOK, NEW m \in Objects, NEW k \in Nat, k <= handle[m].out,
           handle' = [handle EXCEPT ![m].out = @ - k]
    PROVE  /\ handle' \in [Objects -> HandleObject]
           /\ \A n \in Objects : /\ n # m => handle'[n] = handle[n]
                                 /\ handle'[n] = [handle[n] EXCEPT !.out = handle'[n].out]
                                 /\ handle'[n].out <= handle[n].out
  <1>1. handle \in [Objects -> HandleObject]
    BY DEF HttpTypeOK, HandleObject
  <1>2. handle[m] \in HandleObject /\ handle[m].out - k \in Nat
    BY <1>1 DEF HandleObject
  <1> DEFINE r == [handle[m] EXCEPT !.out = handle[m].out - k]
  <1>3. r \in HandleObject /\ r.out = handle[m].out - k
    BY <1>2 DEF HandleObject
  <1>4. handle' = [handle EXCEPT ![m] = r]
    OBVIOUS
  <1>5. r.out <= handle[m].out
    BY <1>3, <1>2 DEF HandleObject
  <1>6. handle'[m] = r /\ \A n \in Objects : n # m => handle'[n] = handle[n]
    BY <1>4, <1>1
  <1>7. handle' \in [Objects -> HandleObject]
    BY <1>4, <1>1, <1>3
  <1>8. \A n \in Objects : handle[n] \in HandleObject
    BY <1>1
  <1>9. \A n \in Objects : handle[n] = [handle[n] EXCEPT !.out = handle[n].out]
    BY <1>8 DEF HandleObject
  <1>10. \A n \in Objects : handle[n].out \in Nat
    BY <1>8 DEF HandleObject
  <1> QED
    BY <1>3, <1>5, <1>6, <1>7, <1>9, <1>10

\* What GET may do to a handle object.
Taken(g, h) == /\ g.alive = h.alive /\ g.con = h.con /\ g.closed = h.closed /\ g.err = h.err
               /\ g.has_info = h.has_info /\ g.response_started = h.response_started
               /\ g.out \in Nat /\ g.out <= h.out
               /\ ~h.alive => g = h

\* GET takes data from a live handle and changes nothing else of any.
LEMMA GetKeeps ==
    ASSUME HttpTypeOK, TableInv, (\E i \in Ids : GetFixed(i)) \/ Get
    PROVE  /\ handle' \in [Objects -> HandleObject]
           /\ \A n \in Objects : Taken(handle'[n], handle[n])
  <1>1. handle \in [Objects -> HandleObject] /\ q_id \in Ids
    BY DEF HttpTypeOK, HandleObject
  <1>2. \A n \in Objects : handle[n] \in HandleObject /\ handle[n].out \in Nat
    BY <1>1 DEF HandleObject
  <1>3. CASE handle' = handle
    BY <1>1, <1>2, <1>3 DEF Taken
  <1>4. ASSUME NEW j \in Ids, Valid(j), NEW k \in Nat, k <= Of(j).out,
               handle' = [handle EXCEPT ![handle_table[j]].out = @ - k]
        PROVE  /\ handle' \in [Objects -> HandleObject]
               /\ \A n \in Objects : Taken(handle'[n], handle[n])
    <2>1. handle_table[j] \in Objects /\ handle[handle_table[j]].alive
      BY <1>4, ValidHandle
    <2>2. /\ handle' \in [Objects -> HandleObject]
          /\ \A n \in Objects : /\ n # handle_table[j] => handle'[n] = handle[n]
                                /\ handle'[n] = [handle[n] EXCEPT !.out = handle'[n].out]
                                /\ handle'[n].out <= handle[n].out
      BY <1>4, <2>1, LessOut DEF Of
    <2>3. ASSUME NEW n \in Objects PROVE Taken(handle'[n], handle[n])
      <3>1. handle[n] \in HandleObject /\ handle'[n] \in HandleObject
        BY <1>2, <2>2
      <3>2. handle'[n] = [handle[n] EXCEPT !.out = handle'[n].out]
            /\ handle'[n].out <= handle[n].out /\ (~handle[n].alive => handle'[n] = handle[n])
        BY <2>1, <2>2
      <3> QED
        BY <3>1, <3>2 DEF Taken, HandleObject
    <2> QED
      BY <2>2, <2>3
  <1>5. ASSUME NEW i \in Ids, GetFixed(i)
        PROVE  /\ handle' \in [Objects -> HandleObject]
               /\ \A n \in Objects : Taken(handle'[n], handle[n])
    <2>1. CASE Enough(i)
      <3>1. handle' = [handle EXCEPT ![handle_table[i]].out = @ - 1] /\ 1 <= Of(i).out /\ Valid(i)
        BY <1>5, <2>1 DEF GetFixed, Enough
      <3> QED
        BY <3>1, <1>4
    <2>2. CASE ~Enough(i)
      BY <1>5, <2>2, <1>3 DEF GetFixed
    <2> QED
      BY <2>1, <2>2
  <1>6. CASE Get
    <2>1. Valid(q_id)
      BY <1>6 DEF Get, TableInv
    <2>2. PICK k \in 1 .. Of(q_id).out : handle' = [handle EXCEPT ![handle_table[q_id]].out = @ - k]
      BY <1>6 DEF Get
    <2>3. Of(q_id).out \in Nat
      BY <1>2, <1>1, <2>1, ValidHandle DEF Of
    <2>4. k \in Nat /\ k <= Of(q_id).out
      BY <2>2, <2>3
    <2> QED
      BY <1>1, <2>1, <2>2, <2>4, <1>4
  <1> QED
    BY <1>5, <1>6

\* libcurl calls back, and reports the end, for connections whose handle exists.
LEMMA FillsLive ==
    ASSUME HttpTypeOK, MultiInv, NEW n \in Objects, Receive(n) \/ Message(n)
    PROVE  /\ drop = <<>> /\ ToSet(drop) = {} /\ n \in multi /\ handle[n].alive /\ handle[n].con
           /\ handle' \in [Objects -> HandleObject]
           /\ \A m \in Objects : m # n => handle'[m] = handle[m]
           /\ handle'[n].alive /\ handle'[n].has_info /\ ~handle'[n].response_started
           /\ Receive(n) => handle'[n] = WithBlock(handle[n])
           /\ Message(n)
              => handle'[n] = [FilledOut(handle[n]) EXCEPT !.con = FALSE, !.closed = TRUE,
                                                                    !.err = result[n] = "error"]
           /\ finished' = finished \cup Told(handle[n])
  <1>1. drop = <<>> /\ ToSet(drop) = {} /\ n \in multi
    BY DEF Receive, Message, MultiInv, ToSet
  <1>2. handle[n].alive /\ handle[n].con
    BY <1>1 DEF MultiInv
  <1>3. handle \in [Objects -> HandleObject]
    BY DEF HttpTypeOK, HandleObject
  <1>4. handle[n] \in HandleObject /\ handle[n].out + 1 \in Nat
    BY <1>3 DEF HandleObject
  <1>5. ASSUME NEW r \in HandleObject, handle' = [handle EXCEPT ![n] = r]
        PROVE  /\ handle' \in [Objects -> HandleObject] /\ handle'[n] = r
               /\ \A m \in Objects : m # n => handle'[m] = handle[m]
    BY <1>5, <1>3
  <1>6. CASE Receive(n)
    <2>1. WithBlock(handle[n]) \in HandleObject
      BY <1>4 DEF WithBlock, FilledOut, HandleObject
    <2>2. handle' = [handle EXCEPT ![n] = WithBlock(handle[n])]
      BY <1>6 DEF Receive
    <2>3. handle'[n] = WithBlock(handle[n])
      BY <2>1, <2>2, <1>5
    <2>4. WithBlock(handle[n]).alive /\ WithBlock(handle[n]).has_info
          /\ ~WithBlock(handle[n]).response_started
      BY <1>2, <1>4 DEF WithBlock, FilledOut, HandleObject
    <2>5. ~Message(n)
      BY <1>6 DEF Receive, Message
    <2> QED
      BY <1>1, <1>2, <2>1, <2>2, <2>3, <2>4, <2>5, <1>5, <1>6 DEF Receive
  <1>7. CASE Message(n)
    <2> DEFINE r == [FilledOut(handle[n]) EXCEPT !.con = FALSE, !.closed = TRUE,
                                                 !.err = result[n] = "error"]
    <2>1. r \in HandleObject
      BY <1>4 DEF FilledOut, HandleObject
    <2>2. handle' = [handle EXCEPT ![n] = r]
      BY <1>7 DEF Message
    <2>3. handle'[n] = r
      BY <2>1, <2>2, <1>5
    <2>4. r.alive /\ r.has_info /\ ~r.response_started
      BY <1>2, <1>4 DEF FilledOut, HandleObject
    <2>5. ~Receive(n)
      BY <1>7 DEF Receive, Message
    <2>6. finished' = finished \cup Told(handle[n])
      BY <1>7 DEF Message
    <2>7. r = [FilledOut(handle[n]) EXCEPT !.con = FALSE, !.closed = TRUE,
                                           !.err = result[n] = "error"]
      OBVIOUS
    <2> HIDE DEF r
    <2> QED
      BY <1>1, <1>2, <2>1, <2>2, <2>3, <2>4, <2>5, <2>6, <2>7, <1>5
  <1> QED
    BY <1>6, <1>7

\* The curl thread takes what the program waits for from the queue of closings.
LEMMA ClosesLive ==
    ASSUME HttpTypeOK, QueueInv, TableInv, MultiInv, CloseHandle
    PROVE  /\ close_queue = <<q_id>> /\ close_queue' = <<>> /\ q_pc \in Closing
           /\ handle_table[q_id] \in Objects /\ handle[handle_table[q_id]].alive
           /\ handle_table[q_id] \notin ToSet(drop)
           /\ handle_table' = [handle_table EXCEPT ![q_id] = 0]
           /\ handle' \in [Objects -> HandleObject]
           /\ \A m \in Objects : m # handle_table[q_id] => handle'[m] = handle[m]
           /\ handle'[handle_table[q_id]] = NoHandle
           /\ drop' \in Seq(Objects) /\ IsInjective(drop')
           /\ ToSet(drop') = IF handle[handle_table[q_id]].con
                             THEN ToSet(drop) \cup {handle_table[q_id]} ELSE ToSet(drop)
           /\ finished' = finished \cup {"closed"}
  <1> DEFINE n == handle_table[q_id]
  <1>1. close_queue = <<q_id>> /\ q_pc \in Closing /\ "closed" \notin finished
    BY DEF CloseHandle, QueueInv
  <1>2. q_id \in Ids /\ Valid(q_id)
    BY <1>1 DEF TableInv, HttpTypeOK
  <1>3. Head(close_queue) = q_id /\ Tail(close_queue) = <<>>
    BY <1>1
  <1>4. n \in Objects /\ handle[n].alive
    BY <1>2, ValidHandle
  <1>5. /\ drop' = drop \o ToDrop(n) /\ handle_table' = [handle_table EXCEPT ![q_id] = 0]
        /\ handle' = [handle EXCEPT ![n] = NoHandle] /\ close_queue' = <<>>
        /\ finished' = finished \cup {"closed"}
    BY <1>3 DEF CloseHandle
  <1>6. handle \in [Objects -> HandleObject] /\ NoHandle \in HandleObject
    BY DEF HttpTypeOK, HandleObject, NoHandle, NewHandle
  <1>7. /\ handle' \in [Objects -> HandleObject] /\ handle'[n] = NoHandle
        /\ \A m \in Objects : m # n => handle'[m] = handle[m]
    BY <1>4, <1>5, <1>6
  <1>8. n \notin ToSet(drop) /\ drop \in Seq(Objects) /\ IsInjective(drop)
    BY <1>4 DEF MultiInv, HttpTypeOK
  <1>9. /\ drop' \in Seq(Objects) /\ IsInjective(drop')
        /\ ToSet(drop') = IF handle[n].con THEN ToSet(drop) \cup {n} ELSE ToSet(drop)
    <2>1. CASE handle[n].con
      <3>1. drop' = Append(drop, n)
        BY <2>1, <1>5, <1>8, <1>4, AppendIsConcat DEF ToDrop
      <3> HIDE DEF n
      <3> QED
        BY <2>1, <3>1, <1>8, <1>4, PushInjective
    <2>2. CASE ~handle[n].con
      <3>1. drop' = drop
        BY <2>2, <1>5, <1>8, ConcatEmptySeq DEF ToDrop
      <3> QED
        BY <2>2, <3>1, <1>8
    <2> QED
      BY <2>1, <2>2
  <1> QED
    BY <1>1, <1>4, <1>5, <1>7, <1>8, <1>9

\* Dropping takes the first of the connections to drop.
LEMMA DropFirst ==
    ASSUME NEW S, NEW s \in Seq(S), s # <<>>, IsInjective(s)
    PROVE  Tail(s) \in Seq(S) /\ IsInjective(Tail(s)) /\ ToSet(Tail(s)) = ToSet(s) \ {Head(s)}
           /\ Head(s) \in ToSet(s)
  <1>1. /\ Tail(s) \in Seq(S) /\ Len(s) \in Nat /\ Len(s) > 0 /\ Len(Tail(s)) = Len(s) - 1
        /\ \A k \in 1 .. Len(s) - 1 : Tail(s)[k] = s[k + 1]
        /\ Head(s) = s[1]
    BY HeadTailProperties, EmptySeq
  <1>2. DOMAIN s = 1 .. Len(s) /\ DOMAIN Tail(s) = 1 .. Len(s) - 1
    BY <1>1, LenProperties
  <1>3. IsInjective(Tail(s))
    BY <1>1, <1>2 DEF IsInjective
  <1>4. \A k \in 1 .. Len(s) : k = 1 \/ (k - 1 \in 1 .. Len(s) - 1 /\ s[k] = Tail(s)[k - 1])
    BY <1>1
  <1>5. \A k \in 1 .. Len(s) - 1 : Tail(s)[k] \in ToSet(s) /\ Tail(s)[k] # Head(s)
    BY <1>1, <1>2 DEF IsInjective, ToSet
  <1>6. ASSUME NEW e PROVE /\ e \in ToSet(Tail(s)) <=> \E k \in 1 .. Len(s) - 1 : e = Tail(s)[k]
                           /\ e \in ToSet(s) <=> \E k \in 1 .. Len(s) : e = s[k]
    BY <1>2 DEF ToSet
  <1>7. ToSet(Tail(s)) = ToSet(s) \ {Head(s)}
    <2>1. ASSUME NEW e \in ToSet(Tail(s)) PROVE e \in ToSet(s) \ {Head(s)}
      BY <1>5, <1>6
    <2>2. ASSUME NEW e \in ToSet(s) \ {Head(s)} PROVE e \in ToSet(Tail(s))
      <3>1. PICK k \in 1 .. Len(s) : e = s[k]
        BY <1>6
      <3>2. k - 1 \in 1 .. Len(s) - 1 /\ s[k] = Tail(s)[k - 1]
        BY <3>1, <1>1, <1>4
      <3> QED
        BY <3>1, <3>2, <1>6
    <2> QED
      BY <2>1, <2>2
  <1>8. Head(s) \in ToSet(s)
    BY <1>1, <1>6
  <1> QED
    BY <1>1, <1>3, <1>7, <1>8

\* The curl thread takes what the program waits for from the queue of additions.
LEMMA AddsLive ==
    ASSUME HttpTypeOK, QueueInv, TableInv, AddHandle
    PROVE  /\ add_queue = <<q_id>> /\ add_queue' = <<>> /\ q_pc = "added"
           /\ handle_table[q_id] \in Objects
           /\ multi' = multi \cup {handle_table[q_id]}
  <1>1. add_queue = <<q_id>> /\ q_pc = "added"
    BY DEF AddHandle, QueueInv
  <1>2. Head(add_queue) = q_id /\ Tail(add_queue) = <<>>
    BY <1>1
  <1>3. q_id \in Ids /\ Valid(q_id)
    BY <1>1 DEF TableInv, HttpTypeOK
  <1> QED
    BY <1>1, <1>2, <1>3, ValidHandle DEF AddHandle

\* A closing is queued alone.
LEMMA PushesAlone ==
    ASSUME HttpTypeOK, QueueInv, NEW from, NEW to, ClosePush(from, to),
           from \in {"close", "open.close", "end.close"}
    PROVE  close_queue' = <<q_id>> /\ close_queue' \in Seq(Ids)
  <1>1. close_queue = <<>> /\ q_id \in Ids
    BY DEF QueueInv, ClosePush, Closing, HttpTypeOK
  <1> QED
    BY <1>1 DEF ClosePush

\* Only one caller waits for the response of a connection.
LEMMA OneWaits ==
    ASSUME HandleInv, NEW m \in Objects, NEW n \in Objects, m # n, handle[m].alive,
           handle[n].alive, ~handle[m].has_info
    PROVE  handle[n].has_info /\ "info" \notin finished
  BY DEF HandleInv

\* The steps that touch a handle keep the types of the rest.
LEMMA GetFixedType ==
    ASSUME HttpTypeOK, TableInv, NEW i \in Ids, GetFixed(i)
    PROVE  HttpTypeOK'
  <1>1. handle' \in [Objects -> HandleObject]
    BY GetKeeps
  <1>2. flag' \in [Ids -> {"compute", "eof", "more"}]
    BY DEF GetFixed, HttpTypeOK
  <1>3. UNCHANGED <<special, handle_table, queues, stop_curl, q_pc, q_id, opens, reported, curl,
        world>>
    BY DEF GetFixed
  <1> QED
    BY <1>1, <1>2, <1>3 DEF HttpTypeOK, HandleObject, queues, curl, world

\* A block that arrives is one the server had to send.
LEMMA ReceiveType ==
    ASSUME HttpTypeOK, MultiInv, NEW n \in Objects, Receive(n)
    PROVE  HttpTypeOK'
  <1>1. handle' \in [Objects -> HandleObject] /\ finished' = finished \cup Told(handle[n])
    BY FillsLive
  <1>2. finished' \subseteq {"added", "info", "closed"}
    BY <1>1 DEF Told, HttpTypeOK
  <1>3. MaxBlocks \in [Objects -> Nat]
    BY HttpAssumption DEF HttpAssumption, Objects
  <1>4. sent' = [sent EXCEPT ![n] = @ + 1] /\ sent[n] < MaxBlocks[n]
    BY DEF Receive
  <1>5. sent' \in [Objects -> Nat] /\ \A m \in Objects : sent'[m] <= MaxBlocks[m]
    BY <1>3, <1>4 DEF HttpTypeOK
  <1>6. UNCHANGED <<handle_table, add_queue, close_queue, stop_curl, caller, curl, multi, result>>
    BY DEF Receive
  <1> QED
    BY <1>1, <1>2, <1>5, <1>6 DEF HttpTypeOK, HandleObject, caller, program, curl

\* A transfer ends once.
LEMMA FinishType ==
    ASSUME HttpTypeOK, NEW n \in Objects, Finish(n)
    PROVE  HttpTypeOK'
  <1>1. result' \in [Objects -> {"none", "ok", "error"}]
    BY DEF Finish, HttpTypeOK
  <1>2. UNCHANGED <<handle_table, handle, queues, stop_curl, caller, curl, multi, sent>>
    BY DEF Finish
  <1> QED
    BY <1>1, <1>2 DEF HttpTypeOK, queues, caller, program, curl

\* A closing empties the entry of the table.
LEMMA CloseHandleType ==
    ASSUME HttpTypeOK, QueueInv, TableInv, MultiInv, CloseHandle
    PROVE  HttpTypeOK'
  <1>1. /\ close_queue' = <<>> /\ handle_table' = [handle_table EXCEPT ![q_id] = 0]
        /\ handle' \in [Objects -> HandleObject] /\ drop' \in Seq(Objects)
        /\ finished' = finished \cup {"closed"}
    BY ClosesLive
  <1>2. close_queue' \in Seq(Ids)
    BY <1>1
  <1>3. handle_table' \in [Ids -> 0 .. MaxOpens]
    BY <1>1, HttpAssumption DEF HttpTypeOK, HttpAssumption
  <1>4. finished' \subseteq {"added", "info", "closed"}
    BY <1>1 DEF HttpTypeOK
  <1>5. UNCHANGED <<add_queue, stop_curl, caller, c_pc, world>>
    BY DEF CloseHandle
  <1> QED
    BY <1>1, <1>2, <1>3, <1>4, <1>5 DEF HttpTypeOK, HandleObject, caller, program, world

\* The end of the program begins when nothing is queued.
LEMMA EndClosesMulti ==
    ASSUME HttpTypeOK, QueueInv, MultiInv, EndCloses
    PROVE  MultiInv'
  <1>1. UNCHANGED <<handle_table, handle, queues, stop_curl, program, curl, world>>
    BY DEF EndCloses
  <1>2. q_pc # "added" /\ add_queue = <<>>
    BY DEF EndCloses, QueueInv
  <1> QED
    BY <1>1, <1>2 DEF MultiInv, queues, program, curl, world, Of, ToSet, IsInjective

\* A connection is dropped once.
LEMMA DropMulti ==
    ASSUME HttpTypeOK, HandleInv, MultiInv, Drop
    PROVE  MultiInv'
  <1>1. /\ Tail(drop) \in Seq(Objects) /\ IsInjective(Tail(drop))
        /\ ToSet(Tail(drop)) = ToSet(drop) \ {Head(drop)} /\ Head(drop) \in ToSet(drop)
    BY DropFirst DEF Drop, MultiInv, HttpTypeOK
  <1>2. /\ drop' = Tail(drop) /\ multi' = multi \ {Head(drop)} /\ c_pc = "drop"
        /\ UNCHANGED <<handle_table, handle, queues, stop_curl, caller, c_pc, result, sent>>
    BY DEF Drop
  <1>3. IsInjective(drop') /\ ToSet(drop') = {n \in multi' : ~handle'[n].alive}
    BY <1>1, <1>2 DEF MultiInv
  <1>4. \A n \in multi : handle[n].alive => n \in multi'
    BY <1>1, <1>2 DEF MultiInv
  <1>5. \A n \in Objects : handle[n].con => handle[n].alive 
    BY DEF HandleInv, NoHandle, NewHandle
  <1> QED
    BY <1>2, <1>3, <1>4, <1>5 DEF MultiInv, HttpTypeOK, caller, queues, program, Of

\* A transfer that ended is out of libcurl before its handle says so.
LEMMA FillsMulti ==
    ASSUME HttpTypeOK, QueueInv, TableInv, MultiInv, NEW n \in Objects, Receive(n) \/ Message(n)
    PROVE  MultiInv'
  <1>1. /\ drop = <<>> /\ ToSet(drop) = {} /\ n \in multi /\ handle[n].alive /\ handle[n].con
        /\ \A m \in Objects : m # n => handle'[m] = handle[m]
        /\ handle'[n].alive
        /\ Receive(n) => handle'[n] = WithBlock(handle[n])
    BY FillsLive
  <1>2. UNCHANGED <<handle_table, add_queue, close_queue, stop_curl, caller, curl, result>>
    BY DEF Receive, Message
  <1>3. multi' \subseteq multi /\ multi \ {n} \subseteq multi' /\ (Receive(n) => multi' = multi)
        /\ (Message(n) => n \notin multi' /\ ~handle'[n].con)
    <2>1. CASE Receive(n)
      BY <2>1 DEF Receive, Message
    <2>2. CASE Message(n)
      <3>1. handle \in [Objects -> HandleObject]
        BY DEF HttpTypeOK, HandleObject
      <3>2. handle[n] \in HandleObject
        BY <3>1
      <3>3. handle'[n] = [FilledOut(handle[n]) EXCEPT !.con = FALSE, !.closed = TRUE,
                                                     !.err = result[n] = "error"]
        BY <2>2, FillsLive
      <3>4. ~handle'[n].con
        BY <3>2, <3>3 DEF HandleObject, FilledOut
      <3> QED
        BY <2>2, <3>4 DEF Receive, Message
    <2> QED
      BY <2>1, <2>2
  <1>4. handle[n] \in HandleObject
    BY DEF HttpTypeOK, HandleObject
  <1>5. Receive(n) => handle'[n].con
    BY <1>1, <1>4 DEF WithBlock, FilledOut, HandleObject
  <1>6. \A m \in Objects : handle'[m].alive = handle[m].alive
    BY <1>1, <1>4 DEF HttpTypeOK, HandleObject
  <1>7. ToSet(drop') = {m \in multi' : ~handle'[m].alive} /\ IsInjective(drop')
    BY <1>1, <1>2, <1>3, <1>6 DEF MultiInv, curl, HttpTypeOK
  <1>8. \A m \in multi' : handle'[m].alive => handle'[m].con
    BY <1>1, <1>3, <1>5 DEF MultiInv, HttpTypeOK
  <1>9. \A m \in Objects : handle'[m].con => m \in multi'
                           \/ (add_queue' # <<>> /\ handle_table'[q_id'] = m)
    BY <1>1, <1>2, <1>3, <1>5 DEF MultiInv, caller
  <1>10. add_queue' # <<>> => handle_table'[q_id'] \notin multi' /\ ~Of(q_id)'.has_info
    <2> SUFFICES ASSUME add_queue # <<>> PROVE handle_table[q_id] \notin multi'
                        /\ ~Of(q_id)'.has_info
      BY <1>2 DEF caller
    <2>1. handle_table[q_id] \notin multi /\ ~Of(q_id).has_info
      BY DEF MultiInv
    <2>2. CASE handle_table[q_id] \in Objects
      BY <1>1, <1>2, <1>3, <2>1, <2>2 DEF Of, caller
    <2>3. handle_table[q_id] \in Objects
      BY ValidHandle DEF QueueInv, TableInv, HttpTypeOK
    <2> QED
      BY <2>2, <2>3
  <1>11. \A m \in Objects : m > opens' => m \notin multi' /\ sent'[m] = 0 /\ result'[m] = "none"
    BY <1>1, <1>2, <1>3 DEF MultiInv, caller, program, Receive, Message, HttpTypeOK
  <1> QED
    BY <1>1, <1>2, <1>7, <1>8, <1>9, <1>10, <1>11 DEF MultiInv, curl

\* At the start there is no handle, and nothing was sent.
LEMMA HInitType == HttpInit => HttpTypeOK
  <1> SUFFICES ASSUME HttpInit PROVE HttpTypeOK
    OBVIOUS
  <1>1. handle \in [Objects -> HandleObject]
    BY DEF HttpInit, NoHandle, NewHandle, HandleObject
  <1>2. opens \in 0 .. MaxOpens /\ handle_table \in [Ids -> 0 .. MaxOpens]
    BY HttpAssumption DEF HttpAssumption, HttpInit
  <1>3. sent \in [Objects -> Nat] /\ \A n \in Objects : sent[n] <= MaxBlocks[n]
    BY HttpAssumption DEF HttpAssumption, HttpInit, Objects
  <1>4. add_queue \in Seq(Ids) /\ close_queue \in Seq(Ids) /\ drop \in Seq(Objects)
    BY DEF HttpInit
  <1> QED
    BY <1>1, <1>2, <1>3, <1>4 DEF HttpInit, HttpTypeOK, HandleObject

\* Only a connection that has its info is read from.
LEMMA GetHandle ==
    ASSUME HttpTypeOK, TableInv, HandleInv, Get
    PROVE  HandleInv'
  <1>1. \A n \in Objects : Taken(handle'[n], handle[n])
    BY GetKeeps
  <1>2. q_pc = "get" /\ UNCHANGED <<handle_table, queues, stop_curl, q_id, program, curl, world>>
    BY DEF Get
  <1>3. \A n \in Objects : handle[n].alive => handle[n].has_info
    BY <1>2 DEF HandleInv
  <1> QED
    BY <1>1, <1>2, <1>3 DEF HandleInv, Taken, queues, world

\* The first block, or the end, gives a handle its info, and wakes whoever opened it.
LEMMA FillsHandle ==
    ASSUME HttpTypeOK, MultiInv, HandleInv, NEW n \in Objects, Receive(n) \/ Message(n)
    PROVE  HandleInv'
  <1>1. /\ handle[n].alive /\ handle[n].con
        /\ \A m \in Objects : m # n => handle'[m] = handle[m]
        /\ handle'[n].alive /\ handle'[n].has_info /\ ~handle'[n].response_started
        /\ Receive(n) => handle'[n] = WithBlock(handle[n])
        /\ Message(n) => handle'[n] = [FilledOut(handle[n]) EXCEPT !.con = FALSE, !.closed = TRUE,
                                                                 !.err = result[n] = "error"]
        /\ finished' = finished \cup Told(handle[n])
    BY FillsLive
  <1>2. handle[n] \in HandleObject
    BY DEF HttpTypeOK, HandleObject
  <1>3. UNCHANGED <<handle_table, q_pc, q_id, result>>
    BY DEF Receive, Message, caller
  <1>4. \A m \in Objects : m # n => sent'[m] = sent[m]
    BY DEF Receive, Message, HttpTypeOK
  <1>5. ASSUME NEW m \in Objects, m # n, ~handle[m].has_info, handle[m].alive
        PROVE  "info" \notin finished'
    <2>1. handle[n].has_info /\ "info" \notin finished
      BY <1>1, <1>5, OneWaits
    <2> QED
      BY <1>1, <2>1 DEF Told
  <1>6. /\ handle'[n].closed <=> ~handle'[n].con
        /\ ~handle'[n].con => (handle'[n].err <=> result'[n] = "error")
        /\ handle'[n].con => sent'[n] >= 1
    <2>1. CASE Receive(n)
      <3>1. handle'[n].con /\ ~handle'[n].closed
        BY <1>1, <1>2, <2>1 DEF WithBlock, FilledOut, HandleObject, HandleInv
      <3>2. sent'[n] >= 1
        BY <2>1 DEF Receive, HttpTypeOK
      <3> QED
        BY <3>1, <3>2
    <2>2. CASE Message(n)
      <3>1. ~handle'[n].con /\ handle'[n].closed /\ handle'[n].err = (result[n] = "error")
        BY <1>1, <1>2, <2>2 DEF FilledOut, HandleObject
      <3> QED
        BY <3>1, <1>3
    <2> QED
      BY <2>1, <2>2
  <1>7. ASSUME NEW m \in Objects, m # n
        PROVE  /\ ~handle'[m].alive => handle'[m] = NoHandle
               /\ handle'[m].alive =>
                    /\ handle'[m].response_started <=> ~handle'[m].has_info
                    /\ ~handle'[m].has_info => q_pc' \in {"added", "info"}
                       /\ handle_table'[q_id'] = m
                                               /\ "info" \notin finished'
                    /\ handle'[m].con /\ handle'[m].has_info => sent'[m] >= 1
                    /\ handle'[m].closed <=> ~handle'[m].con
                    /\ ~handle'[m].con => handle'[m].has_info
                       /\ (handle'[m].err <=> result'[m] = "error")
    BY <1>1, <1>3, <1>4, <1>5, <1>7 DEF HandleInv
  <1> QED
    BY <1>1, <1>6, <1>7 DEF HandleInv

\* A queue of one element.
LEMMA Queued ==
  ASSUME NEW S, NEW i \in S
  PROVE  /\ Append(<<>>, i) = <<i>> /\ Head(<<i>>) = i /\ Tail(<<i>>) = <<>> /\ <<i>> # <<>>
         /\ <<i>> \in Seq(S) /\ <<>> \in Seq(S)
  OBVIOUS

\* Every step keeps the types.
LEMMA HttpTypeOKStep ==
  ASSUME HInv, HttpNext
  PROVE  HttpTypeOK'
<1> USE HttpAssumption DEF HttpAssumption, HInv, HttpTypeOK, Objects, Valid, Of, Closing, queues,
    program,
        caller, curl, world, NewHandle, NoHandle, FilledOut, WithBlock, Told
<1>1. ASSUME NEW i \in Ids, Open(i) PROVE HttpTypeOK'
  BY <1>1, Queued DEF Open, QueueInv, TableInv, HandleInv, MultiInv
<1>2. CASE OpenAdded
  BY <1>2 DEF OpenAdded, QueueInv, TableInv, HandleInv, MultiInv
<1>3. CASE OpenInfo
  <2>1. CASE Failed(Of(q_id))
    BY <1>3, <2>1 DEF OpenInfo, HandleObject, QueueInv
  <2>2. CASE ~Failed(Of(q_id))
    BY <1>3, <2>2 DEF OpenInfo, HandleObject, QueueInv
  <2> QED
    BY <2>1, <2>2
<1>4. ASSUME NEW i \in Ids, GetFixed(i) PROVE HttpTypeOK'
  BY <1>4, GetFixedType
<1>5. ASSUME NEW i \in Ids, GetLength(i) PROVE HttpTypeOK'
  BY <1>5 DEF GetLength, QueueInv, TableInv, HandleInv, MultiInv, Enough
<1>6. CASE Get
  <2>1. handle' \in [Objects -> HandleObject] /\ \A n \in Objects : Taken(handle'[n], handle[n])
    BY <1>6, GetKeeps
  <2> QED
    BY <1>6, <2>1 DEF Get, Taken, HandleObject, QueueInv
<1>7. ASSUME NEW i \in Ids, EofConnected(i) PROVE HttpTypeOK'
  BY <1>7 DEF EofConnected, QueueInv, TableInv, HandleInv, MultiInv, Enough, EofDenied
<1>8. CASE EofLength
  BY <1>8 DEF EofLength, QueueInv, TableInv, HandleInv, MultiInv, Enough, EofDenied
<1>9. ASSUME NEW i \in Ids, Close(i) PROVE HttpTypeOK'
  BY <1>9 DEF Close, QueueInv, TableInv, HandleInv, MultiInv
<1>10. CASE ClosePush("close", "closing") \/ ClosePush("open.close", "open.closing")
          \/ ClosePush("end.close", "end.closing")
  <2>1. CASE ClosePush("close", "closing")
    BY <2>1, PushesAlone DEF ClosePush, HandleObject, QueueInv
  <2>2. CASE ClosePush("open.close", "open.closing")
    BY <2>2, PushesAlone DEF ClosePush, HandleObject, QueueInv
  <2>3. CASE ClosePush("end.close", "end.closing")
    BY <2>3, PushesAlone DEF ClosePush, HandleObject, QueueInv
  <2> QED
    BY <1>10, <2>1, <2>2, <2>3
<1>11. CASE CloseDone("closing", "stmt") \/ CloseDone("open.closing", "stmt")
          \/ CloseDone("end.closing", "end")
  <2>1. CASE CloseDone("closing", "stmt")
    BY <2>1 DEF CloseDone, HandleObject, QueueInv
  <2>2. CASE CloseDone("open.closing", "stmt")
    BY <2>2 DEF CloseDone, HandleObject, QueueInv
  <2>3. CASE CloseDone("end.closing", "end")
    BY <2>3 DEF CloseDone, HandleObject, QueueInv
  <2> QED
    BY <1>11, <2>1, <2>2, <2>3
<1>12. CASE EndCloses
  BY <1>12 DEF EndCloses, QueueInv, TableInv, HandleInv, MultiInv, NextToClose
<1>13. CASE Stop
  BY <1>13 DEF Stop, QueueInv, TableInv, HandleInv, MultiInv
<1>14. CASE Join
  BY <1>14 DEF Join, QueueInv, TableInv, HandleInv, MultiInv
<1>15. CASE CurlTop
  BY <1>15 DEF CurlTop, QueueInv, TableInv, HandleInv, MultiInv
<1>16. CASE CurlPoll
  BY <1>16 DEF CurlPoll, QueueInv, TableInv, HandleInv, MultiInv
<1>17. CASE AddHandle
  <2>1. /\ add_queue = <<q_id>> /\ add_queue' = <<>> /\ q_pc = "added"
        /\ handle_table[q_id] \in Objects
        /\ multi' = multi \cup {handle_table[q_id]}
    BY <1>17, AddsLive
  <2> QED
    BY <1>17, <2>1 DEF AddHandle, HandleObject, QueueInv
<1>18. CASE Added
  BY <1>18 DEF Added, QueueInv, TableInv, HandleInv, MultiInv
<1>19. CASE CloseHandle
  BY <1>19, CloseHandleType
<1>20. CASE Closed
  BY <1>20 DEF Closed, QueueInv, TableInv, HandleInv, MultiInv
<1>21. CASE Drop
  <2>1. /\ Tail(drop) \in Seq(Objects) /\ IsInjective(Tail(drop))
        /\ ToSet(Tail(drop)) = ToSet(drop) \ {Head(drop)} /\ Head(drop) \in ToSet(drop)
    BY <1>21, DropFirst DEF Drop, MultiInv
  <2> QED
    BY <1>21, <2>1 DEF Drop, HandleObject, QueueInv
<1>22. CASE Dropped
  BY <1>22 DEF Dropped, QueueInv, TableInv, HandleInv, MultiInv
<1>23. ASSUME NEW n \in Objects, Receive(n) PROVE HttpTypeOK'
  BY <1>23, ReceiveType
<1>24. ASSUME NEW n \in Objects, Finish(n) PROVE HttpTypeOK'
  BY <1>24, FinishType
<1>25. CASE Performed
  BY <1>25 DEF Performed, QueueInv, TableInv, HandleInv, MultiInv
<1>26. ASSUME NEW n \in Objects, Message(n) PROVE HttpTypeOK'
  <2>1. /\ drop = <<>> /\ ToSet(drop) = {} /\ n \in multi /\ handle[n].alive /\ handle[n].con
        /\ handle' \in [Objects -> HandleObject]
        /\ \A m \in Objects : m # n => handle'[m] = handle[m]
        /\ handle'[n].alive /\ handle'[n].has_info /\ ~handle'[n].response_started
        /\ handle'[n] = [FilledOut(handle[n]) EXCEPT !.con = FALSE, !.closed = TRUE,
                                                  !.err = result[n] = "error"]
        /\ finished' = finished \cup Told(handle[n])
    BY <1>26, FillsLive
  <2> QED
    BY <1>26, <2>1 DEF Message, HandleObject, QueueInv
<1>27. CASE MessagesDone
  BY <1>27 DEF MessagesDone, QueueInv, TableInv, HandleInv, MultiInv
<1>28. CASE Ended
  BY <1>28 DEF Ended, httpVars, QueueInv, TableInv, HandleInv, MultiInv
<1> QED
  BY <1>1, <1>2, <1>3, <1>4, <1>5, <1>6, <1>7, <1>8, <1>9, <1>10, <1>11, <1>12, <1>13, <1>14,
     <1>15, <1>16, <1>17, <1>18, <1>19, <1>20, <1>21, <1>22, <1>23, <1>24, <1>25, <1>26,
     <1>27, <1>28
     DEF HttpNext, CallerOn, Caller, Curl, Server

\* Every step keeps libcurl's connections in order.
LEMMA MultiStep ==
  ASSUME HInv, HttpTypeOK', TableInv', QueueInv', HandleInv', HttpNext
  PROVE  MultiInv'
<1> USE HttpAssumption DEF HttpAssumption, HInv, HttpTypeOK, Objects, Valid, Of, Closing, queues,
    program,
        caller, curl, world, NewHandle, NoHandle, FilledOut, WithBlock, Told
<1>1. ASSUME NEW i \in Ids, Open(i) PROVE MultiInv'
  BY <1>1, Queued DEF Open, QueueInv, TableInv, HandleInv, MultiInv, EndInv
<1>2. CASE OpenAdded
  BY <1>2 DEF OpenAdded, QueueInv, TableInv, HandleInv, MultiInv, EndInv
<1>3. CASE OpenInfo
  BY <1>3 DEF OpenInfo, QueueInv, TableInv, HandleInv, MultiInv, EndInv, Failed
<1>4. ASSUME NEW i \in Ids, GetFixed(i) PROVE MultiInv'
  <2>1. handle' \in [Objects -> HandleObject] /\ \A n \in Objects : Taken(handle'[n], handle[n])
    BY <1>4, GetKeeps
  <2> QED
    BY <1>4, <2>1 DEF GetFixed, Taken, QueueInv, TableInv, HandleInv, MultiInv
<1>5. ASSUME NEW i \in Ids, GetLength(i) PROVE MultiInv'
  BY <1>5 DEF GetLength, QueueInv, TableInv, HandleInv, MultiInv, EndInv, Enough
<1>6. CASE Get
  <2>1. handle' \in [Objects -> HandleObject] /\ \A n \in Objects : Taken(handle'[n], handle[n])
    BY <1>6, GetKeeps
  <2> QED
    BY <1>6, <2>1 DEF Get, Taken, QueueInv, TableInv, HandleInv, MultiInv
<1>7. ASSUME NEW i \in Ids, EofConnected(i) PROVE MultiInv'
  BY <1>7 DEF EofConnected, QueueInv, TableInv, HandleInv, MultiInv, EndInv, Enough, EofDenied
<1>8. CASE EofLength
  BY <1>8 DEF EofLength, QueueInv, TableInv, HandleInv, MultiInv, EndInv, Enough, EofDenied
<1>9. ASSUME NEW i \in Ids, Close(i) PROVE MultiInv'
  BY <1>9 DEF Close, QueueInv, TableInv, HandleInv, MultiInv, EndInv
<1>10. CASE ClosePush("close", "closing") \/ ClosePush("open.close", "open.closing")
          \/ ClosePush("end.close", "end.closing")
  <2>1. CASE ClosePush("close", "closing")
    BY <2>1, PushesAlone DEF ClosePush, QueueInv, TableInv, HandleInv, MultiInv
  <2>2. CASE ClosePush("open.close", "open.closing")
    BY <2>2, PushesAlone DEF ClosePush, QueueInv, TableInv, HandleInv, MultiInv
  <2>3. CASE ClosePush("end.close", "end.closing")
    BY <2>3, PushesAlone DEF ClosePush, QueueInv, TableInv, HandleInv, MultiInv
  <2> QED
    BY <1>10, <2>1, <2>2, <2>3
<1>11. CASE CloseDone("closing", "stmt") \/ CloseDone("open.closing", "stmt")
          \/ CloseDone("end.closing", "end")
  <2>1. CASE CloseDone("closing", "stmt")
    BY <2>1 DEF CloseDone, QueueInv, TableInv, HandleInv, MultiInv
  <2>2. CASE CloseDone("open.closing", "stmt")
    BY <2>2 DEF CloseDone, QueueInv, TableInv, HandleInv, MultiInv
  <2>3. CASE CloseDone("end.closing", "end")
    BY <2>3 DEF CloseDone, QueueInv, TableInv, HandleInv, MultiInv
  <2> QED
    BY <1>11, <2>1, <2>2, <2>3
<1>12. CASE EndCloses
  BY <1>12, EndClosesMulti
<1>13. CASE Stop
  BY <1>13 DEF Stop, QueueInv, TableInv, HandleInv, MultiInv, EndInv
<1>14. CASE Join
  BY <1>14 DEF Join, QueueInv, TableInv, HandleInv, MultiInv, EndInv
<1>15. CASE CurlTop
  BY <1>15 DEF CurlTop, QueueInv, TableInv, HandleInv, MultiInv, EndInv
<1>16. CASE CurlPoll
  BY <1>16 DEF CurlPoll, QueueInv, TableInv, HandleInv, MultiInv, EndInv
<1>17. CASE AddHandle
  BY <1>17, Queued DEF AddHandle, QueueInv, TableInv, HandleInv, MultiInv, EndInv
<1>18. CASE Added
  BY <1>18 DEF Added, QueueInv, TableInv, HandleInv, MultiInv, EndInv
<1>19. CASE CloseHandle
  <2>1. /\ close_queue = <<q_id>> /\ close_queue' = <<>> /\ q_pc \in Closing
        /\ handle_table[q_id] \in Objects /\ handle[handle_table[q_id]].alive
        /\ handle_table[q_id] \notin ToSet(drop)
        /\ handle_table' = [handle_table EXCEPT ![q_id] = 0]
        /\ handle' \in [Objects -> HandleObject]
        /\ \A m \in Objects : m # handle_table[q_id] => handle'[m] = handle[m]
        /\ handle'[handle_table[q_id]] = NoHandle
        /\ drop' \in Seq(Objects) /\ IsInjective(drop')
        /\ ToSet(drop') = IF handle[handle_table[q_id]].con
                          THEN ToSet(drop) \cup {handle_table[q_id]} ELSE ToSet(drop)
        /\ finished' = finished \cup {"closed"}
    BY <1>19, ClosesLive
  <2> QED
    BY <1>19, <2>1, Queued DEF CloseHandle, QueueInv, TableInv, HandleInv, MultiInv
<1>20. CASE Closed
  BY <1>20 DEF Closed, QueueInv, TableInv, HandleInv, MultiInv, EndInv
<1>21. CASE Drop
  BY <1>21, DropMulti
<1>22. CASE Dropped
  BY <1>22 DEF Dropped, QueueInv, TableInv, HandleInv, MultiInv, EndInv
<1>23. ASSUME NEW n \in Objects, Receive(n) PROVE MultiInv'
  BY <1>23, FillsMulti
<1>24. ASSUME NEW n \in Objects, Finish(n) PROVE MultiInv'
  BY <1>24 DEF Finish, QueueInv, TableInv, HandleInv, MultiInv, EndInv
<1>25. CASE Performed
  BY <1>25 DEF Performed, QueueInv, TableInv, HandleInv, MultiInv, EndInv
<1>26. ASSUME NEW n \in Objects, Message(n) PROVE MultiInv'
  BY <1>26, FillsMulti
<1>27. CASE MessagesDone
  BY <1>27 DEF MessagesDone, QueueInv, TableInv, HandleInv, MultiInv, EndInv
<1>28. CASE Ended
  BY <1>28 DEF Ended, httpVars, QueueInv, TableInv, HandleInv, MultiInv, EndInv
<1> QED
  BY <1>1, <1>2, <1>3, <1>4, <1>5, <1>6, <1>7, <1>8, <1>9, <1>10, <1>11, <1>12, <1>13, <1>14,
     <1>15, <1>16, <1>17, <1>18, <1>19, <1>20, <1>21, <1>22, <1>23, <1>24, <1>25, <1>26,
     <1>27, <1>28
     DEF HttpNext, CallerOn, Caller, Curl, Server

\* Every step keeps the table and the live handles the same.
LEMMA TableStep ==
  ASSUME HInv, HttpTypeOK', QueueInv', HttpNext
  PROVE  TableInv'
<1> USE HttpAssumption DEF HttpAssumption, HInv, HttpTypeOK, Objects, Valid, Of, Closing, queues,
    program,
        caller, curl, world, NewHandle, NoHandle, FilledOut, WithBlock, Told
<1>1. ASSUME NEW i \in Ids, Open(i) PROVE TableInv'
  BY <1>1, Queued DEF Open, QueueInv, TableInv, HandleInv
<1>2. CASE OpenAdded
  BY <1>2 DEF OpenAdded, QueueInv, TableInv, HandleInv
<1>3. CASE OpenInfo
  BY <1>3 DEF OpenInfo, QueueInv, TableInv, HandleInv, Failed
<1>4. ASSUME NEW i \in Ids, GetFixed(i) PROVE TableInv'
  <2>1. handle' \in [Objects -> HandleObject] /\ \A n \in Objects : Taken(handle'[n], handle[n])
    BY <1>4, GetKeeps
  <2> QED
    BY <1>4, <2>1 DEF GetFixed, Taken, QueueInv, TableInv
<1>5. ASSUME NEW i \in Ids, GetLength(i) PROVE TableInv'
  BY <1>5 DEF GetLength, QueueInv, TableInv, HandleInv, Enough
<1>6. CASE Get
  <2>1. handle' \in [Objects -> HandleObject] /\ \A n \in Objects : Taken(handle'[n], handle[n])
    BY <1>6, GetKeeps
  <2> QED
    BY <1>6, <2>1 DEF Get, Taken, QueueInv, TableInv
<1>7. ASSUME NEW i \in Ids, EofConnected(i) PROVE TableInv'
  BY <1>7 DEF EofConnected, QueueInv, TableInv, HandleInv, Enough, EofDenied
<1>8. CASE EofLength
  BY <1>8 DEF EofLength, QueueInv, TableInv, HandleInv, Enough, EofDenied
<1>9. ASSUME NEW i \in Ids, Close(i) PROVE TableInv'
  BY <1>9 DEF Close, QueueInv, TableInv, HandleInv
<1>10. CASE ClosePush("close", "closing") \/ ClosePush("open.close", "open.closing")
          \/ ClosePush("end.close", "end.closing")
  BY <1>10, Queued DEF ClosePush, QueueInv, TableInv, HandleInv
<1>11. CASE CloseDone("closing", "stmt") \/ CloseDone("open.closing", "stmt")
          \/ CloseDone("end.closing", "end")
  BY <1>11 DEF CloseDone, QueueInv, TableInv, HandleInv
<1>12. CASE EndCloses
  BY <1>12 DEF EndCloses, QueueInv, TableInv, HandleInv, NextToClose
<1>13. CASE Stop
  BY <1>13 DEF Stop, QueueInv, TableInv, HandleInv
<1>14. CASE Join
  BY <1>14 DEF Join, QueueInv, TableInv, HandleInv
<1>15. CASE CurlTop
  BY <1>15 DEF CurlTop, QueueInv, TableInv, HandleInv
<1>16. CASE CurlPoll
  BY <1>16 DEF CurlPoll, QueueInv, TableInv, HandleInv
<1>17. CASE AddHandle
  BY <1>17, Queued DEF AddHandle, QueueInv, TableInv, HandleInv
<1>18. CASE Added
  BY <1>18 DEF Added, QueueInv, TableInv, HandleInv
<1>19. CASE CloseHandle
  BY <1>19, Queued DEF CloseHandle, QueueInv, TableInv, HandleInv
<1>20. CASE Closed
  BY <1>20 DEF Closed, QueueInv, TableInv, HandleInv
<1>21. CASE Drop
  BY <1>21 DEF Drop, QueueInv, TableInv, HandleInv
<1>22. CASE Dropped
  BY <1>22 DEF Dropped, QueueInv, TableInv, HandleInv
<1>23. ASSUME NEW n \in Objects, Receive(n) PROVE TableInv'
  BY <1>23 DEF Receive, QueueInv, TableInv, HandleInv
<1>24. ASSUME NEW n \in Objects, Finish(n) PROVE TableInv'
  BY <1>24 DEF Finish, QueueInv, TableInv, HandleInv
<1>25. CASE Performed
  BY <1>25 DEF Performed, QueueInv, TableInv, HandleInv
<1>26. ASSUME NEW n \in Objects, Message(n) PROVE TableInv'
  BY <1>26 DEF Message, QueueInv, TableInv, HandleInv
<1>27. CASE MessagesDone
  BY <1>27 DEF MessagesDone, QueueInv, TableInv, HandleInv
<1>28. CASE Ended
  BY <1>28 DEF Ended, httpVars, QueueInv, TableInv, HandleInv
<1> QED
  BY <1>1, <1>2, <1>3, <1>4, <1>5, <1>6, <1>7, <1>8, <1>9, <1>10, <1>11, <1>12, <1>13, <1>14,
     <1>15, <1>16, <1>17, <1>18, <1>19, <1>20, <1>21, <1>22, <1>23, <1>24, <1>25, <1>26,
     <1>27, <1>28
     DEF HttpNext, CallerOn, Caller, Curl, Server

\* Every step keeps the handles' fields consistent.
LEMMA HandleStep ==
  ASSUME HInv, HttpTypeOK', TableInv', HttpNext
  PROVE  HandleInv'
<1> USE HttpAssumption DEF HttpAssumption, HInv, HttpTypeOK, Objects, Valid, Of, Closing, queues,
    program,
        caller, curl, world, NewHandle, NoHandle, FilledOut, WithBlock, Told
<1>1. ASSUME NEW i \in Ids, Open(i) PROVE HandleInv'
  BY <1>1, Queued DEF Open, QueueInv, TableInv, HandleInv, MultiInv
<1>2. CASE OpenAdded
  BY <1>2 DEF OpenAdded, QueueInv, TableInv, HandleInv, MultiInv
<1>3. CASE OpenInfo
  BY <1>3 DEF OpenInfo, QueueInv, TableInv, HandleInv, MultiInv, Failed
<1>4. ASSUME NEW i \in Ids, GetFixed(i) PROVE HandleInv'
  <2>1. handle' \in [Objects -> HandleObject] /\ \A n \in Objects : Taken(handle'[n], handle[n])
    BY <1>4, GetKeeps
  <2> QED
    BY <1>4, <2>1 DEF GetFixed, Taken, HandleInv, TableInv
<1>5. ASSUME NEW i \in Ids, GetLength(i) PROVE HandleInv'
  BY <1>5 DEF GetLength, QueueInv, TableInv, HandleInv, MultiInv, Enough
<1>6. CASE Get
  BY <1>6, GetHandle
<1>7. ASSUME NEW i \in Ids, EofConnected(i) PROVE HandleInv'
  BY <1>7 DEF EofConnected, QueueInv, TableInv, HandleInv, MultiInv, Enough, EofDenied
<1>8. CASE EofLength
  BY <1>8 DEF EofLength, QueueInv, TableInv, HandleInv, MultiInv, Enough, EofDenied
<1>9. ASSUME NEW i \in Ids, Close(i) PROVE HandleInv'
  BY <1>9 DEF Close, QueueInv, TableInv, HandleInv, MultiInv
<1>10. CASE ClosePush("close", "closing") \/ ClosePush("open.close", "open.closing")
          \/ ClosePush("end.close", "end.closing")
  <2>1. CASE ClosePush("close", "closing")
    BY <2>1, PushesAlone DEF ClosePush, QueueInv, TableInv, HandleInv, MultiInv
  <2>2. CASE ClosePush("open.close", "open.closing")
    BY <2>2, PushesAlone DEF ClosePush, QueueInv, TableInv, HandleInv, MultiInv
  <2>3. CASE ClosePush("end.close", "end.closing")
    BY <2>3, PushesAlone DEF ClosePush, QueueInv, TableInv, HandleInv, MultiInv
  <2> QED
    BY <1>10, <2>1, <2>2, <2>3
<1>11. CASE CloseDone("closing", "stmt") \/ CloseDone("open.closing", "stmt")
          \/ CloseDone("end.closing", "end")
  <2>1. CASE CloseDone("closing", "stmt")
    BY <2>1 DEF CloseDone, QueueInv, TableInv, HandleInv, MultiInv
  <2>2. CASE CloseDone("open.closing", "stmt")
    BY <2>2 DEF CloseDone, QueueInv, TableInv, HandleInv, MultiInv
  <2>3. CASE CloseDone("end.closing", "end")
    BY <2>3 DEF CloseDone, QueueInv, TableInv, HandleInv, MultiInv
  <2> QED
    BY <1>11, <2>1, <2>2, <2>3
<1>12. CASE EndCloses
  BY <1>12 DEF EndCloses, QueueInv, TableInv, HandleInv, MultiInv
<1>13. CASE Stop
  BY <1>13 DEF Stop, QueueInv, TableInv, HandleInv, MultiInv
<1>14. CASE Join
  BY <1>14 DEF Join, QueueInv, TableInv, HandleInv, MultiInv
<1>15. CASE CurlTop
  BY <1>15 DEF CurlTop, QueueInv, TableInv, HandleInv, MultiInv
<1>16. CASE CurlPoll
  BY <1>16 DEF CurlPoll, QueueInv, TableInv, HandleInv, MultiInv
<1>17. CASE AddHandle
  BY <1>17, Queued DEF AddHandle, QueueInv, TableInv, HandleInv, MultiInv
<1>18. CASE Added
  BY <1>18 DEF Added, QueueInv, TableInv, HandleInv, MultiInv
<1>19. CASE CloseHandle
  BY <1>19, Queued DEF CloseHandle, QueueInv, TableInv, HandleInv, MultiInv
<1>20. CASE Closed
  BY <1>20 DEF Closed, QueueInv, TableInv, HandleInv, MultiInv
<1>21. CASE Drop
  BY <1>21 DEF Drop, QueueInv, TableInv, HandleInv, MultiInv
<1>22. CASE Dropped
  BY <1>22 DEF Dropped, QueueInv, TableInv, HandleInv, MultiInv
<1>23. ASSUME NEW n \in Objects, Receive(n) PROVE HandleInv'
  BY <1>23, FillsHandle
<1>24. ASSUME NEW n \in Objects, Finish(n) PROVE HandleInv'
  BY <1>24 DEF Finish, QueueInv, TableInv, HandleInv, MultiInv
<1>25. CASE Performed
  BY <1>25 DEF Performed, QueueInv, TableInv, HandleInv, MultiInv
<1>26. ASSUME NEW n \in Objects, Message(n) PROVE HandleInv'
  BY <1>26, FillsHandle
<1>27. CASE MessagesDone
  BY <1>27 DEF MessagesDone, QueueInv, TableInv, HandleInv, MultiInv
<1>28. CASE Ended
  BY <1>28 DEF Ended, httpVars, QueueInv, TableInv, HandleInv, MultiInv
<1> QED
  BY <1>1, <1>2, <1>3, <1>4, <1>5, <1>6, <1>7, <1>8, <1>9, <1>10, <1>11, <1>12, <1>13, <1>14,
     <1>15, <1>16, <1>17, <1>18, <1>19, <1>20, <1>21, <1>22, <1>23, <1>24, <1>25, <1>26,
     <1>27, <1>28
     DEF HttpNext, CallerOn, Caller, Curl, Server

\* No step takes back what EOF() reported.
LEMMA EofStep ==
  ASSUME HInv, HttpTypeOK', HttpNext
  PROVE  EofInv'
<1> USE HttpAssumption DEF HttpAssumption, HInv, HttpTypeOK, Objects, Valid, Of, Closing, queues,
    program,
        caller, curl, world, NewHandle, NoHandle, FilledOut, WithBlock, Told
<1>1. ASSUME NEW i \in Ids, Open(i) PROVE EofInv'
  BY <1>1, Queued DEF Open, EofInv, TableInv, MultiInv, HandleInv, QueueInv
<1>2. CASE OpenAdded
  BY <1>2 DEF OpenAdded, EofInv, TableInv, MultiInv, HandleInv, QueueInv
<1>3. CASE OpenInfo
  BY <1>3 DEF OpenInfo, EofInv, TableInv, MultiInv, HandleInv, QueueInv, Failed
<1>4. ASSUME NEW i \in Ids, GetFixed(i) PROVE EofInv'
  <2>1. handle' \in [Objects -> HandleObject] /\ \A n \in Objects : Taken(handle'[n], handle[n])
    BY <1>4, GetKeeps
  <2> QED
    BY <1>4, <2>1 DEF GetFixed, Taken, EofInv, TableInv, MultiInv, HandleInv, QueueInv
<1>5. ASSUME NEW i \in Ids, GetLength(i) PROVE EofInv'
  BY <1>5 DEF GetLength, EofInv, TableInv, MultiInv, HandleInv, QueueInv, Enough
<1>6. CASE Get
  <2>1. handle' \in [Objects -> HandleObject] /\ \A n \in Objects : Taken(handle'[n], handle[n])
    BY <1>6, GetKeeps
  <2> QED
    BY <1>6, <2>1 DEF Get, Taken, EofInv, TableInv, MultiInv, HandleInv, QueueInv
<1>7. ASSUME NEW i \in Ids, EofConnected(i) PROVE EofInv'
  BY <1>7 DEF EofConnected, EofInv, TableInv, MultiInv, HandleInv, QueueInv, Enough, EofDenied
<1>8. CASE EofLength
  BY <1>8 DEF EofLength, EofInv, TableInv, MultiInv, HandleInv, QueueInv, Enough, EofDenied
<1>9. ASSUME NEW i \in Ids, Close(i) PROVE EofInv'
  BY <1>9 DEF Close, EofInv, TableInv, MultiInv, HandleInv, QueueInv
<1>10. CASE ClosePush("close", "closing") \/ ClosePush("open.close", "open.closing")
          \/ ClosePush("end.close", "end.closing")
  <2>1. CASE ClosePush("close", "closing")
    BY <2>1, PushesAlone DEF ClosePush, EofInv, TableInv, MultiInv, HandleInv, QueueInv
  <2>2. CASE ClosePush("open.close", "open.closing")
    BY <2>2, PushesAlone DEF ClosePush, EofInv, TableInv, MultiInv, HandleInv, QueueInv
  <2>3. CASE ClosePush("end.close", "end.closing")
    BY <2>3, PushesAlone DEF ClosePush, EofInv, TableInv, MultiInv, HandleInv, QueueInv
  <2> QED
    BY <1>10, <2>1, <2>2, <2>3
<1>11. CASE CloseDone("closing", "stmt") \/ CloseDone("open.closing", "stmt")
          \/ CloseDone("end.closing", "end")
  <2>1. CASE CloseDone("closing", "stmt")
    BY <2>1 DEF CloseDone, EofInv, TableInv, MultiInv, HandleInv, QueueInv
  <2>2. CASE CloseDone("open.closing", "stmt")
    BY <2>2 DEF CloseDone, EofInv, TableInv, MultiInv, HandleInv, QueueInv
  <2>3. CASE CloseDone("end.closing", "end")
    BY <2>3 DEF CloseDone, EofInv, TableInv, MultiInv, HandleInv, QueueInv
  <2> QED
    BY <1>11, <2>1, <2>2, <2>3
<1>12. CASE EndCloses
  BY <1>12 DEF EndCloses, EofInv, TableInv, MultiInv, HandleInv, QueueInv
<1>13. CASE Stop
  BY <1>13 DEF Stop, EofInv, TableInv, MultiInv, HandleInv, QueueInv
<1>14. CASE Join
  BY <1>14 DEF Join, EofInv, TableInv, MultiInv, HandleInv, QueueInv
<1>15. CASE CurlTop
  BY <1>15 DEF CurlTop, EofInv, TableInv, MultiInv, HandleInv, QueueInv
<1>16. CASE CurlPoll
  BY <1>16 DEF CurlPoll, EofInv, TableInv, MultiInv, HandleInv, QueueInv
<1>17. CASE AddHandle
  BY <1>17, Queued DEF AddHandle, EofInv, TableInv, MultiInv, HandleInv, QueueInv
<1>18. CASE Added
  BY <1>18 DEF Added, EofInv, TableInv, MultiInv, HandleInv, QueueInv
<1>19. CASE CloseHandle
  BY <1>19, Queued DEF CloseHandle, EofInv, TableInv, MultiInv, HandleInv, QueueInv
<1>20. CASE Closed
  BY <1>20 DEF Closed, EofInv, TableInv, MultiInv, HandleInv, QueueInv
<1>21. CASE Drop
  BY <1>21 DEF Drop, EofInv, TableInv, MultiInv, HandleInv, QueueInv
<1>22. CASE Dropped
  BY <1>22 DEF Dropped, EofInv, TableInv, MultiInv, HandleInv, QueueInv
<1>23. ASSUME NEW n \in Objects, Receive(n) PROVE EofInv'
  BY <1>23 DEF Receive, EofInv, TableInv, MultiInv, HandleInv, QueueInv
<1>24. ASSUME NEW n \in Objects, Finish(n) PROVE EofInv'
  BY <1>24 DEF Finish, EofInv, TableInv, MultiInv, HandleInv, QueueInv
<1>25. CASE Performed
  BY <1>25 DEF Performed, EofInv, TableInv, MultiInv, HandleInv, QueueInv
<1>26. ASSUME NEW n \in Objects, Message(n) PROVE EofInv'
  BY <1>26 DEF Message, EofInv, TableInv, MultiInv, HandleInv, QueueInv
<1>27. CASE MessagesDone
  BY <1>27 DEF MessagesDone, EofInv, TableInv, MultiInv, HandleInv, QueueInv
<1>28. CASE Ended
  BY <1>28 DEF Ended, httpVars, EofInv, TableInv, MultiInv, HandleInv, QueueInv
<1> QED
  BY <1>1, <1>2, <1>3, <1>4, <1>5, <1>6, <1>7, <1>8, <1>9, <1>10, <1>11, <1>12, <1>13, <1>14,
     <1>15, <1>16, <1>17, <1>18, <1>19, <1>20, <1>21, <1>22, <1>23, <1>24, <1>25, <1>26,
     <1>27, <1>28
     DEF HttpNext, CallerOn, Caller, Curl, Server

\* No step leaves a failed connection open.
LEMMA FailedOpenIsClosedStep ==
  ASSUME HInv, HttpTypeOK', HttpNext
  PROVE  FailedOpenIsClosed'
<1> USE HttpAssumption DEF HttpAssumption, HInv, HttpTypeOK, Objects, Valid, Of, Closing, queues,
    program,
        caller, curl, world, NewHandle, NoHandle, FilledOut, WithBlock, Told
<1>1. ASSUME NEW i \in Ids, Open(i) PROVE FailedOpenIsClosed'
  BY <1>1, Queued DEF Open, FailedOpenIsClosed, TableInv, MultiInv, HandleInv, QueueInv
<1>2. CASE OpenAdded
  BY <1>2 DEF OpenAdded, FailedOpenIsClosed, TableInv, MultiInv, HandleInv, QueueInv
<1>3. CASE OpenInfo
  <2>1. CASE Failed(Of(q_id))
    BY <1>3, <2>1 DEF OpenInfo, FailedOpenIsClosed
  <2>2. CASE ~Failed(Of(q_id))
    <3> DEFINE n == handle_table[q_id]
    <3>1. n \in Objects /\ handle[n].alive
      BY <1>3, ValidHandle DEF OpenInfo, TableInv
    <3>2. handle[n].has_info /\ ~handle[n].err
      BY <1>3, <2>2, <3>1 DEF OpenInfo, HandleInv, Failed
    <3>3. result[n] = "error" => sent[n] >= 1
      BY <3>1, <3>2 DEF HandleInv
    <3> QED
      BY <1>3, <2>2, <3>3 DEF OpenInfo, FailedOpenIsClosed
  <2> QED
    BY <2>1, <2>2
<1>4. ASSUME NEW i \in Ids, GetFixed(i) PROVE FailedOpenIsClosed'
  BY <1>4 DEF GetFixed, FailedOpenIsClosed, TableInv, MultiInv, HandleInv, QueueInv, Enough
<1>5. ASSUME NEW i \in Ids, GetLength(i) PROVE FailedOpenIsClosed'
  BY <1>5 DEF GetLength, FailedOpenIsClosed, TableInv, MultiInv, HandleInv, QueueInv, Enough
<1>6. CASE Get
  BY <1>6 DEF Get, FailedOpenIsClosed, TableInv, MultiInv, HandleInv, QueueInv
<1>7. ASSUME NEW i \in Ids, EofConnected(i) PROVE FailedOpenIsClosed'
  BY <1>7 DEF EofConnected, FailedOpenIsClosed, TableInv, MultiInv, HandleInv, QueueInv, Enough,
              EofDenied
<1>8. CASE EofLength
  BY <1>8 DEF EofLength, FailedOpenIsClosed, TableInv, MultiInv, HandleInv, QueueInv, Enough,
              EofDenied
<1>9. ASSUME NEW i \in Ids, Close(i) PROVE FailedOpenIsClosed'
  BY <1>9 DEF Close, FailedOpenIsClosed, TableInv, MultiInv, HandleInv, QueueInv
<1>10. CASE ClosePush("close", "closing") \/ ClosePush("open.close", "open.closing")
          \/ ClosePush("end.close", "end.closing")
  <2>1. CASE ClosePush("close", "closing")
    BY <2>1, PushesAlone DEF ClosePush, FailedOpenIsClosed, TableInv, QueueInv
  <2>2. CASE ClosePush("open.close", "open.closing")
    BY <2>2, PushesAlone DEF ClosePush, FailedOpenIsClosed, TableInv, QueueInv
  <2>3. CASE ClosePush("end.close", "end.closing")
    BY <2>3, PushesAlone DEF ClosePush, FailedOpenIsClosed, TableInv, QueueInv
  <2> QED
    BY <1>10, <2>1, <2>2, <2>3
<1>11. CASE CloseDone("closing", "stmt") \/ CloseDone("open.closing", "stmt")
          \/ CloseDone("end.closing", "end")
  <2>1. CASE CloseDone("closing", "stmt")
    BY <2>1 DEF CloseDone, FailedOpenIsClosed, TableInv, QueueInv
  <2>2. CASE CloseDone("open.closing", "stmt")
    BY <2>2 DEF CloseDone, FailedOpenIsClosed, TableInv, QueueInv
  <2>3. CASE CloseDone("end.closing", "end")
    BY <2>3 DEF CloseDone, FailedOpenIsClosed, TableInv, QueueInv
  <2> QED
    BY <1>11, <2>1, <2>2, <2>3
<1>12. CASE EndCloses
  BY <1>12 DEF EndCloses, FailedOpenIsClosed, TableInv, MultiInv, HandleInv, QueueInv
<1>13. CASE Stop
  BY <1>13 DEF Stop, FailedOpenIsClosed, TableInv, MultiInv, HandleInv, QueueInv
<1>14. CASE Join
  BY <1>14 DEF Join, FailedOpenIsClosed, TableInv, MultiInv, HandleInv, QueueInv
<1>15. CASE CurlTop
  BY <1>15 DEF CurlTop, FailedOpenIsClosed, TableInv, MultiInv, HandleInv, QueueInv
<1>16. CASE CurlPoll
  BY <1>16 DEF CurlPoll, FailedOpenIsClosed, TableInv, MultiInv, HandleInv, QueueInv
<1>17. CASE AddHandle
  BY <1>17, Queued DEF AddHandle, FailedOpenIsClosed, TableInv, MultiInv, HandleInv, QueueInv
<1>18. CASE Added
  BY <1>18 DEF Added, FailedOpenIsClosed, TableInv, MultiInv, HandleInv, QueueInv
<1>19. CASE CloseHandle
  BY <1>19, Queued DEF CloseHandle, FailedOpenIsClosed, TableInv, MultiInv, HandleInv, QueueInv
<1>20. CASE Closed
  BY <1>20 DEF Closed, FailedOpenIsClosed, TableInv, MultiInv, HandleInv, QueueInv
<1>21. CASE Drop
  BY <1>21 DEF Drop, FailedOpenIsClosed, TableInv, MultiInv, HandleInv, QueueInv
<1>22. CASE Dropped
  BY <1>22 DEF Dropped, FailedOpenIsClosed, TableInv, MultiInv, HandleInv, QueueInv
<1>23. ASSUME NEW n \in Objects, Receive(n) PROVE FailedOpenIsClosed'
  BY <1>23 DEF Receive, FailedOpenIsClosed, TableInv, MultiInv, HandleInv, QueueInv
<1>24. ASSUME NEW n \in Objects, Finish(n) PROVE FailedOpenIsClosed'
  BY <1>24 DEF Finish, FailedOpenIsClosed, TableInv, MultiInv, HandleInv, QueueInv
<1>25. CASE Performed
  BY <1>25 DEF Performed, FailedOpenIsClosed, TableInv, MultiInv, HandleInv, QueueInv
<1>26. ASSUME NEW n \in Objects, Message(n) PROVE FailedOpenIsClosed'
  BY <1>26 DEF Message, FailedOpenIsClosed, TableInv, MultiInv, HandleInv, QueueInv
<1>27. CASE MessagesDone
  BY <1>27 DEF MessagesDone, FailedOpenIsClosed, TableInv, MultiInv, HandleInv, QueueInv
<1>28. CASE Ended
  BY <1>28 DEF Ended, httpVars, FailedOpenIsClosed, TableInv, MultiInv, HandleInv, QueueInv
<1> QED
  BY <1>1, <1>2, <1>3, <1>4, <1>5, <1>6, <1>7, <1>8, <1>9, <1>10, <1>11, <1>12, <1>13, <1>14,
     <1>15, <1>16, <1>17, <1>18, <1>19, <1>20, <1>21, <1>22, <1>23, <1>24, <1>25, <1>26,
     <1>27, <1>28
     DEF HttpNext, CallerOn, Caller, Curl, Server

\* Every step keeps queued what is waited for, and that only.
LEMMA QueueStep ==
  ASSUME HInv, HttpTypeOK', HttpNext
  PROVE  QueueInv'
<1> USE HttpAssumption DEF HttpAssumption, HInv, HttpTypeOK, Objects, Valid, Of, Closing, queues,
    program,
        caller, curl, world, NewHandle, NoHandle, FilledOut, WithBlock, Told
<1>1. ASSUME NEW i \in Ids, Open(i) PROVE QueueInv'
  BY <1>1, Queued DEF Open, QueueInv, TableInv, MultiInv, HandleInv
<1>2. CASE OpenAdded
  BY <1>2 DEF OpenAdded, QueueInv, TableInv, MultiInv, HandleInv
<1>3. CASE OpenInfo
  BY <1>3 DEF OpenInfo, QueueInv, TableInv, MultiInv, HandleInv, Failed
<1>4. ASSUME NEW i \in Ids, GetFixed(i) PROVE QueueInv'
  BY <1>4 DEF GetFixed, QueueInv, TableInv, MultiInv, HandleInv, Enough
<1>5. ASSUME NEW i \in Ids, GetLength(i) PROVE QueueInv'
  BY <1>5 DEF GetLength, QueueInv, TableInv, MultiInv, HandleInv, Enough
<1>6. CASE Get
  BY <1>6 DEF Get, QueueInv, TableInv, MultiInv, HandleInv
<1>7. ASSUME NEW i \in Ids, EofConnected(i) PROVE QueueInv'
  BY <1>7 DEF EofConnected, QueueInv, TableInv, MultiInv, HandleInv, Enough, EofDenied
<1>8. CASE EofLength
  BY <1>8 DEF EofLength, QueueInv, TableInv, MultiInv, HandleInv, Enough, EofDenied
<1>9. ASSUME NEW i \in Ids, Close(i) PROVE QueueInv'
  BY <1>9 DEF Close, QueueInv, TableInv, MultiInv, HandleInv
<1>10. CASE ClosePush("close", "closing") \/ ClosePush("open.close", "open.closing")
          \/ ClosePush("end.close", "end.closing")
  <2>1. CASE ClosePush("close", "closing")
    BY <2>1, PushesAlone DEF ClosePush, QueueInv
  <2>2. CASE ClosePush("open.close", "open.closing")
    BY <2>2, PushesAlone DEF ClosePush, QueueInv
  <2>3. CASE ClosePush("end.close", "end.closing")
    BY <2>3, PushesAlone DEF ClosePush, QueueInv
  <2> QED
    BY <1>10, <2>1, <2>2, <2>3
<1>11. CASE CloseDone("closing", "stmt") \/ CloseDone("open.closing", "stmt")
          \/ CloseDone("end.closing", "end")
  <2>1. CASE CloseDone("closing", "stmt")
    BY <2>1 DEF CloseDone, QueueInv
  <2>2. CASE CloseDone("open.closing", "stmt")
    BY <2>2 DEF CloseDone, QueueInv
  <2>3. CASE CloseDone("end.closing", "end")
    BY <2>3 DEF CloseDone, QueueInv
  <2> QED
    BY <1>11, <2>1, <2>2, <2>3
<1>12. CASE EndCloses
  BY <1>12 DEF EndCloses, QueueInv, TableInv, MultiInv, HandleInv, NextToClose
<1>13. CASE Stop
  BY <1>13 DEF Stop, QueueInv, TableInv, MultiInv, HandleInv
<1>14. CASE Join
  BY <1>14 DEF Join, QueueInv, TableInv, MultiInv, HandleInv
<1>15. CASE CurlTop
  BY <1>15 DEF CurlTop, QueueInv, TableInv, MultiInv, HandleInv
<1>16. CASE CurlPoll
  BY <1>16 DEF CurlPoll, QueueInv, TableInv, MultiInv, HandleInv
<1>17. CASE AddHandle
  BY <1>17, Queued DEF AddHandle, QueueInv, TableInv, MultiInv, HandleInv
<1>18. CASE Added
  BY <1>18 DEF Added, QueueInv, TableInv, MultiInv, HandleInv
<1>19. CASE CloseHandle
  BY <1>19, Queued DEF CloseHandle, QueueInv, TableInv, MultiInv, HandleInv
<1>20. CASE Closed
  BY <1>20 DEF Closed, QueueInv, TableInv, MultiInv, HandleInv
<1>21. CASE Drop
  BY <1>21 DEF Drop, QueueInv, TableInv, MultiInv, HandleInv
<1>22. CASE Dropped
  BY <1>22 DEF Dropped, QueueInv, TableInv, MultiInv, HandleInv
<1>23. ASSUME NEW n \in Objects, Receive(n) PROVE QueueInv'
  BY <1>23 DEF Receive, QueueInv, TableInv, MultiInv, HandleInv
<1>24. ASSUME NEW n \in Objects, Finish(n) PROVE QueueInv'
  BY <1>24 DEF Finish, QueueInv, TableInv, MultiInv, HandleInv
<1>25. CASE Performed
  BY <1>25 DEF Performed, QueueInv, TableInv, MultiInv, HandleInv
<1>26. ASSUME NEW n \in Objects, Message(n) PROVE QueueInv'
  BY <1>26 DEF Message, QueueInv, TableInv, MultiInv, HandleInv
<1>27. CASE MessagesDone
  BY <1>27 DEF MessagesDone, QueueInv, TableInv, MultiInv, HandleInv
<1>28. CASE Ended
  BY <1>28 DEF Ended, httpVars, QueueInv, TableInv, MultiInv, HandleInv
<1> QED
  BY <1>1, <1>2, <1>3, <1>4, <1>5, <1>6, <1>7, <1>8, <1>9, <1>10, <1>11, <1>12, <1>13, <1>14,
     <1>15, <1>16, <1>17, <1>18, <1>19, <1>20, <1>21, <1>22, <1>23, <1>24, <1>25, <1>26,
     <1>27, <1>28
     DEF HttpNext, CallerOn, Caller, Curl, Server

\* The curl thread ends only when it is told to.
LEMMA EndStep ==
  ASSUME HInv, HttpNext
  PROVE  EndInv'
<1> USE HttpAssumption DEF HttpAssumption, HInv, HttpTypeOK, Objects, Valid, Of, Closing, queues,
    program,
        caller, curl, world, NewHandle, NoHandle, FilledOut, WithBlock, Told
<1>1. ASSUME NEW i \in Ids, Open(i) PROVE EndInv'
  BY <1>1 DEF Open, EndInv, TableInv
<1>2. CASE OpenAdded
  BY <1>2 DEF OpenAdded, EndInv, TableInv
<1>3. CASE OpenInfo
  BY <1>3 DEF OpenInfo, EndInv, TableInv, Failed
<1>4. ASSUME NEW i \in Ids, GetFixed(i) PROVE EndInv'
  BY <1>4 DEF GetFixed, EndInv, TableInv, Enough
<1>5. ASSUME NEW i \in Ids, GetLength(i) PROVE EndInv'
  BY <1>5 DEF GetLength, EndInv, TableInv, Enough
<1>6. CASE Get
  BY <1>6 DEF Get, EndInv, TableInv
<1>7. ASSUME NEW i \in Ids, EofConnected(i) PROVE EndInv'
  BY <1>7 DEF EofConnected, EndInv, TableInv, Enough, EofDenied
<1>8. CASE EofLength
  BY <1>8 DEF EofLength, EndInv, TableInv, Enough, EofDenied
<1>9. ASSUME NEW i \in Ids, Close(i) PROVE EndInv'
  BY <1>9 DEF Close, EndInv, TableInv
<1>10. CASE ClosePush("close", "closing") \/ ClosePush("open.close", "open.closing")
          \/ ClosePush("end.close", "end.closing")
  <2>1. CASE ClosePush("close", "closing")
    BY <2>1, PushesAlone DEF ClosePush, EndInv
  <2>2. CASE ClosePush("open.close", "open.closing")
    BY <2>2, PushesAlone DEF ClosePush, EndInv
  <2>3. CASE ClosePush("end.close", "end.closing")
    BY <2>3, PushesAlone DEF ClosePush, EndInv
  <2> QED
    BY <1>10, <2>1, <2>2, <2>3
<1>11. CASE CloseDone("closing", "stmt") \/ CloseDone("open.closing", "stmt")
          \/ CloseDone("end.closing", "end")
  <2>1. CASE CloseDone("closing", "stmt")
    BY <2>1 DEF CloseDone, EndInv
  <2>2. CASE CloseDone("open.closing", "stmt")
    BY <2>2 DEF CloseDone, EndInv
  <2>3. CASE CloseDone("end.closing", "end")
    BY <2>3 DEF CloseDone, EndInv
  <2> QED
    BY <1>11, <2>1, <2>2, <2>3
<1>12. CASE EndCloses
  BY <1>12 DEF EndCloses, EndInv, TableInv, NextToClose
<1>13. CASE Stop
  BY <1>13 DEF Stop, EndInv, TableInv
<1>14. CASE Join
  BY <1>14 DEF Join, EndInv, TableInv
<1>15. CASE CurlTop
  BY <1>15 DEF CurlTop, EndInv, TableInv
<1>16. CASE CurlPoll
  BY <1>16 DEF CurlPoll, EndInv, TableInv
<1>17. CASE AddHandle
  BY <1>17 DEF AddHandle, EndInv, TableInv
<1>18. CASE Added
  BY <1>18 DEF Added, EndInv, TableInv
<1>19. CASE CloseHandle
  BY <1>19 DEF CloseHandle, EndInv, TableInv
<1>20. CASE Closed
  BY <1>20 DEF Closed, EndInv, TableInv
<1>21. CASE Drop
  BY <1>21 DEF Drop, EndInv, TableInv
<1>22. CASE Dropped
  BY <1>22 DEF Dropped, EndInv, TableInv
<1>23. ASSUME NEW n \in Objects, Receive(n) PROVE EndInv'
  BY <1>23 DEF Receive, EndInv, TableInv
<1>24. ASSUME NEW n \in Objects, Finish(n) PROVE EndInv'
  BY <1>24 DEF Finish, EndInv, TableInv
<1>25. CASE Performed
  BY <1>25 DEF Performed, EndInv, TableInv
<1>26. ASSUME NEW n \in Objects, Message(n) PROVE EndInv'
  BY <1>26 DEF Message, EndInv, TableInv
<1>27. CASE MessagesDone
  BY <1>27 DEF MessagesDone, EndInv, TableInv
<1>28. CASE Ended
  BY <1>28 DEF Ended, httpVars, EndInv, TableInv
<1> QED
  BY <1>1, <1>2, <1>3, <1>4, <1>5, <1>6, <1>7, <1>8, <1>9, <1>10, <1>11, <1>12, <1>13, <1>14,
     <1>15, <1>16, <1>17, <1>18, <1>19, <1>20, <1>21, <1>22, <1>23, <1>24, <1>25, <1>26,
     <1>27, <1>28
     DEF HttpNext, CallerOn, Caller, Curl, Server

\* The invariant holds at the start.
LEMMA HInitAll == ASSUME HttpInit PROVE HInv
<1>1. \A n \in Objects : handle[n] = NoHandle
  BY DEF HttpInit
<1>2. HttpTypeOK
  BY HInitType
<1>3. IsInjective(drop) /\ ToSet(drop) = {}
  BY DEF HttpInit, IsInjective, ToSet
<1>4. QueueInv /\ EndInv /\ EofInv /\ FailedOpenIsClosed
  BY DEF HttpInit, QueueInv, EndInv, EofInv, FailedOpenIsClosed, Closing
<1>5. TableInv
  <2>1. \A n \in Objects : ~handle[n].alive
    BY <1>1 DEF NoHandle, NewHandle
  <2>2. 0 \notin Objects
    BY HttpAssumption DEF HttpAssumption, Objects
  <2> QED
    BY <2>1, <2>2 DEF HttpInit, TableInv, Valid, Closing
<1>6. HandleInv
  BY <1>1 DEF HandleInv, NoHandle, NewHandle
<1>7. MultiInv
  BY <1>1, <1>3 DEF MultiInv, HttpInit, NoHandle, NewHandle
<1> QED
  BY <1>2, <1>4, <1>5, <1>6, <1>7 DEF HInv

\* The invariant is inductive.
LEMMA HStepAll == ASSUME HInv, [HttpNext]_httpVars PROVE HInv'
<1>1. CASE HttpNext
  <2>1. HttpTypeOK'
    BY <1>1, HttpTypeOKStep
  <2>2. QueueInv'
    BY <1>1, <2>1, QueueStep
  <2>3. TableInv'
    BY <1>1, <2>1, <2>2, TableStep
  <2>4. HandleInv'
    BY <1>1, <2>1, <2>3, HandleStep
  <2>5. MultiInv'
    BY <1>1, <2>1, <2>2, <2>3, <2>4, MultiStep
  <2>6. EndInv'
    BY <1>1, EndStep
  <2>7. EofInv'
    BY <1>1, <2>1, EofStep
  <2>8. FailedOpenIsClosed'
    BY <1>1, <2>1, FailedOpenIsClosedStep
  <2> QED
    BY <2>1, <2>2, <2>3, <2>4, <2>5, <2>6, <2>7, <2>8 DEF HInv
<1>2. CASE UNCHANGED httpVars
  BY <1>2 DEF httpVars, queues, caller, program, curl, world, HInv, HttpTypeOK, QueueInv,
              TableInv,
              HandleInv, MultiInv, EndInv, EofInv, FailedOpenIsClosed, Closing, Valid, Of, ToSet,
              IsInjective
<1> QED
  BY <1>1, <1>2

\* The invariant holds in every reachable state.
LEMMA HInvHolds == HttpSpec => []HInv
<1>1. HttpInit => HInv
  BY HInitAll
<1>2. HInv /\ [HttpNext]_httpVars => HInv'
  BY HStepAll
<1> QED
  BY <1>1, <1>2, PTL DEF HttpSpec

\* The invariant implies what is wanted.
LEMMA HInvIsClean == ASSUME HInv PROVE HttpInv
<1> USE DEF HInv
<1>1. q_id \in Ids /\ handle \in [Objects -> HandleObject]
  BY DEF HttpTypeOK, HandleObject
<1>2. CompletionsLive
  <2>1. ASSUME NEW n \in Objects, handle[n].response_started
        PROVE  q_pc \in {"added", "info"} /\ handle_table[q_id] = n /\ "info" \notin finished
    BY <2>1 DEF HandleInv, NoHandle, NewHandle
  <2> QED
    BY <2>1 DEF QueueInv, Closing, CompletionsLive
<1>3. OpenHasInfo
  <2>1. ASSUME NEW i \in Ids, Valid(i)
        PROVE  Of(i).alive /\ ((q_id = i /\ q_pc \in {"added", "info"}) \/ Of(i).has_info)
    <3>1. handle_table[i] \in Objects /\ handle[handle_table[i]].alive
      BY <2>1, ValidHandle
    <3>2. CASE ~Of(i).has_info
      <4>1. q_pc \in {"added", "info"} /\ handle_table[q_id] = handle_table[i]
        BY <3>1, <3>2 DEF HandleInv, Of
      <4>2. q_id = i
        BY <4>1, <2>1, <1>1 DEF TableInv
      <4> QED
        BY <3>1, <4>1, <4>2 DEF Of
    <3> QED
      BY <3>1, <3>2 DEF Of
  <2> QED
    BY <2>1 DEF TableInv, OpenHasInfo
<1>4. ConnectionHasHandle
  BY DEF MultiInv, ConnectionHasHandle
<1>5. StoppedClean
  <2> SUFFICES ASSUME q_pc = "ended" PROVE StoppedClean
    BY DEF StoppedClean
  <2>1. (\A i \in Ids : ~Valid(i)) /\ add_queue = <<>> /\ close_queue = <<>> /\ c_pc = "ended"
    BY DEF TableInv, QueueInv, EndInv, Closing
  <2>2. drop = <<>> /\ ToSet(drop) = {}
    BY <2>1 DEF MultiInv, ToSet
  <2>3. \A n \in Objects : ~handle[n].alive
    BY <2>1, HttpAssumption DEF TableInv, Valid, Objects, HttpAssumption
  <2>4. multi = {}
    BY <2>2, <2>3 DEF MultiInv, HttpTypeOK
  <2> QED
    BY <2>1, <2>4 DEF StoppedClean
<1> QED
  BY <1>2, <1>3, <1>4, <1>5 DEF HttpInv

\* Whatever the caller does and however the transfers end, the curl thread never uses a
\* completion of a call that returned, every open connection has its info, libcurl works
\* only on connections that have a handle or are about to be dropped, a connection that
\* failed is not left open, and when the thread has been joined nothing is left.
THEOREM HttpIsClean == HttpSpec => []HttpInv
  BY HInvHolds, HInvIsClean, PTL

\* What EOF() reported stays true: no data is left and libcurl has ended the connection.
THEOREM EofStaysFinal == HttpSpec => []EofIsFinal
<1>1. HInv => EofIsFinal
  BY DEF HInv, EofInv, EofIsFinal
<1> QED
  BY <1>1, HInvHolds, PTL

=============================================================================
