----------------------------- MODULE MCThreads -----------------------------
(***************************************************************************)
(* Instances, for TLC, of the modules of a program's threads: the timer    *)
(* thread with the poll, all threads with the window's lock, GLUT's        *)
(* messages and the end of the program, and two threads that share a list  *)
(* of handles.  In each behaviour one of the three runs, the others stay   *)
(* as they began.                                                          *)
(***************************************************************************)
EXTENDS OnTimer, MCRuntime, QbList

VARIABLE part

ThreadsInit ==
    /\ part \in {"timers", "threads", "handles"}
    /\ Init /\ RuntimeInit /\ ListInit
    /\ part = "threads" \/ features = CHOOSE p \in Programs : TRUE

ThreadsNext ==
    /\ UNCHANGED part
    /\ \/ part = "timers" /\ Next /\ UNCHANGED <<runtimeVars, listVars>>
       \/ part = "threads" /\ RuntimeNext /\ UNCHANGED <<vars, listVars>>
       \/ part = "handles" /\ ListNext /\ UNCHANGED <<vars, runtimeVars>>

threadsVars == <<part, vars, runtimeVars, listVars>>

ThreadsSpec == ThreadsInit /\ [][ThreadsNext]_threadsVars

\* Whichever part runs, its variables keep their types.
ThreadsTypeOK ==
    /\ part = "timers" => TypeOK
    /\ part = "threads" => RuntimeTypeOK
    /\ part = "handles" => ListTypeOK

\* Programs with at most one timer that is not OFF.
OneTimerOn == \E i \in Slots : \A j \in Slots \ {i} : timer[j].active = "OFF"

\* ErrorFree with Fairness, and RuntimeFairSpec, for the part that runs.  A list waits for
\* nobody.
ThreadsFairSpec ==
    /\ ThreadsInit /\ part # "handles"
    /\ [][ThreadsNext /\ ~new_error' /\ OneTimerOn']_threadsVars
    /\ WF_vars(part = "timers" /\ TimerThread)
    /\ WF_vars(part = "timers" /\ Program)
    /\ SF_vars(part = "timers" /\ HandlerReturn)
    /\ WF_runtimeVars(part = "threads" /\ PlainStatement)
    /\ WF_runtimeVars(part = "threads" /\ QbOn)
    /\ WF_runtimeVars(part = "threads" /\ GlutOn)
    /\ SF_runtimeVars(part = "threads" /\ ProcessQueue)
    /\ SF_runtimeVars(part = "threads" /\ GLReturn)
    /\ WF_runtimeVars(part = "threads" /\ Drain)
    /\ WF_runtimeVars(part = "threads" /\ Main)
    /\ WF_runtimeVars(part = "threads" /\ Timer)
=============================================================================
