------------------------------- MODULE MCLive -------------------------------
(***************************************************************************)
(* Instances of EventDispatch, Frames and Http for TLC, for what must      *)
(* happen in the end.  In each behaviour one of them runs, the others stay *)
(* as they began.                                                          *)
(***************************************************************************)
EXTENDS EventDispatch, Frames, Http

\* Two blocks, so that EOF() races with data that arrive after the response began, and none.
TwoThenNone == <<2, 0>>

VARIABLE part

LiveInit == part \in {"events", "frames", "http"} /\ Init /\ FramesInit /\ HttpInit

LiveNext ==
    /\ UNCHANGED part
    /\ \/ part = "events" /\ Next /\ UNCHANGED <<framesVars, httpVars>>
       \/ part = "frames" /\ FramesNext /\ UNCHANGED <<vars, httpVars>>
       \/ part = "http" /\ HttpNext /\ UNCHANGED <<vars, framesVars>>

\* FairSpec, FramesFairSpec and HttpFairSpec, for the part that runs.
LiveSpec ==
    /\ LiveInit /\ [][LiveNext]_<<part, vars, framesVars, httpVars>>
    /\ WF_vars(part = "events" /\ InputThread)
    /\ WF_vars(part = "events" /\ Dispatch)
    /\ SF_vars(part = "events" /\ Statement /\ pc' = "poll")
    /\ SF_vars(part = "events" /\ GosubReturn)
    /\ SF_vars(part = "events" /\ HandlerReturn)
    /\ WF_framesVars(part = "frames" /\ (MainDisplays \/ Display("main")))
    /\ WF_framesVars(part = "frames" /\ Display("program"))
    /\ WF_framesVars(part = "frames" /\ Waiting)
    /\ WF_framesVars(part = "frames" /\ Window)
    /\ SF_httpVars(part = "http" /\ CallerOn)
    /\ WF_httpVars(part = "http" /\ Curl)
    /\ SF_httpVars(part = "http" /\ \E n \in Objects : Finish(n))
=============================================================================
