------------------------------ MODULE MCWindow ------------------------------
(***************************************************************************)
(* Instances, for TLC, of the modules of what the program exchanges with   *)
(* the window and with servers: events, frames, hardware images, keys,     *)
(* HTTP.  In each behaviour one of them runs, the others stay as they      *)
(* began.                                                                  *)
(***************************************************************************)
EXTENDS EventDispatch, Frames, Hardware, Keyhit, Http

\* EOF() races with data that arrive after the response began: that takes two blocks.
\* The second connection has an empty response.
TwoThenNone == <<2, 0>>

\* With SUB _GL, frames come between the renderings, and without, also while one is under
\* way; images are put on other images, or on a layer of the screen.
SoundModes ==
    {[gl |-> TRUE, overlaps |-> FALSE, late |-> FALSE, draws |-> {<<1, 2>>}],
     [gl |-> TRUE, overlaps |-> FALSE, late |-> FALSE, draws |-> {<<2, -1>>}],
     [gl |-> FALSE, overlaps |-> TRUE, late |-> FALSE, draws |-> {<<1, 2>>}]}

VARIABLE part

windowVars == <<part, vars, framesVars, hardwareVars, keyhitVars, httpVars>>

\* Two kinds of events at a time are ON: strigs and keys, or keys and timers, since a strig
\* differs from a key in nothing that a timer meets.
Unused == [strig |-> "no strigs", timer |-> "no timers"]

WindowInit ==
    /\ part \in Range(Unused) \union {"frames", "images", "keys", "http"}
    /\ Init /\ FramesInit /\ HardwareInit /\ KeyhitInit /\ HttpInit
    /\ part = "images" \/ ~mode.gl
    /\ part = "http" \/ q_id = 1

WindowNext ==
    /\ UNCHANGED part
    /\ \/ /\ \E kind \in DOMAIN Unused :
                /\ part = Unused[kind]
                /\ Next
                /\ \A s \in Slots : s.kind = kind => active'[s] = active[s]
          /\ UNCHANGED <<framesVars, hardwareVars, keyhitVars, httpVars>>
       \/ /\ part = "frames" /\ FramesNext
          /\ UNCHANGED <<vars, hardwareVars, keyhitVars, httpVars>>
       \/ /\ part = "images" /\ HardwareNext
          /\ UNCHANGED <<vars, framesVars, keyhitVars, httpVars>>
       \/ /\ part = "keys" /\ KeyhitNext
          /\ UNCHANGED <<vars, framesVars, hardwareVars, httpVars>>
       \/ /\ part = "http" /\ HttpNext
          /\ UNCHANGED <<vars, framesVars, hardwareVars, keyhitVars>>

WindowSpec == WindowInit /\ [][WindowNext]_windowVars

\* Whichever part runs, its variables keep their types.
WindowTypeOK ==
    /\ part \in Range(Unused) => TypeOK
    /\ part = "frames" => FramesTypeOK
    /\ part = "images" => HardwareTypeOK
=============================================================================
