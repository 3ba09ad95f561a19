----------------------------- MODULE MCRuntime -----------------------------
(* Instances of Runtime for TLC: the programs that are checked. *)
EXTENDS Runtime

\* Programs that do everything, started with and without $SCREENHIDE.
AllPrograms == {Features, Features \ {"hidden"}}

\* Programs that never hang: no polls, END or dialogs in SUB _GL, no question to GLUT
\* together with SUB _GL, and no _FREETIMER.
SoundPrograms ==
    {{"_GL", "dialog", "end", "pause"},
     {"_GL", "post", "_EXIT"},
     {"hidden", "get", "_EXIT", "end"}}

\* Programs that the two runs with a violation are about.
AskingPrograms == {{"_GL", "get"}}
PollingPrograms == {{"_GL", "gl_poll"}}
=============================================================================
