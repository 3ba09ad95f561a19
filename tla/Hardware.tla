------------------------------ MODULE Hardware ------------------------------
(***************************************************************************)
(* Hardware images.  The program puts commands on a list, each with the    *)
(* number of the frame it is for; the window carries them out when it      *)
(* renders that frame, and the program takes them off again when they are  *)
(* past. There is no lock.  (internal/c/libqb.cpp, libqb/src/graphics.cpp) *)
(*                                                                         *)
(* Abstractions.  _PUTIMAGE, _MAPTRIANGLE and _DEPTHBUFFER differ in what  *)
(* is drawn: all are "put".  Handles of commands and images are not used   *)
(* again, so that a use after the removal is seen; module QbList is about  *)
(* handles. Of display() (see Frames) there is what concerns the orders.   *)
(***************************************************************************)
EXTENDS Integers, Sequences

CONSTANTS
    MaxImages, MaxCommands, MaxOrder,   \* bounds
    Modes       \* ways to run, see mode

ASSUME HardwareAssumption ==
    /\ MaxImages \in Nat /\ MaxCommands \in Nat /\ MaxOrder \in Nat
    /\ Modes \subseteq [gl : BOOLEAN, overlaps : BOOLEAN, late : BOOLEAN,
                        draws : SUBSET ((1 .. MaxImages) \X (-1 .. MaxImages))]

VARIABLES
    commands,       \* those ever made: [kind, src, dst, order, next]; kind "removed"
    images,         \* those ever made: [exists, valid]
    first_command, last_added, last_rendered, next_to_remove,   \* 0: none
    display_order_next,     \* display_frame_order_next
    last_hw_order,          \* last_hardware_display_frame_order
    rendered_order,         \* last_rendered_hardware_display_frame_order
    soft,           \* the software frame: none yet, "ready" for the window, or "shown"
    disp_pc, disp_order,    \* display()
    hp_pc, hp_cmd, hp_last, \* the program: its place, the command it makes, last_rendered_hgc
    hg_pc,          \* the window
    hg_cmd, hg_order, hg_layer, rerender, layer_first, first_prev,  \* and its variables
    mode,           \* gl: there is a SUB _GL.  overlaps: a frame may be published during
                    \* a rendering.  late: a frame may be taken between the reading of
                    \* the order and the linking of a command.  draws: what is drawn on
                    \* what, <<source, target>>; targets 0 and -1 are the screen, in
                    \* front of and behind the rest.
    done,           \* history: commands with a lasting effect that were carried out
    drawn           \* history: what a repeated rendering put on the screen

list == <<commands, first_command, last_added, next_to_remove>>
orders == <<display_order_next, last_hw_order, soft, disp_pc, disp_order>>
imageProgram == <<hp_pc, hp_cmd, hp_last>>
renderer == <<hg_pc, hg_cmd, hg_order, hg_layer, rerender, layer_first, first_prev,
              rendered_order, drawn>>
hardwareVars == <<list, last_rendered, images, orders, imageProgram, renderer, mode, done>>

None == [kind |-> "none", src |-> 0, dst |-> 0]

HardwareInit ==
    /\ commands = <<>> /\ images = <<>>
    /\ first_command = 0 /\ last_added = 0 /\ last_rendered = 0 /\ next_to_remove = 0
    /\ display_order_next = 1 /\ last_hw_order = 0 /\ rendered_order = 0
    /\ soft = "none" /\ disp_pc = "out" /\ disp_order = 0
    /\ hp_pc = "stmt" /\ hp_cmd = None /\ hp_last = 0
    /\ hg_pc = "idle" /\ hg_cmd = 0 /\ hg_order = 0 /\ hg_layer = 1 /\ rerender = FALSE
    /\ layer_first = 0 /\ first_prev = 0
    /\ mode \in Modes /\ done = {} /\ drawn = {}

-----------------------------------------------------------------------------
(* display(): takes the next order, and publishes the frame, which is new  *)
(* (READY is stored first) or the same as before.                          *)

TakeOrder ==
    /\ disp_pc = "out" /\ display_order_next <= MaxOrder
    /\ mode.late \/ hp_pc # "link"
    /\ disp_order' = display_order_next
    /\ display_order_next' = display_order_next + 1
    /\ disp_pc' = "build"
    /\ UNCHANGED <<list, last_rendered, images, last_hw_order, soft, imageProgram, renderer, mode,
                   done>>

ReadyFrame ==
    /\ disp_pc = "build" /\ (mode.overlaps \/ hg_pc = "idle")
    /\ soft' = "ready"
    /\ disp_pc' = "publish"
    /\ UNCHANGED <<list, last_rendered, images, display_order_next, last_hw_order, disp_order,
                   imageProgram, renderer, mode, done>>

\* From "build": the screen did not change, but no frame is left out of the orders.
PublishOrder ==
    /\ disp_pc \in {"build", "publish"} /\ (mode.overlaps \/ hg_pc = "idle")
    /\ last_hw_order' = disp_order
    /\ disp_pc' = "out" /\ disp_order' = 0
    /\ UNCHANGED <<list, last_rendered, images, display_order_next, soft, imageProgram, renderer,
                   mode, done>>

-----------------------------------------------------------------------------
(* The program.                                                            *)

\* _COPYIMAGE(i, 33), _LOADIMAGE(f, 33).
NewImage ==
    /\ hp_pc = "stmt" /\ Len(images) < MaxImages
    /\ images' = Append(images, [exists |-> TRUE, valid |-> TRUE])
    /\ UNCHANGED <<list, last_rendered, orders, imageProgram, renderer, mode, done>>

\* What to do, and flush_old_hardware_commands(): something may go if any was rendered.
Begin(command) ==
    /\ hp_cmd' = command
    /\ hp_last' = IF next_to_remove # 0 THEN last_rendered ELSE 0
    /\ hp_pc' = "flush"
    /\ UNCHANGED <<list, last_rendered, images, orders, renderer, mode, done>>

\* Programs are supposed not to use an image they freed; the code does not test it.
Put ==
    /\ hp_pc = "stmt" /\ Len(commands) < MaxCommands
    /\ \E d \in mode.draws :
         /\ {d[1], d[2]} \ {0, -1} \subseteq {i \in DOMAIN images : images[i].valid}
         /\ Begin([kind |-> "put", src |-> d[1], dst |-> d[2]])

\* _FREEIMAGE of an image that is valid.
FreeImage ==
    /\ hp_pc = "stmt" /\ Len(commands) < MaxCommands
    /\ \E src \in DOMAIN images :
         /\ images[src].valid
         /\ Begin([kind |-> "request", src |-> src, dst |-> 0])

\* Mutant of Removable: no matter whether it is of the same frame.
RemovableSame ==
    LET next == commands[next_to_remove].next
    IN  hp_last # 0 /\ next # 0 /\ commands[next].order <= commands[hp_last].order

\* A command is removed if the next one is older than the last that was rendered.
Removable ==
    LET next == commands[next_to_remove].next
    IN  hp_last # 0 /\ next # 0 /\ commands[next].order < commands[hp_last].order

Link(cs, new) ==
    /\ commands' = IF last_added # 0 THEN [cs EXCEPT ![last_added].next = new] ELSE cs
    /\ last_added' = new
    /\ first_command' = IF first_command = 0 THEN new ELSE first_command

\* Mutant of Freeing: it will be freed before the puts of the frames that wait.
FreeingFirst(src) == [kind |-> "free", src |-> src, dst |-> 0, order |-> 0, next |-> 0]

Freeing(src) ==
    [kind |-> "free", src |-> src, dst |-> 0, order |-> display_order_next, next |-> 0]

\* A request to free an image becomes the command that does so, at the end of the list.
TakeOff ==
    /\ hp_pc = "flush" /\ Removable
    /\ LET old == commands[next_to_remove]
           cs == [commands EXCEPT ![next_to_remove].kind = "removed"]
       IN  /\ IF old.kind = "request"
              THEN Link(Append(cs, Freeing(old.src)), Len(cs) + 1)
              ELSE commands' = cs /\ UNCHANGED <<last_added, first_command>>
           /\ next_to_remove' = old.next
    /\ UNCHANGED <<last_rendered, images, orders, imageProgram, renderer, mode, done>>

\* Then comes the command itself ...
Add ==
    /\ hp_pc = "flush" /\ ~Removable
    /\ commands' = Append(commands, [kind |-> hp_cmd.kind, src |-> hp_cmd.src, dst |-> hp_cmd.dst,
                                     order |-> display_order_next, next |-> 0])
    /\ images' = IF hp_cmd.kind = "request" THEN [images EXCEPT ![hp_cmd.src].valid = FALSE]
                 ELSE images
    /\ hp_pc' = "link"
    /\ UNCHANGED <<first_command, last_added, next_to_remove, last_rendered, orders, hp_cmd,
                   hp_last, renderer, mode, done>>

\* ... which the window cannot see before it is linked.
LinkAdded ==
    /\ hp_pc = "link"
    /\ Link(commands, Len(commands))
    /\ hp_pc' = "stmt" /\ hp_cmd' = None /\ hp_last' = 0
    /\ UNCHANGED <<next_to_remove, last_rendered, images, orders, renderer, mode, done>>

-----------------------------------------------------------------------------
(* GLUT_DISPLAY_REQUEST().                                                 *)

\* Is there a software frame?  Which order is the newest?
Chosen ==
    /\ hg_pc = "idle" /\ soft # "none" /\ (mode.overlaps \/ disp_pc # "publish")
    /\ hg_order' = last_hw_order
    /\ soft' = "shown"
    /\ hg_pc' = IF soft = "ready" THEN "new" ELSE "same"
    /\ UNCHANGED <<list, last_rendered, images, display_order_next, last_hw_order, disp_pc,
                   disp_order, imageProgram, hg_cmd, hg_layer, rerender, layer_first, first_prev,
                   rendered_order, drawn, mode, done>>

Known == hg_pc = "same" /\ rendered_order = last_hw_order

\* Mutant of StartAt: a frame that is rendered again starts where a new one does.
StartAfter(last, again) == IF last = 0 THEN first_command ELSE commands[last].next

\* Where to start: after the last command rendered, or with the last frame's again.
StartAt(last, again) ==
    IF last = 0 THEN first_command ELSE IF again THEN last ELSE commands[last].next

\* Nothing new: only SUB _GL, if there is one, is worth a rendering, in which the last
\* frame's commands are carried out again.  Full screen and resizing are, too, but
\* then they are not.
Decide(resized) ==
    /\ hg_pc \in {"new", "same"}
    /\ IF Known /\ ~resized /\ ~mode.gl
       THEN /\ hg_pc' = "idle" /\ hg_order' = 0
            /\ UNCHANGED <<last_rendered, rerender, first_prev, hg_cmd>>
       ELSE /\ hg_pc' = "skip" /\ UNCHANGED hg_order
            /\ rerender' = (Known /\ ~resized /\ first_prev # 0)
            /\ last_rendered' = IF rerender' THEN first_prev ELSE last_rendered
            /\ hg_cmd' = StartAt(last_rendered', rerender')
            /\ first_prev' = 0
    /\ UNCHANGED <<list, images, orders, imageProgram, hg_layer, layer_first, rendered_order,
                   drawn, mode, done>>

Command == commands[hg_cmd]
Lasting(c) == commands[c].kind = "free" \/ (commands[c].kind = "put" /\ commands[c].dst > 0)

Older == hg_cmd # 0 /\ Command.order < hg_order
OfFrame == hg_cmd # 0 /\ Command.order = hg_order

\* Mutant of SkipDoes: drawings on images are left out.
SkipDoesFrees == hg_pc = "skip" /\ Older /\ Command.kind = "free"

\* Of frames that are not rendered only what lasts is done.
SkipDoes == hg_pc = "skip" /\ Older /\ Lasting(hg_cmd)

\* Mutant of FrameDoes: rendering a frame again does it all again.
FrameDoesAgain ==
    /\ hg_pc = "frame" /\ OfFrame
    /\ \/ Command.kind = "free" /\ hg_layer = 1
       \/ /\ Command.kind = "put"
          /\ (Command.dst > 0 /\ hg_layer = 1) \/ Command.dst = 1 - hg_layer

\* Mutant of FrameDoes: in both layers.
FrameDoesTwice ==
    /\ hg_pc = "frame" /\ OfFrame
    /\ \/ Command.kind = "free" /\ ~rerender
       \/ Command.kind = "put" /\ (Command.dst > 0 \/ Command.dst = 1 - hg_layer)

\* Of this frame also what belongs to the layer of the screen (0 or -1); what lasts
\* with the first, unless the frame is rendered again.
FrameDoes ==
    /\ hg_pc = "frame" /\ OfFrame
    /\ \/ Command.kind = "free" /\ ~rerender /\ hg_layer = 1
       \/ /\ Command.kind = "put"
          /\ ~rerender \/ Command.dst <= 0
          /\ (Command.dst > 0 /\ hg_layer = 1) \/ Command.dst = 1 - hg_layer

\* free_hardware_img() takes the image off its list; the rest is drawing.
Carry(does) ==
    /\ images' = IF does /\ Command.kind = "free" THEN [images EXCEPT ![Command.src].exists = FALSE]
                 ELSE images
    /\ done' = IF does /\ Lasting(hg_cmd) THEN done \union {hg_cmd} ELSE done
    /\ drawn' = IF does /\ rerender THEN drawn \union {hg_cmd} ELSE drawn
    /\ last_rendered' = hg_cmd
    /\ next_to_remove' = IF next_to_remove = 0 THEN hg_cmd ELSE next_to_remove

Skip ==
    /\ hg_pc = "skip" /\ Older
    /\ Carry(SkipDoes)
    /\ hg_pc' = "skip.next"
    /\ UNCHANGED <<commands, first_command, last_added, orders, imageProgram, hg_cmd, hg_order,
                   hg_layer, rerender, layer_first, first_prev, rendered_order, mode>>

Skipped ==
    /\ hg_pc = "skip" /\ ~Older
    /\ layer_first' = hg_cmd
    /\ hg_pc' = "frame"
    /\ UNCHANGED <<list, last_rendered, images, orders, imageProgram, hg_cmd, hg_order, hg_layer,
                   rerender, first_prev, rendered_order, drawn, mode, done>>

Frame ==
    /\ hg_pc = "frame" /\ OfFrame
    /\ Carry(FrameDoes)
    /\ first_prev' = IF first_prev = 0 THEN hg_cmd ELSE first_prev
    /\ hg_pc' = "frame.next"
    /\ UNCHANGED <<commands, first_command, last_added, orders, imageProgram, hg_cmd, hg_order,
                   hg_layer, rerender, layer_first, rendered_order, mode>>

Follow ==
    /\ hg_pc \in {"skip.next", "frame.next"}
    /\ hg_cmd' = Command.next
    /\ hg_pc' = IF hg_pc = "skip.next" THEN "skip" ELSE "frame"
    /\ UNCHANGED <<list, last_rendered, images, orders, imageProgram, hg_order, hg_layer,
                   rerender, layer_first, first_prev, rendered_order, drawn, mode, done>>

LayerEnds == hg_pc = "frame" /\ ~OfFrame

\* The second layer starts where the first did.
NextLayer ==
    /\ LayerEnds /\ hg_layer = 1
    /\ hg_layer' = 2 /\ hg_cmd' = layer_first
    /\ UNCHANGED <<list, last_rendered, images, orders, imageProgram, hg_pc, hg_order, rerender,
                   layer_first, first_prev, rendered_order, drawn, mode, done>>

\* The newest order counts as rendered: not necessarily the one that was.
EndRendering ==
    /\ LayerEnds /\ hg_layer = 2
    /\ rendered_order' = last_hw_order
    /\ hg_pc' = "idle" /\ hg_cmd' = 0 /\ hg_order' = 0 /\ hg_layer' = 1 /\ layer_first' = 0
    /\ rerender' = FALSE /\ drawn' = {}
    /\ UNCHANGED <<list, last_rendered, images, orders, imageProgram, first_prev, mode, done>>

HardwareNext ==
    \/ TakeOrder \/ ReadyFrame \/ PublishOrder
    \/ NewImage \/ Put \/ FreeImage \/ TakeOff \/ Add \/ LinkAdded
    \/ Chosen \/ (\E resized \in BOOLEAN : Decide(resized))
    \/ Skip \/ Skipped \/ Frame \/ Follow \/ NextLayer \/ EndRendering

HardwareSpec == HardwareInit /\ [][HardwareNext]_hardwareVars

-----------------------------------------------------------------------------
(* Properties.                                                             *)

Handle(max) == 0 .. max
HardwareTypeOK ==
    LET cs == Handle(2 * MaxCommands)
    IN  /\ commands \in Seq([kind : {"put", "request", "free", "removed"}, src : 1 .. MaxImages,
                             dst : -1 .. MaxImages, order : 1 .. MaxOrder + 1, next : cs])
        /\ images \in Seq([exists : BOOLEAN, valid : BOOLEAN])
        /\ {first_command, last_added, last_rendered, next_to_remove, hp_last,
            hg_cmd, layer_first, first_prev} \subseteq cs
        /\ {last_hw_order, rendered_order, disp_order, hg_order} \subseteq 0 .. MaxOrder
        /\ display_order_next \in 1 .. MaxOrder + 1
        /\ soft \in {"none", "ready", "shown"} /\ disp_pc \in {"out", "build", "publish"}
        /\ hp_pc \in {"stmt", "flush", "link"}
        /\ hg_pc \in {"idle", "new", "same", "skip", "skip.next", "frame", "frame.next"}
        /\ hg_layer \in 1 .. 2 /\ rerender \in BOOLEAN /\ mode \in Modes
        /\ done \subseteq cs /\ drawn \subseteq cs

Exists(c) == c \in DOMAIN commands /\ commands[c].kind # "removed"

\* What one thread looks at the other has not removed: the renderer's place in the list
\* (its alert "Command does not exist" never comes), the last command rendered ("Last HGC
\* is NULL!"), and the next to be removed.
CommandsExist ==
    /\ hg_cmd # 0 => Exists(hg_cmd)
    /\ last_rendered # 0 => Exists(last_rendered)
    /\ next_to_remove # 0 => Exists(next_to_remove)
    /\ last_added # 0 => Exists(last_added)
    /\ hp_last # 0 => Exists(hp_last)

\* An image is there when it is drawn from or on, and when it is freed ("free_hardware_img:
\* image does not exist").
ImagesExist ==
    SkipDoes \/ FrameDoes =>
        /\ images[Command.src].exists
        /\ Command.dst > 0 => images[Command.dst].exists

\* Neither side uses what the other has removed.
ObjectsExist == CommandsExist /\ ImagesExist

\* Drawings on images, and freeing them, are done in the order of the program and none
\* is left out, whatever frames the window misses.
DoneInOrder ==
    \A c \in done : \A b \in 1 .. c : Exists(b) /\ Lasting(b) => b \in done

\* A rendering shows all that the program put on the screen for its frame, also when
\* the frame is rendered again for SUB _GL.
ScreenWhole ==
    LayerEnds /\ hg_layer = 2 /\ rerender =>
        {c \in DOMAIN commands : /\ commands[c].kind = "put" /\ ~Lasting(c)
                                 /\ commands[c].order = hg_order}
            \subseteq drawn

\* No command is left out, on images in spite of missed frames, on the screen in spite
\* of repeated ones.
NothingLeftOut == DoneInOrder /\ ScreenWhole

\* No drawing on an image is done twice.
DoneOnce == [][(SkipDoes /\ hg_pc' = "skip.next") \/ (FrameDoes /\ hg_pc' = "frame.next")
               => hg_cmd \notin done]_hardwareVars
=============================================================================
