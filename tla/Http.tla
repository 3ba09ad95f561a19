-------------------------------- MODULE Http --------------------------------
(***************************************************************************)
(* HTTP connections: _OPENCLIENT("HTTP:..."), GET, EOF, CLOSE and the end  *)
(* of the program on one thread, libcurl's transfers on another.  The      *)
(* first hands additions and closings over in two queues and waits, each   *)
(* time, for a completion that lies on its stack.                          *)
(* (internal/c/libqb/src/qb_http.cpp; libqb.cpp)                           *)
(*                                                                         *)
(* Abstractions.  A handle object is a number, given out once; a block of  *)
(* data counts 1.  A section under a handle's io_lock is one step; one     *)
(* under the lock of curl_state is several on the curl thread, which       *)
(* nobody enters meanwhile.  The calls are the program's and, once it has  *)
(* parked, those that MAIN_LOOP makes to end it (module Runtime): never    *)
(* two at a time. libcurl and the server are external.                     *)
(***************************************************************************)
EXTENDS Integers, SequencesExt

CONSTANTS
    Ids,        \* indices of special_handles used for HTTP connections
    MaxOpens,   \* bound: connections opened in a behaviour
    MaxBlocks   \* bound: blocks a server sends on each of them

ASSUME HttpAssumption == MaxOpens \in Nat /\ MaxBlocks \in [1 .. MaxOpens -> Nat]

Objects == 1 .. MaxOpens

VARIABLES
    special,        \* ids in the list of special handles
    handle_table,   \* id -> handle object, 0 if it has none
    handle,         \* the handle objects
    opens,          \* how many there are
    flag,           \* its index: what EOF() is to report, if not computed
    add_queue, close_queue,
    finished,       \* the completions of the call in progress that are finished
    stop_curl,
    q_pc, q_id,     \* the caller: its place, and the id it works on
    c_pc, drop,     \* the curl thread: its place; connectionsToDrop
    multi,          \* connections that libcurl works on
    result,         \* how each ended: "none" as long as it has not
    sent,           \* blocks that came on each
    reported        \* history: objects for which EOF() was computed as true

queues == <<add_queue, close_queue, finished>>
program == <<special, flag, opens, reported>>
caller == <<q_pc, q_id, program>>
curl == <<c_pc, drop>>
world == <<multi, result, sent>>
httpVars == <<handle_table, handle, queues, stop_curl, caller, curl, world>>

NewHandle == [alive |-> TRUE, con |-> TRUE, closed |-> FALSE, err |-> FALSE,
              has_info |-> FALSE, response_started |-> TRUE, out |-> 0]
NoHandle == [NewHandle EXCEPT !.alive = FALSE, !.con = FALSE, !.response_started = FALSE]

HttpInit ==
    /\ special = {} /\ handle_table = [i \in Ids |-> 0]
    /\ handle = [n \in Objects |-> NoHandle]
    /\ opens = 0
    /\ flag = [i \in Ids |-> "compute"]
    /\ add_queue = <<>> /\ close_queue = <<>> /\ finished = {}
    /\ stop_curl = FALSE
    /\ q_pc = "stmt" /\ q_id \in Ids
    /\ c_pc = "top" /\ drop = <<>>
    /\ multi = {} /\ result = [n \in Objects |-> "none"] /\ sent = [n \in Objects |-> 0]
    /\ reported = {}

Valid(i) == handle_table[i] # 0
Of(i) == handle[handle_table[i]]

\* The curl thread holds the lock of curl_state while it goes through the queues.
LockFree == c_pc \notin {"adds", "closes"}

-----------------------------------------------------------------------------
(* The caller.                                                             *)

\* _OPENCLIENT: a new special handle, and libqb_http_open(): the object enters the
\* table and the queue, under the lock.
Open(i) ==
    /\ q_pc = "stmt"
    /\ i \notin special /\ opens < MaxOpens
    /\ LockFree
    /\ special' = special \cup {i}
    /\ opens' = opens + 1
    /\ handle_table' = [handle_table EXCEPT ![i] = opens + 1]
    /\ handle' = [handle EXCEPT ![opens + 1] = NewHandle]
    /\ add_queue' = Append(add_queue, i)
    /\ finished' = {}
    /\ q_id' = i
    /\ q_pc' = "added"
    /\ UNCHANGED <<close_queue, stop_curl, flag, reported, curl, world>>

OpenAdded ==
    /\ q_pc = "added"
    /\ "added" \in finished
    /\ q_pc' = "info"
    /\ UNCHANGED <<handle_table, handle, queues, stop_curl, q_id, program, curl, world>>

\* Mutant of Failed: it looks at whether there was a response.
FailedByInfo(h) == ~h.has_info

Failed(h) == h.err

\* The response began, or the connection bombed out and is closed again.
OpenInfo ==
    /\ q_pc = "info"
    /\ "info" \in finished
    /\ IF Failed(Of(q_id))
       THEN q_pc' = "open.close" /\ UNCHANGED flag
       ELSE q_pc' = "stmt" /\ flag' = [flag EXCEPT ![q_id] = "compute"]
    /\ UNCHANGED <<special, handle_table, handle, queues, stop_curl, q_id, opens, reported, curl,
                   world>>

\* Mutant of Enough: off by one.
EnoughOrEmpty(i) == Valid(i) /\ Of(i).out >= 0

Enough(i) == Valid(i) /\ Of(i).out >= 1

\* GET of a fixed length, here one block: all of it, or EOF is noted.
GetFixed(i) ==
    /\ q_pc = "stmt"
    /\ i \in special
    /\ IF Enough(i)
       THEN /\ flag' = [flag EXCEPT ![i] = "more"]
            /\ handle' = [handle EXCEPT ![handle_table[i]].out = @ - 1]
       ELSE flag' = [flag EXCEPT ![i] = "eof"] /\ UNCHANGED handle
    /\ UNCHANGED <<special, handle_table, queues, stop_curl, q_pc, q_id, opens, reported, curl,
                   world>>

\* GET of a string: the length, then as much of the data.
GetLength(i) ==
    /\ q_pc = "stmt"
    /\ i \in special
    /\ flag' = [flag EXCEPT ![i] = "compute"]
    /\ q_id' = i
    /\ q_pc' = IF Enough(i) THEN "get" ELSE "stmt"
    /\ UNCHANGED <<special, handle_table, handle, queues, stop_curl, opens, reported, curl, world>>

\* The length asked for is the one read before; more may have come since.
Get ==
    /\ q_pc = "get"
    /\ \E n \in 1 .. Of(q_id).out : handle' = [handle EXCEPT ![handle_table[q_id]].out = @ - n]
    /\ q_pc' = "stmt"
    /\ UNCHANGED <<handle_table, queues, stop_curl, q_id, program, curl, world>>

\* Mutant of EofDenied: the length is looked at first.
EofDeniedSwapped(step, i) == IF step = 1 THEN Enough(i) ELSE Valid(i) => ~Of(i).closed

\* EOF() is false while the connection lasts, for an id that was closed (it counts
\* as connected: -1), and then while there is data.
EofDenied(step, i) == IF step = 1 THEN Valid(i) => ~Of(i).closed ELSE Enough(i)

EofConnected(i) ==
    /\ q_pc = "stmt"
    /\ i \in special /\ flag[i] = "compute"
    /\ q_id' = i
    /\ q_pc' = IF EofDenied(1, i) THEN "stmt" ELSE "eof"
    /\ UNCHANGED <<handle_table, handle, queues, stop_curl, program, curl, world>>

EofLength ==
    /\ q_pc = "eof"
    /\ reported' = IF EofDenied(2, q_id) THEN reported ELSE reported \cup {handle_table[q_id]}
    /\ q_pc' = "stmt"
    /\ UNCHANGED <<special, handle_table, handle, queues, stop_curl, q_id, flag, opens, curl,
                   world>>

\* CLOSE.  The special handle itself stays in its list.
Close(i) ==
    /\ q_pc = "stmt"
    /\ Valid(i)
    /\ q_id' = i
    /\ q_pc' = "close"
    /\ UNCHANGED <<handle_table, handle, queues, stop_curl, program, curl, world>>

\* libqb_http_close(), by CLOSE, by a failed open, or at the end of the program.
ClosePush(from, to) ==
    /\ q_pc = from
    /\ LockFree
    /\ close_queue' = Append(close_queue, q_id)
    /\ finished' = finished \ {"closed"}
    /\ q_pc' = to
    /\ UNCHANGED <<handle_table, handle, add_queue, stop_curl, q_id, program, curl,
                   world>>

CloseDone(from, to) ==
    /\ q_pc = from
    /\ "closed" \in finished
    /\ q_pc' = to
    /\ special' = IF from = "open.closing" THEN special \ {q_id} ELSE special
    /\ UNCHANGED <<handle_table, handle, queues, stop_curl, q_id, flag, opens, reported, curl,
                   world>>

\* Mutant of NextToClose: the end of the program closes nothing.
NextToCloseNone == {}

\* sub_close() of all handles, and libqb_http_stop().
NextToClose == {i \in Ids : Valid(i)}

EndCloses ==
    /\ q_pc \in {"stmt", "end"}
    /\ IF NextToClose = {} THEN q_pc' = "stop" /\ UNCHANGED q_id
       ELSE \E i \in NextToClose : q_id' = i /\ q_pc' = "end.close"
    /\ UNCHANGED <<handle_table, handle, queues, stop_curl, program, curl, world>>

Stop ==
    /\ q_pc = "stop"
    /\ LockFree
    /\ stop_curl' = TRUE
    /\ q_pc' = "join"
    /\ UNCHANGED <<handle_table, handle, queues, q_id, program, curl, world>>

Join ==
    /\ q_pc = "join"
    /\ c_pc = "ended"
    /\ q_pc' = "ended"
    /\ UNCHANGED <<handle_table, handle, queues, stop_curl, q_id, program, curl, world>>

CallerOn ==
    \/ OpenAdded \/ OpenInfo \/ Get \/ EofLength \/ Stop \/ Join
    \/ ClosePush("close", "closing") \/ CloseDone("closing", "stmt")
    \/ ClosePush("open.close", "open.closing") \/ CloseDone("open.closing", "stmt")
    \/ ClosePush("end.close", "end.closing") \/ CloseDone("end.closing", "end")
    \/ q_pc = "end" /\ EndCloses

Caller ==
    \/ \E i \in Ids : Open(i) \/ GetFixed(i) \/ GetLength(i) \/ EofConnected(i) \/ Close(i)
    \/ EndCloses

-----------------------------------------------------------------------------
(* The curl thread.                                                        *)

CurlTop ==
    /\ c_pc = "top"
    /\ c_pc' = IF stop_curl THEN "ended" ELSE "poll"
    /\ UNCHANGED <<handle_table, handle, queues, stop_curl, caller, drop, world>>

\* Woken up, or after the timeout.
CurlPoll ==
    /\ c_pc = "poll"
    /\ c_pc' = "adds"
    /\ UNCHANGED <<handle_table, handle, queues, stop_curl, caller, drop, world>>

\* process_handles(): additions, then closings, under the lock of curl_state.
AddHandle ==
    /\ c_pc = "adds"
    /\ add_queue # <<>>
    /\ multi' = multi \cup {handle_table[Head(add_queue)]}
    /\ add_queue' = Tail(add_queue)
    /\ finished' = finished \cup {"added"}
    /\ UNCHANGED <<handle_table, handle, close_queue, stop_curl, caller, curl, result, sent>>

Added ==
    /\ c_pc = "adds"
    /\ add_queue = <<>>
    /\ c_pc' = "closes"
    /\ UNCHANGED <<handle_table, handle, queues, stop_curl, caller, drop, world>>

\* Mutant of ToDrop: an unfinished connection is left to libcurl.
ToDropNone(n) == <<>>

\* "If this was already finished, then con will be NULL"
ToDrop(n) == IF handle[n].con THEN <<n>> ELSE <<>>

CloseHandle ==
    /\ c_pc = "closes"
    /\ close_queue # <<>>
    /\ LET i == Head(close_queue)  n == handle_table[i] IN
       /\ drop' = drop \o ToDrop(n)
       /\ handle_table' = [handle_table EXCEPT ![i] = 0]
       /\ handle' = [handle EXCEPT ![n] = NoHandle]
    /\ close_queue' = Tail(close_queue)
    /\ finished' = finished \cup {"closed"}
    /\ UNCHANGED <<add_queue, stop_curl, caller, c_pc, world>>

Closed ==
    /\ c_pc = "closes"
    /\ close_queue = <<>>
    /\ c_pc' = "drop"
    /\ UNCHANGED <<handle_table, handle, queues, stop_curl, caller, drop, world>>

\* Without the lock: "Removing the connection can trigger the callbacks to get run."
Drop ==
    /\ c_pc = "drop"
    /\ drop # <<>>
    /\ drop' = Tail(drop)
    /\ multi' = multi \ {Head(drop)}
    /\ UNCHANGED <<handle_table, handle, queues, stop_curl, caller, c_pc, result, sent>>

Dropped ==
    /\ c_pc = "drop"
    /\ drop = <<>>
    /\ c_pc' = "perform"
    /\ UNCHANGED <<handle_table, handle, queues, stop_curl, caller, drop, world>>

\* Mutants of FilledOut and Told: has_info is not set; the pointer to the waiter's
\* completion is kept; has_info is tested after it was set.
FilledOutForgets(h) == [h EXCEPT !.response_started = FALSE]
FilledOutKeeps(h) == [h EXCEPT !.has_info = TRUE]
ToldLate(h) == IF h.has_info /\ h.response_started THEN {"info"} ELSE {}

\* __fillout_curl_info(): the first time, the waiter for the response is told.
FilledOut(h) == [h EXCEPT !.has_info = TRUE, !.response_started = FALSE]
Told(h) == IF ~h.has_info /\ h.response_started THEN {"info"} ELSE {}

WithBlock(h) == [FilledOut(h) EXCEPT !.out = @ + 1]

\* curl_multi_perform(): a block arrives, receive_http_block() is called.
Receive(n) ==
    /\ c_pc = "perform"
    /\ n \in multi /\ result[n] = "none" /\ sent[n] < MaxBlocks[n]
    /\ sent' = [sent EXCEPT ![n] = @ + 1]
    /\ handle' = [handle EXCEPT ![n] = WithBlock(@)]
    /\ finished' = finished \cup Told(handle[n])
    /\ UNCHANGED <<handle_table, add_queue, close_queue, stop_curl, caller, curl, multi, result>>

\* curl_multi_perform(): the transfer ends, well or not.
Finish(n) ==
    /\ c_pc = "perform"
    /\ n \in multi /\ result[n] = "none"
    /\ \E r \in {"ok", "error"} : result' = [result EXCEPT ![n] = r]
    /\ UNCHANGED <<handle_table, handle, queues, stop_curl, caller, curl, multi, sent>>

Performed ==
    /\ c_pc = "perform"
    /\ c_pc' = "messages"
    /\ UNCHANGED <<handle_table, handle, queues, stop_curl, caller, drop, world>>

\* handle_messages(): con is cleared, the rest is done under the handle's io_lock.
Message(n) ==
    /\ c_pc = "messages"
    /\ n \in multi /\ result[n] # "none"
    /\ handle' = [handle EXCEPT ![n] = [FilledOut(@) EXCEPT !.con = FALSE, !.closed = TRUE,
                                                            !.err = result[n] = "error"]]
    /\ finished' = finished \cup Told(handle[n])
    /\ multi' = multi \ {n}
    /\ UNCHANGED <<handle_table, add_queue, close_queue, stop_curl, caller, curl, result, sent>>

MessagesDone ==
    /\ c_pc = "messages"
    /\ \A n \in multi : result[n] = "none"
    /\ c_pc' = "top"
    /\ UNCHANGED <<handle_table, handle, queues, stop_curl, caller, drop, world>>

Curl ==
    \/ CurlTop \/ CurlPoll \/ AddHandle \/ Added \/ CloseHandle \/ Closed \/ Drop \/ Dropped
    \/ Performed \/ (\E n \in Objects : Message(n)) \/ MessagesDone

Server == \E n \in Objects : Receive(n) \/ Finish(n)

Ended == q_pc = "ended" /\ UNCHANGED httpVars

HttpNext == CallerOn \/ Caller \/ Curl \/ Server \/ Ended

HttpSpec == HttpInit /\ [][HttpNext]_httpVars

\* Both threads run, and every transfer ends in the end (each once).  The caller gets the lock
\* of curl_state at last: the curl thread sleeps without it in each pass.
HttpFairSpec ==
    /\ HttpSpec
    /\ SF_httpVars(CallerOn) /\ WF_httpVars(Curl)
    /\ SF_httpVars(\E n \in Objects : Finish(n))

-----------------------------------------------------------------------------
\* Types of all variables.
HttpTypeOK ==
    /\ special \subseteq Ids /\ handle_table \in [Ids -> 0 .. MaxOpens]
    /\ handle \in [Objects -> [alive : BOOLEAN, con : BOOLEAN, closed : BOOLEAN, err : BOOLEAN,
                               has_info : BOOLEAN, response_started : BOOLEAN, out : Nat]]
    /\ opens \in 0 .. MaxOpens
    /\ flag \in [Ids -> {"compute", "eof", "more"}]
    /\ add_queue \in Seq(Ids) /\ close_queue \in Seq(Ids)
    /\ finished \subseteq {"added", "info", "closed"}
    /\ stop_curl \in BOOLEAN
    /\ q_pc \in {"stmt", "added", "info", "get", "eof", "close", "closing", "open.close",
                 "open.closing", "end", "end.close",
                 "end.closing", "stop", "join", "ended"}
    /\ q_id \in Ids
    /\ c_pc \in {"top", "poll", "adds", "closes", "drop", "perform", "messages", "ended"}
    /\ drop \in Seq(Objects)
    /\ multi \subseteq Objects
    /\ result \in [Objects -> {"none", "ok", "error"}]
    /\ sent \in [Objects -> Nat] /\ \A n \in Objects : sent[n] <= MaxBlocks[n]
    /\ reported \subseteq Objects

\* A completion on the caller's stack is known to the curl thread only while the
\* caller waits for it: through the queues, or the handle's response_started.
CompletionsLive ==
    /\ add_queue # <<>> => q_pc = "added" /\ add_queue = <<q_id>>
    /\ close_queue # <<>> =>
          q_pc \in {"closing", "open.closing", "end.closing"} /\ close_queue = <<q_id>>
    /\ \A n \in Objects : handle[n].response_started =>
          q_pc \in {"added", "info"} /\ handle_table[q_id] = n /\ "info" \notin finished

\* Between calls the open handles are those of the table, and each has its info:
\* wait_for_info() of an open connection never has to wait.
OpenHasInfo ==
    /\ \A n \in Objects : handle[n].alive => \E i \in Ids : handle_table[i] = n
    /\ \A i \in Ids : Valid(i) =>
          /\ Of(i).alive
          /\ (q_id = i /\ q_pc \in {"added", "info"}) \/ Of(i).has_info

\* While libcurl works on a connection its handle exists, unless it is about to be
\* dropped, and a connection is dropped at most once.
ConnectionHasHandle ==
    /\ \A n \in multi : handle[n].alive \/ n \in ToSet(drop)
    /\ ToSet(drop) \subseteq multi /\ IsInjective(drop)

\* When the curl thread has been joined no connection or handle is left.
StoppedClean ==
    q_pc = "ended" => /\ multi = {} /\ add_queue = <<>> /\ close_queue = <<>>
                      /\ \A i \in Ids : ~Valid(i)

\* "Only report EOF() if the program had read all incoming data and the connection
\* is finished" (libqb.cpp:18142).
EofIsFinal == \A n \in reported : handle[n].out = 0 /\ n \notin multi

\* A connection that failed before it had a response is not left open.
FailedOpenIsClosed ==
    \A i \in Ids : LET n == handle_table[i] IN
       n # 0 /\ result[n] = "error" /\ sent[n] = 0 =>
          q_id = i /\ q_pc \in {"added", "info", "open.close", "open.closing"}

\* Nobody holds a completion, a handle or a connection that is gone, and none is left over.
HttpInv ==
    /\ HttpTypeOK /\ CompletionsLive /\ OpenHasInfo /\ ConnectionHasHandle /\ StoppedClean
    /\ FailedOpenIsClosed

\* If servers answer, every call returns.
CallsReturn == q_pc \notin {"stmt", "ended"} ~> q_pc \in {"stmt", "ended"}
=============================================================================
