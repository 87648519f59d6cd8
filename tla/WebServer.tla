----------------------------- MODULE WebServer -----------------------------
(***************************************************************************)
(* The web server process: the main thread with its poll loop over the     *)
(* serving port, the command port and the one accepted command connection  *)
(* (webserver.cpp), the serve_request_buffer, and the threads that answer  *)
(* the requests (serve_thread.cpp).                                        *)
(*                                                                         *)
(* A step covers at most one access to server_must_terminate, which is     *)
(* read and written without a lock, and everything a thread does while it  *)
(* alone holds the lock of what it touches; the statistics keep their two  *)
(* additions apart.  A client's data is there as soon as it is connected,  *)
(* or never (Silent).  What arrives on a command connection is a sequence  *)
(* of chunks, each the unit in which k counts.                             *)
(*                                                                         *)
(* ForgetToSignal, KeepCommandFd, KeepK, PopKeepsHead, StatsUnlocked,      *)
(* TooBigOffByOne and WakeOneOnly are slips in the definition that follows *)
(* them; no action uses them.                                              *)
(***************************************************************************)
EXTENDS Integers, Sequences, FiniteSets

CONSTANTS Threads,       \* the threads of the pool, num_of_threads of them
          Nobody,        \* holder of a free mutex
          Conns,         \* connections to the serving port
          CommandConns,  \* connections to the command port
          NoConn,        \* a file descriptor < 0
          Chunks,        \* Chunks[c]: what command connection c sends before it closes
          Outcomes,      \* Outcomes[c]: how serving c may end
          Silent,        \* connections that stay open and never send anything (more);
                         \* or, to the serving port, never read the page they are sent
          MaxCommand,    \* MAX_COMMAND_SIZE, in chunks
          AcceptMayFail, \* may accept fail in this instance
          MaxSpurious    \* bound on spurious wakeups

(* "part" has no '\n' in it; the others end with one. *)
ChunkKinds == {"part", "STATS", "SHUTDOWN", "illegal"}

(* "unread": read failed; "error": 400, 403, 404 or no answer at all; "page":  *)
(* a 200; "gone": the client left before the header of the 200 was written.    *)
OutcomeKinds == {"unread", "error", "page", "gone"}

ASSUME PoolAssumption ==
  IsFiniteSet(Threads) /\ Threads # {} /\ Nobody \notin Threads

ASSUME ClientAssumption ==
  /\ Silent \subseteq Conns \cup CommandConns /\ NoConn \notin Conns \cup CommandConns
  /\ Chunks \in [CommandConns -> Seq(ChunkKinds)]
  /\ Outcomes \in [Conns -> SUBSET OutcomeKinds] /\ \A c \in Conns : Outcomes[c] # {}

ASSUME BoundsAssumption ==
  MaxCommand \in Nat \ {0} /\ AcceptMayFail \in BOOLEAN /\ MaxSpurious \in Nat

VARIABLES
  serve_request_buffer, bufferLock,
  server_must_terminate,
  total_pages_returned, total_bytes_returned, stat_lock,
  pc, request_fd,          \* each thread of the pool (NoConn: nothing in hand)
  mainPc, revents,         \* main: where, what the last poll reported
  new_connection,          \* main: accepted, not pushed yet
  command_fd, k,           \* pfds[2].fd and the length of the command read so far
  unread,                  \* unread[c]: the chunks of c not read yet
  serving, commanding,     \* connections waiting to be accepted, on each port
  closed, leaked,          \* fate of the connections a thread took up (auxiliary)
  report,                  \* the last answer to STATS
  spurious                 \* spurious wakeups so far

bufferVars == <<serve_request_buffer, bufferLock>>
statVars == <<total_pages_returned, total_bytes_returned, stat_lock>>
commandVars == <<command_fd, k, unread>>
portVars == <<serving, commanding>>
fateVars == <<closed, leaked>>
mainVars == <<mainPc, revents, new_connection, commandVars, report>>
vars == <<bufferVars, server_must_terminate, statVars, pc, request_fd, mainVars, portVars,
          fateVars, spurious>>

ThreadPcs == {"new", "outer", "acquire", "check", "wait", "waiting", "woken", "inner",
              "serve", "stats", "bytes", "close", "done"}
(* Inside the critical section of the buffer's lock. *)
HoldingPcs == {"check", "wait", "inner"}
(* With a connection in hand. *)
BusyPcs == {"serve", "stats", "bytes", "close"}
MainPcs == {"creating", "poll", "command", "accept", "serving", "push", "broadcast", "join",
            "exited"}

At(S) == {t \in Threads : pc[t] \in S}
Elements(s) == {s[i] : i \in 1..Len(s)}
Goto(t, p) == pc' = [pc EXCEPT ![t] = p]

(* pthread_cond_signal(&bufferIsReady): the possible pc after it. *)
ForgetToSignal == {pc}
SignalBufferIsReady ==
  LET sleepers == At({"waiting"})
  IN  IF sleepers = {} THEN {pc} ELSE {[pc EXCEPT ![w] = "woken"] : w \in sleepers}

Init ==
  /\ serve_request_buffer = <<>> /\ bufferLock = Nobody /\ server_must_terminate = FALSE
  /\ total_pages_returned = 0 /\ total_bytes_returned = 0 /\ stat_lock = Nobody
  /\ pc = [t \in Threads |-> "new"] /\ request_fd = [t \in Threads |-> NoConn]
  /\ mainPc = "creating" /\ revents = {} /\ new_connection = NoConn
  /\ command_fd = NoConn /\ k = 0 /\ unread = Chunks
  /\ serving = {} /\ commanding = {}
  /\ closed = {} /\ leaked = {} /\ report = [pages |-> 0, bytes |-> 0]
  /\ spurious = 0

-----------------------------------------------------------------------------
(* handle_http_requests(): the wait for a connection and the pop. *)

threadElsewhere == <<server_must_terminate, mainVars, portVars, spurious>>

OuterCheck(t) ==
  /\ pc[t] = "outer"
  /\ Goto(t, IF server_must_terminate THEN "done" ELSE "acquire")
  /\ UNCHANGED <<bufferVars, statVars, request_fd, fateVars, threadElsewhere>>

Acquire(t) ==
  /\ pc[t] = "acquire" /\ bufferLock = Nobody
  /\ bufferLock' = t /\ Goto(t, "check")
  /\ UNCHANGED <<serve_request_buffer, statVars, request_fd, fateVars, threadElsewhere>>

(* isEmpty(); the thread has the lock, but a broadcast does not need it. *)
CheckBuffer(t) ==
  /\ pc[t] = "check"
  /\ Goto(t, IF serve_request_buffer = <<>> THEN "wait" ELSE "inner")
  /\ UNCHANGED <<bufferVars, statVars, request_fd, fateVars, threadElsewhere>>

Wait(t) ==
  /\ pc[t] = "wait"
  /\ bufferLock' = Nobody /\ Goto(t, "waiting")
  /\ UNCHANGED <<serve_request_buffer, statVars, request_fd, fateVars, threadElsewhere>>

SpuriousWakeup(t) ==
  /\ pc[t] = "waiting" /\ spurious < MaxSpurious
  /\ spurious' = spurious + 1 /\ Goto(t, "woken")
  /\ UNCHANGED <<bufferVars, server_must_terminate, statVars, request_fd, mainVars, portVars,
                 fateVars>>

(* pthread_cond_wait returns.  When the server must terminate the lock is *)
(* released and the two breaks taken, for the flag stays set.             *)
WakeUp(t) ==
  /\ pc[t] = "woken" /\ bufferLock = Nobody
  /\ IF server_must_terminate
       THEN Goto(t, "done") /\ UNCHANGED bufferLock
       ELSE Goto(t, "check") /\ bufferLock' = t
  /\ UNCHANGED <<serve_request_buffer, statVars, request_fd, fateVars, threadElsewhere>>

(* The second test of the flag: its break keeps the lock. *)
InnerBreak(t) ==
  /\ pc[t] = "inner" /\ server_must_terminate
  /\ Goto(t, "done")
  /\ UNCHANGED <<bufferVars, statVars, request_fd, fateVars, threadElsewhere>>

PopKeepsHead == UNCHANGED serve_request_buffer
PopFromBuffer == serve_request_buffer' = Tail(serve_request_buffer)

Pop(t) ==
  /\ pc[t] = "inner" /\ ~server_must_terminate /\ serve_request_buffer # <<>>
  /\ request_fd' = [request_fd EXCEPT ![t] = Head(serve_request_buffer)]
  /\ PopFromBuffer
  /\ bufferLock' = Nobody /\ Goto(t, "serve")
  /\ UNCHANGED <<statVars, fateVars, threadElsewhere>>

-----------------------------------------------------------------------------
(* handle_http_requests(): the answer. *)

(* The request could not be read: close and go on. *)
Unread(t) ==
  /\ pc[t] = "serve" /\ request_fd[t] \notin Silent
  /\ "unread" \in Outcomes[request_fd[t]]
  /\ closed' = closed \cup {request_fd[t]}
  /\ request_fd' = [request_fd EXCEPT ![t] = NoConn] /\ Goto(t, "outer")
  /\ UNCHANGED <<bufferVars, statVars, leaked, threadElsewhere>>

AnswerError(t) ==
  /\ pc[t] = "serve" /\ request_fd[t] \notin Silent
  /\ "error" \in Outcomes[request_fd[t]]
  /\ Goto(t, "close")
  /\ UNCHANGED <<bufferVars, statVars, request_fd, fateVars, threadElsewhere>>

AnswerPage(t) ==
  /\ pc[t] = "serve" /\ request_fd[t] \notin Silent
  /\ "page" \in Outcomes[request_fd[t]]
  /\ Goto(t, "stats")
  /\ UNCHANGED <<bufferVars, statVars, request_fd, fateVars, threadElsewhere>>

(* The break after the failed write leaves the outer loop: the thread ends and *)
(* the connection stays open.                                                  *)
HeaderFails(t) ==
  /\ pc[t] = "serve" /\ request_fd[t] \notin Silent
  /\ "gone" \in Outcomes[request_fd[t]]
  /\ leaked' = leaked \cup {request_fd[t]}
  /\ request_fd' = [request_fd EXCEPT ![t] = NoConn] /\ Goto(t, "done")
  /\ UNCHANGED <<bufferVars, statVars, closed, threadElsewhere>>

CountPage(t) ==
  /\ pc[t] = "stats" /\ stat_lock = Nobody
  /\ stat_lock' = t
  /\ total_pages_returned' = total_pages_returned + 1
  /\ Goto(t, "bytes")
  /\ UNCHANGED <<bufferVars, total_bytes_returned, request_fd, fateVars, threadElsewhere>>

(* Every page counts as one unit of content. *)
CountBytes(t) ==
  /\ pc[t] = "bytes"
  /\ total_bytes_returned' = total_bytes_returned + 1
  /\ stat_lock' = Nobody
  /\ Goto(t, "close")
  /\ UNCHANGED <<bufferVars, total_pages_returned, request_fd, fateVars, threadElsewhere>>

Close(t) ==
  /\ pc[t] = "close"
  /\ closed' = closed \cup {request_fd[t]}
  /\ request_fd' = [request_fd EXCEPT ![t] = NoConn] /\ Goto(t, "outer")
  /\ UNCHANGED <<bufferVars, statVars, leaked, threadElsewhere>>

ThreadStep(t) ==
  \/ OuterCheck(t) \/ Acquire(t) \/ CheckBuffer(t) \/ Wait(t) \/ WakeUp(t) \/ InnerBreak(t)
  \/ Pop(t) \/ Unread(t) \/ AnswerError(t) \/ AnswerPage(t) \/ HeaderFails(t)
  \/ CountPage(t) \/ CountBytes(t) \/ Close(t)

-----------------------------------------------------------------------------
(* main(): the poll loop. *)

mainElsewhere == <<bufferVars, request_fd, fateVars, spurious>>

(* A client may connect to either port for as long as main listens. *)
Connect(c) ==
  /\ mainPc \notin {"join", "exited"}
  /\ \/ /\ c \in Conns \ (serving \cup closed \cup leaked \cup Elements(serve_request_buffer))
        /\ c # new_connection /\ \A t \in Threads : request_fd[t] # c
        /\ serving' = serving \cup {c} /\ UNCHANGED commanding
     \/ /\ c \in CommandConns \ commanding /\ c # command_fd /\ unread[c] = Chunks[c]
        /\ commanding' = commanding \cup {c} /\ UNCHANGED serving
  /\ UNCHANGED <<mainElsewhere, server_must_terminate, statVars, pc, mainVars>>

CreateThread(t) ==
  /\ mainPc = "creating" /\ pc[t] = "new"
  /\ Goto(t, "outer")
  /\ UNCHANGED <<mainElsewhere, server_must_terminate, statVars, mainVars, portVars>>

StartPolling ==
  /\ mainPc = "creating" /\ At({"new"}) = {}
  /\ mainPc' = "poll"
  /\ UNCHANGED <<mainElsewhere, server_must_terminate, statVars, pc, revents, new_connection,
                 commandVars, report, portVars>>

(* An accepted command connection is ready when there is a chunk to read or, *)
(* for ever after, when the client has closed its end.                       *)
Ready ==
  {e \in {"data", "command", "serve"} :
     \/ e = "data" /\ command_fd # NoConn /\ (unread[command_fd] # <<>> \/ command_fd \notin Silent)
     \/ e = "command" /\ commanding # {}
     \/ e = "serve" /\ serving # {}}

Poll ==
  /\ mainPc = "poll" /\ Ready # {}
  /\ revents' = Ready
  /\ mainPc' = IF "data" \in Ready THEN "command" ELSE "accept"
  /\ UNCHANGED <<mainElsewhere, server_must_terminate, statVars, pc, new_connection,
                 commandVars, report, portVars>>

TooBigOffByOne == k > MaxCommand
TooBig == k >= MaxCommand

(* close, pfds[2].fd = -1, k = 0; what the client sent after the command is lost. *)
KeepCommandFd ==
  /\ unread' = [unread EXCEPT ![command_fd] = <<>>]
  /\ k' = 0 /\ UNCHANGED command_fd
KeepK ==
  /\ unread' = [unread EXCEPT ![command_fd] = <<>>]
  /\ command_fd' = NoConn /\ UNCHANGED k
EndCommand ==
  /\ unread' = [unread EXCEPT ![command_fd] = <<>>]
  /\ command_fd' = NoConn /\ k' = 0

(* A command that fills the buffer, or one that is unknown, is refused. *)
RefuseCommand ==
  /\ mainPc = "command"
  /\ TooBig \/ (unread[command_fd] # <<>> /\ Head(unread[command_fd]) = "illegal")
  /\ EndCommand
  /\ mainPc' = "accept"
  /\ UNCHANGED <<mainElsewhere, server_must_terminate, statVars, pc, revents, new_connection,
                 report, portVars>>

ReadPart ==
  /\ mainPc = "command" /\ ~TooBig
  /\ unread[command_fd] # <<>> /\ Head(unread[command_fd]) = "part"
  /\ unread' = [unread EXCEPT ![command_fd] = Tail(@)]
  /\ k' = k + 1
  /\ mainPc' = "accept"
  /\ UNCHANGED <<mainElsewhere, server_must_terminate, statVars, pc, revents, new_connection,
                 command_fd, report, portVars>>

(* The client has closed: read returns 0, or fails and the rest of the round is *)
(* skipped.  The connection is kept either way.                                 *)
ReadNothing ==
  /\ mainPc = "command" /\ ~TooBig /\ unread[command_fd] = <<>>
  /\ \/ mainPc' = "accept" /\ UNCHANGED revents
     \/ mainPc' = "poll" /\ revents' = {}
  /\ UNCHANGED <<mainElsewhere, server_must_terminate, statVars, pc, new_connection,
                 commandVars, report, portVars>>

StatsUnlocked == TRUE
StatsLocked == stat_lock = Nobody

Stats ==
  /\ mainPc = "command" /\ ~TooBig
  /\ unread[command_fd] # <<>> /\ Head(unread[command_fd]) = "STATS"
  /\ StatsLocked
  /\ report' = [pages |-> total_pages_returned, bytes |-> total_bytes_returned]
  /\ EndCommand
  /\ mainPc' = "accept"
  /\ UNCHANGED <<mainElsewhere, server_must_terminate, statVars, pc, revents, new_connection,
                 portVars>>

Shutdown ==
  /\ mainPc = "command" /\ ~TooBig
  /\ unread[command_fd] # <<>> /\ Head(unread[command_fd]) = "SHUTDOWN"
  /\ server_must_terminate' = TRUE
  /\ mainPc' = "broadcast"
  /\ UNCHANGED <<mainElsewhere, statVars, pc, revents, new_connection, commandVars, report,
                 portVars>>

(* pthread_cond_broadcast(&bufferIsReady): the possible pc after it. *)
WakeOneOnly == SignalBufferIsReady
BroadcastBufferIsReady ==
  {[t \in Threads |-> IF pc[t] = "waiting" THEN "woken" ELSE pc[t]]}

(* Without the buffer's lock. *)
Broadcast ==
  /\ mainPc = "broadcast"
  /\ pc' \in BroadcastBufferIsReady
  /\ mainPc' = "join"
  /\ UNCHANGED <<mainElsewhere, server_must_terminate, statVars, revents, new_connection,
                 commandVars, report, portVars>>

(* At most one command connection at a time; it is read in the next round. *)
AcceptCommand ==
  /\ mainPc = "accept"
  /\ IF "command" \in revents /\ command_fd = NoConn
       THEN \E c \in commanding : command_fd' = c /\ commanding' = commanding \ {c}
       ELSE UNCHANGED <<command_fd, commanding>>
  /\ mainPc' = "serving"
  /\ UNCHANGED <<mainElsewhere, server_must_terminate, statVars, pc, revents, new_connection,
                 k, unread, report, serving>>

AcceptServing ==
  /\ mainPc = "serving"
  /\ IF "serve" \in revents
       THEN \E c \in serving : /\ new_connection' = c /\ serving' = serving \ {c}
                               /\ mainPc' = "push"
       ELSE UNCHANGED <<new_connection, serving>> /\ mainPc' = "poll"
  /\ revents' = {}
  /\ UNCHANGED <<mainElsewhere, server_must_terminate, statVars, pc, commandVars, report,
                 commanding>>

(* accept fails: the break leaves the loop with server_must_terminate unset. *)
AcceptFails ==
  /\ AcceptMayFail
  /\ \/ mainPc = "accept" /\ "command" \in revents /\ command_fd = NoConn
     \/ mainPc = "serving" /\ "serve" \in revents
  /\ mainPc' = "join"
  /\ UNCHANGED <<mainElsewhere, server_must_terminate, statVars, pc, revents, new_connection,
                 commandVars, report, portVars>>

Push ==
  /\ mainPc = "push" /\ bufferLock = Nobody
  /\ serve_request_buffer' = Append(serve_request_buffer, new_connection)
  /\ new_connection' = NoConn
  /\ pc' \in SignalBufferIsReady
  /\ mainPc' = "poll"
  /\ UNCHANGED <<bufferLock, request_fd, fateVars, spurious, server_must_terminate, statVars,
                 revents, commandVars, report, portVars>>

(* Join the threads, delete the buffer and return. *)
Exit ==
  /\ mainPc = "join" /\ At({"done"}) = Threads
  /\ mainPc' = "exited"
  /\ UNCHANGED <<mainElsewhere, server_must_terminate, statVars, pc, revents, new_connection,
                 commandVars, report, portVars>>

MainStep ==
  \/ \E t \in Threads : CreateThread(t)
  \/ StartPolling \/ Poll \/ RefuseCommand \/ ReadPart \/ ReadNothing \/ Stats \/ Shutdown
  \/ Broadcast \/ AcceptCommand \/ AcceptServing \/ Push \/ Exit

(* What only a client, the operating system or the library can make happen. *)
Environment ==
  \/ AcceptFails
  \/ \E t \in Threads : SpuriousWakeup(t)
  \/ \E c \in Conns \cup CommandConns : Connect(c)

Next == (\E t \in Threads : ThreadStep(t)) \/ MainStep \/ Environment

Spec == Init /\ [][Next]_vars

(* Every thread is scheduled and a mutex that stays free is taken; a client need *)
(* not connect.                                                                  *)
Fairness == /\ \A t \in Threads : WF_vars(ThreadStep(t))
            /\ WF_vars(MainStep)

FairSpec == Spec /\ Fairness

-----------------------------------------------------------------------------
(* Every variable holds a value of its kind, and a command never overflows the *)
(* array it is read into, however it is cut into chunks (webserver.cpp:134,148).*)
TypeOK ==
  /\ serve_request_buffer \in Seq(Conns) /\ bufferLock \in Threads \cup {Nobody}
  /\ server_must_terminate \in BOOLEAN
  /\ total_pages_returned \in Nat /\ total_bytes_returned \in Nat
  /\ stat_lock \in Threads \cup {Nobody}
  /\ pc \in [Threads -> ThreadPcs] /\ request_fd \in [Threads -> Conns \cup {NoConn}]
  /\ mainPc \in MainPcs /\ revents \subseteq {"data", "command", "serve"}
  /\ new_connection \in Conns \cup {NoConn} /\ command_fd \in CommandConns \cup {NoConn}
  /\ k \in 0..MaxCommand /\ unread \in [CommandConns -> Seq(ChunkKinds)]
  /\ serving \subseteq Conns /\ commanding \subseteq CommandConns
  /\ closed \subseteq Conns /\ leaked \subseteq Conns
  /\ report \in [pages : Nat, bytes : Nat]
  /\ spurious \in 0..MaxSpurious

(* One signal per connection pushed is enough (webserver.cpp:216), even when the *)
(* pool has lost threads: while one sleeps, each connection in the buffer has a  *)
(* thread woken for it that has not looked at the buffer yet.                    *)
NoIdleThread ==
  ~server_must_terminate /\ At({"waiting"}) # {} =>
    Len(serve_request_buffer) <= Cardinality(At({"woken", "check", "inner"}))

(* The two counters change one after the other (serve_thread.cpp:144-147), but *)
(* an answer to STATS never shows one without the other (webserver.cpp:173).   *)
StatsConsistent == report.pages = report.bytes

(* The commands of two connections never run into each other, even if the first *)
(* one is left off in the middle or cut short (webserver.cpp:143,186).          *)
CommandIsOwn ==
  k = IF command_fd = NoConn THEN 0 ELSE Len(Chunks[command_fd]) - Len(unread[command_fd])

(* The server takes the connections to its serving port up in the order of their *)
(* acceptance, each one once and by one thread.                                  *)
SO == INSTANCE ServeInOrder WITH
        Servers <- Threads, None <- NoConn,
        queue <- serve_request_buffer,
        serves <- request_fd,
        finished <- closed \cup leaked
ImplementsServeInOrder == SO!Spec

-----------------------------------------------------------------------------
(* A thread that left its loop by the break of line 54 with the buffer's lock. *)
BufferLockLeaked == \E t \in Threads : pc[t] = "done" /\ bufferLock = t

(* A thread that is about to sleep when the last broadcast is over. *)
BroadcastMissed == server_must_terminate /\ mainPc = "join" /\ At({"wait"}) # {}

(* A thread waits for what its client never sends (serve_thread.cpp:64), or for it *)
(* to read a page that the socket cannot hold (serve_thread.cpp:136): no timeout.  *)
Stuck(t) == pc[t] = "serve" /\ request_fd[t] \in Silent

(* A connection accepted is taken up by a thread, unless the server is told to   *)
(* stop or every thread of the pool has died (serve_thread.cpp:126) or is stuck. *)
RequestsServed ==
  \A c \in Conns :
    new_connection = c ~> \/ c \in closed \cup leaked \cup SO!Busy
                         \/ server_must_terminate
                         \/ \A t \in Threads : pc[t] = "done" \/ Stuck(t)

(* The accepted command connection has sent all it will and no '\n' in it. *)
ChannelBlocked ==
  command_fd # NoConn /\ unread[command_fd] = <<>> /\ ~TooBig
  /\ Elements(Chunks[command_fd]) \subseteq {"part"}

(* A client of the command port gets its turn, unless the one before it leaves   *)
(* without a '\n' (webserver.cpp:193) or the server stops.                       *)
CommandsAccepted ==
  \A c \in CommandConns :
    c \in commanding ~> \/ c \notin commanding \/ ChannelBlocked
                        \/ mainPc \in {"broadcast", "join", "exited"}

(* After SHUTDOWN the threads end and the server exits, unless a thread misses   *)
(* the broadcast, leaks the lock or is stuck.                                    *)
ShutdownEnds ==
  \/ server_must_terminate ~> mainPc = "exited"
  \/ <>BroadcastMissed \/ <>BufferLockLeaked \/ <>(\E t \in Threads : Stuck(t))

(* webserver.cpp:165,228: the broadcast unblocks the threads so that they see    *)
(* server_must_terminate, and all of them terminate.                             *)
ThreadsTerminate == server_must_terminate ~> \A t \in Threads : pc[t] = "done"
=============================================================================
