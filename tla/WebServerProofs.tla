-------------------------- MODULE WebServerProofs --------------------------
(***************************************************************************)
(* Theorems about WebServer for any number of threads and any clients.     *)
(*                                                                         *)
(* A connection is always in one place: waiting at the port, in main's     *)
(* hand, in the buffer (once), with one thread, or ended (OwnerInv).  That *)
(* makes the steps of the threads those of ServeInOrder.  NoIdleThread     *)
(* needs that a thread found the buffer empty under the lock it still has  *)
(* when it goes to sleep (MutexInv, EmptyInv); StatsConsistent that the    *)
(* two counters differ only while a thread holds stat_lock (StatInv);      *)
(* CommandIsOwn that a connection waiting to be accepted has been read by  *)
(* nobody (CommandInv).                                                    *)
(***************************************************************************)
EXTENDS WebServer, FiniteSetTheorems, SequenceTheorems, TLAPS

(* The buffer's lock is held by the thread in its critical section, or by a *)
(* thread that ended without releasing it.                                  *)
MutexInv ==
  \A t \in Threads : /\ pc[t] \in HoldingPcs => bufferLock = t
                     /\ bufferLock = t => pc[t] \in HoldingPcs \cup {"done"}

EmptyInv ==
  /\ \A t \in Threads : pc[t] = "wait" => serve_request_buffer = <<>>
  /\ mainPc = "broadcast" => server_must_terminate

StatInv ==
  /\ \A t \in Threads : pc[t] = "bytes" <=> stat_lock = t
  /\ total_pages_returned = total_bytes_returned + (IF stat_lock = Nobody THEN 0 ELSE 1)

CommandInv ==
  /\ CommandIsOwn
  /\ \A c \in commanding : c # command_fd /\ unread[c] = Chunks[c]
  /\ mainPc = "command" => command_fd # NoConn

Distinct(s) == \A i, j \in 1..Len(s) : s[i] = s[j] => i = j
Queued == Elements(serve_request_buffer)
Ended == closed \cup leaked

OwnerInv ==
  /\ \A t \in Threads : request_fd[t] # NoConn <=> pc[t] \in BusyPcs
  /\ \A t, u \in Threads : request_fd[t] = request_fd[u] /\ request_fd[t] # NoConn => t = u
  /\ \A t \in Threads : /\ request_fd[t] \notin Queued \cup Ended \cup serving
                        /\ request_fd[t] = new_connection => new_connection = NoConn
  /\ Distinct(serve_request_buffer)
  /\ Queued \cap Ended = {} /\ Queued \cap serving = {} /\ Ended \cap serving = {}
  /\ new_connection \notin Queued \cup Ended \cup serving
  /\ mainPc = "push" => new_connection # NoConn

IInv == /\ TypeOK /\ MutexInv /\ EmptyInv /\ StatInv /\ StatsConsistent /\ CommandInv
        /\ OwnerInv /\ NoIdleThread

-----------------------------------------------------------------------------
(* A connection that is nowhere in the buffer may be appended to it. *)
LEMMA AppendDistinct ==
  ASSUME NEW S, NEW s \in Seq(S), NEW x \in S, Distinct(s), x \notin Elements(s)
  PROVE  /\ Append(s, x) \in Seq(S) /\ Len(Append(s, x)) = Len(s) + 1
         /\ Distinct(Append(s, x)) /\ Elements(Append(s, x)) = Elements(s) \cup {x}
  <1> DEFINE a == Append(s, x)
  <1>1. /\ a \in Seq(S) /\ Len(a) = Len(s) + 1 /\ Len(s) \in Nat
        /\ \A i \in 1..Len(s) : a[i] = s[i]
        /\ a[Len(s) + 1] = x
    BY AppendProperties, LenProperties
  <1> HIDE DEF a
  <1>2. 1..Len(a) = 1..Len(s) \cup {Len(s) + 1}
    BY <1>1
  <1>3. Elements(a) = Elements(s) \cup {x}
    BY <1>1, <1>2 DEF Elements
  <1>4. Distinct(a)
    BY <1>1, <1>2 DEF Distinct, Elements
  <1> QED BY <1>1, <1>3, <1>4 DEF a

(* The pop takes the one occurrence of the oldest connection. *)
LEMMA TailDistinct ==
  ASSUME NEW S, NEW s \in Seq(S), s # <<>>, Distinct(s)
  PROVE  /\ Head(s) \in S /\ Head(s) \in Elements(s)
         /\ Tail(s) \in Seq(S) /\ Len(Tail(s)) = Len(s) - 1
         /\ Distinct(Tail(s)) /\ Elements(Tail(s)) = Elements(s) \ {Head(s)}
  <1> DEFINE a == Tail(s)
  <1>1. /\ Head(s) \in S /\ a \in Seq(S) /\ Len(a) = Len(s) - 1
        /\ Len(s) \in Nat \ {0} /\ Head(s) = s[1]
        /\ \A i \in 1..Len(a) : a[i] = s[i + 1]
    BY HeadTailProperties, EmptySeq
  <1> HIDE DEF a
  <1>2. Distinct(a)
    BY <1>1 DEF Distinct
  <1>3. \A i \in 1..Len(s) : i = 1 \/ (i - 1 \in 1..Len(a) /\ a[i - 1] = s[i])
    BY <1>1
  <1>4. Elements(a) \subseteq Elements(s) \ {Head(s)}
    BY <1>1 DEF Distinct, Elements
  <1>5. Elements(s) \ {Head(s)} \subseteq Elements(a)
    <2> SUFFICES ASSUME NEW y \in Elements(s), y # Head(s) PROVE y \in Elements(a)
      OBVIOUS
    <2>1. PICK i \in 1..Len(s) : s[i] = y
      BY DEF Elements
    <2>2. i # 1
      BY <1>1, <2>1
    <2> QED BY <1>3, <2>1, <2>2 DEF Elements
  <1>6. Head(s) \in Elements(s)
    BY <1>1 DEF Elements
  <1> QED BY <1>1, <1>2, <1>4, <1>5, <1>6 DEF a

(* A signal wakes one sleeping thread, if there is one, and moves no other. *)
LEMMA SignalEffect ==
  ASSUME pc \in [Threads -> ThreadPcs], NEW f \in SignalBufferIsReady
  PROVE  /\ f \in [Threads -> ThreadPcs]
         /\ \A t \in Threads : f[t] = pc[t] \/ (pc[t] = "waiting" /\ f[t] = "woken")
         /\ \/ f = pc /\ At({"waiting"}) = {}
            \/ \E w \in Threads : pc[w] = "waiting" /\ f = [pc EXCEPT ![w] = "woken"]
  <1>1. CASE At({"waiting"}) = {}
    BY <1>1 DEF SignalBufferIsReady
  <1>2. CASE At({"waiting"}) # {}
    <2>1. PICK w \in At({"waiting"}) : f = [pc EXCEPT ![w] = "woken"]
      BY <1>2 DEF SignalBufferIsReady
    <2> QED BY <2>1 DEF At, ThreadPcs
  <1> QED BY <1>1, <1>2

(* A broadcast wakes all of them. *)
LEMMA BroadcastEffect ==
  ASSUME pc \in [Threads -> ThreadPcs], NEW f \in BroadcastBufferIsReady
  PROVE  /\ f \in [Threads -> ThreadPcs]
         /\ \A t \in Threads : f[t] = pc[t] \/ (pc[t] = "waiting" /\ f[t] = "woken")
  BY DEF BroadcastBufferIsReady, ThreadPcs

-----------------------------------------------------------------------------
(* Types. *)

(* Every step of a thread keeps the types: what it closes is a connection it has. *)
LEMMA ThreadTyping ==
  ASSUME IInv, NEW t \in Threads, ThreadStep(t)
  PROVE  TypeOK'
  <1> USE DEF IInv, TypeOK, Goto, ThreadPcs, bufferVars, statVars, fateVars, threadElsewhere,
              mainVars, portVars, commandVars
  <1>1. ASSUME pc[t] \in BusyPcs PROVE request_fd[t] \in Conns
    BY <1>1 DEF OwnerInv
  <1>2. CASE OuterCheck(t) \/ Acquire(t) \/ CheckBuffer(t)
    BY <1>2 DEF OuterCheck, Acquire, CheckBuffer
  <1>3. CASE Wait(t) \/ WakeUp(t) \/ InnerBreak(t)
    BY <1>3 DEF Wait, WakeUp, InnerBreak
  <1>4. CASE Pop(t)
    <2>1. Head(serve_request_buffer) \in Conns /\ Tail(serve_request_buffer) \in Seq(Conns)
      BY <1>4, TailDistinct DEF Pop, OwnerInv
    <2> QED BY <1>4, <2>1 DEF Pop, PopFromBuffer
  <1>5. CASE Unread(t) \/ HeaderFails(t) \/ Close(t)
    BY <1>1, <1>5 DEF Unread, HeaderFails, Close, BusyPcs
  <1>6. CASE AnswerError(t) \/ AnswerPage(t)
    BY <1>6 DEF AnswerError, AnswerPage
  <1>7. CASE CountPage(t)
    <2>1. total_pages_returned' \in Nat
      BY <1>7 DEF CountPage
    <2> QED BY <1>7, <2>1 DEF CountPage
  <1>8. CASE CountBytes(t)
    <2>1. total_bytes_returned' \in Nat
      BY <1>8 DEF CountBytes
    <2> QED BY <1>8, <2>1 DEF CountBytes
  <1> QED BY <1>2, <1>3, <1>4, <1>5, <1>6, <1>7, <1>8 DEF ThreadStep

(* So do the clients, failures and spurious wakeups, *)
LEMMA EnvironmentTyping ==
  ASSUME IInv, Environment
  PROVE  TypeOK'
  <1> USE DEF IInv, TypeOK, Goto, ThreadPcs, MainPcs, bufferVars, statVars, fateVars,
              threadElsewhere, mainElsewhere, mainVars, portVars, commandVars
  <1>1. CASE \E t \in Threads : SpuriousWakeup(t)
    BY <1>1, BoundsAssumption DEF SpuriousWakeup
  <1>2. CASE AcceptFails
    BY <1>2 DEF AcceptFails
  <1>3. CASE \E c \in Conns \cup CommandConns : Connect(c)
    BY <1>3 DEF Connect
  <1> QED BY <1>1, <1>2, <1>3 DEF Environment

(* and main, which reads no chunk into a full array and pushes only connections. *)
LEMMA MainTyping ==
  ASSUME IInv, MainStep
  PROVE  TypeOK'
  <1> USE DEF IInv, TypeOK, Goto, MainPcs, bufferVars, statVars, fateVars, mainElsewhere,
              mainVars, portVars, commandVars
  <1>1. CASE \E t \in Threads : CreateThread(t)
    BY <1>1 DEF CreateThread, ThreadPcs
  <1>2. CASE StartPolling \/ Poll \/ Exit
    BY <1>2 DEF StartPolling, Poll, Ready, Exit
  <1>3. ASSUME EndCommand
        PROVE  /\ command_fd' \in CommandConns \cup {NoConn} /\ k' \in 0..MaxCommand
               /\ unread' \in [CommandConns -> Seq(ChunkKinds)]
    <2>1. <<>> \in Seq(ChunkKinds)
      OBVIOUS
    <2>2. unread' = [unread EXCEPT ![command_fd] = <<>>]
      BY <1>3 DEF EndCommand
    <2>3. unread' \in [CommandConns -> Seq(ChunkKinds)]
      BY <2>1, <2>2
    <2> QED BY <1>3, <2>3, BoundsAssumption DEF EndCommand
  <1>4. CASE RefuseCommand
    BY <1>3, <1>4 DEF RefuseCommand
  <1>5. CASE Stats
    BY <1>3, <1>5 DEF Stats
  <1>6. CASE ReadPart
    <2>1. command_fd \in CommandConns /\ unread[command_fd] \in Seq(ChunkKinds) \ {<<>>}
      BY <1>6 DEF ReadPart, CommandInv
    <2>2. Tail(unread[command_fd]) \in Seq(ChunkKinds)
      BY <2>1
    <2>3. unread' \in [CommandConns -> Seq(ChunkKinds)]
      BY <1>6, <2>2 DEF ReadPart
    <2>4. k' \in 0..MaxCommand
      BY <1>6, BoundsAssumption DEF ReadPart, TooBig
    <2> QED BY <1>6, <2>3, <2>4 DEF ReadPart
  <1>7. CASE ReadNothing \/ Shutdown
    BY <1>7 DEF ReadNothing, Shutdown
  <1>8. CASE Broadcast
    BY <1>8, BroadcastEffect DEF Broadcast
  <1>9. CASE AcceptCommand \/ AcceptServing
    BY <1>9 DEF AcceptCommand, AcceptServing
  <1>10. CASE Push
    <2>1. new_connection \in Conns
      BY <1>10 DEF Push, OwnerInv
    <2>2. serve_request_buffer' \in Seq(Conns)
      BY <1>10, <2>1 DEF Push
    <2> QED BY <1>10, <2>2, SignalEffect DEF Push
  <1> QED BY <1>1, <1>2, <1>4, <1>5, <1>6, <1>7, <1>8, <1>9, <1>10 DEF MainStep

-----------------------------------------------------------------------------
(* The places of connections. *)

(* A step that moves no connection keeps them, *)
LEMMA OwnerSame ==
  ASSUME OwnerInv,
         UNCHANGED <<serve_request_buffer, request_fd, new_connection, serving, closed, leaked>>,
         \A u \in Threads : pc'[u] \in BusyPcs <=> pc[u] \in BusyPcs,
         mainPc' = "push" => mainPc = "push"
  PROVE  OwnerInv'
  BY DEF OwnerInv, Queued, Ended, Elements, Distinct

(* and so does one of a thread that moves one. *)
LEMMA ThreadOwner ==
  ASSUME IInv, NEW t \in Threads, ThreadStep(t)
  PROVE  OwnerInv'
  <1> USE DEF Goto, bufferVars, statVars, fateVars, threadElsewhere, mainVars, portVars
  <1>1. pc \in [Threads -> ThreadPcs] /\ request_fd \in [Threads -> Conns \cup {NoConn}]
    BY DEF IInv, TypeOK
  <1>2. CASE OuterCheck(t) \/ Acquire(t) \/ CheckBuffer(t) \/ Wait(t) \/ WakeUp(t) \/ InnerBreak(t)
    <2>1. \A u \in Threads : pc'[u] \in BusyPcs <=> pc[u] \in BusyPcs
      BY <1>1, <1>2 DEF OuterCheck, Acquire, CheckBuffer, Wait, WakeUp, InnerBreak, BusyPcs
    <2> QED BY <1>2, <2>1, OwnerSame DEF IInv, OuterCheck, Acquire, CheckBuffer, Wait, WakeUp,
                                         InnerBreak
  <1>3. CASE AnswerError(t) \/ AnswerPage(t) \/ CountPage(t) \/ CountBytes(t)
    <2>1. \A u \in Threads : pc'[u] \in BusyPcs <=> pc[u] \in BusyPcs
      BY <1>1, <1>3 DEF AnswerError, AnswerPage, CountPage, CountBytes, BusyPcs
    <2> QED BY <1>3, <2>1, OwnerSame DEF IInv, AnswerError, AnswerPage, CountPage, CountBytes
  <1>4. CASE Pop(t)
    <2> DEFINE c == Head(serve_request_buffer)
    <2>1. /\ c \in Conns /\ c \in Queued
          /\ Distinct(serve_request_buffer)' /\ Queued' = Queued \ {c}
      <3>1. /\ serve_request_buffer \in Seq(Conns) /\ Distinct(serve_request_buffer)
            /\ serve_request_buffer # <<>> /\ serve_request_buffer' = Tail(serve_request_buffer)
        BY <1>4 DEF Pop, PopFromBuffer, IInv, TypeOK, OwnerInv
      <3>2. /\ c \in Conns /\ c \in Queued /\ Distinct(serve_request_buffer')
            /\ Elements(serve_request_buffer') = Queued \ {c}
        BY <3>1, TailDistinct DEF Queued
      <3> QED BY <3>2 DEF Queued, Distinct, Elements
    <2>2. /\ request_fd'[t] = c /\ pc'[t] \in BusyPcs
          /\ \A u \in Threads \ {t} : request_fd'[u] = request_fd[u] /\ pc'[u] = pc[u]
          /\ UNCHANGED <<new_connection, serving, closed, leaked, mainPc>>
      BY <1>1, <1>4 DEF Pop, BusyPcs
    <2> HIDE DEF c
    <2>3. c # NoConn
      BY <2>1, ClientAssumption
    <2> QED BY <2>1, <2>2, <2>3 DEF IInv, OwnerInv, Ended
  <1>5. CASE Unread(t) \/ HeaderFails(t) \/ Close(t)
    <2> DEFINE c == request_fd[t]
    <2>1. /\ request_fd'[t] = NoConn /\ pc'[t] \notin BusyPcs /\ pc[t] \in BusyPcs
          /\ \A u \in Threads \ {t} : request_fd'[u] = request_fd[u] /\ pc'[u] = pc[u]
          /\ UNCHANGED <<serve_request_buffer, new_connection, serving, mainPc>>
          /\ Ended' = Ended \cup {c}
      BY <1>1, <1>5 DEF Unread, HeaderFails, Close, BusyPcs, Ended
    <2>2. NoConn \notin Queued \cup Ended \cup serving
      BY ClientAssumption DEF IInv, TypeOK, Queued, Ended, Elements
    <2>3. UNCHANGED <<Queued, Distinct(serve_request_buffer)>>
      BY <2>1 DEF Queued, Elements, Distinct
    <2> QED BY <2>1, <2>2, <2>3 DEF IInv, OwnerInv
  <1> QED BY <1>2, <1>3, <1>4, <1>5 DEF ThreadStep

(* Main moves a connection from its port to its hand and on to the buffer. *)
LEMMA MainOwner ==
  ASSUME IInv, MainStep
  PROVE  OwnerInv'
  <1> USE DEF Goto, bufferVars, statVars, fateVars, mainElsewhere, mainVars, portVars
  <1>1. pc \in [Threads -> ThreadPcs] /\ request_fd \in [Threads -> Conns \cup {NoConn}]
    BY DEF IInv, TypeOK
  <1>2. CASE \E t \in Threads : CreateThread(t)
    <2>1. \A u \in Threads : pc'[u] \in BusyPcs <=> pc[u] \in BusyPcs
      BY <1>1, <1>2 DEF CreateThread, BusyPcs
    <2> QED BY <1>2, <2>1, OwnerSame DEF IInv, CreateThread
  <1>3. CASE StartPolling \/ Poll \/ Exit \/ RefuseCommand \/ ReadPart \/ ReadNothing
    BY <1>3, OwnerSame DEF IInv, StartPolling, Poll, Exit, RefuseCommand, ReadPart, ReadNothing
  <1>4. CASE Stats \/ Shutdown \/ AcceptCommand
    BY <1>4, OwnerSame DEF IInv, Stats, Shutdown, AcceptCommand
  <1>5. CASE Broadcast
    <2>1. \A u \in Threads : pc'[u] \in BusyPcs <=> pc[u] \in BusyPcs
      BY <1>1, <1>5, BroadcastEffect DEF Broadcast, BusyPcs
    <2> QED BY <1>5, <2>1, OwnerSame DEF IInv, Broadcast
  <1>6. CASE AcceptServing
    <2>1. CASE "serve" \in revents
      <3>1. PICK c \in serving : /\ new_connection' = c /\ serving' = serving \ {c}
                                 /\ mainPc' = "push"
        BY <1>6, <2>1 DEF AcceptServing
      <3>2. UNCHANGED <<serve_request_buffer, request_fd, closed, leaked, pc>>
        BY <1>6 DEF AcceptServing
      <3>3. c # NoConn
        BY ClientAssumption DEF IInv, TypeOK
      <3> QED BY <3>1, <3>2, <3>3 DEF IInv, OwnerInv, Queued, Ended, Elements, Distinct
    <2>2. CASE "serve" \notin revents
      BY <1>6, <2>2, OwnerSame DEF IInv, AcceptServing
    <2> QED BY <2>1, <2>2
  <1>7. CASE Push
    <2> DEFINE c == new_connection
    <2>1. /\ serve_request_buffer \in Seq(Conns) /\ Distinct(serve_request_buffer)
          /\ serve_request_buffer' = Append(serve_request_buffer, c)
          /\ c \in Conns /\ c \notin Elements(serve_request_buffer)
      BY <1>7 DEF Push, IInv, TypeOK, OwnerInv, Queued
    <2>2. Distinct(serve_request_buffer') /\ Elements(serve_request_buffer') = Queued \cup {c}
      BY <2>1, AppendDistinct DEF Queued
    <2>3. Distinct(serve_request_buffer)' /\ Queued' = Queued \cup {c}
      BY <2>2 DEF Queued, Distinct, Elements
    <2>4. \A u \in Threads : pc'[u] \in BusyPcs <=> pc[u] \in BusyPcs
      BY <1>1, <1>7, SignalEffect DEF Push, BusyPcs
    <2>5. /\ new_connection' = NoConn /\ mainPc' = "poll"
          /\ UNCHANGED <<request_fd, serving, closed, leaked>>
      BY <1>7 DEF Push
    <2>6. NoConn \notin (Queued \cup {c}) \cup Ended \cup serving
      BY <2>1, ClientAssumption DEF IInv, TypeOK, Queued, Ended, Elements
    <2> QED BY <2>1, <2>3, <2>4, <2>5, <2>6 DEF IInv, OwnerInv, Ended
  <1> QED BY <1>2, <1>3, <1>4, <1>5, <1>6, <1>7 DEF MainStep

(* A client brings a connection that is nowhere yet. *)
LEMMA EnvironmentOwner ==
  ASSUME IInv, Environment
  PROVE  OwnerInv'
  <1> USE DEF Goto, bufferVars, fateVars, mainElsewhere, mainVars, portVars
  <1>1. CASE \E t \in Threads : SpuriousWakeup(t)
    <2>1. \A u \in Threads : pc'[u] \in BusyPcs <=> pc[u] \in BusyPcs
      BY <1>1 DEF SpuriousWakeup, BusyPcs, IInv, TypeOK
    <2> QED BY <1>1, <2>1, OwnerSame DEF IInv, SpuriousWakeup
  <1>2. CASE AcceptFails
    BY <1>2, OwnerSame DEF IInv, AcceptFails
  <1>3. ASSUME NEW c \in Conns \cup CommandConns, Connect(c) PROVE OwnerInv'
    <2>1. CASE UNCHANGED serving
      BY <1>3, <2>1, OwnerSame DEF IInv, Connect
    <2>2. CASE ~UNCHANGED serving
      <3>1. /\ c \in Conns \ (serving \cup Ended \cup Queued) /\ c # new_connection
            /\ \A u \in Threads : request_fd[u] # c
            /\ serving' = serving \cup {c}
            /\ UNCHANGED <<serve_request_buffer, request_fd, new_connection, closed, leaked, pc,
                           mainPc>>
        BY <1>3, <2>2 DEF Connect, Queued, Ended
      <3> QED BY <3>1 DEF IInv, OwnerInv, Queued, Ended, Elements, Distinct
    <2> QED BY <2>1, <2>2
  <1> QED BY <1>1, <1>2, <1>3 DEF Environment

-----------------------------------------------------------------------------
(* The buffer's lock and what a thread knows of the buffer under it. *)

(* Nothing changes for threads outside the critical section. *)
LEMMA LockSame ==
  ASSUME MutexInv, EmptyInv, UNCHANGED <<serve_request_buffer, bufferLock>>,
         \A u \in Threads : pc'[u] = pc[u] \/ (pc[u] \notin HoldingPcs /\ pc'[u] \notin HoldingPcs
                                                /\ pc[u] # "done"),
         server_must_terminate => server_must_terminate',
         mainPc' = "broadcast" => mainPc = "broadcast" \/ server_must_terminate'
  PROVE  MutexInv' /\ EmptyInv'
  BY DEF MutexInv, EmptyInv, HoldingPcs

(* A thread enters the critical section when the lock is free, and leaves with it *)
(* only by ending.                                                               *)
LEMMA ThreadLock ==
  ASSUME IInv, NEW t \in Threads, ThreadStep(t)
  PROVE  MutexInv' /\ EmptyInv'
  <1> USE DEF Goto, bufferVars, threadElsewhere, mainVars
  <1>1. pc \in [Threads -> ThreadPcs] /\ MutexInv /\ EmptyInv /\ Nobody \notin Threads
    BY PoolAssumption DEF IInv, TypeOK
  <1>2. CASE OuterCheck(t) \/ AnswerError(t) \/ AnswerPage(t) \/ HeaderFails(t)
    BY <1>1, <1>2, LockSame DEF OuterCheck, AnswerError, AnswerPage, HeaderFails, HoldingPcs
  <1>3. CASE Unread(t) \/ CountPage(t) \/ CountBytes(t) \/ Close(t)
    BY <1>1, <1>3, LockSame DEF Unread, CountPage, CountBytes, Close, HoldingPcs
  <1>4. CASE Acquire(t) \/ CheckBuffer(t) \/ Wait(t)
    BY <1>1, <1>4 DEF Acquire, CheckBuffer, Wait, MutexInv, EmptyInv, HoldingPcs
  <1>5. CASE WakeUp(t) \/ InnerBreak(t) \/ Pop(t)
    BY <1>1, <1>5 DEF WakeUp, InnerBreak, Pop, MutexInv, EmptyInv, HoldingPcs
  <1> QED BY <1>2, <1>3, <1>4, <1>5 DEF ThreadStep

(* Main pushes when the lock is free, so not behind the back of a thread in "wait". *)
LEMMA MainLock ==
  ASSUME IInv, MainStep
  PROVE  MutexInv' /\ EmptyInv'
  <1> USE DEF Goto, bufferVars, mainElsewhere, mainVars
  <1>1. pc \in [Threads -> ThreadPcs] /\ MutexInv /\ EmptyInv /\ Nobody \notin Threads
    BY PoolAssumption DEF IInv, TypeOK
  <1>2. CASE \E t \in Threads : CreateThread(t)
    BY <1>1, <1>2, LockSame DEF CreateThread, HoldingPcs
  <1>3. CASE StartPolling \/ Poll \/ Exit \/ RefuseCommand \/ ReadPart \/ ReadNothing
    BY <1>1, <1>3, LockSame DEF StartPolling, Poll, Exit, RefuseCommand, ReadPart, ReadNothing
  <1>4. CASE Stats \/ Shutdown \/ AcceptCommand \/ AcceptServing
    BY <1>1, <1>4, LockSame DEF Stats, Shutdown, AcceptCommand, AcceptServing
  <1>5. CASE Broadcast
    BY <1>1, <1>5, BroadcastEffect, LockSame DEF Broadcast, HoldingPcs
  <1>6. CASE Push
    <2>1. \A u \in Threads : pc'[u] = pc[u] \/ (pc[u] = "waiting" /\ pc'[u] = "woken")
      BY <1>1, <1>6, SignalEffect DEF Push
    <2> QED BY <1>1, <1>6, <2>1 DEF Push, MutexInv, EmptyInv, HoldingPcs
  <1> QED BY <1>2, <1>3, <1>4, <1>5, <1>6 DEF MainStep

(* Nobody else takes or frees the lock. *)
LEMMA EnvironmentLock ==
  ASSUME IInv, Environment
  PROVE  MutexInv' /\ EmptyInv'
  <1> USE DEF Goto, bufferVars, mainElsewhere, mainVars
  <1>1. pc \in [Threads -> ThreadPcs] /\ MutexInv /\ EmptyInv
    BY DEF IInv, TypeOK
  <1>2. CASE \E t \in Threads : SpuriousWakeup(t)
    BY <1>1, <1>2, LockSame DEF SpuriousWakeup, HoldingPcs
  <1>3. CASE AcceptFails \/ \E c \in Conns \cup CommandConns : Connect(c)
    BY <1>1, <1>3, LockSame DEF AcceptFails, Connect
  <1> QED BY <1>2, <1>3 DEF Environment

-----------------------------------------------------------------------------
(* The statistics. *)

(* The counters stay as they are, *)
LEMMA StatSame ==
  ASSUME StatInv, StatsConsistent,
         UNCHANGED <<total_pages_returned, total_bytes_returned, stat_lock, report>>,
         \A u \in Threads : pc'[u] = "bytes" <=> pc[u] = "bytes"
  PROVE  StatInv' /\ StatsConsistent'
  BY DEF StatInv, StatsConsistent

(* or a thread changes both, one after the other, under stat_lock. *)
LEMMA ThreadStat ==
  ASSUME IInv, NEW t \in Threads, ThreadStep(t)
  PROVE  StatInv' /\ StatsConsistent'
  <1> USE DEF Goto, statVars, threadElsewhere, mainVars
  <1>1. /\ pc \in [Threads -> ThreadPcs] /\ StatInv /\ StatsConsistent /\ Nobody \notin Threads
        /\ total_pages_returned \in Nat /\ total_bytes_returned \in Nat
    BY PoolAssumption DEF IInv, TypeOK
  <1>2. CASE OuterCheck(t) \/ AnswerError(t) \/ AnswerPage(t) \/ HeaderFails(t) \/ Unread(t)
    BY <1>1, <1>2, StatSame DEF OuterCheck, AnswerError, AnswerPage, HeaderFails, Unread
  <1>3. CASE Acquire(t) \/ CheckBuffer(t) \/ Wait(t) \/ WakeUp(t) \/ InnerBreak(t)
    BY <1>1, <1>3, StatSame DEF Acquire, CheckBuffer, Wait, WakeUp, InnerBreak
  <1>4. CASE Pop(t) \/ Close(t)
    BY <1>1, <1>4, StatSame DEF Pop, Close
  <1>5. CASE CountPage(t) \/ CountBytes(t)
    <2>1. \A u \in Threads : pc'[u] = "bytes" <=> stat_lock' = u
      BY <1>1, <1>5 DEF CountPage, CountBytes, StatInv
    <2>2. total_pages_returned' = total_bytes_returned' + (IF stat_lock' = Nobody THEN 0 ELSE 1)
      BY <1>1, <1>5 DEF CountPage, CountBytes, StatInv
    <2>3. StatsConsistent'
      BY <1>1, <1>5 DEF CountPage, CountBytes, StatsConsistent
    <2> QED BY <2>1, <2>2, <2>3 DEF StatInv
  <1> QED BY <1>2, <1>3, <1>4, <1>5 DEF ThreadStep

(* Main reads them when the lock is free. *)
LEMMA MainStat ==
  ASSUME IInv, MainStep
  PROVE  StatInv' /\ StatsConsistent'
  <1> USE DEF Goto, statVars, mainElsewhere, mainVars
  <1>1. /\ pc \in [Threads -> ThreadPcs] /\ StatInv /\ StatsConsistent
        /\ total_pages_returned \in Nat /\ total_bytes_returned \in Nat
    BY DEF IInv, TypeOK
  <1>2. CASE \E t \in Threads : CreateThread(t)
    BY <1>1, <1>2, StatSame DEF CreateThread
  <1>3. CASE StartPolling \/ Poll \/ Exit \/ RefuseCommand \/ ReadPart \/ ReadNothing
    BY <1>1, <1>3, StatSame DEF StartPolling, Poll, Exit, RefuseCommand, ReadPart, ReadNothing
  <1>4. CASE Shutdown \/ AcceptCommand \/ AcceptServing
    BY <1>1, <1>4, StatSame DEF Shutdown, AcceptCommand, AcceptServing
  <1>5. CASE Broadcast
    BY <1>1, <1>5, BroadcastEffect, StatSame DEF Broadcast
  <1>6. CASE Push
    BY <1>1, <1>6, SignalEffect, StatSame DEF Push
  <1>7. CASE Stats
    BY <1>1, <1>7 DEF Stats, StatsLocked, StatInv, StatsConsistent
  <1> QED BY <1>2, <1>3, <1>4, <1>5, <1>6, <1>7 DEF MainStep

(* Nobody else touches them. *)
LEMMA EnvironmentStat ==
  ASSUME IInv, Environment
  PROVE  StatInv' /\ StatsConsistent'
  <1> USE DEF Goto, statVars, mainElsewhere, mainVars
  <1>1. pc \in [Threads -> ThreadPcs] /\ StatInv /\ StatsConsistent
    BY DEF IInv, TypeOK
  <1>2. CASE \E t \in Threads : SpuriousWakeup(t)
    BY <1>1, <1>2, StatSame DEF SpuriousWakeup
  <1>3. CASE AcceptFails \/ \E c \in Conns \cup CommandConns : Connect(c)
    BY <1>1, <1>3, StatSame DEF AcceptFails, Connect
  <1> QED BY <1>2, <1>3 DEF Environment

-----------------------------------------------------------------------------
(* The commands. *)

(* No command is read while k and the accepted connection stay. *)
LEMMA CommandSame ==
  ASSUME CommandInv, UNCHANGED <<command_fd, k, unread>>,
         commanding' \subseteq commanding, mainPc' = "command" => mainPc = "command"
  PROVE  CommandInv'
  BY DEF CommandInv, CommandIsOwn

(* Main counts what it reads, and starts from 0 with the next connection. *)
LEMMA MainCommand ==
  ASSUME IInv, MainStep
  PROVE  CommandInv'
  <1> USE DEF commandVars, portVars
  <1>1. /\ CommandInv /\ unread \in [CommandConns -> Seq(ChunkKinds)] /\ k \in Nat
        /\ commanding \subseteq CommandConns /\ command_fd \in CommandConns \cup {NoConn}
        /\ Chunks \in [CommandConns -> Seq(ChunkKinds)] /\ NoConn \notin CommandConns
    BY ClientAssumption DEF IInv, TypeOK
  <1>2. CASE (\E t \in Threads : CreateThread(t)) \/ StartPolling \/ Exit \/ Broadcast \/ Push
    BY <1>1, <1>2, CommandSame DEF CreateThread, StartPolling, Exit, Broadcast, Push, mainVars
  <1>3. CASE ReadNothing \/ Shutdown \/ AcceptServing
    BY <1>1, <1>3, CommandSame DEF ReadNothing, Shutdown, AcceptServing
  <1>4. CASE Poll
    BY <1>1, <1>4 DEF Poll, Ready, CommandInv, CommandIsOwn
  <1>5. CASE RefuseCommand \/ Stats
    <2>1. EndCommand /\ mainPc' = "accept" /\ UNCHANGED commanding
      BY <1>5 DEF RefuseCommand, Stats
    <2>2. \A c \in commanding : unread'[c] = unread[c]
      BY <1>1, <2>1 DEF EndCommand, CommandInv
    <2>3. NoConn \notin commanding
      BY <1>1
    <2> QED BY <1>1, <2>1, <2>2, <2>3 DEF EndCommand, CommandInv, CommandIsOwn
  <1>6. CASE ReadPart
    <2> DEFINE c == command_fd
    <2>1. /\ c \in CommandConns /\ unread[c] # <<>> /\ unread' = [unread EXCEPT ![c] = Tail(@)]
          /\ k' = k + 1 /\ mainPc' = "accept" /\ UNCHANGED <<command_fd, commanding>>
      BY <1>1, <1>6 DEF ReadPart, CommandInv
    <2>2. Len(unread'[c]) = Len(unread[c]) - 1 /\ Len(unread[c]) \in Nat /\ Len(Chunks[c]) \in Nat
      BY <1>1, <2>1
    <2>3. k = Len(Chunks[c]) - Len(unread[c])
      BY <1>1, <2>1 DEF CommandInv, CommandIsOwn
    <2>4. k' = Len(Chunks[c]) - Len(unread'[c])
      BY <1>1, <2>1, <2>2, <2>3
    <2>5. \A d \in commanding : d # c /\ unread'[d] = Chunks[d]
      BY <1>1, <2>1 DEF CommandInv
    <2> QED BY <1>1, <2>1, <2>4, <2>5 DEF CommandInv, CommandIsOwn
  <1>7. CASE AcceptCommand
    <2>1. CASE "command" \in revents /\ command_fd = NoConn
      <3>1. PICK c \in commanding : command_fd' = c /\ commanding' = commanding \ {c}
        BY <1>7, <2>1 DEF AcceptCommand
      <3>2. UNCHANGED <<k, unread>> /\ mainPc' = "serving" /\ c # NoConn
        BY <1>1, <1>7 DEF AcceptCommand
      <3>3. k = 0 /\ unread[c] = Chunks[c] /\ Len(Chunks[c]) \in Nat
        BY <1>1, <2>1 DEF CommandInv, CommandIsOwn
      <3> QED BY <1>1, <3>1, <3>2, <3>3 DEF CommandInv, CommandIsOwn
    <2>2. CASE ~("command" \in revents /\ command_fd = NoConn)
      BY <1>1, <1>7, <2>2, CommandSame DEF AcceptCommand
    <2> QED BY <2>1, <2>2
  <1> QED BY <1>2, <1>3, <1>4, <1>5, <1>6, <1>7 DEF MainStep

(* Threads do not touch the command connection. *)
LEMMA ThreadCommand ==
  ASSUME IInv, NEW t \in Threads, ThreadStep(t)
  PROVE  CommandInv'
  <1>1. UNCHANGED threadElsewhere
    BY DEF ThreadStep, OuterCheck, Acquire, CheckBuffer, Wait, WakeUp, InnerBreak, Pop, Unread,
           AnswerError, AnswerPage, HeaderFails, CountPage, CountBytes, Close, threadElsewhere
  <1> QED BY <1>1, CommandSame DEF IInv, commandVars, portVars, mainVars, threadElsewhere

(* A client that connects has sent nothing that was read before. *)
LEMMA EnvironmentCommand ==
  ASSUME IInv, Environment
  PROVE  CommandInv'
  <1> USE DEF commandVars, portVars, mainVars, IInv
  <1>1. CASE AcceptFails \/ \E t \in Threads : SpuriousWakeup(t)
    BY <1>1, CommandSame DEF SpuriousWakeup, AcceptFails
  <1>2. CASE \E c \in Conns \cup CommandConns : Connect(c)
    BY <1>2 DEF Connect, CommandInv, CommandIsOwn
  <1> QED BY <1>1, <1>2 DEF Environment

-----------------------------------------------------------------------------
(* One signal per connection. *)

Awake == At({"woken", "check", "inner"})

(* The threads awake can be counted, before a step *)
LEMMA AwakeFinite == IsFiniteSet(Awake) /\ Cardinality(Awake) \in Nat
  <1>1. Awake \in SUBSET Threads
    BY DEF Awake, At
  <1> QED BY <1>1, PoolAssumption, FS_Subset, FS_CardinalityType

(* and after it. *)
LEMMA AwakeFiniteNext == IsFiniteSet(Awake') /\ Cardinality(Awake') \in Nat
  <1>1. Awake' \in SUBSET Threads
    BY DEF Awake, At
  <1> QED BY <1>1, PoolAssumption, FS_Subset, FS_CardinalityType

(* Nothing is lost while threads only wake up. *)
LEMMA IdleSame ==
  ASSUME IInv, UNCHANGED serve_request_buffer, server_must_terminate => server_must_terminate',
         \A u \in Threads : pc'[u] = "waiting" => pc[u] = "waiting",
         \A u \in Threads : pc[u] \in {"woken", "check", "inner"} =>
                              pc'[u] \in {"woken", "check", "inner"}
  PROVE  NoIdleThread'
  <1>1. Awake \in SUBSET Awake'
    BY DEF Awake, At
  <1>2. Cardinality(Awake) <= Cardinality(Awake')
    BY <1>1, AwakeFiniteNext, FS_Subset
  <1>3. Len(serve_request_buffer) \in Nat
    BY DEF IInv, TypeOK
  <1>4. At({"waiting"})' # {} => At({"waiting"}) # {}
    BY DEF At
  <1> QED BY <1>2, <1>3, <1>4, AwakeFinite, AwakeFiniteNext DEF IInv, NoIdleThread, Awake

(* Nobody is needed for an empty buffer. *)
LEMMA IdleEmpty ==
  ASSUME serve_request_buffer' = <<>>
  PROVE  NoIdleThread'
  BY AwakeFiniteNext DEF NoIdleThread, Awake

(* A thread that pops or goes back to sleep takes its own connection, or none, away. *)
LEMMA ThreadIdle ==
  ASSUME IInv, NEW t \in Threads, ThreadStep(t)
  PROVE  NoIdleThread'
  <1> USE DEF Goto, bufferVars, threadElsewhere
  <1>1. pc \in [Threads -> ThreadPcs]
    BY DEF IInv, TypeOK
  <1>2. CASE OuterCheck(t) \/ AnswerError(t) \/ AnswerPage(t) \/ HeaderFails(t) \/ Unread(t)
    BY <1>1, <1>2, IdleSame DEF OuterCheck, AnswerError, AnswerPage, HeaderFails, Unread
  <1>3. CASE Acquire(t) \/ CountPage(t) \/ CountBytes(t) \/ Close(t)
    BY <1>1, <1>3, IdleSame DEF Acquire, CountPage, CountBytes, Close
  <1>4. CASE CheckBuffer(t)
    <2>1. CASE serve_request_buffer = <<>>
      BY <1>4, <2>1, IdleEmpty DEF CheckBuffer
    <2>2. CASE serve_request_buffer # <<>>
      BY <1>1, <1>4, <2>2, IdleSame DEF CheckBuffer
    <2> QED BY <2>1, <2>2
  <1>5. CASE Wait(t)
    BY <1>5, IdleEmpty DEF Wait, IInv, EmptyInv
  <1>6. CASE WakeUp(t) \/ InnerBreak(t)
    <2>1. CASE server_must_terminate
      BY <1>6, <2>1 DEF WakeUp, InnerBreak, NoIdleThread
    <2>2. CASE ~server_must_terminate
      BY <1>1, <1>6, <2>2, IdleSame DEF WakeUp, InnerBreak
    <2> QED BY <2>1, <2>2
  <1>7. CASE Pop(t)
    <2>1. Awake' = Awake \ {t} /\ t \in Awake /\ At({"waiting"})' = At({"waiting"})
      BY <1>1, <1>7 DEF Pop, Awake, At
    <2>2. Cardinality(Awake') = Cardinality(Awake) - 1
      BY <2>1, AwakeFinite, FS_RemoveElement
    <2>3. /\ serve_request_buffer \in Seq(Conns) /\ serve_request_buffer # <<>>
          /\ serve_request_buffer' = Tail(serve_request_buffer)
      BY <1>7 DEF Pop, PopFromBuffer, IInv, TypeOK
    <2>4. /\ Len(serve_request_buffer') = Len(serve_request_buffer) - 1
          /\ Len(serve_request_buffer) \in Nat
      BY <2>3
    <2>5. UNCHANGED server_must_terminate
      BY <1>7 DEF Pop
    <2> QED BY <2>1, <2>2, <2>4, <2>5, AwakeFinite, AwakeFiniteNext DEF IInv, NoIdleThread, Awake
  <1> QED BY <1>2, <1>3, <1>4, <1>5, <1>6, <1>7 DEF ThreadStep

(* Main wakes a thread for the connection it pushes, if one sleeps. *)
LEMMA MainIdle ==
  ASSUME IInv, MainStep
  PROVE  NoIdleThread'
  <1> USE DEF Goto, bufferVars, mainElsewhere
  <1>1. pc \in [Threads -> ThreadPcs]
    BY DEF IInv, TypeOK
  <1>2. CASE \E t \in Threads : CreateThread(t)
    BY <1>1, <1>2, IdleSame DEF CreateThread
  <1>3. CASE StartPolling \/ Poll \/ Exit \/ RefuseCommand \/ ReadPart \/ ReadNothing
    BY <1>1, <1>3, IdleSame DEF StartPolling, Poll, Exit, RefuseCommand, ReadPart, ReadNothing
  <1>4. CASE Stats \/ Shutdown \/ AcceptCommand \/ AcceptServing
    BY <1>1, <1>4, IdleSame DEF Stats, Shutdown, AcceptCommand, AcceptServing
  <1>5. CASE Broadcast
    BY <1>5 DEF Broadcast, NoIdleThread, IInv, EmptyInv
  <1>6. CASE Push
    <2>1. CASE pc' = pc /\ At({"waiting"}) = {}
      BY <2>1 DEF NoIdleThread, At
    <2>2. CASE \E w \in Threads : pc[w] = "waiting" /\ pc' = [pc EXCEPT ![w] = "woken"]
      <3>1. PICK w \in Threads : pc[w] = "waiting" /\ pc' = [pc EXCEPT ![w] = "woken"]
        BY <2>2
      <3>2. Awake' = Awake \cup {w} /\ w \notin Awake /\ At({"waiting"}) # {}
        BY <1>1, <3>1 DEF Awake, At
      <3>3. Cardinality(Awake') = Cardinality(Awake) + 1
        BY <3>2, AwakeFinite, FS_AddElement
      <3>4. /\ serve_request_buffer \in Seq(Conns) /\ new_connection \in Conns
            /\ serve_request_buffer' = Append(serve_request_buffer, new_connection)
        BY <1>6 DEF Push, IInv, TypeOK, OwnerInv
      <3>5. /\ Len(serve_request_buffer') = Len(serve_request_buffer) + 1
            /\ Len(serve_request_buffer) \in Nat
        BY <3>4
      <3>6. UNCHANGED server_must_terminate
        BY <1>6 DEF Push
      <3> QED BY <3>2, <3>3, <3>5, <3>6, AwakeFinite, AwakeFiniteNext DEF IInv, NoIdleThread, Awake
    <2> QED BY <1>1, <1>6, <2>1, <2>2, SignalEffect DEF Push
  <1> QED BY <1>2, <1>3, <1>4, <1>5, <1>6 DEF MainStep

(* A spurious wakeup only adds to the threads awake. *)
LEMMA EnvironmentIdle ==
  ASSUME IInv, Environment
  PROVE  NoIdleThread'
  <1> USE DEF Goto, bufferVars, mainElsewhere
  <1>1. pc \in [Threads -> ThreadPcs]
    BY DEF IInv, TypeOK
  <1>2. CASE \E t \in Threads : SpuriousWakeup(t)
    BY <1>1, <1>2, IdleSame DEF SpuriousWakeup
  <1>3. CASE AcceptFails \/ \E c \in Conns \cup CommandConns : Connect(c)
    BY <1>1, <1>3, IdleSame DEF AcceptFails, Connect
  <1> QED BY <1>2, <1>3 DEF Environment

-----------------------------------------------------------------------------
(* The invariant holds of a server that has just started, *)
LEMMA InitInv == Init => IInv
  <1> SUFFICES ASSUME Init PROVE IInv
    OBVIOUS
  <1>1. TypeOK
    <2>1. /\ pc \in [Threads -> ThreadPcs] /\ request_fd \in [Threads -> Conns \cup {NoConn}]
          /\ mainPc \in MainPcs /\ serve_request_buffer \in Seq(Conns)
      BY DEF Init, ThreadPcs, MainPcs
    <2>2. k \in 0..MaxCommand /\ spurious \in 0..MaxSpurious
      BY BoundsAssumption DEF Init
    <2>3. unread \in [CommandConns -> Seq(ChunkKinds)]
      BY ClientAssumption DEF Init
    <2>4. report \in [pages : Nat, bytes : Nat]
      BY DEF Init
    <2> QED BY <2>1, <2>2, <2>3, <2>4 DEF Init, TypeOK
  <1>2. MutexInv /\ EmptyInv /\ StatInv /\ StatsConsistent
    BY PoolAssumption DEF Init, MutexInv, EmptyInv, StatInv, StatsConsistent, HoldingPcs
  <1>3. CommandInv
    BY DEF Init, CommandInv, CommandIsOwn
  <1>4. OwnerInv
    BY DEF Init, OwnerInv, Queued, Ended, Elements, Distinct, BusyPcs
  <1>5. NoIdleThread
    BY DEF Init, NoIdleThread, At
  <1> QED BY <1>1, <1>2, <1>3, <1>4, <1>5 DEF IInv

(* every step keeps it, *)
LEMMA NextInv == IInv /\ [Next]_vars => IInv'
  <1> SUFFICES ASSUME IInv, [Next]_vars PROVE IInv'
    OBVIOUS
  <1>1. CASE \E t \in Threads : ThreadStep(t)
    BY <1>1, ThreadTyping, ThreadLock, ThreadStat, ThreadCommand, ThreadOwner, ThreadIdle
    DEF IInv
  <1>2. CASE MainStep
    BY <1>2, MainTyping, MainLock, MainStat, MainCommand, MainOwner, MainIdle DEF IInv
  <1>3. CASE Environment
    BY <1>3, EnvironmentTyping, EnvironmentLock, EnvironmentStat, EnvironmentCommand,
       EnvironmentOwner, EnvironmentIdle DEF IInv
  <1>4. CASE UNCHANGED vars
    <2> USE <1>4 DEF vars, bufferVars, statVars, mainVars, commandVars, portVars, fateVars, IInv
    <2>1. TypeOK'
      BY DEF TypeOK
    <2>2. MutexInv' /\ EmptyInv' /\ NoIdleThread'
      BY LockSame, IdleSame
    <2>3. StatInv' /\ StatsConsistent' /\ CommandInv' /\ OwnerInv'
      BY StatSame, CommandSame, OwnerSame
    <2> QED BY <2>1, <2>2, <2>3
  <1> QED BY <1>1, <1>2, <1>3, <1>4 DEF Next

(* so it always holds. *)
THEOREM Invariance == Spec => []IInv
  BY InitInv, NextInv, PTL DEF Spec

(* Every variable keeps its type; in particular k never passes MAX_COMMAND_SIZE   *)
(* (webserver.cpp:134,148), whatever a client sends.                              *)
THEOREM Typing == Spec => []TypeOK
  <1>1. IInv => TypeOK
    BY DEF IInv
  <1> QED BY <1>1, Invariance, PTL

(* One signal per connection (webserver.cpp:216) leaves no thread asleep that is *)
(* needed, however many threads there are and however many of them have died.    *)
THEOREM SignalsSuffice == Spec => []NoIdleThread
  <1>1. IInv => NoIdleThread
    BY DEF IInv
  <1> QED BY <1>1, Invariance, PTL

(* An answer to STATS (webserver.cpp:173) shows both counters of serve_thread.cpp *)
(* or neither changed.                                                            *)
THEOREM Stat == Spec => []StatsConsistent
  <1>1. IInv => StatsConsistent
    BY DEF IInv
  <1> QED BY <1>1, Invariance, PTL

(* A command is made of what its own connection sent (webserver.cpp:143,186). *)
THEOREM Commands == Spec => []CommandIsOwn
  <1>1. IInv => CommandIsOwn
    BY DEF IInv, CommandInv
  <1> QED BY <1>1, Invariance, PTL

-----------------------------------------------------------------------------
(* The server implements ServeInOrder. *)

(* The two ways to write the connections in the buffer. *)
LEMMA QueuedIsQueued == ASSUME TypeOK PROVE SO!Queued = Queued
  <1>1. serve_request_buffer \in Seq(Conns)
    BY DEF TypeOK
  <1>2. DOMAIN serve_request_buffer = 1..Len(serve_request_buffer)
    BY <1>1
  <1>3. SO!Queued = {serve_request_buffer[i] : i \in 1..Len(serve_request_buffer)}
    BY <1>2 DEF SO!Queued
  <1> QED BY <1>3 DEF Queued, Elements

(* What a thread does is to take up the oldest connection, to end the one it has, *)
(* or nothing that ServeInOrder sees.                                             *)
LEMMA ThreadImplements ==
  ASSUME IInv, NEW t \in Threads, ThreadStep(t)
  PROVE  [SO!Next]_SO!vars
  <1> USE DEF Goto, bufferVars, statVars, fateVars, threadElsewhere, mainVars, portVars
  <1>1. /\ pc \in [Threads -> ThreadPcs] /\ request_fd \in [Threads -> Conns \cup {NoConn}]
        /\ serve_request_buffer \in Seq(Conns)
    BY DEF IInv, TypeOK
  <1>2. CASE OuterCheck(t) \/ Acquire(t) \/ CheckBuffer(t) \/ Wait(t) \/ WakeUp(t) \/ InnerBreak(t)
    BY <1>2 DEF OuterCheck, Acquire, CheckBuffer, Wait, WakeUp, InnerBreak, SO!vars
  <1>3. CASE AnswerError(t) \/ AnswerPage(t) \/ CountPage(t) \/ CountBytes(t)
    BY <1>3 DEF AnswerError, AnswerPage, CountPage, CountBytes, SO!vars
  <1>4. CASE Pop(t)
    <2>1. /\ serve_request_buffer # <<>> /\ serve_request_buffer' = Tail(serve_request_buffer)
          /\ request_fd' = [request_fd EXCEPT ![t] = Head(serve_request_buffer)]
          /\ UNCHANGED <<closed, leaked>> /\ pc[t] \notin BusyPcs
      BY <1>4 DEF Pop, PopFromBuffer, BusyPcs
    <2>2. request_fd[t] = NoConn /\ Head(serve_request_buffer) \in Queued
      BY <1>1, <2>1, TailDistinct DEF IInv, OwnerInv, Queued
    <2>3. Head(serve_request_buffer) \notin SO!Busy \cup Ended
      BY <2>2 DEF IInv, OwnerInv, SO!Busy
    <2>4. SO!TakeUp(t)
      BY <2>1, <2>2, <2>3 DEF SO!TakeUp, Ended
    <2> QED BY <2>4 DEF SO!Next
  <1>5. CASE Unread(t) \/ HeaderFails(t) \/ Close(t)
    <2>1. request_fd[t] # NoConn
      BY <1>5 DEF Unread, HeaderFails, Close, BusyPcs, IInv, OwnerInv
    <2>2. SO!End(t)
      BY <1>5, <2>1 DEF Unread, HeaderFails, Close, SO!End
    <2> QED BY <2>2 DEF SO!Next
  <1> QED BY <1>2, <1>3, <1>4, <1>5 DEF ThreadStep

(* What main does is to add a connection that is new to it. *)
LEMMA MainImplements ==
  ASSUME IInv, MainStep \/ Environment
  PROVE  [SO!Next]_SO!vars
  <1> USE DEF bufferVars, fateVars, mainElsewhere
  <1>1. CASE MainStep /\ ~Push
    <2>1. UNCHANGED <<serve_request_buffer, request_fd, closed, leaked>>
      BY <1>1 DEF MainStep, CreateThread, StartPolling, Poll, RefuseCommand, ReadPart,
                  ReadNothing, Stats, Shutdown, Broadcast, AcceptCommand, AcceptServing, Exit
    <2> QED BY <2>1 DEF SO!vars, SO!Busy
  <1>2. CASE Push
    <2>1. /\ new_connection \in Conns /\ new_connection \notin Queued \cup SO!Busy \cup Ended
          /\ serve_request_buffer' = Append(serve_request_buffer, new_connection)
          /\ UNCHANGED <<request_fd, closed, leaked>>
      BY <1>2 DEF Push, IInv, TypeOK, OwnerInv, SO!Busy
    <2>2. new_connection \notin SO!Queued
      BY <2>1, QueuedIsQueued DEF IInv
    <2> QED BY <2>1, <2>2 DEF SO!Next, SO!Accept, SO!Busy, Ended
  <1>3. CASE Environment
    <2>1. UNCHANGED <<serve_request_buffer, request_fd, closed, leaked>>
      BY <1>3 DEF Environment, AcceptFails, SpuriousWakeup, Connect
    <2> QED BY <2>1 DEF SO!vars, SO!Busy
  <1> QED BY <1>1, <1>2, <1>3

(* Connections are taken up in the order of their acceptance, each once and by one *)
(* thread (serve_thread.cpp:38-59, webserver.cpp:206-217).                         *)
THEOREM Refinement == Spec => ImplementsServeInOrder
  <1>1. Init => SO!Init
    BY DEF Init, SO!Init, SO!Busy
  <1>2. IInv /\ [Next]_vars => [SO!Next]_SO!vars
    <2> SUFFICES ASSUME IInv, [Next]_vars PROVE [SO!Next]_SO!vars
      OBVIOUS
    <2>1. CASE UNCHANGED vars
      BY <2>1 DEF vars, bufferVars, fateVars, SO!vars
    <2> QED BY <2>1, ThreadImplements, MainImplements DEF Next
  <1> QED BY <1>1, <1>2, Invariance, PTL DEF Spec, ImplementsServeInOrder, SO!Spec
=============================================================================
