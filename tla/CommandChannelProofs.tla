------------------------ MODULE CommandChannelProofs ------------------------
(***************************************************************************)
(* Commands on their way, for any clients, any sizes of the arrays and of  *)
(* the read buffer, any number of directories, workers, failures at the    *)
(* start and deaths: no array is written past its end, and what a client   *)
(* gets is the answer to its own command.                                  *)
(*                                                                         *)
(* The types (TypesInv) need to know where the index i of the start is and *)
(* how many directories a worker can still read (Fits), and how much room  *)
(* is left in the arrays of main (Room).                                   *)
(*                                                                         *)
(* For the answers, a command is followed through the two pipes            *)
(* (Exchange): main has asked and jobExecutor has not taken the command    *)
(* from its input (Asked); jobExecutor is at work, and the text printed is *)
(* what main has received and the Rest, in the pipe and in the buffer of   *)
(* cout (AtWork); the "<" line is printed too (Ended), and then a "<" may  *)
(* have been read and kept back (Cut).  Between two commands nothing is    *)
(* left of an answer, in the pipe or in the buffer.  In all of this the    *)
(* input of jobExecutor holds one command word at most (Keys), that of     *)
(* this client; what else it holds, arguments, is not obeyed.              *)
(***************************************************************************)
EXTENDS CommandChannel, JobExecutorStartProofs, FiniteSetTheorems, WellFoundedInduction

(* A worker that has not read all of its directories. *)
Unread == {"none", "exec", "openR", "dirs"}

(* What StartTypeOK needs to last: i is an index where it is used as one, got can still *)
(* grow, and before there are workers nothing was read.                                 *)
Fits ==
  /\ jePc \in Blocked => i \in Workers
  /\ \A w \in Workers : workerPc[w] \in Unread => got[w] < range
  /\ jePc \in {"none", "make"} =>
       \A w \in Workers : workerPc[w] \in {"none", "exec", "openR", "dead"} /\ got[w] = 0
  /\ monitorPc \in {"crawl", "init"} => jePc = "none"

-----------------------------------------------------------------------------
(* The directories of a worker are those whose number is w modulo numWorkers: range of *)
(* them at most, and the j-th is w + (j - 1) * numWorkers, as Replace sends them.      *)
LEMMA RangeIsPositive == range \in Nat /\ range > 0
<1> SUFFICES ASSUME range = 0 PROVE FALSE
  BY RangeSuffices
<1> QED BY RangeSuffices, NumWorkers, StartAssumption, SMT

LEMMA ShareSize ==
  ASSUME NEW w \in Workers
  PROVE  LET c == Cardinality({d \in Dirs : d % numWorkers = w})
         IN  /\ c \in 0..range
             /\ \A j \in 1..c : w + (j - 1) * numWorkers \in Dirs
<1> DEFINE S == {d \in Dirs : d % numWorkers = w}
           c == Cardinality(S)
<1>0. numWorkers \in Nat \ {0} /\ w \in Nat /\ dirfilesize \in Nat
  BY NumWorkers DEF Workers
<1>1. IsFiniteSet(S) /\ c \in Nat
  <2>1. IsFiniteSet(Dirs)
    BY <1>0, FS_Interval DEF Dirs
  <2> QED BY <2>1, FS_Subset, FS_CardinalityType
<1>2. ASSUME NEW j \in 1..c
      PROVE  w + (j - 1) * numWorkers < dirfilesize /\ w + (j - 1) * numWorkers \in Nat
  <2>0. j - 1 \in Nat /\ (j - 1) * numWorkers \in Nat
    BY <1>0, <1>1, SMT
  <2> SUFFICES ASSUME w + (j - 1) * numWorkers >= dirfilesize PROVE FALSE
    BY <1>0, <2>0
  <2> DEFINE T == 0..(j - 2)
             q == [d \in S |-> d \div numWorkers]
  <2>1. \A d \in S : /\ d \in Nat /\ d < dirfilesize /\ d \div numWorkers \in Nat
                     /\ d = numWorkers * (d \div numWorkers) + w
    <3> SUFFICES ASSUME NEW d \in Dirs, d % numWorkers = w
                 PROVE  /\ d \in Nat /\ d < dirfilesize /\ d \div numWorkers \in Nat
                        /\ d = numWorkers * (d \div numWorkers) + w
      OBVIOUS
    <3>1. d \in Nat /\ d < dirfilesize
      BY <1>0 DEF Dirs
    <3> QED BY <1>0, <3>1, DivMod
  <2>2. ASSUME NEW d \in S PROVE d \div numWorkers \in T
    <3> DEFINE p == d \div numWorkers
    <3>1. p \in Nat /\ numWorkers * p < (j - 1) * numWorkers /\ numWorkers * p = p * numWorkers
      BY <1>0, <2>0, <2>1, SMT
    <3> HIDE DEF p
    <3>2. ~(j - 1 < p) /\ p # j - 1
      <4>1. j - 1 < p => (j - 1) * numWorkers + numWorkers <= p * numWorkers
        BY <1>0, <2>0, <3>1, Strides
      <4> QED BY <1>0, <2>0, <3>1, <4>1
    <3>3. p \in T
      BY <2>0, <3>1, <3>2
    <3> QED BY <3>3 DEF p
  <2>3. q \in [S -> T]
    BY <2>2
  <2>4. IsFiniteSet(T) /\ Cardinality(T) < c
    <3>1. IsFiniteSet(T) /\ Cardinality(T) = j - 1
      <4>1. j \in Int /\ j >= 1 /\ j - 2 \in Int
        BY <1>1
      <4>2. IsFiniteSet(T) /\ Cardinality(T) = IF 0 <= j - 2 THEN (j - 2) - 0 + 1 ELSE 0
        BY <4>1, FS_Interval
      <4> QED BY <4>1, <4>2
    <3> QED BY <1>1, <3>1
  <2>5. \E x, y \in S : x # y /\ q[x] = q[y]
    <3> HIDE DEF S, T, q
    <3> QED BY <1>1, <2>3, <2>4, FS_PigeonHole DEF c
  <2> QED BY <2>1, <2>5
<1>3. c <= range
  <2> SUFFICES ASSUME c >= 1 PROVE c <= range
    BY <1>1, RangeIsPositive
  <2>1. (c - 1) * numWorkers < dirfilesize /\ (c - 1) * numWorkers \in Nat
    <3>1. c \in 1..c /\ (c - 1) * numWorkers \in Nat
      BY <1>0, <1>1, SMT
    <3> HIDE DEF c
    <3> QED BY <1>0, <1>2, <3>1
  <2>2. ~(range < c - 1) /\ range # c - 1
    <3>1. range < c - 1 => range * numWorkers + numWorkers <= (c - 1) * numWorkers
      BY <1>0, <1>1, RangeIsPositive, Strides
    <3>2. range * numWorkers \in Nat
      BY <1>0, RangeIsPositive, SMT
    <3> QED BY <1>0, <1>1, <2>1, <3>1, <3>2, RangeSuffices
  <2> QED BY <1>1, <2>2, RangeIsPositive
<1>4. c \in 0..range /\ \A j \in 1..c : w + (j - 1) * numWorkers \in Dirs
  <2> HIDE DEF c
  <2> QED BY <1>0, <1>1, <1>2, <1>3, RangeIsPositive DEF Dirs
<1> QED BY <1>4

-----------------------------------------------------------------------------
(* The steps of the start keep the types of its variables. *)
LEMMA StartStutter ==
  ASSUME StartTypeOK, Fits, UNCHANGED startVars
  PROVE  StartTypeOK' /\ Fits'
<1>1. /\ UNCHANGED <<monitorPc, msg, jobExecutorReadyForCommands, jePc, i, k, worker_is_dead>>
      /\ UNCHANGED <<a_worker_died, fifos, fromJob, workerPc, sent, got, zombies, content>>
      /\ UNCHANGED <<deaths, startFailures>>
  BY DEF startVars, monitorVars, loopVars, deadVars, pipeVars, boundVars
<1> QED BY <1>1 DEF StartTypeOK, Fits

LEMMA MonitorStarts ==
  ASSUME StartTypeOK, Fits, CrawlFinishes \/ init_jobExecutor \/ ForkJobExecutorFails \/ ReadReady
  PROVE  StartTypeOK' /\ Fits'
<1> USE DEF monitorVars, loopVars, deadVars, pipeVars, boundVars
<1>1. CASE CrawlFinishes BY <1>1 DEF CrawlFinishes, StartTypeOK, Fits
<1>2. CASE init_jobExecutor
  <2>1. StartTypeOK'
    BY <1>2 DEF init_jobExecutor, StartTypeOK
  <2> QED BY <1>2, <2>1 DEF init_jobExecutor, Fits, Blocked
<1>3. CASE ForkJobExecutorFails
  <2>1. startFailures' \in 0..MaxStartFailures
    <3>1. startFailures \in 0..MaxStartFailures
      BY DEF StartTypeOK
    <3> QED BY <1>3, <3>1, StartAssumption DEF ForkJobExecutorFails
  <2>2. StartTypeOK'
    BY <1>3, <2>1 DEF ForkJobExecutorFails, StartTypeOK
  <2> QED BY <1>3, <2>2 DEF ForkJobExecutorFails, Fits
<1>4. CASE ReadReady
  BY <1>4 DEF ReadReady, StartTypeOK, Fits
<1> QED BY <1>1, <1>2, <1>3, <1>4

LEMMA IndexTypes ==
  /\ Workers \subseteq 0..dirfilesize /\ 0 \in 0..dirfilesize /\ numWorkers \in 0..dirfilesize
  /\ \A w \in Workers : w + 1 \in 0..dirfilesize /\ w + 1 \in 0..numWorkers
  /\ \A j \in 0..dirfilesize : j < numWorkers => j \in Workers
BY NumWorkers DEF Workers

LEMMA FifoTypes ==
  /\ \A w \in Workers : R(w) \in Fifos /\ A(w) \in Fifos
  /\ \A w \in 0..numWorkers : PipesBelow(w) \subseteq Fifos
BY NumWorkers DEF Workers, Fifos, PipesBelow

LEMMA FitsKept ==
  ASSUME Fits, jePc # "none", jePc' \notin {"none", "make"}, UNCHANGED <<monitorPc, got>>,
         jePc' \in Blocked => i' \in Workers,
         \A w \in Workers : workerPc'[w] \in Unread => workerPc[w] \in Unread
  PROVE  Fits'
BY DEF Fits

LEMMA JobExecutorStarts ==
  ASSUME StartTypeOK, Fits, jobExecutorStarts \/ ForkWorkerFails \/ ChildDiedAtStart
  PROVE  StartTypeOK' /\ Fits'
<1>0. /\ i \in 0..dirfilesize /\ k \in 0..numWorkers /\ fifos \subseteq Fifos
      /\ workerPc \in [Workers -> WorkerPcs] /\ got \in [Workers -> 0..range]
      /\ zombies \subseteq Workers /\ worker_is_dead \subseteq Workers
      /\ deaths \in 0..MaxDeaths /\ startFailures \in 0..MaxStartFailures
  BY DEF StartTypeOK
<1>1. ASSUME UNCHANGED <<monitorVars, pipeVars, content, deaths>>,
             i' \in 0..dirfilesize, k' \in 0..numWorkers, fifos' \subseteq Fifos,
             workerPc' \in [Workers -> WorkerPcs], zombies' \subseteq Workers,
             worker_is_dead' \subseteq Workers, a_worker_died' \in BOOLEAN,
             startFailures' \in 0..MaxStartFailures
      PROVE  StartTypeOK'
  BY <1>1 DEF StartTypeOK, monitorVars, pipeVars
<1>2. ASSUME UNCHANGED <<monitorVars, pipeVars, content, deaths>>,
             i' \in 0..dirfilesize, k' \in 0..numWorkers, fifos' \subseteq Fifos,
             zombies' \subseteq Workers, worker_is_dead' \subseteq Workers, a_worker_died' \in BOOLEAN,
             startFailures' \in 0..MaxStartFailures,
             Kill(Workers), jePc # "none", jePc' = "wait"
      PROVE  StartTypeOK' /\ Fits'
  <2>1. StartTypeOK'
    BY <1>1, <1>2, Killed
  <2>2. \A w \in Workers : workerPc'[w] \in Unread => workerPc'[w] = workerPc[w]
    BY <1>2, Killed DEF Unread
  <2> QED BY <1>2, <2>1, <2>2, FitsKept DEF Blocked, pipeVars, monitorVars
<1>3. CASE MakeWorker
  <2>1. i \in Workers /\ jePc = "make" /\ workerPc' = [workerPc EXCEPT ![i] = "exec"]
    BY <1>0, <1>3, IndexTypes DEF MakeWorker
  <2>2. StartTypeOK'
    <3>1. /\ i' \in 0..dirfilesize /\ k' \in 0..numWorkers
          /\ workerPc' \in [Workers -> WorkerPcs]
          /\ startFailures' \in 0..MaxStartFailures
      BY <1>0, <1>3, <2>1, IndexTypes DEF MakeWorker, WorkerPcs
    <3>2. fifos' \subseteq Fifos
      BY <1>0, <1>3, <2>1, FifoTypes DEF MakeWorker
    <3>3. /\ zombies' \subseteq Workers /\ worker_is_dead' \subseteq Workers /\ a_worker_died' \in BOOLEAN
          /\ UNCHANGED <<monitorVars, pipeVars, content, deaths>>
      BY <1>3 DEF MakeWorker, elsewhere, deadVars, StartTypeOK
    <3> QED BY <1>1, <3>1, <3>2, <3>3
  <2>3. \A w \in Workers : workerPc'[w] \in {"none", "exec", "openR", "dead"} /\ got'[w] = 0
    BY <1>0, <1>3, <2>1 DEF MakeWorker, Fits, elsewhere, pipeVars
  <2>4. jePc' = "make" /\ UNCHANGED monitorPc
    BY <1>3 DEF MakeWorker, elsewhere, monitorVars
  <2> QED BY <2>1, <2>2, <2>3, <2>4, RangeIsPositive DEF Fits, Blocked
<1>4. CASE FifoExists
  <2>0. i \in Workers /\ R(i) \in Fifos /\ PipesBelow(i) \subseteq Fifos
    BY <1>0, <1>4, IndexTypes, FifoTypes DEF FifoExists
  <2>1. fifos' \subseteq Fifos /\ Kill(Workers) /\ jePc' = "wait"
    BY <1>0, <1>4 DEF FifoExists, GiveUp
  <2> QED BY <1>0, <1>2, <1>4, <2>1 DEF FifoExists, elsewhere, deadVars, StartTypeOK
<1>5. CASE ForkWorkerFails
  <2>0. i \in Workers /\ R(i) \in Fifos /\ A(i) \in Fifos
    BY <1>0, <1>5, IndexTypes, FifoTypes DEF ForkWorkerFails
  <2>1. StartTypeOK'
    <3>1. /\ i' \in 0..dirfilesize /\ k' \in 0..numWorkers
          /\ workerPc' \in [Workers -> WorkerPcs]
          /\ startFailures' \in 0..MaxStartFailures
      BY <1>0, <1>5, IndexTypes, StartAssumption DEF ForkWorkerFails
    <3>2. fifos' \subseteq Fifos
      BY <1>0, <1>5, <2>0 DEF ForkWorkerFails
    <3>3. /\ zombies' \subseteq Workers /\ worker_is_dead' \subseteq Workers /\ a_worker_died' \in BOOLEAN
          /\ UNCHANGED <<monitorVars, pipeVars, content, deaths>>
      BY <1>5 DEF ForkWorkerFails, elsewhere, deadVars, StartTypeOK
    <3> QED BY <1>1, <3>1, <3>2, <3>3
  <2> QED BY <1>5, <2>1 DEF ForkWorkerFails, Fits, Blocked, elsewhere, pipeVars, monitorVars
<1>6. ASSUME NEW pc, pc # "none", NEW bound, NEW next, LoopEnds(pc, bound, next),
             next \notin Blocked \cup {"none", "make"}
      PROVE  StartTypeOK' /\ Fits'
  <2>1. /\ jePc = pc /\ i' = 0 /\ jePc' = next
        /\ UNCHANGED <<k, fifos, workerPc, startFailures, elsewhere>>
    BY <1>6 DEF LoopEnds
  <2>2. UNCHANGED <<monitorVars, monitorPc, pipeVars, got, content, deaths, zombies, worker_is_dead, a_worker_died>>
    BY <2>1 DEF elsewhere, monitorVars, deadVars, pipeVars
  <2>3. StartTypeOK'
    <3>1. a_worker_died' \in BOOLEAN
      BY <2>2 DEF StartTypeOK
    <3> QED BY <1>0, <1>1, <2>1, <2>2, <3>1, IndexTypes
  <2> QED BY <1>6, <2>1, <2>2, <2>3, FitsKept
<1>7. ASSUME NEW pc, pc # "none", NEW blocked \in Blocked, NEW name, Block(pc, blocked, name)
      PROVE  StartTypeOK' /\ Fits'
  <2>0. i \in Workers /\ jePc = pc /\ UNCHANGED <<i, k, startFailures>> /\ UNCHANGED elsewhere
    BY <1>0, <1>7, IndexTypes DEF Block
  <2>1. /\ UNCHANGED <<monitorVars, monitorPc, pipeVars, got, content, deaths, zombies>>
        /\ UNCHANGED <<worker_is_dead, a_worker_died>> /\ a_worker_died \in BOOLEAN
    BY <2>0 DEF elsewhere, monitorVars, deadVars, pipeVars, StartTypeOK
  <2>2. CASE GiveUp(Fifos)
    BY <1>0, <1>2, <1>7, <2>0, <2>1, <2>2 DEF GiveUp
  <2>3. CASE jePc' = blocked /\ UNCHANGED <<fifos, workerPc>>
    <3>1. StartTypeOK'
      BY <1>0, <1>1, <2>0, <2>1, <2>3
    <3> QED BY <1>7, <2>0, <2>1, <2>3, <3>1, FitsKept DEF Blocked
  <2> QED BY <1>7, <2>2, <2>3 DEF Block
<1>8. ASSUME NEW pc, pc \notin Blocked \cup {"none", "make"}, NEW blocked \in Blocked, NEW wpc,
             NEW next \in WorkerPcs, next \in Unread => wpc \in Unread, Meet(pc, blocked, wpc, next)
      PROVE  StartTypeOK' /\ Fits'
  <2>0. /\ i \in Workers /\ i' = i + 1 /\ jePc = blocked /\ jePc' = pc /\ workerPc[i] = wpc
        /\ workerPc' = [workerPc EXCEPT ![i] = next]
        /\ UNCHANGED <<k, fifos, startFailures>> /\ UNCHANGED elsewhere
    BY <1>8 DEF Meet, Fits
  <2>1. /\ UNCHANGED <<monitorVars, monitorPc, pipeVars, got, content, deaths, zombies>>
        /\ UNCHANGED <<worker_is_dead, a_worker_died>> /\ a_worker_died \in BOOLEAN
    BY <2>0 DEF elsewhere, monitorVars, deadVars, pipeVars, StartTypeOK
  <2>2. workerPc' \in [Workers -> WorkerPcs] /\ i' \in 0..dirfilesize
    BY <1>0, <1>8, <2>0, IndexTypes
  <2>3. \A w \in Workers : workerPc'[w] \in Unread => workerPc[w] \in Unread
    BY <1>0, <1>8, <2>0
  <2>4. StartTypeOK'
    BY <1>0, <1>1, <2>0, <2>1, <2>2
  <2> QED BY <1>8, <2>0, <2>1, <2>3, <2>4, FitsKept DEF Blocked
<1>9. CASE OpenRequests
  <2>1. CASE Block("openR", "blockedR", R(i))
    BY <1>7, <2>1 DEF Blocked
  <2>2. CASE Meet("openR", "blockedR", "openR", "dirs")
    BY <1>8, <2>2 DEF Blocked, WorkerPcs, Unread
  <2> QED BY <1>9, <2>1, <2>2 DEF OpenRequests
<1>10. CASE OpenAnswers
  <2>1. CASE Block("openA", "blockedA", A(i))
    BY <1>7, <2>1 DEF Blocked
  <2>2. CASE Meet("openA", "blockedA", "openA", "loop")
    BY <1>8, <2>2 DEF Blocked, WorkerPcs, Unread
  <2> QED BY <1>10, <2>1, <2>2 DEF OpenAnswers
<1>11. CASE AllMade \/ AllRequestsOpen \/ AllDealtOut \/ SayReady
  BY <1>6, <1>11 DEF AllMade, AllRequestsOpen, AllDealtOut, SayReady, Blocked
<1>12. CASE distribute_directories_to_workers
  <2> DEFINE w == IF k >= numWorkers THEN 0 ELSE k
             m == Message(i)
  <2>1. w \in Workers /\ i \in Dirs /\ w + 1 \in 0..numWorkers /\ i + 1 \in 0..dirfilesize
    BY <1>0, <1>12, NumWorkers DEF distribute_directories_to_workers, Workers, Dirs
  <2>2. m \in [dir : Dirs, last : BOOLEAN]
    BY <2>1 DEF Message
  <2>3. /\ sent' = IF workerPc[w] = "dead" THEN sent ELSE [sent EXCEPT ![w] = Append(@, m)]
        /\ k' = w + 1 /\ i' = i + 1 /\ jePc = "send" /\ jePc' = "send"
        /\ UNCHANGED <<monitorPc, msg, jobExecutorReadyForCommands, worker_is_dead, a_worker_died>>
        /\ UNCHANGED <<fifos, workerPc, got, zombies, content, deaths, startFailures>>
    BY <1>12 DEF distribute_directories_to_workers, monitorVars, deadVars, boundVars
  <2> HIDE DEF w, m
  <2>4. sent[w] \in Seq([dir : Dirs, last : BOOLEAN])
    BY <2>1 DEF StartTypeOK
  <2>5. /\ Append(sent[w], m) \in Seq([dir : Dirs, last : BOOLEAN])
        /\ Len(Append(sent[w], m)) = Len(sent[w]) + 1 /\ Len(sent[w]) \in Nat
    BY <2>2, <2>4, AppendProperties, LenProperties
  <2>6. /\ sent' \in [Workers -> Seq([dir : Dirs, last : BOOLEAN])]
        /\ \A v \in Workers : got[v] <= Len(sent'[v])
    <3>1. sent \in [Workers -> Seq([dir : Dirs, last : BOOLEAN])]
      BY DEF StartTypeOK
    <3>2. sent' \in [Workers -> Seq([dir : Dirs, last : BOOLEAN])]
      BY <2>1, <2>3, <2>5, <3>1
    <3>3. ASSUME NEW v \in Workers PROVE got[v] <= Len(sent'[v])
      <4>1. got[v] <= Len(sent[v]) /\ got[v] \in Int
        <5>1. got[v] \in 0..range
          BY <1>0
        <5>2. got[v] <= Len(sent[v])
          BY DEF StartTypeOK
        <5> QED BY <5>1, <5>2, RangeIsPositive
      <4>2. sent'[v] = sent[v] \/ (v = w /\ sent'[v] = Append(sent[w], m))
        BY <2>1, <2>3, <3>1
      <4> QED BY <2>5, <4>1, <4>2
    <3> QED BY <3>2, <3>3
  <2>7. StartTypeOK'
    BY <2>1, <2>3, <2>6 DEF StartTypeOK
  <2> QED BY <2>3, <2>7 DEF Fits, Blocked
<1>13. CASE WaitForWorkers
  BY <1>13 DEF WaitForWorkers, elsewhere, monitorVars, deadVars, pipeVars, StartTypeOK, Fits, Blocked
<1>14. CASE ChildDiedAtStart
  <2>1. CASE jePc \in Blocked
    <3>1. /\ UNCHANGED <<monitorVars, i, k, pipeVars, content, deaths, startFailures>>
          /\ jePc # "none" /\ jePc' = "wait" /\ fifos' \subseteq Fifos /\ Kill(Workers)
          /\ zombies' \subseteq Workers /\ worker_is_dead' \subseteq Workers /\ a_worker_died' \in BOOLEAN
      BY <1>0, <1>14, <2>1 DEF ChildDiedAtStart, GiveUp, boundVars, Blocked
    <3> QED BY <1>0, <1>2, <3>1
  <2>2. CASE jePc \notin Blocked
    <3>0. /\ UNCHANGED <<monitorVars, monitorPc, i, k, pipeVars, got, content, deaths, startFailures>>
          /\ UNCHANGED <<jePc, fifos, workerPc>>
          /\ zombies' \subseteq Workers /\ worker_is_dead' \subseteq Workers /\ a_worker_died' \in BOOLEAN
      BY <1>0, <1>14, <2>2 DEF ChildDiedAtStart, boundVars, monitorVars, pipeVars
    <3>1. StartTypeOK'
      BY <1>0, <1>1, <3>0
    <3> QED BY <3>0, <3>1 DEF Fits
  <2> QED BY <2>1, <2>2
<1> QED BY <1>3, <1>4, <1>5, <1>9, <1>10, <1>11, <1>12, <1>13, <1>14 DEF jobExecutorStarts

LEMMA WorkersStart ==
  ASSUME StartTypeOK, Fits, NEW w \in Workers, WorkerStarts(w) \/ ExecFails(w) \/ WorkerDies(w)
  PROVE  StartTypeOK' /\ Fits'
<1> DEFINE First == {"none", "exec", "openR", "dead"}
<1>0. /\ fifos \subseteq Fifos /\ zombies \subseteq Workers
      /\ workerPc \in [Workers -> WorkerPcs] /\ got \in [Workers -> 0..range]
      /\ deaths \in 0..MaxDeaths /\ startFailures \in 0..MaxStartFailures
      /\ MaxDeaths \in Nat /\ MaxStartFailures \in Nat
  BY StartAssumption DEF StartTypeOK
<1>1. UNCHANGED aside
  BY DEF WorkerStarts, Exec, ReadDirectory, NoMoreDirectories, parse_subdirectories, ExecFails,
         WorkerDies
<1>2. UNCHANGED <<monitorPc, msg, jobExecutorReadyForCommands, jePc, i, k, worker_is_dead, a_worker_died, content>>
  BY <1>1 DEF aside, monitorVars, loopVars, deadVars
<1>3. ASSUME UNCHANGED pipeVars, fifos' \subseteq Fifos, zombies' \subseteq Workers,
             workerPc' \in [Workers -> WorkerPcs], deaths' \in 0..MaxDeaths,
             startFailures' \in 0..MaxStartFailures,
             \A v \in Workers : /\ workerPc'[v] \in Unread => workerPc[v] \in Unread
                                /\ workerPc[v] \in First => workerPc'[v] \in First
      PROVE  StartTypeOK' /\ Fits'
  <2>1. StartTypeOK'
    BY <1>2, <1>3 DEF StartTypeOK, pipeVars
  <2> QED BY <1>2, <1>3, <2>1 DEF Fits, pipeVars
<1>4. ASSUME NEW pc \in WorkerPcs, Becomes(w, pc), UNCHANGED <<pipeVars, fifos, startFailures>>,
             deaths' \in 0..MaxDeaths, pc \in Unread => workerPc[w] \in Unread,
             workerPc[w] \in First => pc \in First
      PROVE  StartTypeOK' /\ Fits'
  <2>1. workerPc' = [workerPc EXCEPT ![w] = pc] /\ zombies' \subseteq Workers
    BY <1>0, <1>4 DEF Becomes
  <2> QED BY <1>0, <1>3, <1>4, <2>1
<1>5. CASE Exec(w)
  <2>1. PICK pc \in {"openR", "dead"} : Becomes(w, pc)
    BY <1>5 DEF Exec
  <2>2. workerPc[w] = "exec" /\ UNCHANGED <<pipeVars, fifos, startFailures, deaths>>
    BY <1>5 DEF Exec, boundVars
  <2> QED BY <1>0, <1>4, <2>1, <2>2 DEF WorkerPcs, Unread
<1>6. CASE NoMoreDirectories(w)
  <2>1. workerPc[w] = "dirs" /\ Becomes(w, "dead") /\ UNCHANGED <<pipeVars, fifos, startFailures, deaths>>
    BY <1>6 DEF NoMoreDirectories, boundVars
  <2> QED BY <1>0, <1>4, <2>1 DEF WorkerPcs, Unread
<1>7. CASE parse_subdirectories(w)
  <2>1. PICK pc \in {"openA", "dead", "endless"} : Becomes(w, pc)
    BY <1>7 DEF parse_subdirectories
  <2>2. workerPc[w] = "parse" /\ UNCHANGED <<pipeVars, fifos, startFailures, deaths>>
    BY <1>7 DEF parse_subdirectories, boundVars
  <2> QED BY <1>0, <1>4, <2>1, <2>2 DEF WorkerPcs, Unread
<1>8. CASE WorkerDies(w)
  <2>1. Becomes(w, "dead") /\ UNCHANGED <<pipeVars, fifos, startFailures>> /\ deaths' \in 0..MaxDeaths
    BY <1>0, <1>8 DEF WorkerDies
  <2> QED BY <1>4, <2>1 DEF WorkerPcs, Unread
<1>9. CASE ExecFails(w)
  <2>1. /\ UNCHANGED pipeVars /\ fifos' \subseteq Fifos /\ deaths' \in 0..MaxDeaths
        /\ startFailures' \in 0..MaxStartFailures /\ Kill(0..w)
    BY <1>0, <1>9 DEF ExecFails
  <2>2. zombies' \subseteq Workers
    <3>1. 0..w \subseteq Workers
      BY NumWorkers DEF Workers
    <3>2. zombies' \subseteq zombies \cup 0..w
      BY <1>9 DEF ExecFails
    <3> QED BY <1>0, <3>1, <3>2
  <2>3. /\ workerPc' \in [Workers -> WorkerPcs]
        /\ \A v \in Workers : \/ workerPc'[v] = workerPc[v]
                              \/ workerPc'[v] = "dead"
                              \/ workerPc'[v] = "deaf" /\ workerPc[v] \in {"openA", "loop"}
    BY <2>1, Killed
  <2> QED BY <1>3, <2>1, <2>2, <2>3 DEF Unread
<1>10. CASE ReadDirectory(w)
  <2> DEFINE pc == IF sent[w][got'[w]].last \/ got'[w] = range THEN "parse" ELSE "dirs"
  <2>1. /\ workerPc[w] = "dirs" /\ got[w] < Len(sent[w]) /\ got' = [got EXCEPT ![w] = @ + 1]
        /\ UNCHANGED <<fifos, sent, deaths, startFailures>> /\ Becomes(w, pc)
    BY <1>10 DEF ReadDirectory, boundVars
  <2>2. got[w] \in Nat /\ range \in Nat /\ got[w] < range /\ got'[w] = got[w] + 1 /\ Len(sent[w]) \in Nat
    <3>1. got[w] \in 0..range /\ got[w] < range /\ range \in Nat
      BY <1>0, <2>1, RangeIsPositive DEF Fits, Unread
    <3>2. sent[w] \in Seq([dir : Dirs, last : BOOLEAN])
      BY DEF StartTypeOK
    <3> QED BY <1>0, <2>1, <3>1, <3>2, LenProperties
  <2>3. /\ workerPc' = [workerPc EXCEPT ![w] = pc] /\ zombies' \subseteq Workers
        /\ workerPc' \in [Workers -> WorkerPcs]
    BY <1>0, <2>1 DEF Becomes, WorkerPcs
  <2>4. got' \in [Workers -> 0..range] /\ \A v \in Workers : got'[v] <= Len(sent[v])
    <3>1. got'[w] \in 0..range /\ got'[w] <= Len(sent[w])
      BY <2>1, <2>2
    <3>2. \A v \in Workers : got[v] <= Len(sent[v])
      BY DEF StartTypeOK
    <3> QED BY <1>0, <2>1, <3>1, <3>2
  <2>5. StartTypeOK'
    BY <1>0, <1>2, <2>1, <2>3, <2>4 DEF StartTypeOK
  <2>6. jePc \notin {"none", "make"}
    BY <2>1 DEF Fits
  <2>7. ASSUME NEW v \in Workers, workerPc'[v] \in Unread
        PROVE  got'[v] < range
    <3>1. CASE v = w
      <4>1. workerPc'[w] = pc
        BY <1>0, <2>3
      <4>2. got'[w] # range
        BY <2>7, <3>1, <4>1 DEF Unread
      <4> QED BY <2>2, <3>1, <4>2
    <3>2. CASE v # w
      BY <1>0, <2>1, <2>3, <2>7, <3>2 DEF Fits, Unread
    <3> QED BY <3>1, <3>2
  <2> QED BY <1>2, <2>5, <2>6, <2>7 DEF Fits
<1> QED BY <1>5, <1>6, <1>7, <1>8, <1>9, <1>10 DEF WorkerStarts

LEMMA StartStep ==
  ASSUME StartTypeOK, Fits, StartNext
  PROVE  StartTypeOK' /\ Fits'
<1>1. CASE JobExecutorDies
  <2>1. /\ UNCHANGED <<monitorPc, msg, jobExecutorReadyForCommands, i, k, worker_is_dead, a_worker_died>>
        /\ UNCHANGED <<fifos, workerPc, sent, got, zombies, content, startFailures>>
        /\ jePc # "none" /\ jePc' = "gone"
    BY <1>1 DEF JobExecutorDies, monitorVars, deadVars, pipeVars
  <2>2. deaths' \in 0..MaxDeaths
    <3>1. deaths \in 0..MaxDeaths
      BY DEF StartTypeOK
    <3> QED BY <1>1, <3>1, StartAssumption DEF JobExecutorDies
  <2>3. StartTypeOK'
    BY <2>1, <2>2 DEF StartTypeOK
  <2> QED BY <2>1, <2>3, FitsKept DEF Blocked
<1> QED BY <1>1, MonitorStarts, JobExecutorStarts, WorkersStart DEF StartNext

-----------------------------------------------------------------------------
(* The same for the steps of the channel. *)

JePcs == {"none", "gone", "exit", "hung"} \cup Starting \cup Serving
BackT == back \in {"ready", "route"}

LEMMA MessageTypes ==
  ASSUME NEW w \in Workers
  PROVE  /\ ReplacementMessages(w) \in Seq([dir : Dirs, last : BOOLEAN])
         /\ Len(ReplacementMessages(w)) \in 0..range
<1> DEFINE c == Cardinality({d \in Dirs : d % numWorkers = w})
           M == [dir : Dirs, last : BOOLEAN]
           f == [j \in 1..c |-> Message(w + (j - 1) * numWorkers)]
<1>1. c \in 0..range /\ \A j \in 1..c : w + (j - 1) * numWorkers \in Dirs
  BY ShareSize
<1>2. c \in Nat
  BY <1>1, RangeIsPositive
<1>3. \A d \in Dirs : Message(d) \in M
  BY DEF Message
<1>4. f \in [1..c -> M]
  BY <1>1, <1>3
<1>5. ReplacementMessages(w) = f
  BY DEF ReplacementMessages
<1> HIDE DEF c, f
<1>6. f \in Seq(M) /\ Len(f) = c
  <2>1. f \in Seq(M)
    BY <1>2, <1>4, SeqDef
  <2>2. DOMAIN f = 1..c /\ DOMAIN f = 1..Len(f) /\ Len(f) \in Nat
    BY <1>4, <2>1, LenProperties
  <2> QED BY <1>2, <2>1, <2>2
<1> QED BY <1>1, <1>5, <1>6

LEMMA Kept ==
  ASSUME StartTypeOK, Fits,
         UNCHANGED <<monitorPc, msg, jobExecutorReadyForCommands, i, k, fifos, sent, got, content>>,
         UNCHANGED <<deaths, startFailures>>, workerPc' \in [Workers -> WorkerPcs],
         worker_is_dead' \subseteq Workers, a_worker_died' \in BOOLEAN, zombies' \subseteq Workers,
         jePc # "none", jePc' \notin {"none", "make"} \cup Blocked,
         \A w \in Workers : workerPc'[w] \in Unread => workerPc[w] \in Unread
  PROVE  StartTypeOK' /\ Fits'
<1>1. StartTypeOK'
  BY DEF StartTypeOK
<1> QED BY <1>1, FitsKept

LEMMA LoopStarts ==
  ASSUME StartTypeOK, Fits, BackT, Loop
  PROVE  StartTypeOK' /\ Fits' /\ jePc' \in JePcs
<1> USE DEF JePcs, Serving, Blocked
<1>0. /\ workerPc \in [Workers -> WorkerPcs] /\ worker_is_dead \subseteq Workers
      /\ a_worker_died \in BOOLEAN /\ zombies \subseteq Workers
  BY DEF StartTypeOK
<1>1. ASSUME UNCHANGED <<monitorVars, i, k, fifos, pipeVars, content, boundVars, workerPc, zombies, worker_is_dead>>,
             a_worker_died' \in BOOLEAN,
             jePc # "none", jePc' \in Serving \cup {"exit"}
      PROVE  StartTypeOK' /\ Fits' /\ jePc' \in JePcs
  <2>1. /\ UNCHANGED <<monitorPc, msg, jobExecutorReadyForCommands, i, k, fifos, sent, got, content>>
        /\ UNCHANGED <<deaths, startFailures, workerPc>>
        /\ workerPc' \in [Workers -> WorkerPcs] /\ worker_is_dead' \subseteq Workers /\ zombies' \subseteq Workers
    BY <1>0, <1>1 DEF monitorVars, pipeVars, boundVars
  <2> QED BY <1>1, <2>1, Kept
<1>2. CASE AskForCommand
  <2>1. UNCHANGED <<mainOnly, worker_is_dead, workerPc, pipeVars, zombies>>
    BY <1>2 DEF AskForCommand
  <2>2. jePc # "none" /\ jePc' \in {"read", "replace", "exit"} /\ a_worker_died' \in BOOLEAN
    BY <1>0, <1>2 DEF AskForCommand
  <2> QED BY <1>1, <2>1, <2>2 DEF mainOnly
<1>3. CASE TakeCommand
  <2>1. UNCHANGED <<mainOnly, worker_is_dead, workerPc, pipeVars, zombies>>
    BY <1>3 DEF TakeCommand
  <2>2. jePc # "none" /\ jePc' \in {"replace", "route"} /\ a_worker_died' \in BOOLEAN
    BY <1>3 DEF TakeCommand
  <2> QED BY <1>1, <2>1, <2>2 DEF mainOnly
<1>4. CASE EndCommand
  <2>1. UNCHANGED <<mainOnly, worker_is_dead, workerPc, pipeVars, zombies>>
    BY <1>4 DEF EndCommand
  <2>2. jePc # "none" /\ jePc' \in {"replace", "ready"} /\ a_worker_died' \in BOOLEAN
    BY <1>4 DEF EndCommand
  <2> QED BY <1>1, <2>1, <2>2 DEF mainOnly
<1>5. CASE SkipBlank \/ Route \/ TakeWord \/ EnoughWords \/ EndOfWords \/ IgnoreLine \/ Work
  <2>1. UNCHANGED kept
    BY <1>5 DEF SkipBlank, Route, TakeWord, EnoughWords, EndOfWords, IgnoreLine, Work
  <2>2. UNCHANGED <<mainOnly, worker_is_dead, a_worker_died, workerPc, pipeVars, zombies>>
    BY <2>1 DEF kept, deadVars
  <2>3. jePc # "none" /\ jePc' \in {"read", "words", "keyword", "exit", "ignore", "end", "work"}
    <3>1. CASE Route
      <4>1. jePc' \in {"exit", "words", "keyword", "ignore"}
        BY <3>1, Zenon DEF Route
      <4> QED BY <3>1, <4>1 DEF Route
    <3> QED BY <1>5, <3>1 DEF SkipBlank, TakeWord, EnoughWords, EndOfWords, IgnoreLine, Work
  <2> QED BY <1>0, <1>1, <2>2, <2>3 DEF mainOnly
<1>6. CASE Replace
  <2>1. /\ UNCHANGED <<monitorPc, msg, jobExecutorReadyForCommands, i, k, fifos, content>>
        /\ UNCHANGED <<deaths, startFailures, a_worker_died, zombies>>
        /\ jePc \in {"replace", "work"}
    BY <1>6 DEF Replace, mainOnly, monitorVars, boundVars
  <2>2. CASE jePc' = "hung" /\ UNCHANGED <<worker_is_dead, workerPc, pipeVars>>
    BY <1>0, <2>1, <2>2, Kept DEF pipeVars
  <2>3. CASE ~(jePc' = "hung" /\ UNCHANGED <<worker_is_dead, workerPc, pipeVars>>)
    <3>1. /\ jePc' = IF jePc = "replace" THEN back ELSE "work"
          /\ worker_is_dead' = {}
          /\ workerPc' = [w \in Workers |-> IF w \in worker_is_dead THEN "loop" ELSE workerPc[w]]
          /\ sent' = [w \in Workers |-> IF w \in worker_is_dead THEN ReplacementMessages(w) ELSE sent[w]]
          /\ got' = [w \in Workers |-> IF w \in worker_is_dead THEN Len(ReplacementMessages(w)) ELSE got[w]]
      BY <1>6, <2>3 DEF Replace
    <3>2. jePc' \in {"ready", "route", "work"}
      BY <2>1, <3>1 DEF BackT
    <3>3. workerPc' \in [Workers -> WorkerPcs]
      BY <1>0, <3>1 DEF WorkerPcs
    <3>4. sent' \in [Workers -> Seq([dir : Dirs, last : BOOLEAN])]
      <4>1. sent \in [Workers -> Seq([dir : Dirs, last : BOOLEAN])]
        BY DEF StartTypeOK
      <4> QED BY <3>1, <4>1, MessageTypes
    <3>5. got' \in [Workers -> 0..range] /\ \A w \in Workers : got'[w] <= Len(sent'[w])
      <4>1. got \in [Workers -> 0..range] /\ \A w \in Workers : got[w] <= Len(sent[w])
        BY DEF StartTypeOK
      <4>2. ASSUME NEW w \in Workers PROVE got'[w] <= Len(sent'[w])
        <5>1. CASE w \in worker_is_dead
          BY <3>1, <5>1, MessageTypes, RangeIsPositive
        <5>2. CASE w \notin worker_is_dead
          BY <3>1, <4>1, <5>2
        <5> QED BY <5>1, <5>2
      <4> QED BY <3>1, <4>1, <4>2, MessageTypes
    <3>6. StartTypeOK'
      BY <2>1, <3>1, <3>3, <3>4, <3>5 DEF StartTypeOK
    <3>7. \A w \in Workers : workerPc'[w] \in Unread => workerPc[w] \in Unread /\ got'[w] = got[w]
      BY <3>1 DEF Unread
    <3> QED BY <2>1, <3>2, <3>6, <3>7 DEF Fits
  <2> QED BY <2>2, <2>3
<1>7. CASE Exit
  <2>1. /\ UNCHANGED <<monitorPc, msg, jobExecutorReadyForCommands, i, k, sent, got, content>>
        /\ UNCHANGED <<deaths, startFailures, worker_is_dead, a_worker_died>>
        /\ jePc = "exit" /\ jePc' = "gone" /\ fifos' = {} /\ zombies' = {}
        /\ workerPc' = [w \in Workers |-> "dead"]
    BY <1>7 DEF Exit, monitorVars, boundVars, pipeVars, deadVars
  <2>2. workerPc' \in [Workers -> WorkerPcs]
    BY <2>1 DEF WorkerPcs
  <2>3. StartTypeOK'
    BY <2>1, <2>2 DEF StartTypeOK
  <2>4. \A w \in Workers : workerPc'[w] = "dead"
    BY <2>1
  <2> QED BY <2>1, <2>3, <2>4, FitsKept DEF Unread
<1> QED BY <1>2, <1>3, <1>4, <1>5, <1>6, <1>7 DEF Loop

LEMMA InterruptedStarts ==
  ASSUME StartTypeOK, Fits, Interrupted
  PROVE  StartTypeOK' /\ Fits' /\ jePc' \in JePcs
<1> USE DEF JePcs, Serving, Blocked
<1>1. UNCHANGED <<mainOnly, workerPc, pipeVars>> /\ TakeNote /\ a_worker_died' \in BOOLEAN
  BY DEF Interrupted, handle_child_termination, CommandInterrupted, WordsInterrupted,
         KeywordInterrupted, LineInterrupted
<1>2. jePc \in Serving /\ jePc' \in Serving
  BY DEF Interrupted, handle_child_termination, CommandInterrupted, WordsInterrupted,
         KeywordInterrupted, LineInterrupted
<1>3. /\ workerPc \in [Workers -> WorkerPcs] /\ worker_is_dead \subseteq Workers /\ zombies \subseteq Workers
  BY DEF StartTypeOK
<1>4. worker_is_dead' \subseteq Workers /\ zombies' \subseteq Workers
  BY <1>1, <1>3 DEF TakeNote
<1> QED BY <1>1, <1>2, <1>3, <1>4, Kept DEF mainOnly, monitorVars, pipeVars, boundVars

LEMMA MainStarts ==
  ASSUME StartTypeOK, Fits, jePc \in JePcs, Accept \/ Main
  PROVE  StartTypeOK' /\ Fits' /\ jePc' \in JePcs
<1>1. CASE UNCHANGED startVars
  <2>1. UNCHANGED jePc
    BY <1>1 DEF startVars, loopVars
  <2> QED BY <1>1, <2>1, StartStutter
<1>2. CASE ReadAnswer
  <2>1. UNCHANGED <<monitorPc, msg, jobExecutorReadyForCommands, jePc, i, k, worker_is_dead, a_worker_died,
                    fifos, workerPc, sent, got, zombies, content, deaths, startFailures>>
    BY <1>2 DEF ReadAnswer, monitorVars, loopVars, deadVars, pipeVars, boundVars
  <2> QED BY <2>1 DEF StartTypeOK, Fits
<1>3. CASE Shutdown
  <2>1. UNCHANGED <<msg, jobExecutorReadyForCommands, jePc, i, k, worker_is_dead, a_worker_died,
                    fifos, workerPc, sent, got, zombies, content, deaths, startFailures>>
    BY <1>3 DEF Shutdown, loopVars, deadVars, pipeVars, boundVars
  <2>2. monitorPc' \in {monitorPc, "done"}
    BY <1>3 DEF Shutdown
  <2> QED BY <2>1, <2>2 DEF StartTypeOK, Fits
<1> QED BY <1>1, <1>2, <1>3 DEF Accept, Main, ReadByte, ReadNothing, Close, AnswerItself, Forward,
                                ReadArguments, SendArguments, SendEndOfLine, ReadNoAnswer,
                                JoinMonitor, WaitForJobExecutor, untouched

LEMMA StartStepPc ==
  ASSUME jePc \in JePcs, StartNext
  PROVE  jePc' \in JePcs
<1> USE DEF JePcs, Starting, Blocked, Serving
<1>1. CASE CrawlFinishes \/ init_jobExecutor \/ ForkJobExecutorFails \/ ReadReady \/ JobExecutorDies
  BY <1>1 DEF CrawlFinishes, init_jobExecutor, ForkJobExecutorFails, ReadReady, JobExecutorDies,
              loopVars
<1>2. CASE jobExecutorStarts \/ ForkWorkerFails \/ ChildDiedAtStart
  BY <1>2 DEF jobExecutorStarts, ForkWorkerFails, ChildDiedAtStart, MakeWorker, FifoExists, AllMade,
              OpenRequests, AllRequestsOpen, distribute_directories_to_workers, AllDealtOut,
              OpenAnswers, SayReady, WaitForWorkers, LoopEnds, Block, Meet, GiveUp
<1>3. CASE \E w \in Workers : WorkerStarts(w) \/ ExecFails(w) \/ WorkerDies(w)
  <2>1. UNCHANGED aside
    BY <1>3 DEF WorkerStarts, Exec, ReadDirectory, NoMoreDirectories, parse_subdirectories,
                ExecFails, WorkerDies
  <2> QED BY <2>1 DEF aside, loopVars
<1> QED BY <1>1, <1>2, <1>3 DEF StartNext

-----------------------------------------------------------------------------
(* The channel's own variables. *)

Item == [n : 0..MaxConnections, b : {"READY", "x", "<", "\n"}]
Input == [t : Symbols, n : 0..MaxConnections]

ClientT == n \in 0..MaxConnections /\ script \in Seq(Sent) /\ closes \in BOOLEAN
ReadT ==
  /\ word \in Seq(Sent) /\ Len(word) <= CommandSize
  /\ arguments \in Seq(Sent) /\ Len(arguments) <= ArgSize
  /\ command \in CommandWords \cup {"illegal"} /\ skipped \in BOOLEAN /\ noMoreInput \in BOOLEAN
AnswerT == previous_chunk_ends_in_tag \in BOOLEAN /\ received \in Seq(Item)
MainT == mainPc \in MainPcs /\ monitor_forced_exit \in BOOLEAN
JobT ==
  /\ toJob \in Seq(Input) /\ cin \in {"good", "eof"} /\ jobCommand \in Symbols
  /\ asker \in 0..MaxConnections /\ words \in 0..MaxWords
OutT ==
  /\ fromJob \in Seq(Item) /\ buffered \in Seq(Item) /\ printed \in Seq(Item) /\ misread \in BOOLEAN

(* The bytes that main may still write to command and to arguments. *)
Room ==
  /\ mainPc = "read" => Len(word) < CommandSize
  /\ mainPc \in {"read", "dispatch"} => arguments = <<>>
  /\ mainPc = "args" => Len(arguments) < ArgSize

LEMMA Parts ==
  ChannelTypeOK <=> /\ StartTypeOK /\ jePc \in JePcs /\ MainT /\ ClientT /\ ReadT /\ AnswerT
                    /\ JobT /\ BackT /\ OutT
<1>1. Texts = Seq(Item)
  BY DEF Texts, Item
<1> QED BY <1>1 DEF ChannelTypeOK, JePcs, MainT, ClientT, ReadT, AnswerT, JobT, BackT, OutT, Input

TypesInv == ChannelTypeOK /\ Fits /\ Room

(* Functions on 1..m are sequences of length m. *)
LEMMA Listed ==
  ASSUME NEW S, NEW m \in Nat, NEW s, s \in [1..m -> S]
  PROVE  s \in Seq(S) /\ Len(s) = m
<1>1. s \in Seq(S)
  BY SeqDef
<1>2. DOMAIN s = 1..m /\ DOMAIN s = 1..Len(s) /\ Len(s) \in Nat
  BY <1>1, LenProperties
<1> QED BY <1>1, <1>2

LEMMA Sizes ==
  /\ MaxConnections \in Nat /\ MaxText \in Nat \ {0} /\ CommandSize \in Nat \ {0} /\ ArgSize \in Nat \ {0}
  /\ BUFFER_SIZE \in Nat \ {0} /\ MaxWords \in Nat \ {0}
BY ChannelAssumption

LEMMA ScriptTypes ==
  ASSUME NEW s \in Scripts \cup EarlyScripts
  PROVE  s.tokens \in Seq(Sent) /\ s.closes \in BOOLEAN
BY ChannelAssumption

LEMMA WriteTypes ==
  ASSUME JobT, ClientT, NEW ts \in Seq(Symbols), Write(ts)
  PROVE  toJob' \in Seq(Input)
<1> DEFINE more == [j \in 1..Len(ts) |-> [t |-> ts[j], n |-> n]]
<1>1. Len(ts) \in Nat /\ \A j \in 1..Len(ts) : ts[j] \in Symbols
  BY LenProperties, ElementOfSeq
<1>2. more \in [1..Len(ts) -> Input]
  BY <1>1 DEF Input, ClientT
<1>3. more \in Seq(Input)
  BY <1>1, <1>2, Listed
<1>4. toJob' = toJob \/ toJob' = toJob \o more
  BY DEF Write
<1> HIDE DEF more
<1>5. toJob \o more \in Seq(Input)
  BY <1>3, ConcatProperties DEF JobT
<1> QED BY <1>4, <1>5 DEF JobT

LEMMA LineTypes ==
  ASSUME JobT, NEW m \in 1..MaxText
  PROVE  /\ Line(m) \in Seq(Item) /\ Len(Line(m)) = m + 1
         /\ \A j \in 1..(m + 1) : Line(m)[j] = [n |-> asker, b |-> IF j <= m THEN "x" ELSE "\n"]
<1>1. m + 1 \in Nat
  BY Sizes
<1>2. Line(m) \in [1..(m + 1) -> Item]
  BY DEF Line, Item, JobT
<1>3. Line(m) \in Seq(Item) /\ Len(Line(m)) = m + 1
  BY <1>1, <1>2, Listed
<1> QED BY <1>3 DEF Line

LEMMA EndTypes == EndOfAnswer \in Seq(Item) /\ Len(EndOfAnswer) = 2
BY Sizes DEF EndOfAnswer, Item

(* What jobExecutor prints stays text. *)
LEMMA Prints ==
  ASSUME OutT, NEW text \in Seq(Item)
  PROVE  /\ PrintLine(text) => fromJob' \in Seq(Item) /\ buffered' \in Seq(Item) /\ printed' \in Seq(Item)
         /\ Buffer(text) => fromJob' \in Seq(Item) /\ buffered' \in Seq(Item) /\ printed' \in Seq(Item)
         /\ Flush => fromJob' \in Seq(Item) /\ buffered' \in Seq(Item)
<1>1. /\ printed \o text \in Seq(Item) /\ buffered \o text \in Seq(Item)
      /\ fromJob \o buffered \in Seq(Item) /\ (fromJob \o buffered) \o text \in Seq(Item)
      /\ <<>> \in Seq(Item)
  BY ConcatProperties, EmptySeq DEF OutT
<1> QED BY <1>1 DEF OutT, PrintLine, Buffer, Flush, Record

ChannelTypes == MainT /\ ClientT /\ ReadT /\ AnswerT /\ JobT /\ BackT /\ OutT

(* The steps, one by one: the initial state, main, jobExecutor and the signals. *)
LEMMA InitTypes == ChannelInit => TypesInv
<1> SUFFICES ASSUME ChannelInit PROVE TypesInv
  OBVIOUS
<1>1. StartTypeOK /\ Fits /\ jePc \in JePcs
  <2>1. StartTypeOK
    BY InitInv DEF ChannelInit, IInv
  <2>2. \A w \in Workers : workerPc[w] = "none" /\ got[w] = 0
    BY DEF ChannelInit, StartInit
  <2> QED BY <2>1, <2>2, RangeIsPositive DEF ChannelInit, StartInit, Fits, Blocked, JePcs
<1>2. <<>> \in Seq(Sent) /\ Len(<<>>) = 0 /\ <<>> \in Seq(Item) /\ <<>> \in Seq(Input)
  BY EmptySeq
<1>3. MainT /\ ClientT /\ ReadT /\ AnswerT /\ BackT
  <2>1. word = <<>> /\ arguments = <<>> /\ received = <<>> /\ script = <<>> /\ n = 0
    BY DEF ChannelInit
  <2>2. MainT /\ BackT
    BY DEF ChannelInit, MainT, MainPcs, BackT
  <2>3. ClientT /\ AnswerT
    <3>1. closes \in BOOLEAN /\ previous_chunk_ends_in_tag \in BOOLEAN
      BY DEF ChannelInit
    <3>2. n \in 0..MaxConnections
      BY <2>1, Sizes
    <3>3. script \in Seq(Sent) /\ received \in Seq(Item)
      BY <1>2, <2>1
    <3> QED BY <3>1, <3>2, <3>3 DEF ClientT, AnswerT
  <2>4. Len(word) <= CommandSize /\ Len(arguments) <= ArgSize
    BY <1>2, <2>1, Sizes
  <2>5. word \in Seq(Sent) /\ arguments \in Seq(Sent)
    BY <1>2, <2>1
  <2>6. command \in CommandWords \cup {"illegal"} /\ skipped \in BOOLEAN /\ noMoreInput \in BOOLEAN
    BY DEF ChannelInit
  <2> QED BY <2>2, <2>3, <2>4, <2>5, <2>6 DEF ReadT
<1>4. JobT /\ OutT
  <2>1. toJob \in Seq(Input) /\ fromJob \in Seq(Item) /\ buffered \in Seq(Item) /\ printed \in Seq(Item)
    BY <1>2 DEF ChannelInit, StartInit
  <2>2. asker \in 0..MaxConnections /\ words \in 0..MaxWords
    BY Sizes DEF ChannelInit
  <2>3. cin \in {"good", "eof"} /\ jobCommand \in Symbols /\ misread \in BOOLEAN
    BY DEF ChannelInit, Symbols
  <2> QED BY <2>1, <2>2, <2>3 DEF JobT, OutT
<1>5. Room
  BY <1>2, Sizes DEF ChannelInit, Room
<1> QED BY <1>1, <1>3, <1>4, <1>5, Parts DEF TypesInv

LEMMA ClientKept == ASSUME ClientT, UNCHANGED clientVars PROVE ClientT'
BY DEF ClientT, clientVars
LEMMA ReadKept == ASSUME ReadT, UNCHANGED readVars PROVE ReadT'
BY DEF ReadT, readVars
LEMMA AnswerKept == ASSUME AnswerT, UNCHANGED answerVars PROVE AnswerT'
BY DEF AnswerT, answerVars
LEMMA JobKept == ASSUME JobT, BackT, UNCHANGED cinVars PROVE JobT' /\ BackT'
BY DEF JobT, BackT, cinVars
LEMMA OutKept == ASSUME OutT, UNCHANGED <<fromJob, coutVars>> PROVE OutT'
BY DEF OutT, coutVars

LEMMA Untouched ==
  ASSUME UNCHANGED untouched
  PROVE  UNCHANGED <<fromJob, monitor_forced_exit, cinVars>>
BY DEF untouched, startVars

LEMMA AcceptTypes ==
  ASSUME ChannelTypes, Accept
  PROVE  ChannelTypes' /\ Room'
<1>0. /\ UNCHANGED <<command, noMoreInput, buffered, misread, fromJob, monitor_forced_exit, cinVars>>
      /\ n < MaxConnections /\ n' = n + 1 /\ mainPc' = "read"
      /\ word' = <<>> /\ skipped' = FALSE /\ arguments' = <<>> /\ received' = <<>> /\ printed' = <<>>
      /\ previous_chunk_ends_in_tag' = FALSE
  BY Untouched DEF Accept
<1>1. <<>> \in Seq(Sent) /\ Len(<<>>) = 0 /\ <<>> \in Seq(Item)
  BY EmptySeq
<1>2. ClientT'
  <2>1. PICK s \in Scripts \cup EarlyScripts : script' = s.tokens /\ closes' = s.closes
    BY DEF Accept
  <2>2. script' \in Seq(Sent) /\ closes' \in BOOLEAN
    BY <2>1, ScriptTypes
  <2> QED BY <1>0, <2>2, Sizes DEF ChannelTypes, ClientT
<1>3. ReadT'
  <2>1. word' \in Seq(Sent) /\ arguments' \in Seq(Sent)
    BY <1>0, <1>1
  <2>2. Len(word') <= CommandSize /\ Len(arguments') <= ArgSize
    BY <1>0, <1>1, Sizes
  <2> QED BY <1>0, <2>1, <2>2 DEF ChannelTypes, ReadT
<1>4. MainT' /\ AnswerT' /\ OutT'
  BY <1>0, <1>1 DEF ChannelTypes, MainT, MainPcs, AnswerT, OutT
<1>5. JobT' /\ BackT'
  BY <1>0, JobKept DEF ChannelTypes
<1>6. Room'
  BY <1>0, <1>1, Sizes DEF Room
<1> QED BY <1>2, <1>3, <1>4, <1>5, <1>6 DEF ChannelTypes

LEMMA ReadByteTypes ==
  ASSUME ChannelTypes, Room, ReadByte
  PROVE  ChannelTypes' /\ Room'
<1> DEFINE t == Head(script)
<1>0. /\ UNCHANGED <<n, closes, arguments, answerVars, coutVars, untouched>>
      /\ mainPc = "read" /\ script # <<>> /\ script' = Tail(script)
  BY DEF ReadByte
<1>1. t \in Sent /\ script' \in Seq(Sent)
  BY <1>0, HeadTailProperties DEF ChannelTypes, ClientT
<1>2. /\ word \in Seq(Sent) /\ Append(word, t) \in Seq(Sent) /\ Len(word) \in Nat
      /\ Len(Append(word, t)) = Len(word) + 1 /\ Len(word) < CommandSize
  BY <1>0, <1>1, AppendProperties, LenProperties DEF ChannelTypes, ReadT, Room
<1>3. arguments = <<>> /\ Len(<<>>) = 0
  BY <1>0, EmptySeq DEF Room
<1>4. CASE t = "\n" \/ (t = " " /\ word # <<>>)
  <2>1. Dispatch(Spelled(word), t = " ") /\ UNCHANGED <<word, skipped>>
    BY <1>4 DEF ReadByte
  <2>2. Spelled(word) \in CommandWords \cup {"illegal"}
    BY DEF Spelled
  <2>3. ReadT'
    BY <1>0, <2>1, <2>2 DEF ChannelTypes, ReadT, Dispatch
  <2>4. MainT' /\ Room'
    BY <1>0, <1>3, <2>1, Untouched DEF Dispatch, MainT, MainPcs, Room, ChannelTypes
  <2> QED BY <1>0, <1>1, <2>3, <2>4, AnswerKept, JobKept, OutKept, Untouched DEF ChannelTypes, ClientT
<1>5. CASE t = " " /\ word = <<>>
  <2>1. skipped' = TRUE /\ UNCHANGED <<mainPc, command, noMoreInput, word>>
    BY <1>5 DEF ReadByte
  <2>2. ReadT'
    BY <1>0, <2>1 DEF ChannelTypes, ReadT
  <2>3. MainT' /\ Room'
    BY <1>0, <2>1, Untouched DEF MainT, Room, ChannelTypes
  <2> QED BY <1>0, <1>1, <2>2, <2>3, AnswerKept, JobKept, OutKept, Untouched DEF ChannelTypes, ClientT
<1>6. CASE t \notin Blank
  <2>1. /\ word' = Append(word, t) /\ UNCHANGED skipped
        /\ IF Len(word') = CommandSize THEN Dispatch("illegal", TRUE)
                                       ELSE UNCHANGED <<mainPc, command, noMoreInput>>
    BY <1>6 DEF ReadByte, Blank
  <2>2. ReadT'
    <3>1. word' \in Seq(Sent) /\ Len(word') <= CommandSize
      BY <1>2, <2>1, Sizes
    <3>2. command' \in CommandWords \cup {"illegal"} /\ noMoreInput' \in BOOLEAN
      BY <2>1 DEF ChannelTypes, ReadT, Dispatch
    <3> QED BY <1>0, <2>1, <3>1, <3>2 DEF ChannelTypes, ReadT
  <2>3. MainT' /\ Room'
    BY <1>0, <1>2, <1>3, <2>1, Untouched, Sizes DEF Dispatch, MainT, MainPcs, Room, ChannelTypes
  <2> QED BY <1>0, <1>1, <2>2, <2>3, AnswerKept, JobKept, OutKept, Untouched DEF ChannelTypes, ClientT
<1> QED BY <1>4, <1>5, <1>6 DEF Blank

LEMMA ReadNothingTypes ==
  ASSUME ChannelTypes, Room, ReadNothing
  PROVE  ChannelTypes' /\ Room'
<1>0. /\ UNCHANGED <<clientVars, word, skipped, arguments, answerVars, coutVars, untouched>>
      /\ mainPc = "read" /\ arguments = <<>>
  BY DEF ReadNothing, Room
<1>1. /\ mainPc' \in {"dispatch", "spin"} /\ command' \in CommandWords \cup {"illegal"}
      /\ noMoreInput' \in BOOLEAN
  <2>1. MayBeTaken(word) \subseteq CommandWords \cup {"illegal"}
    BY DEF MayBeTaken
  <2> QED BY <2>1 DEF ReadNothing, Dispatch, ChannelTypes, ReadT
<1>2. ReadT'
  BY <1>0, <1>1 DEF ChannelTypes, ReadT
<1>3. MainT' /\ Room'
  BY <1>0, <1>1, Untouched DEF MainT, MainPcs, Room, ChannelTypes
<1> QED BY <1>0, <1>2, <1>3, ClientKept, AnswerKept, JobKept, OutKept, Untouched DEF ChannelTypes

LEMMA ReadArgumentsTypes ==
  ASSUME ChannelTypes, Room, ReadArguments
  PROVE  ChannelTypes' /\ Room'
<1>0. /\ UNCHANGED <<n, closes, word, skipped, command, noMoreInput, answerVars, coutVars, untouched>>
      /\ mainPc = "args" /\ Len(arguments) < ArgSize /\ arguments \in Seq(Sent)
      /\ Len(arguments) \in Nat /\ script \in Seq(Sent)
  BY LenProperties DEF ReadArguments, Room, ChannelTypes, ReadT, ClientT
<1>1. script' \in Seq(Sent) /\ arguments' \in Seq(Sent) /\ Len(arguments') <= ArgSize
      /\ mainPc' \in {"args", "send", "spin"} /\ (mainPc' = "args" => Len(arguments') < ArgSize)
  <2>1. CASE script = <<>> /\ mainPc' = "spin" /\ UNCHANGED <<script, arguments>>
    <3>1. Len(arguments) <= ArgSize
      BY <1>0, Sizes
    <3> QED BY <1>0, <2>1, <3>1
  <2>2. CASE script # <<>> /\ script' = Tail(script)
    <3>1. Head(script) \in Sent /\ script' \in Seq(Sent)
      BY <1>0, <2>2, HeadTailProperties
    <3>2. CASE Head(script) = "\n"
      <4>1. /\ arguments' = IF EndsIn(arguments, "\r") THEN SubSeq(arguments, 1, Len(arguments) - 1) ELSE arguments
            /\ mainPc' = "send"
        BY <2>2, <3>2 DEF ReadArguments
      <4>2. CASE EndsIn(arguments, "\r")
        <5>1. arguments # <<>> /\ Len(arguments) >= 1
          BY <1>0, <4>2, EmptySeq DEF EndsIn
        <5>2. \A j \in 1..(Len(arguments) - 1) : arguments[j] \in Sent
          BY <1>0, ElementOfSeq
        <5>3. SubSeq(arguments, 1, Len(arguments) - 1) \in Seq(Sent)
              /\ Len(SubSeq(arguments, 1, Len(arguments) - 1)) = Len(arguments) - 1
          <6> DEFINE m == Len(arguments) - 1
          <6>1. m \in Int /\ m >= 0 /\ m = Len(arguments) - 1
            BY <1>0, <5>1
          <6> HIDE DEF m
          <6>2. \A j \in 1..m : arguments[j] \in Sent
            BY <5>2, <6>1
          <6>3. /\ SubSeq(arguments, 1, m) \in Seq(Sent)
                /\ Len(SubSeq(arguments, 1, m)) = IF 1 <= m THEN m - 1 + 1 ELSE 0
            BY <6>1, <6>2, SubSeqProperties
          <6>4. Len(SubSeq(arguments, 1, m)) = m
            BY <6>1, <6>3
          <6> QED BY <6>1, <6>3, <6>4
        <5>4. Len(arguments') <= ArgSize
          BY <1>0, <4>1, <4>2, <5>3, Sizes
        <5> QED BY <3>1, <4>1, <4>2, <5>3, <5>4
      <4>3. CASE ~EndsIn(arguments, "\r")
        <5>1. Len(arguments) <= ArgSize
          BY <1>0, Sizes
        <5> QED BY <1>0, <3>1, <4>1, <4>3, <5>1
      <4> QED BY <4>2, <4>3
    <3>3. CASE Head(script) # "\n"
      <4>1. /\ arguments' = Append(arguments, Head(script))
            /\ mainPc' = IF Full(arguments') THEN "send" ELSE "args"
        BY <2>2, <3>3 DEF ReadArguments
      <4>2. Append(arguments, Head(script)) \in Seq(Sent)
            /\ Len(Append(arguments, Head(script))) = Len(arguments) + 1
        BY <1>0, <3>1, AppendProperties
      <4> QED BY <1>0, <3>1, <4>1, <4>2, Sizes DEF Full
    <3> QED BY <3>2, <3>3
  <2> QED BY <2>1, <2>2 DEF ReadArguments
<1>2. ClientT' /\ ReadT'
  BY <1>0, <1>1 DEF ChannelTypes, ClientT, ReadT
<1>3. MainT' /\ Room'
  BY <1>0, <1>1, Untouched DEF MainT, MainPcs, Room, ChannelTypes
<1> QED BY <1>0, <1>2, <1>3, AnswerKept, JobKept, OutKept, Untouched DEF ChannelTypes

LEMMA Pairs ==
  ASSUME NEW S, NEW x \in S, NEW y \in S
  PROVE  <<x, y>> \in Seq(S)
OBVIOUS

LEMMA KeywordTypes ==
  ASSUME command \in Forwarded
  PROVE  /\ Keyword(command) \in {<<"/search", " ">>, <<"/maxcount", " ">>, <<"/wc", "\n">>}
         /\ Keyword(command) \in Seq(Symbols)
<1>1. Keyword(command) \in {<<"/search", " ">>, <<"/maxcount", " ">>, <<"/wc", "\n">>}
  BY Zenon DEF Keyword, Forwarded
<1>2. /\ <<"/search", " ">> \in Seq(Symbols)
      /\ <<"/maxcount", " ">> \in Seq(Symbols)
      /\ <<"/wc", "\n">> \in Seq(Symbols)
  <2>1. "/search" \in Symbols /\ "/maxcount" \in Symbols /\ "/wc" \in Symbols
        /\ " " \in Symbols /\ "\n" \in Symbols
    BY DEF Symbols, Sent, Blank
  <2> QED BY <2>1, Pairs
<1> QED BY <1>1, <1>2

LEMMA ArgumentsSent ==
  ASSUME ReadT, SendArguments
  PROVE  \E ts \in Seq(Symbols) : Write(ts) /\ \A h \in 1..Len(ts) : ts[h] \in Sent
<1> DEFINE ts == [j \in DOMAIN arguments |->
                    IF arguments[j] = "\r" /\ j = ArgSize THEN " " ELSE arguments[j]]
<1>1. /\ arguments \in Seq(Sent) /\ Len(arguments) \in Nat /\ DOMAIN arguments = 1..Len(arguments)
      /\ \A j \in 1..Len(arguments) : arguments[j] \in Sent
  BY LenProperties, ElementOfSeq DEF ReadT
<1>2. ts \in [1..Len(arguments) -> Symbols] /\ \A j \in 1..Len(arguments) : ts[j] \in Sent
  BY <1>1 DEF Symbols, Sent, Blank
<1>3. ts \in Seq(Symbols) /\ \A j \in 1..Len(ts) : ts[j] \in Sent
  BY <1>1, <1>2, Listed
<1>4. Write(ts)
  BY DEF SendArguments
<1> HIDE DEF ts
<1> QED BY <1>3, <1>4

(* The steps of main that write to jobExecutor. *)
LEMMA WriterTypes ==
  ASSUME ChannelTypes, Room, Forward \/ SendArguments \/ SendEndOfLine \/ JoinMonitor
  PROVE  ChannelTypes' /\ Room'
<1>0. /\ UNCHANGED <<startVars, monitor_forced_exit, clientVars, readVars, answerVars, cin, jobCommand,
                     asker, words, back, coutVars>>
      /\ mainPc' \in {"answer", "args", "endLine", "gone", "waitpid"}
      /\ mainPc' = "args" => mainPc = "dispatch"
  BY DEF Forward, SendArguments, SendEndOfLine, JoinMonitor
<1>1. UNCHANGED <<fromJob, word, arguments>>
  BY <1>0 DEF startVars, readVars
<1>2. toJob' \in Seq(Input)
  <2>1. CASE Forward
    <3>1. command \in Forwarded /\ Write(Keyword(command))
      BY <2>1 DEF Forward
    <3> QED BY <3>1, KeywordTypes, WriteTypes DEF ChannelTypes
  <2>2. CASE SendArguments
    BY <2>2, ArgumentsSent, WriteTypes DEF ChannelTypes
  <2>3. CASE SendEndOfLine
    <3>1. <<"\n">> \in Seq(Symbols) /\ Write(<<"\n">>)
      BY <2>3 DEF SendEndOfLine, Symbols, Sent, Blank
    <3> QED BY <3>1, WriteTypes DEF ChannelTypes
  <2>4. CASE JoinMonitor
    <3>1. <<"/exit", "\n">> \in Seq(Symbols) /\ (UNCHANGED toJob \/ Write(<<"/exit", "\n">>))
      BY <2>4 DEF JoinMonitor, Symbols, Sent, Blank
    <3> QED BY <3>1, WriteTypes DEF ChannelTypes, JobT
  <2> QED BY <2>1, <2>2, <2>3, <2>4
<1>3. JobT' /\ BackT'
  BY <1>0, <1>2 DEF ChannelTypes, JobT, BackT
<1>4. MainT'
  BY <1>0 DEF ChannelTypes, MainT, MainPcs
<1>5. Room'
  <2>1. mainPc' = "args" => arguments' = <<>>
    BY <1>0, <1>1 DEF Room
  <2>2. arguments' = <<>> => Len(arguments') < ArgSize
    BY Sizes, EmptySeq
  <2> QED BY <1>0, <2>1, <2>2 DEF Room
<1> QED BY <1>0, <1>1, <1>3, <1>4, <1>5, ClientKept, ReadKept, AnswerKept, OutKept DEF ChannelTypes

(* The chunk that is read and what is left; what is passed on is a part of it. *)
size == IF Len(fromJob) < BUFFER_SIZE THEN Len(fromJob) ELSE BUFFER_SIZE
chunk == SubSeq(fromJob, 1, size)
left == SubSeq(fromJob, size + 1, Len(fromJob))
kept_back == IF EndsTheAnswer(chunk) THEN 2 ELSE IF EndsInTag(chunk) THEN 1 ELSE 0

LEMMA Chunks ==
  ASSUME OutT, fromJob # <<>>
  PROVE  /\ Len(fromJob) \in Nat /\ size \in 1..Len(fromJob)
         /\ chunk \in Seq(Item) /\ Len(chunk) = size
         /\ left \in Seq(Item) /\ Len(left) = Len(fromJob) - size
         /\ \A j \in 1..size : chunk[j] = fromJob[j]
         /\ \A j \in 1..(Len(fromJob) - size) : left[j] = fromJob[size + j]
<1>1. Len(fromJob) \in Nat \ {0} /\ \A j \in 1..Len(fromJob) : fromJob[j] \in Item
  BY EmptySeq, ElementOfSeq DEF OutT
<1>2. size \in 1..Len(fromJob) /\ size \in Nat
  BY <1>1, Sizes DEF size
<1> HIDE DEF size
<1>3. /\ chunk \in Seq(Item) /\ Len(chunk) = IF 1 <= size THEN size - 1 + 1 ELSE 0
      /\ \A j \in 1..(size - 1 + 1) : chunk[j] = fromJob[1 + j - 1]
  BY <1>1, <1>2, SubSeqProperties DEF chunk
<1>4. /\ left \in Seq(Item)
      /\ Len(left) = IF size + 1 <= Len(fromJob) THEN Len(fromJob) - (size + 1) + 1 ELSE 0
      /\ \A j \in 1..(Len(fromJob) - (size + 1) + 1) : left[j] = fromJob[(size + 1) + j - 1]
  <2>1. size + 1 \in Int /\ Len(fromJob) \in Int /\ \A j \in (size + 1)..Len(fromJob) : fromJob[j] \in Item
    BY <1>1, <1>2
  <2> QED BY <2>1, SubSeqProperties DEF left
<1>5. Len(chunk) = size /\ \A j \in 1..size : chunk[j] = fromJob[j]
  BY <1>2, <1>3
<1>6. Len(left) = Len(fromJob) - size /\ \A j \in 1..(Len(fromJob) - size) : left[j] = fromJob[size + j]
  <2>0. PICK len \in Nat : len = Len(fromJob)
    BY <1>1
  <2>1. PICK cut \in Nat : cut = size /\ cut <= len
    BY <1>2, <2>0
  <2>2. len - (cut + 1) + 1 = len - cut /\ (cut + 1 > len => len - cut = 0) /\ \A j \in 1..(len - cut) : (cut + 1) + j - 1 = cut + j
    BY <2>1
  <2> QED BY <1>4, <2>0, <2>1, <2>2
<1> QED BY <1>1, <1>2, <1>3, <1>4, <1>5, <1>6

LEMMA ReadAnswerIs ==
  ASSUME ReadAnswer
  PROVE  /\ mainPc = "answer" /\ fromJob # <<>> /\ fromJob' = left
         /\ received' = received \o Passed(chunk)
         /\ previous_chunk_ends_in_tag' = (~EndsTheAnswer(chunk) /\ EndsInTag(chunk))
         /\ mainPc' = IF EndsTheAnswer(chunk) THEN "answered" ELSE "answer"
         /\ UNCHANGED <<monitorVars, loopVars, deadVars, fifos, workerPc, pipeVars, zombies, content, boundVars,
                        monitor_forced_exit, clientVars, readVars, cinVars, coutVars>>
BY DEF ReadAnswer, chunk, left, size

(* A "<" that was kept back came with the chunk before, and is not kept back again. *)
LEMMA WhatPasses ==
  ASSUME OutT, fromJob # <<>>
  PROVE  /\ Passed(chunk) \in Seq(Item)
         /\ previous_chunk_ends_in_tag /\ Byte(chunk, 1) = "\n" => Passed(chunk) = <<>>
         /\ ~(previous_chunk_ends_in_tag /\ Byte(chunk, 1) = "\n") =>
              /\ kept_back \in 0..Len(chunk)
              /\ Len(Passed(chunk)) = Len(chunk) - kept_back
              /\ \A j \in 1..(Len(chunk) - kept_back) : Passed(chunk)[j] = chunk[j]
<1>1. chunk \in Seq(Item) /\ Len(chunk) \in Nat /\ \A j \in 1..Len(chunk) : chunk[j] \in Item
  BY Chunks, LenProperties, ElementOfSeq
<1> HIDE DEF chunk
<1>2. CASE previous_chunk_ends_in_tag /\ Byte(chunk, 1) = "\n"
  BY <1>2, EmptySeq DEF Passed
<1>3. CASE ~(previous_chunk_ends_in_tag /\ Byte(chunk, 1) = "\n")
  <2>1. kept_back \in 0..Len(chunk)
    <3>1. EndsTheAnswer(chunk) => Len(chunk) >= 2
      <4>1. EndsTheAnswer(chunk) => Byte(chunk, Len(chunk) - 1) = "<"
        BY <1>3 DEF EndsTheAnswer
      <4>2. Byte(chunk, Len(chunk) - 1) = "<" => Len(chunk) - 1 \in 1..Len(chunk)
        BY DEF Byte
      <4> QED BY <1>1, <4>1, <4>2
    <3>2. EndsInTag(chunk) => Len(chunk) >= 1
      BY <1>1 DEF EndsInTag, Byte
    <3> QED BY <1>1, <3>1, <3>2 DEF kept_back
  <2>2. Passed(chunk) = SubSeq(chunk, 1, Len(chunk) - kept_back)
    BY <1>3 DEF Passed, kept_back
  <2> DEFINE m == Len(chunk) - kept_back
  <2>3. m \in Nat /\ m <= Len(chunk)
    BY <1>1, <2>1
  <2> HIDE DEF m
  <2>4. \A j \in 1..m : chunk[j] \in Item
    BY <1>1, <2>3
  <2>5. /\ SubSeq(chunk, 1, m) \in Seq(Item)
        /\ Len(SubSeq(chunk, 1, m)) = IF 1 <= m THEN m - 1 + 1 ELSE 0
        /\ \A j \in 1..(m - 1 + 1) : SubSeq(chunk, 1, m)[j] = chunk[1 + j - 1]
    BY <2>3, <2>4, SubSeqProperties
  <2>6. Len(SubSeq(chunk, 1, m)) = m /\ \A j \in 1..m : SubSeq(chunk, 1, m)[j] = chunk[j]
    BY <2>3, <2>5
  <2> QED BY <1>3, <2>1, <2>2, <2>5, <2>6 DEF m
<1> QED BY <1>2, <1>3

LEMMA ReadAnswerTypes ==
  ASSUME ChannelTypes, Room, ReadAnswer
  PROVE  ChannelTypes' /\ Room'
<1>1. left \in Seq(Item) /\ Passed(chunk) \in Seq(Item)
  BY Chunks, WhatPasses, ReadAnswerIs DEF ChannelTypes
<1>2. received' \in Seq(Item)
  <2>1. received \o Passed(chunk) \in Seq(Item)
    BY <1>1, ConcatProperties DEF ChannelTypes, AnswerT
  <2> QED BY <2>1, ReadAnswerIs
<1>3. /\ fromJob' = left /\ UNCHANGED <<monitor_forced_exit, clientVars, readVars, cinVars, coutVars>>
      /\ mainPc' \in {"answered", "answer"} /\ previous_chunk_ends_in_tag' \in BOOLEAN
  BY ReadAnswerIs
<1>4. AnswerT' /\ MainT' /\ OutT' /\ Room'
  <2>1. AnswerT'
    BY <1>2, <1>3 DEF AnswerT
  <2>2. MainT' /\ Room'
    BY <1>3 DEF ChannelTypes, MainT, MainPcs, Room
  <2>3. OutT'
    BY <1>1, <1>3 DEF ChannelTypes, OutT, coutVars
  <2> QED BY <2>1, <2>2, <2>3
<1> QED BY <1>3, <1>4, ClientKept, ReadKept, JobKept DEF ChannelTypes

LEMMA OtherTypes ==
  ASSUME ChannelTypes, Room, Close \/ AnswerItself \/ ReadNoAnswer \/ Shutdown \/ WaitForJobExecutor
  PROVE  ChannelTypes' /\ Room'
<1>1. UNCHANGED <<clientVars, readVars, answerVars, coutVars, fromJob, cinVars>>
  BY Untouched DEF Close, AnswerItself, ReadNoAnswer, Shutdown, WaitForJobExecutor
<1>2. mainPc' \in {"poll", "close", "spin", "join", "gone"} /\ monitor_forced_exit' \in BOOLEAN
  BY Untouched DEF Close, AnswerItself, ReadNoAnswer, Shutdown, WaitForJobExecutor, ChannelTypes, MainT
<1>3. MainT' /\ Room'
  BY <1>2 DEF MainT, MainPcs, Room
<1> QED BY <1>1, <1>3, ClientKept, ReadKept, AnswerKept, JobKept, OutKept DEF ChannelTypes

LEMMA MainTypes ==
  ASSUME ChannelTypes, Room, Accept \/ Main
  PROVE  ChannelTypes' /\ Room'
BY AcceptTypes, ReadByteTypes, ReadNothingTypes, ReadArgumentsTypes, WriterTypes, ReadAnswerTypes, OtherTypes
   DEF Main

(* The words at the front of jobExecutor's input. *)
LEMMA Front ==
  ASSUME JobT
  PROVE  /\ toJob # <<>> => /\ Len(toJob) \in Nat \ {0} /\ toJob[1] \in Input
                            /\ Tail(toJob) \in Seq(Input) /\ Len(Tail(toJob)) = Len(toJob) - 1
                            /\ \A j \in 1..Len(Tail(toJob)) : Tail(toJob)[j] = toJob[j + 1]
         /\ WordIsThere \/ Coming # "none" => toJob # <<>>
<1>1. toJob \in Seq(Input)
  BY DEF JobT
<1>2. ASSUME toJob # <<>>
      PROVE  /\ Len(toJob) \in Nat \ {0} /\ toJob[1] \in Input
             /\ Tail(toJob) \in Seq(Input) /\ Len(Tail(toJob)) = Len(toJob) - 1
             /\ \A j \in 1..Len(Tail(toJob)) : Tail(toJob)[j] = toJob[j + 1]
  <2>1. Len(toJob) \in Nat \ {0}
    BY <1>1, <1>2, EmptySeq
  <2>2. toJob[1] \in Input
    BY <1>1, <2>1, ElementOfSeq
  <2> QED BY <1>1, <1>2, <2>1, <2>2, HeadTailProperties
<1>3. WordIsThere => toJob # <<>>
  BY <1>1, EmptySeq DEF WordIsThere
<1>4. Coming # "none" => toJob # <<>>
  BY DEF Coming
<1> QED BY <1>2, <1>3, <1>4

(* A set of numbers has a least member. *)
LEMMA Least ==
  ASSUME NEW S, S \subseteq Nat, S # {}
  PROVE  \E h \in S : \A g \in S : h <= g
<1> DEFINE Before == {p \in Nat \X Nat : p[1] < p[2]}
<1>1. IsWellFoundedOn(Before, Nat)
  BY NatLessThanWellFounded DEF OpToRel
<1>2. PICK h \in S : \A g \in S : <<g, h>> \notin Before
  <2> HIDE DEF Before
  <2> QED BY <1>1, WFMin
<1>3. \A g \in S : h <= g
  <2> SUFFICES ASSUME NEW g \in S, g < h PROVE FALSE
    OBVIOUS
  <2> QED BY <1>2
<1> QED BY <1>3

(* What is left after the first end of a line was there before. *)
LEMMA LineCut ==
  ASSUME JobT, IgnoreLine
  PROVE  /\ toJob' \in Seq(Input)
         /\ \A h \in 1..Len(toJob') : \E g \in 1..Len(toJob) : toJob'[h] = toJob[g]
<1> DEFINE j == CHOOSE h \in LineEnds : \A g \in LineEnds : h <= g
<1>1. /\ toJob' = SubSeq(toJob, j + 1, Len(toJob)) /\ LineEnds # {}
      /\ toJob \in Seq(Input) /\ Len(toJob) \in Nat /\ \A h \in 1..Len(toJob) : toJob[h] \in Input
  BY LenProperties, ElementOfSeq DEF IgnoreLine, JobT
<1>2. LineEnds \subseteq 1..Len(toJob)
  BY <1>1, LenProperties DEF LineEnds
<1>3. \E h \in LineEnds : \A g \in LineEnds : h <= g
  <2>1. LineEnds \subseteq Nat
    BY <1>1, <1>2
  <2> QED BY <1>1, <2>1, Least
<1>4. j \in 1..Len(toJob)
  BY <1>2, <1>3
<1> HIDE DEF j
<1>5. j + 1 \in Int /\ Len(toJob) \in Int /\ \A h \in (j + 1)..Len(toJob) : toJob[h] \in Input
  BY <1>1, <1>4
<1>6. /\ SubSeq(toJob, j + 1, Len(toJob)) \in Seq(Input)
      /\ Len(SubSeq(toJob, j + 1, Len(toJob))) =
           IF j + 1 <= Len(toJob) THEN Len(toJob) - (j + 1) + 1 ELSE 0
      /\ \A h \in 1..(Len(toJob) - (j + 1) + 1) :
           SubSeq(toJob, j + 1, Len(toJob))[h] = toJob[(j + 1) + h - 1]
  BY ONLY <1>5, SubSeqProperties
<1>7. Len(toJob') = Len(toJob) - j /\ \A h \in 1..(Len(toJob) - j) : toJob'[h] = toJob[j + h]
  BY <1>1, <1>4, <1>6
<1>8. \A h \in 1..(Len(toJob) - j) : j + h \in 1..Len(toJob)
  BY <1>1, <1>4
<1> QED BY <1>1, <1>6, <1>7, <1>8

LEMMA LoopTypes ==
  ASSUME ChannelTypes, Room, Loop
  PROVE  ChannelTypes' /\ Room'
<1>0. UNCHANGED mainVars
  BY DEF Loop, AskForCommand, SkipBlank, TakeCommand, Route, TakeWord, EnoughWords, EndOfWords,
         IgnoreLine, Work, EndCommand, Replace, Exit, kept, mainOnly
<1>1. ClientT' /\ ReadT' /\ AnswerT' /\ MainT' /\ Room'
  <2>1. UNCHANGED <<mainPc, monitor_forced_exit, word, arguments, clientVars, readVars, answerVars>>
    BY <1>0 DEF mainVars, readVars
  <2> QED BY <2>1, ClientKept, ReadKept, AnswerKept DEF ChannelTypes, MainT, Room
<1>2. ASSUME JobT', BackT', OutT'
      PROVE  ChannelTypes' /\ Room'
  BY <1>1, <1>2 DEF ChannelTypes
<1>3. /\ toJob \in Seq(Input) /\ cin \in {"good", "eof"} /\ jobCommand \in Symbols
      /\ asker \in 0..MaxConnections /\ words \in 0..MaxWords /\ back \in {"ready", "route"}
      /\ fromJob \in Seq(Item) /\ buffered \in Seq(Item) /\ printed \in Seq(Item) /\ misread \in BOOLEAN
  BY DEF ChannelTypes, JobT, BackT, OutT
<1>4. \A m \in 1..MaxText : Line(m) \in Seq(Item)
  BY LineTypes DEF ChannelTypes
<1>5. Line(1) \in Seq(Item)
  BY <1>4, Sizes
<1>6. CASE AskForCommand
  <2>1. UNCHANGED <<toJob, jobCommand, asker, words, printed>>
    BY <1>6 DEF AskForCommand
  <2>2. cin' \in {"good", "eof"} /\ back' \in {"ready", "route"} /\ misread' \in BOOLEAN
    BY <1>3, <1>6 DEF AskForCommand
  <2>3. fromJob' \in Seq(Item) /\ buffered' \in Seq(Item)
    <3>1. Flush \/ UNCHANGED <<fromJob, buffered>>
      BY <1>6 DEF AskForCommand
    <3>2. Flush => fromJob' \in Seq(Item) /\ buffered' \in Seq(Item)
      BY Prints, EmptySeq DEF ChannelTypes
    <3> QED BY <1>3, <3>1, <3>2
  <2> QED BY <1>2, <1>3, <2>1, <2>2, <2>3 DEF JobT, BackT, OutT
<1>7. CASE SkipBlank \/ TakeWord \/ TakeCommand
  <2>1. /\ UNCHANGED <<cin, fromJob, buffered, printed, misread>> /\ toJob' = Tail(toJob)
        /\ toJob # <<>> /\ back' \in {"ready", "route"}
    BY <1>3, <1>7, Front DEF SkipBlank, TakeWord, TakeCommand, kept, printVars, coutVars, Blank,
                             ChannelTypes
  <2>2. toJob[1] \in Input /\ toJob' \in Seq(Input)
    BY <2>1, Front DEF ChannelTypes
  <2>3. jobCommand' \in Symbols /\ asker' \in 0..MaxConnections
    BY <1>3, <1>7, <2>2 DEF SkipBlank, TakeWord, TakeCommand, Input
  <2>4. words' \in 0..MaxWords
    <3>1. CASE TakeWord
      <4>1. words < MaxWords /\ words' = words + 1
        BY <3>1 DEF TakeWord
      <4> QED BY <1>3, <4>1, Sizes
    <3>2. CASE SkipBlank \/ TakeCommand
      <4>1. words' = words \/ words' = 0
        BY <3>2 DEF SkipBlank, TakeCommand
      <4> QED BY <1>3, <4>1, Sizes
    <3> QED BY <1>7, <3>1, <3>2
  <2> QED BY <1>2, <1>3, <2>1, <2>2, <2>3, <2>4 DEF JobT, BackT, OutT
<1>8. CASE Route \/ EnoughWords \/ EndOfWords \/ Work
  <2>1. UNCHANGED <<toJob, jobCommand, asker, words, cin, back>>
    BY <1>8 DEF Route, EnoughWords, EndOfWords, Work, kept
  <2>2. misread' \in BOOLEAN
    BY <1>3, <1>8 DEF Route, EnoughWords, EndOfWords, Work, printVars, coutVars
  <2>3. \/ UNCHANGED <<fromJob, buffered, printed>>
        \/ \E m \in 1..MaxText : PrintLine(Line(m)) \/ Buffer(Line(m))
    <3>1. 1 \in 1..MaxText
      BY Sizes
    <3> QED BY <1>8, <3>1 DEF Route, EnoughWords, EndOfWords, Work, printVars, coutVars
  <2>4. fromJob' \in Seq(Item) /\ buffered' \in Seq(Item) /\ printed' \in Seq(Item)
    <3>1. ASSUME NEW m \in 1..MaxText, PrintLine(Line(m)) \/ Buffer(Line(m))
          PROVE  fromJob' \in Seq(Item) /\ buffered' \in Seq(Item) /\ printed' \in Seq(Item)
      BY <1>4, <3>1, Prints DEF ChannelTypes
    <3> QED BY <1>3, <2>3, <3>1
  <2> QED BY <1>2, <1>3, <2>1, <2>2, <2>4 DEF JobT, BackT, OutT
<1>9. CASE IgnoreLine
  <2>1. UNCHANGED <<jobCommand, asker, words, cin, back, fromJob, buffered, printed, misread>>
    BY <1>9 DEF IgnoreLine, kept, printVars, coutVars
  <2>3. toJob' \in Seq(Input)
    BY <1>9, LineCut DEF ChannelTypes
  <2> QED BY <1>2, <1>3, <2>1, <2>3 DEF JobT, BackT, OutT
<1>10. CASE EndCommand
  <2>1. /\ UNCHANGED <<cin, toJob, jobCommand, asker, words, fromJob, printed, misread>>
        /\ back' = "ready" /\ buffered' = buffered \o EndOfAnswer
    BY <1>10 DEF EndCommand
  <2>2. buffered \o EndOfAnswer \in Seq(Item)
    BY <1>3, EndTypes, ConcatProperties
  <2> QED BY <1>2, <1>3, <2>1, <2>2 DEF JobT, BackT, OutT
<1>11. CASE Replace
  <2>1. UNCHANGED <<cinVars, fromJob, coutVars>>
    BY <1>11 DEF Replace, printVars
  <2> QED BY <1>2, <2>1, JobKept, OutKept DEF ChannelTypes
<1>12. CASE Exit
  <2> DEFINE farewell == [j \in 1..(2 * numWorkers) |-> [n |-> 0, b |-> IF j % 2 = 1 THEN "x" ELSE "\n"]]
  <2>1. UNCHANGED <<cinVars, printed, misread>> /\ buffered' = <<>> /\ fromJob' = (fromJob \o buffered) \o farewell
    BY <1>12 DEF Exit
  <2>2. farewell \in Seq(Item)
    <3>1. farewell \in [1..(2 * numWorkers) -> Item] /\ 2 * numWorkers \in Nat
      BY NumWorkers, Sizes DEF Item
    <3> QED BY <3>1, Listed
  <2> HIDE DEF farewell
  <2>3. fromJob' \in Seq(Item)
    BY <1>3, <2>1, <2>2, ConcatProperties
  <2>4. OutT'
    BY <1>3, <2>1, <2>3, EmptySeq DEF OutT
  <2> QED BY <1>2, <2>1, <2>4, JobKept DEF ChannelTypes
<1> QED BY <1>6, <1>7, <1>8, <1>9, <1>10, <1>11, <1>12 DEF Loop

LEMMA InterruptedTypes ==
  ASSUME ChannelTypes, Room, Interrupted
  PROVE  ChannelTypes' /\ Room'
<1>1. UNCHANGED mainVars
  BY DEF Interrupted, handle_child_termination, CommandInterrupted, WordsInterrupted,
         KeywordInterrupted, LineInterrupted, mainOnly
<1>2. ClientT' /\ ReadT' /\ AnswerT' /\ MainT' /\ Room'
  <2>1. UNCHANGED <<mainPc, monitor_forced_exit, word, arguments, clientVars, readVars, answerVars>>
    BY <1>1 DEF mainVars, readVars
  <2> QED BY <2>1, ClientKept, ReadKept, AnswerKept DEF ChannelTypes, MainT, Room
<1>3. /\ UNCHANGED <<jobCommand, asker, words, misread>>
      /\ toJob' = toJob \/ toJob' = <<>>
      /\ cin' = cin \/ cin' = "eof"
      /\ back' = back \/ back' = "ready"
      /\ UNCHANGED <<fromJob, buffered, printed>> \/ PrintLine(Line(1))
  BY DEF Interrupted, handle_child_termination, CommandInterrupted, WordsInterrupted,
         KeywordInterrupted, LineInterrupted, cinVars, printVars, coutVars
<1>4. JobT' /\ BackT'
  BY <1>3, EmptySeq DEF ChannelTypes, JobT, BackT
<1>5. OutT'
  <2>1. Line(1) \in Seq(Item)
    BY LineTypes, Sizes DEF ChannelTypes
  <2> QED BY <1>3, <2>1, Prints DEF ChannelTypes, OutT
<1> QED BY <1>2, <1>4, <1>5 DEF ChannelTypes

(* What the start does to the pipe: READY is written when all pipes are open, and read. *)
LEMMA StartPrints ==
  ASSUME StartNext
  PROVE  \/ UNCHANGED fromJob
         \/ ReadReady /\ fromJob # <<>> /\ fromJob' = Tail(fromJob)
         \/ SayReady /\ fromJob' = Append(fromJob, READY)
<1>1. CASE CrawlFinishes \/ init_jobExecutor \/ ForkJobExecutorFails \/ ReadReady \/ JobExecutorDies
  BY <1>1 DEF CrawlFinishes, init_jobExecutor, ForkJobExecutorFails, ReadReady, JobExecutorDies
<1>2. CASE jobExecutorStarts \/ ForkWorkerFails \/ ChildDiedAtStart
  BY <1>2 DEF jobExecutorStarts, ForkWorkerFails, ChildDiedAtStart, MakeWorker, FifoExists, AllMade,
              OpenRequests, AllRequestsOpen, distribute_directories_to_workers, AllDealtOut,
              OpenAnswers, SayReady, WaitForWorkers, Block, Meet
<1>3. CASE \E w \in Workers : WorkerStarts(w) \/ ExecFails(w) \/ WorkerDies(w)
  <2>1. UNCHANGED aside
    BY <1>3 DEF WorkerStarts, Exec, ReadDirectory, NoMoreDirectories, parse_subdirectories,
                ExecFails, WorkerDies
  <2> QED BY <2>1 DEF aside
<1> QED BY <1>1, <1>2, <1>3 DEF StartNext

LEMMA StartTypesOfChannel ==
  ASSUME ChannelTypes, Room, StartNext, UNCHANGED channelVars
  PROVE  ChannelTypes' /\ Room'
<1>1. UNCHANGED <<mainVars, cinVars, coutVars, buffered, printed, misread>>
  BY DEF channelVars, coutVars
<1>2. UNCHANGED <<mainPc, monitor_forced_exit, word, arguments, clientVars, readVars, answerVars>>
  BY <1>1 DEF mainVars, readVars
<1>3. fromJob' \in Seq(Item)
  <2>1. UNCHANGED fromJob \/ (fromJob # <<>> /\ fromJob' = Tail(fromJob)) \/ fromJob' = Append(fromJob, READY)
    BY StartPrints
  <2>2. fromJob \in Seq(Item) /\ READY \in Item
    BY Sizes DEF ChannelTypes, OutT, READY, Item
  <2> QED BY <2>1, <2>2, HeadTailProperties, AppendProperties
<1>4. OutT'
  BY <1>1, <1>3 DEF ChannelTypes, OutT
<1> QED BY <1>1, <1>2, <1>4, ClientKept, ReadKept, AnswerKept, JobKept DEF ChannelTypes, MainT, Room

LEMMA TypesInvIs == TypesInv <=> StartTypeOK /\ Fits /\ jePc \in JePcs /\ ChannelTypes /\ Room
BY Parts DEF TypesInv, ChannelTypes

LEMMA TypesPrimed ==
  StartTypeOK' /\ Fits' /\ jePc' \in JePcs /\ ChannelTypes' /\ Room' => TypesInv'
<1>1. (StartTypeOK /\ Fits /\ jePc \in JePcs /\ ChannelTypes /\ Room)' => TypesInv'
  BY TypesInvIs, PTL
<1> QED BY <1>1

LEMMA TypesNext == TypesInv /\ [ChannelNext]_allVars => TypesInv'
<1> SUFFICES ASSUME TypesInv, [ChannelNext]_allVars PROVE TypesInv'
  OBVIOUS
<1>0. StartTypeOK /\ Fits /\ jePc \in JePcs /\ ChannelTypes /\ Room /\ BackT
  BY TypesInvIs DEF ChannelTypes
<1>1. CASE StartNext /\ UNCHANGED channelVars
  BY <1>0, <1>1, StartStep, StartStepPc, StartTypesOfChannel, TypesPrimed
<1>2. CASE Accept \/ Main
  BY <1>0, <1>2, MainStarts, MainTypes, TypesPrimed
<1>3. CASE Loop
  BY <1>0, <1>3, LoopStarts, LoopTypes, TypesPrimed
<1>4. CASE Interrupted
  BY <1>0, <1>4, InterruptedStarts, InterruptedTypes, TypesPrimed
<1>5. CASE UNCHANGED allVars
  <2>1. UNCHANGED <<startVars, jePc, mainVars, cinVars, fromJob, coutVars>>
    BY <1>5 DEF allVars, channelVars, startVars, loopVars
  <2>2. UNCHANGED <<mainPc, monitor_forced_exit, word, arguments, clientVars, readVars, answerVars>>
    BY <2>1 DEF mainVars, readVars
  <2>3. ChannelTypes' /\ Room'
    BY <1>0, <2>1, <2>2, ClientKept, ReadKept, AnswerKept, JobKept, OutKept
       DEF ChannelTypes, MainT, Room
  <2> QED BY <1>0, <2>1, <2>3, StartStutter, TypesPrimed
<1> QED BY <1>1, <1>2, <1>3, <1>4, <1>5 DEF ChannelNext

LEMMA TypesAlways == ChannelSpec => []TypesInv
BY InitTypes, TypesNext, PTL DEF ChannelSpec

(* No array of main is written past its end while a command and its arguments are read *)
(* (webcrawler.cpp:203,267,298), nor the words of a query in jobExecutor               *)
(* (jobExecutor.cpp:337), and only tokens and texts go through the two pipes, whatever *)
(* clients send and however reads, failures and deaths fall in between.                *)
THEOREM ChannelTyping == ChannelSpec => []ChannelTypeOK
<1>1. TypesInv => ChannelTypeOK
  BY DEF TypesInv
<1> QED BY <1>1, TypesAlways, PTL

-----------------------------------------------------------------------------
(* Main: finished with commands for ever, or talking to jobExecutor. *)
Finished == {"spin", "join", "waitpid", "gone"}
Talking == {"args", "send", "endLine", "answer"}
(* The words in the input of jobExecutor that it obeys. *)
Key(t) == t \in Known \cup {"/exit"}
Keys == {j \in DOMAIN toJob : Key(toJob[j].t)}
(* jobExecutor waits for a command, has taken one, has taken something else for one, is *)
(* at work on one, is not there, has nothing to say to anybody.                         *)
Waits == jePc \in {"ready", "read"} \/ (jePc = "replace" /\ back = "ready")
Taken == jePc = "route" \/ (jePc = "replace" /\ back = "route")
Mistaken == Taken /\ jobCommand \notin Known \cup {"/exit"}
Busy == jePc \in {"words", "keyword", "ignore", "work", "end"} \/ Taken
Off == jePc \in {"none", "gone", "hung"}
Unheard == Waits \/ Mistaken \/ Off

(* What is printed and not read. *)
Rest == fromJob \o buffered
(* The "<" that was read and not passed on. *)
Cut == IF previous_chunk_ends_in_tag THEN <<[n |-> 0, b |-> "<"]>> ELSE <<>>
(* Nothing is left of an answer. *)
Quiet == received = printed /\ fromJob = <<>> /\ buffered = <<>> /\ ~previous_chunk_ends_in_tag

Silent == /\ fromJob = <<>> /\ buffered = <<>> /\ printed = <<>>
          /\ received = <<>> /\ ~previous_chunk_ends_in_tag
(* Nothing is printed before jobExecutor is ready, nor written to it before it is there. *)
Unborn == /\ jePc \in {"none"} \cup Starting => Silent
          /\ jePc = "none" => toJob = <<>>
(* The flag is set as the monitor ends, unless a SHUTDOWN ends it. *)
Monitor ==
  /\ mainPc \notin Finished => (jobExecutorReadyForCommands <=> monitorPc = "done")
  /\ jePc \in Starting => monitorPc = "wait"
(* Before the flag is set no command is forwarded; all there may be is READY. *)
Early ==
  ~jobExecutorReadyForCommands /\ mainPc \notin Finished =>
    /\ mainPc \notin Talking /\ toJob = <<>> /\ cin = "good" /\ buffered = <<>>
    /\ received = <<>> /\ printed = <<>> /\ ~previous_chunk_ends_in_tag
    /\ Off \/ Waits \/ jePc \in Starting
    /\ fromJob = <<>> \/ fromJob = <<READY>>
(* All that is printed for a client carries its number, and no "<", and so does all that *)
(* the client received.                                                                  *)
Text == \A j \in 1..Len(printed) : printed[j].n = n /\ printed[j].b # "<"
Own == ~misread => \A j \in 1..Len(received) : received[j].n = n /\ received[j].b # "<"

(* The stages of a command that is forwarded, and the time between two. *)
Asked == /\ Quiet /\ printed = <<>> /\ Unheard
         /\ \A j \in Keys : toJob[j].t \in Known /\ toJob[j].n = n /\ Keys = {j}
AtWork == /\ asker = n /\ Keys = {} /\ (Off \/ (Busy /\ jobCommand \in Known))
          /\ printed = received \o Rest /\ ~previous_chunk_ends_in_tag
Ended == Keys = {} /\ Unheard /\ printed \o EndOfAnswer = (received \o Cut) \o Rest
Between == /\ Quiet /\ Keys = {} /\ Unheard
           /\ mainPc \in {"read", "dispatch"} => printed = <<>>
Exchange ==
  jobExecutorReadyForCommands /\ mainPc \notin Finished /\ ~misread =>
    IF mainPc \in Talking THEN Asked \/ AtWork \/ Ended ELSE Between

-----------------------------------------------------------------------------
(* What the start does to jobExecutor and to the monitor. *)
LEMMA StartMoves ==
  ASSUME Fits, StartNext
  PROVE  /\ jePc \notin {"none"} \cup Starting => jePc' \in {jePc, "gone"}
         /\ jePc = "none" => jePc' = "none" \/ (init_jobExecutor /\ jePc' = "make")
         /\ jePc \in Starting => jePc' \in Starting \cup {"gone"} \/ SayReady
         /\ \/ UNCHANGED <<monitorPc, jobExecutorReadyForCommands>>
            \/ CrawlFinishes \/ init_jobExecutor \/ ForkJobExecutorFails \/ ReadReady
<1> USE DEF Starting, Blocked
<1>1. CASE CrawlFinishes \/ init_jobExecutor \/ ForkJobExecutorFails \/ ReadReady
  <2>1. ~init_jobExecutor => UNCHANGED jePc
    BY <1>1 DEF CrawlFinishes, ForkJobExecutorFails, ReadReady, loopVars
  <2>2. init_jobExecutor => jePc' = "make"
    BY DEF init_jobExecutor
  <2>3. CASE init_jobExecutor
    BY <2>2, <2>3 DEF init_jobExecutor, Fits
  <2> QED BY <1>1, <2>1, <2>3
<1>2. CASE JobExecutorDies
  BY <1>2 DEF JobExecutorDies, monitorVars
<1>3. CASE jobExecutorStarts \/ ForkWorkerFails \/ ChildDiedAtStart
  <2>1. UNCHANGED <<monitorPc, jobExecutorReadyForCommands>>
    BY <1>3 DEF jobExecutorStarts, ForkWorkerFails, ChildDiedAtStart, MakeWorker, FifoExists,
                AllMade, OpenRequests, AllRequestsOpen, distribute_directories_to_workers,
                AllDealtOut, OpenAnswers, SayReady, WaitForWorkers, LoopEnds, Block, Meet,
                elsewhere, monitorVars
  <2>2. jePc \in Starting /\ (jePc' \in Starting \cup {"gone"} \/ SayReady)
    <3>1. CASE MakeWorker \/ FifoExists \/ ForkWorkerFails \/ distribute_directories_to_workers \/ WaitForWorkers
      BY <3>1 DEF MakeWorker, FifoExists, ForkWorkerFails, distribute_directories_to_workers,
                  WaitForWorkers, GiveUp
    <3>2. CASE AllMade \/ AllRequestsOpen \/ AllDealtOut \/ SayReady
      BY <3>2 DEF AllMade, AllRequestsOpen, AllDealtOut, SayReady, LoopEnds
    <3>3. CASE OpenRequests \/ OpenAnswers
      BY <3>3 DEF OpenRequests, OpenAnswers, Block, Meet, GiveUp
    <3>4. CASE ChildDiedAtStart
      BY <3>4 DEF ChildDiedAtStart, GiveUp
    <3> QED BY <1>3, <3>1, <3>2, <3>3, <3>4 DEF jobExecutorStarts
  <2> QED BY <2>1, <2>2
<1>4. CASE \E w \in Workers : WorkerStarts(w) \/ ExecFails(w) \/ WorkerDies(w)
  <2>1. UNCHANGED aside
    BY <1>4 DEF WorkerStarts, Exec, ReadDirectory, NoMoreDirectories, parse_subdirectories,
                ExecFails, WorkerDies
  <2>2. UNCHANGED <<jePc, monitorPc, jobExecutorReadyForCommands>>
    BY <2>1 DEF aside, loopVars, monitorVars
  <2> QED BY <2>2
<1> QED BY <1>1, <1>2, <1>3, <1>4 DEF StartNext

(* The invariant of the types, part by part. *)
LEMMA TypesGive ==
  ASSUME TypesInv
  PROVE  /\ StartTypeOK /\ Fits /\ jePc \in JePcs /\ ChannelTypes /\ Room
         /\ MainT /\ ClientT /\ ReadT /\ AnswerT /\ JobT /\ BackT /\ OutT
BY TypesInvIs DEF ChannelTypes

(* The places of jobExecutor at which its loop, or a signal in it, does something. *)
LEMMA LoopPlaces ==
  /\ Loop => jePc \in Serving \cup {"exit"}
  /\ Interrupted => jePc \in Serving
  /\ Loop \/ Interrupted => UNCHANGED <<monitorVars, mainVars>>
<1>1. Loop => jePc \in Serving \cup {"exit"}
  BY DEF Loop, AskForCommand, SkipBlank, TakeCommand, Route, TakeWord, EnoughWords, EndOfWords,
         IgnoreLine, Work, EndCommand, Replace, Exit, Serving
<1>2. Interrupted => jePc \in Serving
  BY DEF Interrupted, handle_child_termination, CommandInterrupted, WordsInterrupted,
         KeywordInterrupted, LineInterrupted, Serving
<1>3. Loop => UNCHANGED <<monitorVars, mainVars>>
  BY DEF Loop, AskForCommand, SkipBlank, TakeCommand, Route, TakeWord, EnoughWords, EndOfWords,
         IgnoreLine, Work, EndCommand, Replace, Exit, kept, mainOnly
<1>4. Interrupted => UNCHANGED <<monitorVars, mainVars>>
  BY DEF Interrupted, handle_child_termination, CommandInterrupted, WordsInterrupted,
         KeywordInterrupted, LineInterrupted, mainOnly
<1> QED BY <1>1, <1>2, <1>3, <1>4

(* misread is for ever. *)
LEMMA StillMisread ==
  ASSUME Loop \/ Interrupted
  PROVE  /\ misread => misread'
         /\ UNCHANGED <<mainPc, jobExecutorReadyForCommands, n, received, previous_chunk_ends_in_tag>>
<1>1. UNCHANGED <<mainPc, jobExecutorReadyForCommands, n, received, previous_chunk_ends_in_tag>>
  BY LoopPlaces DEF monitorVars, mainVars, clientVars, answerVars
<1>2. Loop => (misread => misread')
  BY DEF Loop, AskForCommand, SkipBlank, TakeCommand, Route, TakeWord, EnoughWords, EndOfWords,
         IgnoreLine, Work, EndCommand, Replace, Exit, printVars, coutVars
<1>3. Interrupted => (misread => misread')
  BY DEF Interrupted, handle_child_termination, CommandInterrupted, WordsInterrupted,
         KeywordInterrupted, LineInterrupted, printVars, coutVars
<1> QED BY <1>1, <1>2, <1>3

(* What main leaves alone. *)
LEMMA MainLeaves ==
  ASSUME Accept \/ Main
  PROVE  /\ UNCHANGED <<jePc, jobExecutorReadyForCommands, cin, jobCommand, asker, words, back, buffered, misread>>
         /\ mainPc \in Finished => mainPc' \in Finished
         /\ Shutdown \/ UNCHANGED monitorPc
         /\ ReadAnswer \/ UNCHANGED fromJob
         /\ Forward \/ SendArguments \/ SendEndOfLine \/ JoinMonitor \/ UNCHANGED toJob
         /\ ReadAnswer \/ Accept \/ UNCHANGED <<received, previous_chunk_ends_in_tag>>
         /\ Accept \/ UNCHANGED <<n, printed>>
<1> USE DEF Finished
<1>1. CASE Accept
  BY <1>1 DEF Accept, untouched, startVars, monitorVars, loopVars, cinVars
<1>2. CASE ReadAnswer
  BY <1>2 DEF ReadAnswer, monitorVars, loopVars, cinVars, coutVars, clientVars
<1>3. CASE Shutdown
  BY <1>3 DEF Shutdown, loopVars, cinVars, coutVars, clientVars, answerVars
<1>4. CASE Forward \/ SendArguments \/ SendEndOfLine \/ JoinMonitor
  <2>1. /\ UNCHANGED <<startVars, clientVars, answerVars, cin, jobCommand, asker, words, back, coutVars>>
        /\ mainPc' \in {"answer", "args", "endLine", "gone", "waitpid"}
        /\ mainPc \in Finished => JoinMonitor
    BY <1>4 DEF Forward, SendArguments, SendEndOfLine, JoinMonitor
  <2>2. JoinMonitor => mainPc' \in {"gone", "waitpid"}
    BY DEF JoinMonitor
  <2> QED BY <1>4, <2>1, <2>2 DEF startVars, monitorVars, loopVars, clientVars, answerVars, coutVars
<1>5. CASE ReadByte \/ ReadNothing \/ Close \/ AnswerItself \/ ReadArguments \/ ReadNoAnswer \/ WaitForJobExecutor
  <2>1. /\ UNCHANGED <<untouched, answerVars, coutVars, n>>
        /\ mainPc \in Finished => mainPc' \in Finished
    BY <1>5 DEF ReadByte, ReadNothing, Close, AnswerItself, ReadArguments, ReadNoAnswer,
                WaitForJobExecutor, clientVars, Dispatch
  <2> QED BY <2>1 DEF untouched, startVars, monitorVars, loopVars, cinVars, answerVars, coutVars
<1> QED BY <1>1, <1>2, <1>3, <1>4, <1>5 DEF Main

(* Nothing is written when there is no jobExecutor. *)
LEMMA WriteNothing ==
  ASSUME NEW ts, Write(ts), jePc = "none"
  PROVE  UNCHANGED toJob
BY DEF Write, HasPipe

(* jobExecutor never starts again. *)
LEMMA LoopGoes ==
  ASSUME TypesInv, Loop \/ Interrupted
  PROVE  jePc' \notin {"none"} \cup Starting
<1>1. BackT
  BY TypesGive
<1>2. Interrupted => jePc' \in Serving
  BY DEF Interrupted, handle_child_termination, CommandInterrupted, WordsInterrupted,
         KeywordInterrupted, LineInterrupted, Serving
<1>3. Loop => jePc' \in Serving \cup {"exit", "gone", "hung"}
  <2>1. Route => jePc' \in {"exit", "words", "keyword", "ignore"}
    BY Zenon DEF Route
  <2>2. SkipBlank => jePc' \in {"read", "words", "keyword"}
    BY DEF SkipBlank
  <2>3. Replace => jePc' \in {"hung", "ready", "route", "work"}
    BY <1>1 DEF Replace, BackT
  <2> QED BY <2>1, <2>2, <2>3 DEF Loop, AskForCommand, TakeCommand, TakeWord, EnoughWords, EndOfWords,
             IgnoreLine, Work, EndCommand, Exit, Serving
<1> QED BY <1>2, <1>3 DEF Serving, Starting, Blocked

(* Each part of the invariant lasts. *)
LEMMA UnbornNext ==
  ASSUME TypesInv, Unborn, ChannelNext
  PROVE  Unborn'
<1>0. Fits
  BY TypesGive
<1>1. CASE StartNext /\ UNCHANGED channelVars
  <2>1. UNCHANGED <<toJob, buffered, printed, received, previous_chunk_ends_in_tag>>
    BY <1>1 DEF channelVars, mainVars, answerVars, cinVars, coutVars
  <2>2. jePc' \in {"none"} \cup Starting =>
          jePc \in {"none"} \cup Starting /\ (jePc' = "none" => jePc = "none")
    BY <1>0, <1>1, StartMoves DEF Starting, Blocked, SayReady, LoopEnds
  <2>3. ASSUME jePc' \in {"none"} \cup Starting
        PROVE  fromJob' = <<>>
    <3>1. fromJob = <<>>
      BY <2>2, <2>3 DEF Unborn, Silent
    <3>2. ~SayReady
      BY <2>3 DEF SayReady, LoopEnds, Starting, Blocked
    <3> QED BY <1>1, <3>1, <3>2, StartPrints
  <2> QED BY <2>1, <2>2, <2>3 DEF Unborn, Silent
<1>2. CASE Accept \/ Main
  <2>1. CASE jePc \in {"none"} \cup Starting
    <3>1. fromJob = <<>> /\ Silent
      BY <2>1 DEF Unborn, Silent
    <3>2. ~ReadAnswer
      BY <3>1 DEF ReadAnswer
    <3>3. UNCHANGED <<jePc, buffered, fromJob>>
      BY <1>2, <3>2, MainLeaves
    <3>4. Silent'
      <4>1. CASE Accept
        BY <3>1, <3>3, <4>1 DEF Silent, Accept
      <4>2. CASE ~Accept
        BY <1>2, <3>1, <3>2, <3>3, <4>2, MainLeaves DEF Silent
      <4> QED BY <4>1, <4>2
    <3>5. jePc = "none" => UNCHANGED toJob
      BY <1>2, WriteNothing, MainLeaves DEF Forward, SendArguments, SendEndOfLine, JoinMonitor
    <3> QED BY <3>3, <3>4, <3>5 DEF Unborn
  <2>2. CASE jePc \notin {"none"} \cup Starting
    BY <1>2, <2>2, MainLeaves DEF Unborn
  <2> QED BY <2>1, <2>2
<1>3. CASE Loop \/ Interrupted
  <2>1. jePc' \notin {"none"} \cup Starting
    BY <1>3, LoopGoes
  <2> QED BY <2>1 DEF Unborn
<1> QED BY <1>1, <1>2, <1>3 DEF ChannelNext

LEMMA MonitorNext ==
  ASSUME TypesInv, Unborn, Monitor, ChannelNext
  PROVE  Monitor'
<1>0. Fits
  BY TypesGive
<1>1. CASE StartNext /\ UNCHANGED channelVars
  <2>1. UNCHANGED mainPc
    BY <1>1 DEF channelVars, mainVars
  <2>2. CASE UNCHANGED <<monitorPc, jobExecutorReadyForCommands>>
    <3>1. jePc' \in Starting => jePc \in Starting \/ init_jobExecutor
      BY <1>0, <1>1, StartMoves DEF Starting, Blocked
    <3>2. ~init_jobExecutor
      BY <2>2 DEF init_jobExecutor
    <3> QED BY <2>1, <2>2, <3>1, <3>2 DEF Monitor
  <2>3. CASE CrawlFinishes
    <3>1. monitorPc = "crawl" /\ monitorPc' = "init" /\ UNCHANGED <<jobExecutorReadyForCommands, jePc>>
      BY <2>3 DEF CrawlFinishes, loopVars
    <3> QED BY <2>1, <3>1 DEF Monitor
  <2>4. CASE init_jobExecutor
    BY <2>1, <2>4 DEF init_jobExecutor, Monitor
  <2>5. CASE ForkJobExecutorFails
    <3>1. monitorPc = "init" /\ monitorPc' = "done" /\ jobExecutorReadyForCommands' /\ UNCHANGED jePc
      BY <2>5 DEF ForkJobExecutorFails, loopVars
    <3> QED BY <3>1 DEF Monitor
  <2>6. CASE ReadReady
    <3>1. monitorPc' = "done" /\ jobExecutorReadyForCommands' /\ UNCHANGED jePc
      BY <2>6 DEF ReadReady, loopVars
    <3>2. fromJob # <<>> \/ ~PipeOpen
      BY <2>6 DEF ReadReady
    <3>3. jePc \notin Starting
      BY <3>2 DEF Unborn, Silent, PipeOpen, Starting, Blocked
    <3> QED BY <3>1, <3>3 DEF Monitor
  <2> QED BY <1>0, <1>1, <2>2, <2>3, <2>4, <2>5, <2>6, StartMoves
<1>2. CASE Accept \/ Main
  <2>1. CASE UNCHANGED monitorPc
    BY <1>2, <2>1, MainLeaves DEF Monitor
  <2>2. CASE Shutdown /\ ~(UNCHANGED monitorPc)
    <3>1. mainPc' = "join" /\ monitorPc = "crawl" /\ UNCHANGED jePc
      BY <2>2 DEF Shutdown, crawling_has_finished, loopVars
    <3>2. jePc = "none"
      BY <1>0, <3>1 DEF Fits
    <3> QED BY <3>1, <3>2 DEF Monitor, Finished, Starting, Blocked
  <2> QED BY <1>2, <2>1, <2>2, MainLeaves
<1>3. CASE Loop \/ Interrupted
  <2>1. jePc' \notin {"none"} \cup Starting
    BY <1>3, LoopGoes
  <2>2. UNCHANGED <<monitorPc, jobExecutorReadyForCommands, mainPc>>
    BY <1>3, LoopPlaces DEF monitorVars, mainVars
  <2> QED BY <2>1, <2>2 DEF Monitor
<1> QED BY <1>1, <1>2, <1>3 DEF ChannelNext

LEMMA EarlyNext ==
  ASSUME TypesInv, Unborn, Monitor, Early, ChannelNext
  PROVE  Early'
<1> SUFFICES ASSUME ~jobExecutorReadyForCommands', mainPc' \notin Finished
             PROVE  /\ mainPc' \notin Talking /\ toJob' = <<>> /\ cin' = "good" /\ buffered' = <<>>
                    /\ received' = <<>> /\ printed' = <<>> /\ ~previous_chunk_ends_in_tag'
                    /\ Off' \/ Waits' \/ jePc' \in Starting
                    /\ fromJob' = <<>> \/ fromJob' = <<READY>>
  BY DEF Early
<1>0. Fits /\ OutT /\ BackT
  BY TypesGive
<1> DEFINE Calm == /\ ~jobExecutorReadyForCommands /\ mainPc \notin Finished
                   /\ mainPc \notin Talking /\ toJob = <<>> /\ cin = "good" /\ buffered = <<>>
                   /\ received = <<>> /\ printed = <<>> /\ ~previous_chunk_ends_in_tag
                   /\ Off \/ Waits \/ jePc \in Starting
                   /\ fromJob = <<>> \/ fromJob = <<READY>>
<1>1. CASE StartNext /\ UNCHANGED channelVars
  <2>1. UNCHANGED <<mainPc, toJob, cin, back, buffered, printed, received, previous_chunk_ends_in_tag>>
    BY <1>1 DEF channelVars, mainVars, answerVars, cinVars, coutVars
  <2>2. ~ReadReady /\ ~ForkJobExecutorFails /\ UNCHANGED jobExecutorReadyForCommands
    BY <1>0, <1>1, StartMoves DEF ReadReady, ForkJobExecutorFails, CrawlFinishes, init_jobExecutor
  <2>3. Calm
    BY <2>1, <2>2 DEF Early
  <2>4. Off' \/ Waits' \/ jePc' \in Starting
    <3>1. SayReady => jePc' = "ready"
      BY DEF SayReady, LoopEnds
    <3>2. CASE jePc \in Starting
      BY <1>0, <1>1, <3>1, <3>2, StartMoves DEF Off, Waits
    <3>3. CASE jePc = "none"
      BY <1>0, <1>1, <3>3, StartMoves DEF Off, Starting
    <3>4. CASE jePc \notin {"none"} \cup Starting
      BY <1>0, <1>1, <2>1, <2>3, <3>4, StartMoves DEF Off, Waits
    <3> QED BY <3>2, <3>3, <3>4
  <2>5. fromJob' = <<>> \/ fromJob' = <<READY>>
    <3>1. CASE UNCHANGED fromJob
      BY <2>3, <3>1
    <3>2. CASE SayReady /\ fromJob' = Append(fromJob, READY)
      <4>1. jePc \in Starting
        BY <3>2 DEF SayReady, LoopEnds, Starting
      <4>2. fromJob = <<>>
        BY <4>1 DEF Unborn, Silent
      <4> QED BY <3>2, <4>2
    <3> QED BY <1>1, <2>2, <3>1, <3>2, StartPrints
  <2> QED BY <2>1, <2>3, <2>4, <2>5
<1>2. CASE Accept \/ Main
  <2>1. /\ UNCHANGED <<jePc, cin, back, buffered>> /\ Calm
    BY <1>2, MainLeaves DEF Early
  <2>2. ~ReadAnswer /\ ~Forward /\ ~SendArguments /\ ~SendEndOfLine /\ ~JoinMonitor
    BY <2>1 DEF ReadAnswer, Forward, SendArguments, SendEndOfLine, JoinMonitor, Refused, Talking,
                Finished
  <2>3. mainPc' \notin Talking
    BY <1>2, <2>1, <2>2 DEF Main, Accept, ReadByte, ReadNothing, Close, AnswerItself, ReadArguments,
                            ReadNoAnswer, Shutdown, WaitForJobExecutor, Talking, Dispatch
  <2>4. UNCHANGED <<toJob, fromJob>>
    BY <1>2, <2>2, MainLeaves
  <2>5. received' = <<>> /\ printed' = <<>> /\ ~previous_chunk_ends_in_tag'
    <3>1. CASE Accept
      BY <3>1 DEF Accept
    <3>2. CASE ~Accept
      BY <1>2, <2>1, <2>2, <3>2, MainLeaves
    <3> QED BY <3>1, <3>2
  <2> QED BY <2>1, <2>3, <2>4, <2>5 DEF Off, Waits
<1>3. CASE Loop \/ Interrupted
  <2>1. UNCHANGED <<mainPc, received, previous_chunk_ends_in_tag>> /\ Calm
    <3>1. UNCHANGED <<jobExecutorReadyForCommands, mainPc, received, previous_chunk_ends_in_tag>>
      BY <1>3, LoopPlaces DEF monitorVars, mainVars, answerVars
    <3> QED BY <3>1 DEF Early
  <2>2. Waits
    BY <1>3, <2>1, LoopPlaces DEF Off, Serving, Starting, Blocked
  <2>3. ~WordIsThere /\ Coming = "none"
    <3>1. Len(<<>>) = 0
      BY EmptySeq
    <3> QED BY <2>1, <3>1 DEF WordIsThere, Coming
  <2>4. CASE AskForCommand
    <3>1. /\ Flush /\ jePc' = "read" /\ UNCHANGED <<cin, toJob, printed>>
      BY <2>1, <2>4 DEF AskForCommand
    <3>2. fromJob \o <<>> = fromJob
      BY <1>0, ConcatEmptySeq DEF OutT
    <3> QED BY <2>1, <3>1, <3>2 DEF Flush, Waits
  <2>5. CASE Replace
    <3>1. jePc' \in {"hung", "ready"} /\ UNCHANGED <<cinVars, fromJob, coutVars>>
      BY <2>2, <2>5 DEF Replace, Waits, printVars
    <3> QED BY <2>1, <3>1 DEF Waits, Off, cinVars, coutVars
  <2>6. CASE handle_child_termination \/ CommandInterrupted
    <3>1. UNCHANGED <<toJob, cin, fromJob, buffered, printed>>
      BY <2>6 DEF handle_child_termination, CommandInterrupted, cinVars, printVars, coutVars
    <3>2. Waits'
      BY <2>2, <2>6 DEF handle_child_termination, CommandInterrupted, cinVars, Waits
    <3> QED BY <2>1, <3>1, <3>2
  <2>7. ~(SkipBlank \/ TakeCommand \/ Route \/ TakeWord \/ EnoughWords \/ EndOfWords \/ IgnoreLine \/ Work
          \/ EndCommand \/ Exit \/ WordsInterrupted \/ KeywordInterrupted \/ LineInterrupted)
    BY <2>2, <2>3 DEF SkipBlank, TakeCommand, Route, TakeWord, EnoughWords, EndOfWords, IgnoreLine,
                      Work, EndCommand, Exit, WordsInterrupted, KeywordInterrupted, LineInterrupted,
                      Waits, Blank
  <2> QED BY <1>3, <2>4, <2>5, <2>6, <2>7 DEF Loop, Interrupted
<1> QED BY <1>1, <1>2, <1>3 DEF ChannelNext

(* What a step of jobExecutor prints: nothing, or a line for its asker. *)
LEMMA Printed ==
  ASSUME TypesInv, Loop \/ Interrupted
  PROVE  \/ UNCHANGED printed
         \/ \E m \in 1..MaxText : Record(Line(m))
<1>1. 1 \in 1..MaxText
  BY Sizes
<1>2. Loop => \/ UNCHANGED printed
              \/ \E m \in 1..MaxText : Record(Line(m))
  BY <1>1 DEF Loop, AskForCommand, SkipBlank, TakeCommand, Route, TakeWord, EnoughWords, EndOfWords,
              IgnoreLine, Work, EndCommand, Replace, Exit, printVars, coutVars, PrintLine, Buffer
<1>3. Interrupted => \/ UNCHANGED printed
                     \/ \E m \in 1..MaxText : Record(Line(m))
  BY <1>1 DEF Interrupted, handle_child_termination, CommandInterrupted, WordsInterrupted,
              KeywordInterrupted, LineInterrupted, printVars, coutVars, PrintLine
<1> QED BY <1>2, <1>3

LEMMA TextNext ==
  ASSUME TypesInv, Text, ChannelNext
  PROVE  Text'
<1>0. OutT /\ JobT
  BY TypesGive
<1>1. CASE StartNext /\ UNCHANGED channelVars
  BY <1>1 DEF channelVars, mainVars, clientVars, coutVars, Text
<1>2. CASE Accept
  <2>1. printed' = <<>>
    BY <1>2 DEF Accept
  <2>2. Len(printed') = 0
    BY <2>1, EmptySeq
  <2> QED BY <2>2 DEF Text
<1>3. CASE Main /\ ~Accept
  BY <1>3, MainLeaves DEF Text
<1>4. CASE Loop \/ Interrupted
  <2>1. UNCHANGED n
    BY <1>4, LoopPlaces DEF mainVars, clientVars
  <2>2. CASE UNCHANGED printed
    BY <2>1, <2>2 DEF Text
  <2>3. ASSUME NEW m \in 1..MaxText, Record(Line(m)), asker = n
        PROVE  Text'
    <3> DEFINE l == Line(m)
    <3>1. /\ l \in Seq(Item) /\ Len(l) \in Nat
          /\ \A j \in 1..Len(l) : l[j].n = n /\ l[j].b # "<"
      <4>1. /\ l \in Seq(Item) /\ Len(l) = m + 1
            /\ \A j \in 1..(m + 1) : l[j] = [n |-> asker, b |-> IF j <= m THEN "x" ELSE "\n"]
        BY <1>0, LineTypes
      <4>2. \A j \in 1..(m + 1) : l[j].n = n /\ l[j].b # "<"
        BY <2>3, <4>1
      <4> QED BY <4>1, <4>2, LenProperties
    <3>2. printed' = printed \o l /\ printed \in Seq(Item) /\ Len(printed) \in Nat
      BY <1>0, <2>3, LenProperties DEF Record, OutT
    <3> HIDE DEF l
    <3>3. /\ Len(printed') = Len(printed) + Len(l)
          /\ \A j \in 1..(Len(printed) + Len(l)) :
               printed'[j] = IF j <= Len(printed) THEN printed[j] ELSE l[j - Len(printed)]
      BY <3>1, <3>2, ConcatProperties
    <3>4. ASSUME NEW j \in 1..Len(printed')
          PROVE  printed'[j].n = n /\ printed'[j].b # "<"
      <4>1. CASE j <= Len(printed)
        BY <3>2, <3>3, <4>1 DEF Text
      <4>2. CASE j > Len(printed)
        BY <3>1, <3>2, <3>3, <4>2
      <4> QED BY <3>2, <3>3, <4>1, <4>2
    <3> QED BY <2>1, <3>4 DEF Text
  <2>4. ASSUME NEW m \in 1..MaxText, Record(Line(m)), asker # n
        PROVE  UNCHANGED printed
    BY <2>4 DEF Record
  <2> QED BY <1>4, <2>2, <2>3, <2>4, Printed
<1> QED BY <1>1, <1>2, <1>3, <1>4 DEF ChannelNext

-----------------------------------------------------------------------------
(* The words that ask for something, in the input of jobExecutor. *)
LEMMA KeysAre ==
  ASSUME JobT
  PROVE  Len(toJob) \in Nat /\ Keys = {j \in 1..Len(toJob) : Key(toJob[j].t)}
BY LenProperties DEF JobT, Keys

LEMMA KeysDrop ==
  ASSUME JobT, JobT', toJob # <<>>, toJob' = Tail(toJob)
  PROVE  \A j \in Keys' : j + 1 \in Keys /\ toJob'[j] = toJob[j + 1]
<1>1. /\ Len(toJob) \in Nat /\ Len(toJob') = Len(toJob) - 1
      /\ \A j \in 1..Len(toJob') : toJob'[j] = toJob[j + 1]
  BY Front
<1>2. \A j \in Keys' : j \in 1..Len(toJob') /\ Key(toJob'[j].t)
  BY LenProperties DEF JobT, Keys
<1>3. \A j \in 1..Len(toJob') : j + 1 \in 1..Len(toJob)
  BY <1>1
<1> QED BY <1>1, <1>2, <1>3, KeysAre

LEMMA WriteKeys ==
  ASSUME JobT, JobT', ClientT, NEW ts \in Seq(Symbols), Write(ts)
  PROVE  \A j \in Keys' : \/ j \in Keys /\ toJob'[j] = toJob[j]
                          \/ \E h \in 1..Len(ts) : /\ j = Len(toJob) + h /\ Key(ts[h])
                                                   /\ toJob'[j] = [t |-> ts[h], n |-> n]
<1> DEFINE more == [j \in 1..Len(ts) |-> [t |-> ts[j], n |-> n]]
<1>1. Len(ts) \in Nat /\ \A j \in 1..Len(ts) : ts[j] \in Symbols
  BY LenProperties, ElementOfSeq
<1>2. more \in Seq(Input) /\ Len(more) = Len(ts) /\ \A j \in 1..Len(ts) : more[j] = [t |-> ts[j], n |-> n]
  <2>1. more \in [1..Len(ts) -> Input]
    BY <1>1 DEF Input, ClientT
  <2> QED BY <1>1, <2>1, Listed
<1>3. UNCHANGED toJob \/ toJob' = toJob \o more
  BY DEF Write
<1> HIDE DEF more
<1>4. toJob \in Seq(Input) /\ Len(toJob) \in Nat
  BY LenProperties DEF JobT
<1>5. \A j \in Keys' : j \in 1..Len(toJob') /\ Key(toJob'[j].t)
  BY LenProperties DEF JobT, Keys
<1>6. CASE UNCHANGED toJob
  BY <1>6 DEF Keys
<1>7. CASE toJob' = toJob \o more
  <2>0. /\ Len(toJob \o more) = Len(toJob) + Len(more)
        /\ \A j \in 1..(Len(toJob) + Len(more)) :
             (toJob \o more)[j] = IF j <= Len(toJob) THEN toJob[j] ELSE more[j - Len(toJob)]
    <3>1. more \in Seq(Input) /\ toJob \in Seq(Input)
      BY <1>2, <1>4
    <3> QED BY ONLY <3>1, ConcatProperties
  <2>1. /\ Len(toJob') = Len(toJob) + Len(ts)
        /\ \A j \in 1..(Len(toJob) + Len(ts)) :
             toJob'[j] = IF j <= Len(toJob) THEN toJob[j] ELSE more[j - Len(toJob)]
    BY <1>2, <1>7, <2>0
  <2> SUFFICES ASSUME NEW j \in Keys'
               PROVE  \/ j \in Keys /\ toJob'[j] = toJob[j]
                      \/ \E h \in 1..Len(ts) : /\ j = Len(toJob) + h /\ Key(ts[h])
                                               /\ toJob'[j] = [t |-> ts[h], n |-> n]
    OBVIOUS
  <2>2. CASE j <= Len(toJob)
    BY <1>4, <1>5, <2>1, <2>2, KeysAre
  <2>3. CASE j > Len(toJob)
    <3> DEFINE h == j - Len(toJob)
    <3>1. h \in 1..Len(ts) /\ j = Len(toJob) + h /\ toJob'[j] = more[h]
      BY <1>1, <1>4, <1>5, <2>1, <2>3
    <3> HIDE DEF h
    <3>2. toJob'[j] = [t |-> ts[h], n |-> n] /\ Key(ts[h])
      BY <1>2, <1>5, <3>1
    <3> QED BY <3>1, <3>2
  <2> QED BY <1>4, <1>5, <2>1, <2>2, <2>3
<1> QED BY <1>3, <1>6, <1>7

-----------------------------------------------------------------------------
(* The start brings the exchange about, and a death leaves it as it is. *)
Live == jobExecutorReadyForCommands /\ mainPc \notin Finished /\ ~misread

LEMMA KeysKept == UNCHANGED toJob => UNCHANGED Keys
BY DEF Keys

LEMMA StartIsHeard ==
  ASSUME TypesInv, Unborn, Monitor, Early, Exchange, StartNext, UNCHANGED channelVars
  PROVE  Exchange'
<1>0. Fits /\ OutT
  BY TypesGive
<1>1. /\ UNCHANGED <<mainPc, misread, toJob, back, jobCommand, asker, n, buffered, printed, received>>
      /\ UNCHANGED <<previous_chunk_ends_in_tag, Keys>>
  BY KeysKept DEF channelVars, mainVars, clientVars, answerVars, cinVars, coutVars
<1> SUFFICES ASSUME jobExecutorReadyForCommands', mainPc' \notin Finished, ~misread'
             PROVE  IF mainPc' \in Talking THEN Asked' \/ AtWork' \/ Ended' ELSE Between'
  BY DEF Exchange
<1>2. CASE jobExecutorReadyForCommands
  <2>1. monitorPc = "done" /\ jePc \notin Starting
    BY <1>1, <1>2 DEF Monitor
  <2>2. ~CrawlFinishes /\ ~init_jobExecutor /\ ~ForkJobExecutorFails /\ ~ReadReady /\ ~SayReady
    BY <2>1 DEF CrawlFinishes, init_jobExecutor, ForkJobExecutorFails, ReadReady, SayReady,
                LoopEnds, Starting
  <2>3. jePc' \in {jePc, "gone"}
    BY <1>0, <2>1, <2>2, StartMoves
  <2>4. UNCHANGED fromJob
    BY <2>2, StartPrints
  <2>5. Off => Off'
    BY <2>3 DEF Off
  <2>6. Unheard => Unheard'
    BY <1>1, <2>3 DEF Unheard, Waits, Mistaken, Taken, Off
  <2>7. /\ Quiet => Quiet'
        /\ UNCHANGED Rest /\ UNCHANGED Cut
    BY <1>1, <2>4 DEF Quiet, Rest, Cut
  <2>8. Asked => Asked'
    BY <1>1, <2>6, <2>7 DEF Asked
  <2>9. AtWork => AtWork'
    <3>1. Busy => Busy' \/ Off'
      BY <1>1, <2>3 DEF Busy, Taken, Off
    <3> QED BY <1>1, <2>5, <2>7, <3>1 DEF AtWork
  <2>10. Ended => Ended'
    BY <1>1, <2>6, <2>7 DEF Ended
  <2>11. Between => Between'
    BY <1>1, <2>6, <2>7 DEF Between
  <2> QED BY <1>1, <1>2, <2>8, <2>9, <2>10, <2>11 DEF Exchange
<1>3. CASE ~jobExecutorReadyForCommands
  <2>1. /\ mainPc \notin Talking /\ toJob = <<>> /\ buffered = <<>>
        /\ received = <<>> /\ printed = <<>> /\ ~previous_chunk_ends_in_tag
        /\ Off \/ Waits \/ jePc \in Starting
        /\ fromJob = <<>> \/ fromJob = <<READY>>
    BY <1>1, <1>3 DEF Early
  <2>2. ForkJobExecutorFails \/ ReadReady
    BY <1>0, <1>3, StartMoves DEF CrawlFinishes, init_jobExecutor
  <2>3. fromJob' = <<>> /\ jePc \notin Starting /\ UNCHANGED jePc
    <3>1. CASE ForkJobExecutorFails
      <4>1. jePc = "none" /\ UNCHANGED <<jePc, fromJob>>
        BY <1>0, <3>1 DEF ForkJobExecutorFails, Fits, loopVars
      <4> QED BY <4>1 DEF Unborn, Silent, Starting, Blocked
    <3>2. CASE ReadReady
      <4>1. UNCHANGED jePc /\ (fromJob # <<>> \/ ~PipeOpen)
        BY <3>2 DEF ReadReady, loopVars
      <4>2. jePc \notin Starting
        BY <4>1 DEF Unborn, Silent, PipeOpen, Starting, Blocked
      <4>3. fromJob' = <<>>
        <5>1. fromJob = <<>> => fromJob' = <<>>
          BY <3>2 DEF ReadReady
        <5>2. CASE fromJob # <<>>
          <6>1. fromJob = <<READY>> /\ fromJob' = Tail(fromJob) /\ fromJob \in Seq(Item)
            BY <1>0, <2>1, <3>2, <5>2 DEF ReadReady, OutT
          <6>2. Len(fromJob) = 1
            BY <6>1
          <6>3. Tail(fromJob) \in Seq(Item) /\ Len(Tail(fromJob)) = Len(fromJob) - 1
            BY ONLY <5>2, <6>1, HeadTailProperties
          <6> QED BY <6>1, <6>2, <6>3, EmptySeq
        <5> QED BY <5>1, <5>2
      <4> QED BY <4>1, <4>2, <4>3
    <3> QED BY <2>2, <3>1, <3>2
  <2>4. Unheard'
    BY <1>1, <2>1, <2>3 DEF Unheard, Off, Waits
  <2>5. Keys' = {}
    BY <1>1, <2>1, EmptySeq DEF Keys
  <2> QED BY <1>1, <2>1, <2>3, <2>4, <2>5 DEF Between, Quiet
<1> QED BY <1>2, <1>3

-----------------------------------------------------------------------------
(* What main does to the exchange. *)
LEMMA TypesGivePrimed == TypesInv' => ClientT' /\ AnswerT' /\ JobT' /\ OutT'
<1>1. TypesInv => ClientT /\ AnswerT /\ JobT /\ OutT
  BY TypesGive
<1>2. TypesInv' => (ClientT /\ AnswerT /\ JobT /\ OutT)'
  BY <1>1, PTL
<1> QED BY <1>2

LEMMA MainKeeps ==
  ASSUME Accept \/ Main
  PROVE  /\ UNCHANGED <<Unheard, Busy, Off, jePc, jobCommand, asker, buffered>>
         /\ UNCHANGED <<jobExecutorReadyForCommands, misread>>
         /\ mainPc' \notin Finished => mainPc \notin Finished
<1>1. UNCHANGED <<jePc, jobExecutorReadyForCommands, cin, jobCommand, asker, words, back, buffered, misread>>
  BY MainLeaves
<1>2. mainPc' \notin Finished => mainPc \notin Finished
  BY MainLeaves
<1> QED BY <1>1, <1>2 DEF Unheard, Waits, Mistaken, Taken, Busy, Off

LEMMA QuietMain ==
  ASSUME TypesInv, Exchange,
         \/ Accept \/ ReadByte \/ ReadNothing \/ Close \/ AnswerItself \/ Shutdown \/ JoinMonitor
         \/ WaitForJobExecutor
  PROVE  Exchange'
<1> SUFFICES ASSUME Live' PROVE mainPc' \notin Talking /\ Between'
  BY DEF Exchange, Live
<1>1. Accept \/ Main
  BY DEF Main
<1>2. /\ UNCHANGED <<Unheard, jobExecutorReadyForCommands, misread, buffered>>
      /\ mainPc \notin Finished /\ mainPc' \notin Finished
  BY <1>1, MainKeeps DEF Live
<1>3. ~JoinMonitor /\ ~WaitForJobExecutor /\ ~Shutdown
  BY <1>2 DEF JoinMonitor, WaitForJobExecutor, Shutdown, Finished
<1>4. mainPc' \notin Talking /\ mainPc \notin Talking
      /\ (Accept \/ mainPc = "read" \/ mainPc' \notin {"read", "dispatch"})
  BY <1>3 DEF Accept, ReadByte, ReadNothing, Close, AnswerItself, Dispatch, Talking
<1>5. Between
  BY <1>2, <1>4 DEF Live, Exchange
<1>6. UNCHANGED <<toJob, fromJob, Keys>>
  <2>1. ~Forward /\ ~SendArguments /\ ~SendEndOfLine /\ ~ReadAnswer
    BY <1>4 DEF Forward, SendArguments, SendEndOfLine, ReadAnswer, Talking, Accept, ReadByte,
                ReadNothing, Close, AnswerItself
  <2> QED BY <1>1, <1>3, <2>1, MainLeaves, KeysKept
<1>7. CASE Accept
  <2>1. received' = printed' /\ printed' = <<>> /\ ~previous_chunk_ends_in_tag'
    BY <1>7 DEF Accept
  <2> QED BY <1>2, <1>4, <1>5, <1>6, <2>1 DEF Between, Quiet
<1>8. CASE ~Accept
  <2>1. UNCHANGED <<received, printed, previous_chunk_ends_in_tag>>
    BY <1>3, <1>8 DEF ReadByte, ReadNothing, Close, AnswerItself, answerVars, coutVars
  <2>2. mainPc' \in {"read", "dispatch"} => printed = <<>>
    BY <1>4, <1>5, <1>8 DEF Between
  <2> QED BY <1>2, <1>4, <1>5, <1>6, <2>1, <2>2 DEF Between, Quiet
<1> QED BY <1>7, <1>8

LEMMA KeywordIs ==
  ASSUME command \in Forwarded
  PROVE  /\ Keyword(command) \in Seq(Symbols) /\ Len(Keyword(command)) = 2
         /\ Keyword(command)[1] \in Known /\ ~Key(Keyword(command)[2])
<1>1. /\ Keyword(command) \in {<<"/search", " ">>, <<"/maxcount", " ">>, <<"/wc", "\n">>}
      /\ Keyword(command) \in Seq(Symbols)
  BY KeywordTypes
<1>3. /\ {"/search", "/maxcount", "/wc"} \subseteq Known /\ ~Key(" ") /\ ~Key("\n")
  BY DEF Known, Key
<1>4. ASSUME NEW x \in Known, NEW y, ~Key(y), Keyword(command) = <<x, y>>
      PROVE  /\ Len(Keyword(command)) = 2 /\ Keyword(command)[1] \in Known
             /\ ~Key(Keyword(command)[2])
  <2>1. Keyword(command)[1] = x /\ Keyword(command)[2] = y /\ Len(Keyword(command)) = 2
    BY <1>4
  <2> QED BY <1>4, <2>1
<1>5. \E x \in Known, y \in {" ", "\n"} : Keyword(command) = <<x, y>>
  BY <1>1, Zenon DEF Known
<1> QED BY <1>1, <1>3, <1>4, <1>5, Zenon

LEMMA ForwardAsks ==
  ASSUME TypesInv, TypesInv', Exchange, Forward
  PROVE  Exchange'
<1> SUFFICES ASSUME Live' PROVE mainPc' \in Talking /\ Asked'
  BY DEF Exchange, Live
<1>0. JobT /\ JobT' /\ ClientT
  BY TypesGive, TypesGivePrimed
<1>1. Accept \/ Main
  BY DEF Main
<1>2. /\ UNCHANGED <<Unheard, jobExecutorReadyForCommands, misread, buffered>>
      /\ mainPc \notin Finished
  BY <1>1, MainKeeps DEF Live
<1>3. /\ mainPc = "dispatch" /\ command \in Forwarded /\ Write(Keyword(command)) /\ mainPc' \in {"answer", "args"}
  BY DEF Forward
<1>4. UNCHANGED <<fromJob, received, printed, previous_chunk_ends_in_tag, n>>
  BY DEF Forward, startVars, clientVars, answerVars, coutVars
<1>5. Quiet /\ Keys = {} /\ Unheard /\ printed = <<>>
  BY <1>2, <1>3 DEF Live, Exchange, Between, Talking
<1>6. \A j \in Keys' : j = Len(toJob) + 1 /\ toJob'[j] = [t |-> Keyword(command)[1], n |-> n]
  <2>1. \A j \in Keys' : \E h \in 1..2 : /\ j = Len(toJob) + h /\ Key(Keyword(command)[h])
                                        /\ toJob'[j] = [t |-> Keyword(command)[h], n |-> n]
    BY <1>0, <1>3, <1>5, KeywordIs, WriteKeys
  <2> QED BY <1>3, <2>1, KeywordIs
<1>7. \A j \in Keys' : toJob'[j].t \in Known /\ toJob'[j].n = n' /\ Keys' = {j}
  BY <1>3, <1>4, <1>6, KeywordIs
<1> QED BY <1>2, <1>3, <1>4, <1>5, <1>7 DEF Asked, Quiet, Talking

LEMMA ArgumentsAskNothing ==
  ASSUME TypesInv, TypesInv', Unborn, Exchange, ReadArguments \/ SendArguments \/ SendEndOfLine \/ ReadNoAnswer
  PROVE  Exchange'
<1> SUFFICES ASSUME Live' PROVE IF mainPc' \in Talking THEN Asked' \/ AtWork' \/ Ended' ELSE Between'
  BY DEF Exchange, Live
<1>0. JobT /\ JobT' /\ ClientT /\ ReadT
  BY TypesGive, TypesGivePrimed
<1>1. Accept \/ Main
  BY DEF Main
<1>2. /\ UNCHANGED <<Unheard, Busy, Off, jePc, jobCommand, asker, jobExecutorReadyForCommands, misread, buffered>>
      /\ mainPc \notin Finished /\ mainPc' \notin Finished
  BY <1>1, MainKeeps DEF Live
<1>3. UNCHANGED <<fromJob, received, printed, previous_chunk_ends_in_tag, n, Rest, Cut>>
  <2>1. UNCHANGED <<fromJob, received, printed, previous_chunk_ends_in_tag, n>>
    BY DEF ReadArguments, SendArguments, SendEndOfLine, ReadNoAnswer, untouched, startVars,
           clientVars, answerVars, coutVars
  <2> QED BY <1>2, <2>1 DEF Rest, Cut
<1>4. mainPc \in Talking /\ (Asked \/ AtWork \/ Ended)
  BY <1>2 DEF Exchange, Live, ReadArguments, SendArguments, SendEndOfLine, ReadNoAnswer, Talking
<1>5. CASE ReadNoAnswer
  <2>1. mainPc' = "close" /\ jePc = "none" /\ UNCHANGED toJob
    BY <1>2, <1>5 DEF ReadNoAnswer, HasPipe, Finished, untouched, cinVars
  <2>2. toJob = <<>> /\ Silent
    BY <2>1 DEF Unborn
  <2>3. Keys' = {}
    BY <2>1, <2>2, EmptySeq DEF Keys
  <2>4. Off'
    BY <1>2, <2>1 DEF Off
  <2> QED BY <1>2, <1>3, <2>1, <2>2, <2>3, <2>4 DEF Between, Quiet, Silent, Talking, Unheard
<1>6. CASE ~ReadNoAnswer
  <2>1. mainPc' \in Talking
    BY <1>2, <1>6 DEF ReadArguments, SendArguments, SendEndOfLine, Talking, Finished
  <2>2. \A t \in Sent : ~Key(t)
    BY DEF Sent, CommandWords, Forwarded, Blank, Key, Known
  <2>3. ASSUME NEW ts \in Seq(Symbols), Write(ts), \A h \in 1..Len(ts) : ts[h] \in Sent
        PROVE  \A j \in Keys' : j \in Keys /\ toJob'[j] = toJob[j]
    BY <1>0, <2>2, <2>3, WriteKeys
  <2>4. \A j \in Keys' : j \in Keys /\ toJob'[j] = toJob[j]
    <3>1. CASE ReadArguments
      BY <3>1, KeysKept DEF ReadArguments, untouched, cinVars
    <3>2. CASE SendArguments
      BY <1>0, <2>3, <3>2, ArgumentsSent
    <3>3. CASE SendEndOfLine
      <4>1. <<"\n">> \in Seq(Symbols) /\ Write(<<"\n">>)
        BY <3>3 DEF SendEndOfLine, Symbols, Sent, Blank
      <4>2. Len(<<"\n">>) = 1 /\ <<"\n">>[1] = "\n" /\ "\n" \in Sent
        BY DEF Sent, Blank
      <4>3. \A h \in 1..Len(<<"\n">>) : <<"\n">>[h] \in Sent
        BY <4>2
      <4> QED BY <2>3, <4>1, <4>3
    <3> QED BY <1>6, <3>1, <3>2, <3>3
  <2>5. Asked => Asked'
    <3>1. ASSUME Asked PROVE \A j \in Keys' : toJob'[j].t \in Known /\ toJob'[j].n = n' /\ Keys' = {j}
      BY <1>3, <2>4, <3>1 DEF Asked
    <3> QED BY <1>2, <1>3, <3>1 DEF Asked, Quiet
  <2>6. Keys = {} => Keys' = {}
    BY <2>4
  <2>7. AtWork => AtWork'
    BY <1>2, <1>3, <2>6 DEF AtWork
  <2>8. Ended => Ended'
    BY <1>2, <1>3, <2>6 DEF Ended
  <2> QED BY <1>4, <2>1, <2>5, <2>7, <2>8
<1> QED BY <1>5, <1>6

-----------------------------------------------------------------------------
(* What main reads of an answer, and what of it goes to the client. *)
LEMMA Joined ==
  ASSUME NEW S, NEW s \in Seq(S), NEW t \in Seq(S)
  PROVE  /\ s \o t \in Seq(S) /\ Len(s) \in Nat /\ Len(t) \in Nat /\ Len(s \o t) = Len(s) + Len(t)
         /\ \A j \in 1..Len(s) : (s \o t)[j] = s[j]
         /\ \A j \in 1..Len(t) : (s \o t)[Len(s) + j] = t[j]
<1>1. Len(s) \in Nat /\ Len(t) \in Nat
  BY LenProperties
<1>2. /\ s \o t \in Seq(S) /\ Len(s \o t) = Len(s) + Len(t)
      /\ \A j \in 1..(Len(s) + Len(t)) : (s \o t)[j] = IF j <= Len(s) THEN s[j] ELSE t[j - Len(s)]
  BY ConcatProperties
<1>3. \A j \in 1..Len(s) : (s \o t)[j] = s[j]
  BY <1>1, <1>2
<1>4. ASSUME NEW j \in 1..Len(t)
      PROVE  (s \o t)[Len(s) + j] = t[j]
  <2>1. Len(s) + j \in 1..(Len(s) + Len(t)) /\ ~(Len(s) + j <= Len(s)) /\ (Len(s) + j) - Len(s) = j
    BY <1>1
  <2> QED BY <1>2, <2>1
<1> QED BY <1>1, <1>2, <1>3, <1>4

LEMMA ChunkAndLeft ==
  ASSUME OutT, fromJob # <<>>
  PROVE  fromJob = chunk \o left /\ Rest = chunk \o (left \o buffered)
<1>1. /\ Len(fromJob) \in Nat /\ size \in 1..Len(fromJob)
      /\ chunk \in Seq(Item) /\ Len(chunk) = size
      /\ left \in Seq(Item) /\ Len(left) = Len(fromJob) - size
      /\ \A j \in 1..size : chunk[j] = fromJob[j]
      /\ \A j \in 1..(Len(fromJob) - size) : left[j] = fromJob[size + j]
      /\ fromJob \in Seq(Item) /\ buffered \in Seq(Item)
  BY Chunks DEF OutT
<1> HIDE DEF chunk, left, size
<1>2. /\ chunk \o left \in Seq(Item) /\ Len(chunk \o left) = Len(chunk) + Len(left)
      /\ \A j \in 1..Len(chunk) : (chunk \o left)[j] = chunk[j]
      /\ \A j \in 1..Len(left) : (chunk \o left)[Len(chunk) + j] = left[j]
  <2>1. chunk \in Seq(Item) /\ left \in Seq(Item)
    BY <1>1
  <2> QED BY ONLY <2>1, Joined
<1>3. Len(fromJob) = Len(chunk \o left)
  BY <1>1, <1>2
<1>4. ASSUME NEW j \in 1..Len(fromJob)
      PROVE  fromJob[j] = (chunk \o left)[j]
  <2>1. CASE j <= size
    BY <1>1, <1>2, <2>1
  <2>2. CASE j > size
    <3>1. PICK h \in 1..Len(left) : j = size + h
      <4>1. j - size \in 1..Len(left) /\ j = size + (j - size)
        BY <1>1, <2>2
      <4> QED BY <4>1
    <3> QED BY <1>1, <1>2, <3>1
  <2> QED BY <1>1, <2>1, <2>2
<1>5. fromJob = chunk \o left
  BY <1>1, <1>2, <1>3, <1>4, SeqEqual
<1>6. (chunk \o left) \o buffered = chunk \o (left \o buffered)
  <2>1. chunk \in Seq(Item) /\ left \in Seq(Item) /\ buffered \in Seq(Item)
    BY <1>1
  <2> QED BY ONLY <2>1, ConcatAssociative
<1> QED BY <1>5, <1>6 DEF Rest

(* All that is passed on is the chunk without what is kept back. *)
LEMMA PassedAll ==
  ASSUME OutT, fromJob # <<>>, ~(previous_chunk_ends_in_tag /\ Byte(chunk, 1) = "\n"),
         ~EndsTheAnswer(chunk)
  PROVE  /\ ~EndsInTag(chunk) => Passed(chunk) = chunk
         /\ EndsInTag(chunk) => /\ Len(Passed(chunk)) = Len(chunk) - 1
                                /\ chunk = Passed(chunk) \o <<chunk[Len(chunk)]>>
<1>1. /\ chunk \in Seq(Item) /\ Len(chunk) \in Nat /\ Len(chunk) >= 1 /\ chunk[Len(chunk)] \in Item
      /\ Passed(chunk) \in Seq(Item)
  BY Chunks, LenProperties, ElementOfSeq, WhatPasses
<1>2. /\ Len(Passed(chunk)) = Len(chunk) - kept_back
      /\ \A j \in 1..(Len(chunk) - kept_back) : Passed(chunk)[j] = chunk[j]
  BY WhatPasses
<1>3. kept_back = IF EndsInTag(chunk) THEN 1 ELSE 0
  BY DEF kept_back
<1> HIDE DEF chunk
<1>4. CASE ~EndsInTag(chunk)
  <2>1. Len(Passed(chunk)) = Len(chunk) /\ \A j \in 1..Len(chunk) : Passed(chunk)[j] = chunk[j]
    BY <1>1, <1>2, <1>3, <1>4
  <2> QED BY <1>1, <1>4, <2>1, SeqEqual
<1>5. CASE EndsInTag(chunk)
  <2>1. /\ Len(Passed(chunk)) = Len(chunk) - 1
        /\ \A j \in 1..(Len(chunk) - 1) : Passed(chunk)[j] = chunk[j]
    BY <1>2, <1>3, <1>5
  <2> DEFINE last == <<chunk[Len(chunk)]>>
  <2>2. last \in Seq(Item) /\ Len(last) = 1 /\ last[1] = chunk[Len(chunk)]
    BY <1>1
  <2> HIDE DEF last
  <2>3. /\ Passed(chunk) \o last \in Seq(Item) /\ Len(Passed(chunk) \o last) = Len(Passed(chunk)) + Len(last)
        /\ \A j \in 1..Len(Passed(chunk)) : (Passed(chunk) \o last)[j] = Passed(chunk)[j]
        /\ \A j \in 1..Len(last) : (Passed(chunk) \o last)[Len(Passed(chunk)) + j] = last[j]
    <3>1. Passed(chunk) \in Seq(Item) /\ last \in Seq(Item)
      BY <1>1, <2>2
    <3> QED BY ONLY <3>1, Joined
  <2>4. Len(chunk) = Len(Passed(chunk) \o last)
    BY <1>1, <2>1, <2>2, <2>3
  <2>5. ASSUME NEW j \in 1..Len(chunk)
        PROVE  chunk[j] = (Passed(chunk) \o last)[j]
    <3>1. CASE j <= Len(chunk) - 1
      BY <1>1, <2>1, <2>3, <3>1
    <3>2. CASE j = Len(chunk)
      <4>1. 1 \in 1..Len(last) /\ Len(Passed(chunk)) + 1 = j
        BY <1>1, <2>1, <2>2, <3>2
      <4>2. (Passed(chunk) \o last)[Len(Passed(chunk)) + 1] = last[1]
        BY <2>3, <4>1
      <4>3. (Passed(chunk) \o last)[j] = last[1]
        BY <4>1, <4>2, Zenon
      <4> QED BY <2>2, <3>2, <4>3, Zenon
    <3>3. j <= Len(chunk) - 1 \/ j = Len(chunk)
      BY <1>1
    <3> QED BY <3>1, <3>2, <3>3, Zenon
  <2>6. chunk = Passed(chunk) \o last
    BY <1>1, <2>3, <2>4, <2>5, SeqEqual
  <2> QED BY <1>5, <2>1, <2>6 DEF last
<1> QED BY <1>4, <1>5

(* While the command is at work no "<" is in what main reads, and all of it passes. *)
LEMMA AtWorkReads ==
  ASSUME TypesInv, Text, AtWork, fromJob # <<>>
  PROVE  /\ Passed(chunk) = chunk /\ ~EndsTheAnswer(chunk) /\ ~EndsInTag(chunk)
         /\ printed = (received \o chunk) \o (left \o buffered)
         /\ \A j \in 1..Len(chunk) : chunk[j].n = n /\ chunk[j].b # "<"
<1>0. OutT /\ AnswerT
  BY TypesGive
<1>1. /\ received \in Seq(Item) /\ chunk \in Seq(Item) /\ left \in Seq(Item) /\ buffered \in Seq(Item)
      /\ printed \in Seq(Item)
  BY <1>0, Chunks DEF OutT, AnswerT
<1>2. printed = received \o (chunk \o (left \o buffered)) /\ ~previous_chunk_ends_in_tag
  BY <1>0, ChunkAndLeft DEF AtWork
<1> DEFINE more == left \o buffered
<1>3. more \in Seq(Item)
  BY ONLY <1>1, ConcatProperties
<1>4. printed = received \o (chunk \o more)
  BY <1>2
<1> HIDE DEF more, chunk
<1>5. /\ chunk \o more \in Seq(Item) /\ Len(chunk) \in Nat /\ Len(more) \in Nat
      /\ Len(chunk \o more) = Len(chunk) + Len(more)
      /\ \A j \in 1..Len(chunk) : (chunk \o more)[j] = chunk[j]
  <2>1. chunk \in Seq(Item) /\ more \in Seq(Item)
    BY <1>1, <1>3
  <2> QED BY ONLY <2>1, Joined
<1>6. /\ Len(received) \in Nat /\ Len(printed) = Len(received) + Len(chunk \o more)
      /\ \A j \in 1..Len(chunk \o more) : printed[Len(received) + j] = (chunk \o more)[j]
  <2>1. received \in Seq(Item) /\ chunk \o more \in Seq(Item)
    BY <1>1, <1>5
  <2> QED BY ONLY <1>4, <2>1, Joined
<1>7. ASSUME NEW j \in 1..Len(chunk)
      PROVE  chunk[j].n = n /\ chunk[j].b # "<"
  <2>1. j \in 1..Len(chunk \o more) /\ Len(received) + j \in 1..Len(printed)
    BY <1>5, <1>6
  <2>2. printed[Len(received) + j] = chunk[j]
    BY <1>5, <1>6, <2>1
  <2> QED BY <2>1, <2>2 DEF Text
<1>8. \A j : Byte(chunk, j) # "<"
  BY <1>7 DEF Byte
<1>9. ~EndsTheAnswer(chunk) /\ ~EndsInTag(chunk)
  BY <1>2, <1>8 DEF EndsTheAnswer, EndsInTag
<1>10. Passed(chunk) = chunk
  BY <1>0, <1>2, <1>9, PassedAll
<1>11. received \o (chunk \o more) = (received \o chunk) \o more
  <2>1. received \in Seq(Item) /\ chunk \in Seq(Item) /\ more \in Seq(Item)
    BY <1>1, <1>3
  <2> QED BY ONLY <2>1, ConcatAssociative
<1> QED BY <1>4, <1>7, <1>9, <1>10, <1>11 DEF more

(* The same once it has ended: W is all that was printed, and the "<" line. *)
LEMMA EndedIs ==
  ASSUME TypesInv, Text, Own, ~misread, Ended, fromJob # <<>>
  PROVE  LET p == Len(printed)
             r == Len(received)
             m == Len(chunk)
         IN  /\ p \in Nat /\ r \in Nat /\ m \in Nat /\ m >= 1 /\ r <= p
             /\ \A j \in 1..r : received[j] = printed[j]
             /\ previous_chunk_ends_in_tag =>
                  r = p /\ m = 1 /\ chunk[1].b = "\n" /\ left \o buffered = <<>>
             /\ ~previous_chunk_ends_in_tag =>
                  /\ r + m <= p + 2 /\ Len(left \o buffered) = (p + 2) - (r + m)
                  /\ \A j \in 1..m : /\ r + j <= p => chunk[j] = printed[r + j]
                                     /\ r + j = p + 1 => chunk[j] = [n |-> 0, b |-> "<"]
                                     /\ r + j = p + 2 => chunk[j].b = "\n"
                  /\ printed \o EndOfAnswer = received \o (chunk \o (left \o buffered))
<1>0. OutT /\ AnswerT
  BY TypesGive
<1> DEFINE W == printed \o EndOfAnswer
           more == left \o buffered
           text == chunk \o more
           p == Len(printed)
           r == Len(received)
           m == Len(chunk)
           c == Len(Cut)
<1>1. /\ received \in Seq(Item) /\ chunk \in Seq(Item) /\ left \in Seq(Item) /\ buffered \in Seq(Item)
      /\ printed \in Seq(Item) /\ EndOfAnswer \in Seq(Item) /\ Len(EndOfAnswer) = 2 /\ m >= 1
  BY <1>0, Chunks, EndTypes DEF OutT, AnswerT
<1>2. EndOfAnswer[1] = [n |-> 0, b |-> "<"] /\ EndOfAnswer[2].b = "\n"
  BY DEF EndOfAnswer
<1>3. more \in Seq(Item) /\ Len(more) \in Nat
  BY ONLY <1>1, ConcatProperties, LenProperties
<1>4. /\ Cut \in Seq(Item)
      /\ previous_chunk_ends_in_tag => c = 1 /\ Cut[1].b = "<"
      /\ ~previous_chunk_ends_in_tag => c = 0 /\ Cut = <<>>
  <2>1. CASE previous_chunk_ends_in_tag
    <3>1. Cut = <<[n |-> 0, b |-> "<"]>> /\ [n |-> 0, b |-> "<"] \in Item
      BY <2>1, Sizes DEF Cut, Item
    <3> QED BY <2>1, <3>1
  <2>2. CASE ~previous_chunk_ends_in_tag
    BY <2>2, EmptySeq DEF Cut
  <2> QED BY <2>1, <2>2
<1>5. W = (received \o Cut) \o text
  BY <1>0, ChunkAndLeft DEF Ended
<1> HIDE DEF more, chunk
<1>6. /\ text \in Seq(Item) /\ m \in Nat /\ Len(text) = m + Len(more)
      /\ \A j \in 1..m : text[j] = chunk[j]
  <2>1. chunk \in Seq(Item) /\ more \in Seq(Item)
    BY <1>1, <1>3
  <2> QED BY ONLY <2>1, Joined
<1> HIDE DEF text
<1>7. /\ received \o Cut \in Seq(Item) /\ r \in Nat /\ c \in Nat /\ Len(received \o Cut) = r + c
      /\ \A j \in 1..r : (received \o Cut)[j] = received[j]
      /\ \A j \in 1..c : (received \o Cut)[r + j] = Cut[j]
  <2>1. received \in Seq(Item) /\ Cut \in Seq(Item)
    BY <1>1, <1>4
  <2> QED BY ONLY <2>1, Joined
<1> DEFINE head == received \o Cut
<1>8. /\ Len(W) = Len(head) + Len(text)
      /\ \A j \in 1..Len(head) : W[j] = head[j]
      /\ \A j \in 1..Len(text) : W[Len(head) + j] = text[j]
  <2>1. head \in Seq(Item) /\ text \in Seq(Item) /\ W = head \o text
    BY <1>5, <1>6, <1>7
  <2> HIDE DEF head, W
  <2> QED BY ONLY <2>1, Joined
<1>9. /\ p \in Nat /\ Len(W) = p + Len(EndOfAnswer)
      /\ \A j \in 1..p : W[j] = printed[j]
      /\ \A j \in 1..Len(EndOfAnswer) : W[p + j] = EndOfAnswer[j]
  <2>1. printed \in Seq(Item) /\ EndOfAnswer \in Seq(Item)
    BY <1>1
  <2> QED BY ONLY <2>1, Joined
<1> HIDE DEF W
<1>10. Len(W) = p + 2 /\ W[p + 1] = [n |-> 0, b |-> "<"] /\ W[p + 2].b = "\n"
  BY <1>1, <1>2, <1>9
<1>11. /\ p + 2 = (r + c) + (m + Len(more))
       /\ \A j \in 1..r : W[j] = received[j]
       /\ \A j \in 1..c : W[r + j] = Cut[j]
       /\ \A j \in 1..m : W[(r + c) + j] = chunk[j]
  <2>1. p + 2 = (r + c) + (m + Len(more))
    BY <1>6, <1>7, <1>8, <1>10
  <2>2. ASSUME NEW j \in 1..r PROVE W[j] = received[j]
    <3>1. j \in 1..Len(head)
      BY <1>7
    <3> QED BY <1>7, <1>8, <3>1
  <2>3. ASSUME NEW j \in 1..c PROVE W[r + j] = Cut[j]
    <3>1. r + j \in 1..Len(head)
      BY <1>7
    <3> QED BY <1>7, <1>8, <3>1
  <2>4. ASSUME NEW j \in 1..m PROVE W[(r + c) + j] = chunk[j]
    <3>1. j \in 1..Len(text) /\ Len(head) = r + c
      BY <1>3, <1>6, <1>7
    <3>2. W[Len(head) + j] = text[j] /\ text[j] = chunk[j]
      BY <1>6, <1>8, <3>1
    <3> QED BY <3>1, <3>2
  <2> QED BY <2>1, <2>2, <2>3, <2>4
<1> HIDE DEF head
<1>12. r <= p
  <2> SUFFICES ASSUME r > p PROVE FALSE
    BY <1>7, <1>9
  <2>1. p + 1 \in 1..r
    BY <1>7, <1>9
  <2>2. received[p + 1].b = "<"
    BY <1>10, <1>11, <2>1
  <2> QED BY <2>1, <2>2 DEF Own
<1>13. \A j \in 1..r : received[j] = printed[j]
  BY <1>7, <1>9, <1>11, <1>12
<1>14. ASSUME previous_chunk_ends_in_tag
       PROVE  r = p /\ m = 1 /\ chunk[1].b = "\n" /\ more = <<>>
  <2>1. W[r + 1].b = "<" /\ c = 1
    BY <1>4, <1>11, <1>14
  <2>2. r = p
    <3> SUFFICES ASSUME r < p PROVE FALSE
      <4>1. r \in Nat /\ p \in Nat
        BY <1>7, <1>9
      <4>2. PICK x, y \in Nat : x = r /\ y = p
        BY <4>1
      <4> QED BY <1>12, <4>2
    <3>1. r + 1 \in 1..p
      BY <1>7, <1>9
    <3> QED BY <1>9, <2>1, <3>1 DEF Text
  <2>3. m = 1 /\ Len(more) = 0
    <3>1. p + 2 = (p + 1) + (m + Len(more))
      BY <1>11, <2>1, <2>2
    <3>2. p \in Nat /\ m \in Nat /\ Len(more) \in Nat /\ m >= 1
      BY <1>1, <1>3, <1>6, <1>9
    <3> HIDE DEF p, m
    <3> QED BY <3>1, <3>2
  <2>4. chunk[1] = W[(r + c) + 1] /\ (r + c) + 1 = p + 2
    BY <1>9, <1>11, <2>1, <2>2, <2>3
  <2>5. chunk[1].b = "\n"
    BY <1>10, <2>4
  <2> QED BY <1>3, <2>2, <2>3, <2>5, EmptySeq
<1>15. ASSUME ~previous_chunk_ends_in_tag
       PROVE  /\ r + m <= p + 2 /\ Len(more) = (p + 2) - (r + m)
              /\ \A j \in 1..m : /\ r + j <= p => chunk[j] = printed[r + j]
                                 /\ r + j = p + 1 => chunk[j] = [n |-> 0, b |-> "<"]
                                 /\ r + j = p + 2 => chunk[j].b = "\n"
              /\ W = received \o text
  <2>1. c = 0 /\ Cut = <<>>
    BY <1>4, <1>15
  <2>2. r + m <= p + 2 /\ Len(more) = (p + 2) - (r + m)
    BY <1>3, <1>6, <1>7, <1>9, <1>11, <2>1
  <2>3. ASSUME NEW j \in 1..m
        PROVE  /\ r + j <= p => chunk[j] = printed[r + j]
               /\ r + j = p + 1 => chunk[j] = [n |-> 0, b |-> "<"]
               /\ r + j = p + 2 => chunk[j].b = "\n"
    <3>1. W[r + j] = chunk[j]
      <4>1. (r + c) + j = r + j
        BY <1>7, <2>1
      <4> QED BY <1>11, <4>1
    <3>2. r + j <= p => r + j \in 1..p
      BY <1>7, <1>9
    <3> QED BY <1>9, <1>10, <3>1, <3>2
  <2>4. received \o Cut = received
    BY <1>1, <2>1, ConcatEmptySeq
  <2> QED BY <1>5, <2>2, <2>3, <2>4 DEF W
<1> QED BY <1>1, <1>6, <1>7, <1>9, <1>12, <1>13, <1>14, <1>15 DEF more, text, W

(* The "<" that is kept back of this chunk. *)
Tag == IF EndsInTag(chunk) THEN <<[n |-> 0, b |-> "<"]>> ELSE <<>>

(* The rest is empty when both of its parts are. *)
LEMMA NothingLeft ==
  ASSUME OutT, fromJob # <<>>, left \o buffered = <<>>
  PROVE  left = <<>> /\ buffered = <<>>
<1>1. left \in Seq(Item) /\ buffered \in Seq(Item)
  BY Chunks DEF OutT
<1>2. Len(left) \in Nat /\ Len(buffered) \in Nat /\ Len(left \o buffered) = Len(left) + Len(buffered)
  BY ONLY <1>1, Joined
<1>3. Len(left) = 0 /\ Len(buffered) = 0
  BY <1>2, EmptySeq
<1> QED BY <1>1, <1>3, EmptySeq

(* All that passes was printed, and when the end is found nothing is left to read. *)
LEMMA EndedReads ==
  ASSUME TypesInv, Text, Own, ~misread, Ended, fromJob # <<>>
  PROVE  /\ \A j \in 1..Len(Passed(chunk)) : /\ Len(received) + j \in 1..Len(printed)
                                             /\ Passed(chunk)[j] = printed[Len(received) + j]
         /\ EndsTheAnswer(chunk) => received \o Passed(chunk) = printed /\ left = <<>> /\ buffered = <<>>
         /\ ~EndsTheAnswer(chunk) =>
              printed \o EndOfAnswer = ((received \o Passed(chunk)) \o Tag) \o (left \o buffered)
<1> DEFINE p == Len(printed)
           r == Len(received)
           m == Len(chunk)
           more == left \o buffered
           q == Passed(chunk)
<1>0. OutT /\ AnswerT
  BY TypesGive
<1>1. /\ p \in Nat /\ r \in Nat /\ m \in Nat /\ m >= 1 /\ r <= p
      /\ \A j \in 1..r : received[j] = printed[j]
  BY EndedIs
<1>2. /\ received \in Seq(Item) /\ chunk \in Seq(Item) /\ left \in Seq(Item) /\ buffered \in Seq(Item)
      /\ printed \in Seq(Item) /\ q \in Seq(Item)
  BY <1>0, Chunks, WhatPasses DEF OutT, AnswerT
<1>3. more \in Seq(Item)
  BY ONLY <1>2, ConcatProperties
<1>4. /\ Byte(chunk, 1) = chunk[1].b /\ Byte(chunk, m) = chunk[m].b
      /\ m >= 2 => Byte(chunk, m - 1) = chunk[m - 1].b
  <2>1. 1 \in 1..m /\ m \in 1..m /\ (m >= 2 => m - 1 \in 1..m)
    BY <1>1
  <2> HIDE DEF chunk
  <2> QED BY <2>1 DEF Byte
<1>5. /\ received \o q \in Seq(Item) /\ Len(received \o q) = r + Len(q) /\ Len(q) \in Nat
      /\ \A j \in 1..r : (received \o q)[j] = received[j]
      /\ \A j \in 1..Len(q) : (received \o q)[r + j] = q[j]
  <2>1. received \in Seq(Item) /\ q \in Seq(Item)
    BY <1>2
  <2> HIDE DEF q
  <2> QED BY ONLY <2>1, Joined
<1>6. ASSUME r + Len(q) = p, \A j \in 1..Len(q) : q[j] = printed[r + j]
      PROVE  received \o q = printed
  <2>1. ASSUME NEW j \in 1..p PROVE (received \o q)[j] = printed[j]
    <3>1. CASE j <= r
      BY <1>1, <1>5, <3>1
    <3>2. CASE j > r
      <4>1. PICK h \in 1..Len(q) : j = r + h
        <5>1. j - r \in 1..Len(q) /\ j = r + (j - r)
          BY <1>1, <1>5, <1>6, <3>2
        <5> QED BY <5>1
      <4> QED BY <1>5, <1>6, <4>1
    <3>3. j <= r \/ j > r
      BY <1>1
    <3> QED BY <3>1, <3>2, <3>3
  <2> HIDE DEF q
  <2> QED BY <1>2, <1>5, <1>6, <2>1, SeqEqual
<1>7. CASE previous_chunk_ends_in_tag
  <2>1. r = p /\ m = 1 /\ chunk[1].b = "\n" /\ left \o buffered = <<>>
    BY <1>7, EndedIs
  <2>2. EndsTheAnswer(chunk) /\ q = <<>>
    BY <1>4, <1>7, <2>1 DEF EndsTheAnswer, Passed
  <2>3. Len(q) = 0
    BY <2>2, EmptySeq
  <2>4. received \o q = printed
    BY <1>1, <1>6, <2>1, <2>3
  <2> QED BY <1>0, <2>1, <2>2, <2>3, <2>4, NothingLeft
<1>8. CASE ~previous_chunk_ends_in_tag
  <2>1. /\ r + m <= p + 2 /\ Len(more) = (p + 2) - (r + m)
        /\ \A j \in 1..m : /\ r + j <= p => chunk[j] = printed[r + j]
                           /\ r + j = p + 1 => chunk[j] = [n |-> 0, b |-> "<"]
                           /\ r + j = p + 2 => chunk[j].b = "\n"
        /\ printed \o EndOfAnswer = received \o (chunk \o more)
    BY <1>8, EndedIs
  <2>2. /\ kept_back \in 0..m /\ Len(q) = m - kept_back
        /\ \A j \in 1..(m - kept_back) : q[j] = chunk[j]
    BY <1>0, <1>8, WhatPasses
  <2>3. EndsTheAnswer(chunk) <=> Byte(chunk, m - 1) = "<" /\ Byte(chunk, m) = "\n"
    BY <1>8 DEF EndsTheAnswer
  <2> HIDE DEF q, more, chunk
  <2>4. CASE r + m <= p
    <3>1. \A j \in 1..m : r + j \in 1..p /\ chunk[j] = printed[r + j] /\ chunk[j].b # "<"
      BY <1>1, <2>1, <2>4 DEF Text
    <3>2. \A j : Byte(chunk, j) # "<"
      BY <3>1 DEF Byte
    <3>3. ~EndsTheAnswer(chunk) /\ ~EndsInTag(chunk)
      BY <2>3, <3>2 DEF EndsInTag
    <3>4. q = chunk /\ Tag = <<>>
      BY <1>0, <1>8, <3>3, PassedAll DEF q, Tag
    <3>5. received \o (chunk \o more) = (received \o chunk) \o more
      <4>1. received \in Seq(Item) /\ chunk \in Seq(Item) /\ more \in Seq(Item)
        BY <1>2, <1>3
      <4> QED BY ONLY <4>1, ConcatAssociative
    <3>6. (received \o chunk) \o <<>> = received \o chunk
      <4>1. received \o chunk \in Seq(Item)
        BY <1>5, <3>4
      <4> QED BY <4>1, ConcatEmptySeq
    <3>7. printed \o EndOfAnswer = ((received \o q) \o Tag) \o more
      BY <2>1, <3>4, <3>5, <3>6
    <3>8. \A j \in 1..Len(q) : r + j \in 1..p /\ q[j] = printed[r + j]
      BY <3>1, <3>4
    <3> QED BY <3>3, <3>7, <3>8 DEF q, more
  <2>5. CASE r + m = p + 1
    <3>1. chunk[m] = [n |-> 0, b |-> "<"] /\ m \in 1..m
      BY <1>1, <2>1, <2>5
    <3>2. ~EndsTheAnswer(chunk) /\ EndsInTag(chunk)
      BY <1>4, <2>3, <3>1 DEF EndsInTag
    <3>3. Len(q) = m - 1 /\ chunk = q \o <<chunk[m]>> /\ Tag = <<chunk[m]>>
      BY <1>0, <1>8, <3>1, <3>2, PassedAll DEF q, Tag
    <3>4. \A j \in 1..Len(q) : r + j \in 1..p /\ q[j] = printed[r + j]
      <4>1. kept_back = 1
        BY <3>2 DEF kept_back
      <4> QED BY <1>1, <2>1, <2>2, <2>5, <4>1
    <3>5. Tag \in Seq(Item)
      <4>1. [n |-> 0, b |-> "<"] \in Item
        BY Sizes DEF Item
      <4> QED BY <3>1, <3>3, <4>1
    <3>6. printed \o EndOfAnswer = ((received \o q) \o Tag) \o more
      <4>1. chunk = q \o Tag /\ printed \o EndOfAnswer = received \o (chunk \o more)
        BY <2>1, <3>3
      <4>2. received \o (chunk \o more) = (received \o chunk) \o more
        <5>1. received \in Seq(Item) /\ chunk \in Seq(Item) /\ more \in Seq(Item)
          BY <1>2, <1>3
        <5> QED BY ONLY <5>1, ConcatAssociative
      <4>3. received \o (q \o Tag) = (received \o q) \o Tag
        <5>1. received \in Seq(Item) /\ q \in Seq(Item) /\ Tag \in Seq(Item)
          BY <1>2, <3>5
        <5> QED BY ONLY <5>1, ConcatAssociative
      <4> QED BY <4>1, <4>2, <4>3
    <3> QED BY <3>2, <3>4, <3>6 DEF q, more
  <2>6. CASE r + m = p + 2
    <3>1. m >= 2 /\ m - 1 \in 1..m /\ m \in 1..m /\ r + (m - 1) = p + 1
      BY <1>1, <2>6
    <3>2. chunk[m - 1] = [n |-> 0, b |-> "<"] /\ chunk[m].b = "\n"
      BY <2>1, <2>6, <3>1
    <3>3. EndsTheAnswer(chunk) /\ kept_back = 2
      BY <1>4, <2>3, <3>1, <3>2 DEF kept_back
    <3>4. Len(q) = m - 2 /\ r + Len(q) = p /\ \A j \in 1..Len(q) : q[j] = chunk[j]
      BY <1>1, <2>2, <2>6, <3>1, <3>3
    <3>5. \A j \in 1..Len(q) : r + j \in 1..p /\ q[j] = printed[r + j]
      BY <1>1, <2>1, <3>4
    <3>6. received \o q = printed
      BY <1>6, <3>4, <3>5
    <3>7. more = <<>>
      <4>1. Len(more) = 0
        BY <1>1, <2>1, <2>6
      <4> QED BY <1>3, <4>1, EmptySeq
    <3> QED BY <1>0, <3>3, <3>5, <3>6, <3>7, NothingLeft DEF q, more
  <2>7. r + m <= p \/ r + m = p + 1 \/ r + m = p + 2
    BY <1>1, <2>1
  <2> QED BY <2>4, <2>5, <2>6, <2>7
<1> QED BY <1>7, <1>8

LEMMA AnswerIsRead ==
  ASSUME TypesInv, Text, Own, Exchange, ReadAnswer
  PROVE  Exchange'
<1> SUFFICES ASSUME Live' PROVE IF mainPc' \in Talking THEN Asked' \/ AtWork' \/ Ended' ELSE Between'
  BY DEF Exchange, Live
<1>0. OutT /\ AnswerT
  BY TypesGive
<1>1. /\ mainPc = "answer" /\ fromJob # <<>> /\ fromJob' = left
      /\ received' = received \o Passed(chunk)
      /\ previous_chunk_ends_in_tag' = (~EndsTheAnswer(chunk) /\ EndsInTag(chunk))
      /\ mainPc' = IF EndsTheAnswer(chunk) THEN "answered" ELSE "answer"
  BY ReadAnswerIs
<1>2. Accept \/ Main
  BY DEF Main
<1>3. /\ UNCHANGED <<Unheard, Busy, Off, jobCommand, asker, jobExecutorReadyForCommands, misread, buffered>>
      /\ mainPc \notin Finished
  BY <1>2, MainKeeps DEF Live
<1>4. UNCHANGED <<printed, n, toJob, Keys>>
  BY ReadAnswerIs, KeysKept DEF clientVars, cinVars, coutVars
<1>5. Asked \/ AtWork \/ Ended
  BY <1>1, <1>3 DEF Live, Exchange, Talking
<1>6. ~Asked
  BY <1>1 DEF Asked, Quiet
<1>7. Rest' = left \o buffered
  BY <1>1, <1>3 DEF Rest
<1>8. CASE AtWork
  <2>1. /\ Passed(chunk) = chunk /\ ~EndsTheAnswer(chunk) /\ ~EndsInTag(chunk)
        /\ printed = (received \o chunk) \o (left \o buffered)
    BY <1>1, <1>8, AtWorkReads
  <2>2. AtWork'
    BY <1>1, <1>3, <1>4, <1>7, <1>8, <2>1 DEF AtWork
  <2> QED BY <1>1, <2>1, <2>2 DEF Talking
<1>9. CASE Ended
  <2>0. ~misread
    BY <1>3 DEF Live
  <2>1. CASE EndsTheAnswer(chunk)
    <3>1. received \o Passed(chunk) = printed /\ left = <<>> /\ buffered = <<>>
      BY <1>1, <1>9, <2>0, <2>1, EndedReads
    <3>2. Quiet'
      BY <1>1, <1>3, <1>4, <2>1, <3>1 DEF Quiet
    <3> QED BY <1>1, <1>3, <1>4, <1>9, <2>1, <3>2 DEF Ended, Between, Talking
  <2>2. CASE ~EndsTheAnswer(chunk)
    <3>1. printed \o EndOfAnswer = ((received \o Passed(chunk)) \o Tag) \o (left \o buffered)
      BY <1>1, <1>9, <2>0, <2>2, EndedReads
    <3>2. Cut' = Tag
      BY <1>1, <2>2 DEF Cut, Tag
    <3>3. Ended'
      BY <1>1, <1>3, <1>4, <1>7, <1>9, <3>1, <3>2 DEF Ended
    <3> QED BY <1>1, <2>2, <3>3 DEF Talking
  <2> QED BY <2>1, <2>2
<1> QED BY <1>5, <1>6, <1>8, <1>9

(* What main writes to a client was printed for it. *)
LEMMA OwnNext ==
  ASSUME TypesInv, Text, Own, Exchange, Early, ChannelNext
  PROVE  Own'
<1>0. OutT /\ AnswerT
  BY TypesGive
<1>1. CASE ReadAnswer
  <2>1. UNCHANGED <<n, misread, jobExecutorReadyForCommands>>
    BY <1>1, ReadAnswerIs DEF clientVars, coutVars, monitorVars
  <2> SUFFICES ASSUME ~misread
               PROVE  \A j \in 1..Len(received') : received'[j].n = n /\ received'[j].b # "<"
    BY <2>1 DEF Own
  <2>2. fromJob # <<>> /\ received' = received \o Passed(chunk) /\ mainPc = "answer"
    BY <1>1, ReadAnswerIs
  <2>3. AtWork \/ Ended
    <3>1. jobExecutorReadyForCommands
      BY <2>2 DEF Early, Finished, Talking
    <3>2. Asked \/ AtWork \/ Ended
      BY <2>2, <3>1 DEF Exchange, Finished, Talking
    <3> QED BY <2>2, <3>2 DEF Asked, Quiet
  <2>4. \A j \in 1..Len(Passed(chunk)) : Passed(chunk)[j].n = n /\ Passed(chunk)[j].b # "<"
    <3>1. CASE AtWork
      BY <2>2, <3>1, AtWorkReads
    <3>2. CASE Ended
      BY <2>2, <3>2, EndedReads DEF Text
    <3> QED BY <2>3, <3>1, <3>2
  <2>5. /\ Len(received) \in Nat /\ Len(received') = Len(received) + Len(Passed(chunk))
        /\ Len(Passed(chunk)) \in Nat
        /\ \A j \in 1..Len(received) : received'[j] = received[j]
        /\ \A j \in 1..Len(Passed(chunk)) : received'[Len(received) + j] = Passed(chunk)[j]
    <3>1. received \in Seq(Item) /\ Passed(chunk) \in Seq(Item)
      BY <1>0, <2>2, WhatPasses DEF AnswerT
    <3> QED BY ONLY <2>2, <3>1, Joined
  <2> SUFFICES ASSUME NEW j \in 1..Len(received')
               PROVE  received'[j].n = n /\ received'[j].b # "<"
    OBVIOUS
  <2>6. CASE j <= Len(received)
    BY <2>5, <2>6 DEF Own
  <2>7. CASE j > Len(received)
    <3>1. PICK h \in 1..Len(Passed(chunk)) : j = Len(received) + h
      <4>1. j - Len(received) \in 1..Len(Passed(chunk)) /\ j = Len(received) + (j - Len(received))
        BY <2>5, <2>7
      <4> QED BY <4>1
    <3> QED BY <2>4, <2>5, <3>1
  <2> QED BY <2>5, <2>6, <2>7
<1>2. CASE Accept
  <2>1. received' = <<>>
    BY <1>2 DEF Accept
  <2> QED BY <2>1, EmptySeq DEF Own
<1>3. CASE ~ReadAnswer /\ ~Accept
  <2>1. UNCHANGED <<n, received>> /\ (misread => misread')
    <3>1. CASE StartNext /\ UNCHANGED channelVars
      BY <3>1 DEF channelVars, mainVars, clientVars, answerVars, coutVars
    <3>2. CASE Main
      BY <1>3, <3>2, MainLeaves
    <3>3. CASE Loop \/ Interrupted
      BY <3>3, StillMisread
    <3> QED BY <1>3, <3>1, <3>2, <3>3 DEF ChannelNext
  <2> QED BY <2>1 DEF Own
<1> QED BY <1>1, <1>2, <1>3

-----------------------------------------------------------------------------
(* What jobExecutor does to the exchange. *)
LEMMA KeysNone ==
  ASSUME JobT, JobT', Keys = {},
         \A h \in 1..Len(toJob') : \E g \in 1..Len(toJob) : toJob'[h] = toJob[g]
  PROVE  Keys' = {}
<1>1. \A j \in Keys' : j \in 1..Len(toJob') /\ Key(toJob'[j].t)
  BY LenProperties DEF JobT, Keys
<1> SUFFICES ASSUME NEW j \in Keys' PROVE FALSE
  OBVIOUS
<1>2. PICK g \in 1..Len(toJob) : toJob'[j] = toJob[g]
  BY <1>1
<1> QED BY <1>1, <1>2, KeysAre

(* Flushing moves what is printed, and keeps its order. *)
LEMMA Flushed ==
  ASSUME OutT, Flush
  PROVE  UNCHANGED Rest /\ (buffered = <<>> => UNCHANGED <<fromJob, buffered>>)
<1>1. fromJob \in Seq(Item) /\ fromJob \o buffered \in Seq(Item)
  BY ConcatProperties DEF OutT
<1>2. (fromJob \o buffered) \o <<>> = fromJob \o buffered /\ fromJob \o <<>> = fromJob
  BY ONLY <1>1, ConcatEmptySeq
<1> QED BY <1>2 DEF Flush, Rest

(* Where no command of the client is at work, jobExecutor prints nothing; it may take *)
(* a command out of its input.                                                        *)
Idles ==
  /\ Unheard' /\ UNCHANGED <<printed, Rest>>
  /\ buffered = <<>> => UNCHANGED <<fromJob, buffered>>
  /\ UNCHANGED toJob \/ (toJob # <<>> /\ toJob' = Tail(toJob))

Takes ==
  /\ Taken' /\ jobCommand' = toJob[1].t /\ asker' = toJob[1].n /\ Key(jobCommand')
  /\ toJob # <<>> /\ toJob' = Tail(toJob) /\ UNCHANGED <<fromJob, buffered, printed>>

LEMMA UnheardSteps ==
  ASSUME TypesInv, Unheard, ~misread', Loop \/ Interrupted
  PROVE  Idles \/ Takes
<1>0. OutT /\ JobT /\ BackT
  BY TypesGive
<1>1. /\ jePc \in {"ready", "read"} \/ (jePc = "replace" /\ back \in {"ready", "route"}) \/ jePc = "route"
      /\ Taken => Mistaken
  BY LoopPlaces DEF Unheard, Waits, Mistaken, Taken, Off, Serving
<1>2. CASE AskForCommand
  <2>1. Waits' /\ UNCHANGED <<printed, toJob>> /\ (Flush \/ UNCHANGED <<fromJob, buffered>>)
    BY <1>2 DEF AskForCommand, Waits
  <2>2. UNCHANGED Rest /\ (buffered = <<>> => UNCHANGED <<fromJob, buffered>>)
    BY <1>0, <2>1, Flushed DEF Rest
  <2> QED BY <2>1, <2>2 DEF Idles, Unheard
<1>3. CASE SkipBlank
  <2>1. jePc = "read" /\ UNCHANGED <<jePc, printVars, back>> /\ toJob # <<>> /\ toJob' = Tail(toJob)
    BY <1>0, <1>1, <1>3, Front DEF SkipBlank, Blank, kept
  <2> QED BY <2>1 DEF Idles, Unheard, Waits, printVars, coutVars, Rest
<1>4. CASE TakeCommand
  <2>1. /\ toJob # <<>> /\ toJob' = Tail(toJob) /\ UNCHANGED <<fromJob, buffered, printed>>
        /\ jobCommand' = toJob[1].t /\ asker' = toJob[1].n /\ Taken'
    BY <1>0, <1>4, Front DEF TakeCommand, Taken, printVars, coutVars
  <2>2. CASE Key(jobCommand')
    BY <2>1, <2>2 DEF Takes
  <2>3. CASE ~Key(jobCommand')
    BY <2>1, <2>3 DEF Idles, Unheard, Mistaken, Key, Rest
  <2> QED BY <2>2, <2>3
<1>5. CASE Replace
  <2>1. /\ jePc = "replace" /\ jePc' \in {back, "hung"}
        /\ UNCHANGED <<toJob, back, jobCommand, fromJob, buffered, printed>>
    BY <1>1, <1>5 DEF Replace, cinVars, printVars, coutVars
  <2>2. Unheard'
    BY <1>0, <1>1, <2>1 DEF BackT, Unheard, Waits, Mistaken, Taken, Off
  <2> QED BY <2>1, <2>2 DEF Idles, Rest
<1>6. CASE handle_child_termination \/ CommandInterrupted
  <2>1. UNCHANGED <<toJob, jobCommand, fromJob, buffered, printed>>
    BY <1>6 DEF handle_child_termination, CommandInterrupted, cinVars, printVars, coutVars
  <2>2. Unheard'
    BY <1>1, <1>6 DEF handle_child_termination, CommandInterrupted, cinVars, Unheard, Waits,
                      Mistaken, Taken
  <2> QED BY <2>1, <2>2 DEF Idles, Rest
<1>7. ~Route
  <2>1. Route => jePc = "route" /\ (jobCommand \in Known \cup {"/exit"} \/ misread')
    BY DEF Route
  <2> QED BY <1>1, <2>1 DEF Taken, Mistaken
<1>8. ~(TakeWord \/ EnoughWords \/ EndOfWords \/ IgnoreLine \/ Work \/ EndCommand \/ Exit
        \/ WordsInterrupted \/ KeywordInterrupted \/ LineInterrupted)
  BY <1>1 DEF TakeWord, EnoughWords, EndOfWords, IgnoreLine, Work, EndCommand, Exit, WordsInterrupted,
     KeywordInterrupted, LineInterrupted
<1> QED BY <1>2, <1>3, <1>4, <1>5, <1>6, <1>7, <1>8 DEF Loop, Interrupted

(* While a command is at work, all that is printed is for its client. *)
Serves ==
  /\ UNCHANGED <<jobCommand, asker>>
  /\ Busy' \/ Off'
  /\ \A h \in 1..Len(toJob') : \E g \in 1..Len(toJob) : toJob'[h] = toJob[g]
  /\ \/ UNCHANGED <<printed, fromJob, buffered>>
     \/ \E m \in 1..MaxText : PrintLine(Line(m))

LEMMA BusySteps ==
  ASSUME TypesInv, Off \/ (Busy /\ jobCommand \in Known), Loop \/ Interrupted
  PROVE  Serves \/ EndCommand
<1>0. OutT /\ JobT /\ BackT
  BY TypesGive
<1>1. /\ jePc \in {"words", "keyword", "ignore", "work", "end", "route"} \/ (jePc = "replace" /\ back = "route")
      /\ Busy /\ jobCommand \in Known
  BY LoopPlaces DEF Busy, Taken, Off, Serving
<1> DEFINE Input_(s) == \A h \in 1..Len(s) : \E g \in 1..Len(toJob) : s[h] = toJob[g]
<1>2. Input_(toJob) /\ Input_(<<>>)
  BY EmptySeq
<1>3. toJob # <<>> => Input_(Tail(toJob))
  <2>1. ASSUME toJob # <<>>, NEW h \in 1..Len(Tail(toJob))
        PROVE  \E g \in 1..Len(toJob) : Tail(toJob)[h] = toJob[g]
    <3>1. h + 1 \in 1..Len(toJob) /\ Tail(toJob)[h] = toJob[h + 1]
      BY <1>0, <2>1, Front
    <3> QED BY <3>1
  <2> QED BY <2>1
<1> HIDE DEF Input_
<1>4. ASSUME UNCHANGED <<jobCommand, asker>>, Busy' \/ Off',
             UNCHANGED toJob \/ toJob' = <<>> \/ (toJob # <<>> /\ toJob' = Tail(toJob)) \/ IgnoreLine,
             UNCHANGED <<printed, fromJob, buffered>> \/ \E m \in 1..MaxText : PrintLine(Line(m))
      PROVE  Serves
  <2>1. IgnoreLine => \A h \in 1..Len(toJob') : \E g \in 1..Len(toJob) : toJob'[h] = toJob[g]
    BY <1>0, LineCut
  <2>2. Input_(toJob')
    <3>1. IgnoreLine => Input_(toJob')
      BY <2>1 DEF Input_
    <3> QED BY <1>2, <1>3, <1>4, <3>1
  <2> QED BY <1>4, <2>2 DEF Serves, Input_
<1>5. 1 \in 1..MaxText
  BY Sizes
<1>6. CASE SkipBlank \/ TakeWord
  <2>1. /\ toJob # <<>> /\ toJob' = Tail(toJob) /\ UNCHANGED <<jobCommand, asker, printVars>>
        /\ jePc' \in {"words", "keyword", "ignore"}
    BY <1>0, <1>1, <1>6, Front DEF SkipBlank, TakeWord, Blank
  <2> QED BY <1>4, <2>1 DEF Busy, printVars, coutVars
<1>7. CASE Route
  <2>1. UNCHANGED <<toJob, jobCommand, asker, printVars>>
    BY <1>1, <1>7 DEF Route
  <2>2. jePc' \in {"words", "keyword", "ignore"}
    <3>1. jePc' = CASE jobCommand = "/exit" -> "exit" [] jobCommand = "/search" -> "words"
                    [] jobCommand = "/maxcount" -> "keyword" [] OTHER -> "ignore"
      BY <1>7 DEF Route
    <3>2. jobCommand # "/exit"
      BY <1>1 DEF Known
    <3> QED BY <3>1, <3>2, Zenon
  <2> QED BY <1>4, <2>1, <2>2 DEF Busy, printVars, coutVars
<1>8. CASE EnoughWords \/ EndOfWords
  <2>1. UNCHANGED <<toJob, jobCommand, asker>> /\ jePc' \in {"ignore", "end"}
    BY <1>8 DEF EnoughWords, EndOfWords
  <2>2. UNCHANGED <<printed, fromJob, buffered>> \/ PrintLine(Line(1))
    BY <1>8 DEF EnoughWords, EndOfWords, printVars, coutVars
  <2> QED BY <1>4, <1>5, <2>1, <2>2 DEF Busy
<1>9. CASE IgnoreLine
  <2>1. UNCHANGED <<jobCommand, asker, printVars>> /\ jePc' \in {"work", "end"}
    BY <1>9 DEF IgnoreLine
  <2> QED BY <1>4, <1>9, <2>1 DEF Busy, printVars, coutVars
<1>10. CASE Work
  <2>1. /\ UNCHANGED <<toJob, jobCommand, asker>> /\ jePc' = "end"
        /\ \E m \in 1..MaxText : PrintLine(Line(m))
    BY <1>10 DEF Work
  <2> QED BY <1>4, <2>1 DEF Busy
<1>11. CASE Replace
  <2>1. UNCHANGED <<toJob, back, jobCommand, asker, fromJob, buffered, printed>>
    BY <1>11 DEF Replace, cinVars, printVars, coutVars
  <2>2. jePc' \in {"hung", "route", "work"}
    BY <1>1, <1>11 DEF Replace
  <2> QED BY <1>4, <2>1, <2>2 DEF Busy, Taken, Off
<1>12. CASE handle_child_termination
  <2>1. UNCHANGED <<toJob, back, jePc, jobCommand, asker, fromJob, buffered, printed>>
    BY <1>12 DEF handle_child_termination, cinVars, printVars, coutVars
  <2> QED BY <1>1, <1>4, <2>1 DEF Busy, Taken
<1>13. CASE WordsInterrupted \/ KeywordInterrupted \/ LineInterrupted
  <2>1. /\ toJob' = <<>> /\ UNCHANGED <<jobCommand, asker>> /\ jePc' \in {"ignore", "work", "end"}
        /\ UNCHANGED <<printed, fromJob, buffered>> \/ PrintLine(Line(1))
    BY <1>13 DEF WordsInterrupted, KeywordInterrupted, LineInterrupted, printVars, coutVars
  <2> QED BY <1>4, <1>5, <2>1 DEF Busy
<1>14. ~(AskForCommand \/ TakeCommand \/ Exit \/ CommandInterrupted)
  BY <1>1 DEF AskForCommand, TakeCommand, Exit, CommandInterrupted
<1> QED BY <1>6, <1>7, <1>8, <1>9, <1>10, <1>11, <1>12, <1>13, <1>14 DEF Loop, Interrupted

LEMMA JobExecutorIsHeard ==
  ASSUME TypesInv, TypesInv', Exchange, Loop \/ Interrupted
  PROVE  Exchange'
<1> SUFFICES ASSUME Live' PROVE IF mainPc' \in Talking THEN Asked' \/ AtWork' \/ Ended' ELSE Between'
  BY DEF Exchange, Live
<1>0. OutT /\ JobT /\ JobT' /\ AnswerT
  BY TypesGive, TypesGivePrimed
<1>1. /\ UNCHANGED <<mainPc, jobExecutorReadyForCommands, n, received, previous_chunk_ends_in_tag, Cut>>
      /\ ~misread' /\ Live
  <2>1. /\ UNCHANGED <<mainPc, jobExecutorReadyForCommands, n, received, previous_chunk_ends_in_tag>>
        /\ misread => misread'
    BY StillMisread
  <2>2. UNCHANGED Cut
    BY <2>1 DEF Cut
  <2>3. Live /\ ~misread'
    BY <2>1, Zenon DEF Live
  <2> QED BY <2>1, <2>2, <2>3
<1>2. IF mainPc \in Talking THEN Asked \/ AtWork \/ Ended ELSE Between
  BY <1>1 DEF Exchange, Live
<1>3. Keys = {} /\ Idles => Keys' = {}
  <2>1. UNCHANGED toJob => UNCHANGED Keys
    BY KeysKept
  <2>2. Keys = {} /\ toJob # <<>> /\ toJob' = Tail(toJob) => Keys' = {}
    BY <1>0, KeysDrop
  <2> QED BY <2>1, <2>2 DEF Idles
<1>4. Takes => 1 \in Keys
  <2>1. toJob # <<>> => 1 \in 1..Len(toJob)
    BY <1>0, Front
  <2> QED BY <1>0, <2>1, KeysAre DEF Takes
<1>5. Quiet /\ Idles => Quiet'
  BY <1>1 DEF Quiet, Idles
<1>6. CASE mainPc \in Talking /\ Asked
  <2>1. Idles \/ Takes
    BY <1>1, <1>6, UnheardSteps DEF Asked
  <2>2. CASE Idles
    <3>1. \A j \in Keys' : toJob'[j].t \in Known /\ toJob'[j].n = n' /\ Keys' = {j}
      <4>1. CASE UNCHANGED toJob
        BY <1>1, <1>6, <4>1, KeysKept DEF Asked
      <4>2. CASE toJob # <<>> /\ toJob' = Tail(toJob)
        <5>1. \A j \in Keys' : j \in Nat /\ j + 1 \in Keys /\ toJob'[j] = toJob[j + 1]
          <6>1. Keys' \subseteq Nat
            <7>1. DOMAIN toJob' \subseteq Nat
              BY <1>0, LenProperties DEF JobT
            <7> QED BY <7>1 DEF Keys
          <6> QED BY <1>0, <4>2, <6>1, KeysDrop
        <5>2. \A j, h \in Keys' : j = h
          <6>1. \A j, h \in Keys' : j + 1 = h + 1
            BY <1>6, <5>1 DEF Asked
          <6> QED BY <5>1, <6>1
        <5>3. \A j \in Keys' : toJob'[j].t \in Known /\ toJob'[j].n = n'
          BY <1>1, <1>6, <5>1 DEF Asked
        <5> QED BY <5>2, <5>3
      <4> QED BY <2>2, <4>1, <4>2 DEF Idles
    <3>2. Asked'
      BY <1>5, <1>6, <2>2, <3>1 DEF Asked, Idles
    <3> QED BY <1>1, <1>6, <3>2
  <2>3. CASE Takes
    <3>1. 1 \in Keys /\ Keys = {1} /\ toJob[1].t \in Known /\ toJob[1].n = n
      BY <1>4, <1>6, <2>3 DEF Asked
    <3>2. Keys' = {}
      <4>1. \A j \in Keys' : j \in 1..Len(toJob') /\ j + 1 \in Keys
        <5>1. \A j \in Keys' : j \in 1..Len(toJob')
          BY <1>0, LenProperties DEF JobT, Keys
        <5> QED BY <1>0, <2>3, <5>1, KeysDrop DEF Takes
      <4> QED BY <3>1, <4>1
    <3>3. asker' = n' /\ Busy' /\ jobCommand' \in Known
      BY <1>1, <2>3, <3>1 DEF Takes, Busy
    <3>4. printed' = received' \o Rest'
      <4>1. /\ received = <<>> /\ printed = <<>> /\ fromJob = <<>> /\ buffered = <<>>
            /\ UNCHANGED <<received, printed, fromJob, buffered>>
        BY <1>1, <1>6, <2>3 DEF Asked, Quiet, Takes
      <4>2. <<>> \o <<>> = <<>>
        BY EmptySeq, ConcatEmptySeq
      <4> QED BY <4>1, <4>2 DEF Rest
    <3>5. AtWork'
      BY <1>1, <1>6, <3>2, <3>3, <3>4 DEF AtWork, Asked, Quiet
    <3> QED BY <1>1, <1>6, <3>5
  <2> QED BY <2>1, <2>2, <2>3
<1>7. CASE mainPc \in Talking /\ AtWork
  <2>0. received \in Seq(Item) /\ fromJob \in Seq(Item) /\ buffered \in Seq(Item)
    BY <1>0 DEF AnswerT, OutT
  <2>1. Serves \/ EndCommand
    BY <1>7, BusySteps DEF AtWork
  <2>2. CASE Serves
    <3>1. Keys' = {}
      BY <1>0, <1>7, <2>2, KeysNone DEF AtWork, Serves
    <3>2. printed' = received' \o Rest'
      <4>1. CASE UNCHANGED <<printed, fromJob, buffered>>
        BY <1>1, <1>7, <4>1 DEF AtWork, Rest
      <4>2. ASSUME NEW m \in 1..MaxText, PrintLine(Line(m))
            PROVE  printed' = received' \o Rest'
        <5> DEFINE line == Line(m)
        <5>1. line \in Seq(Item)
          BY <1>0, LineTypes
        <5>2. /\ printed' = printed \o line /\ fromJob' = (fromJob \o buffered) \o line /\ buffered' = <<>>
          BY <1>7, <4>2 DEF AtWork, PrintLine, Record
        <5> HIDE DEF line
        <5>3. Rest \in Seq(Item)
          BY ONLY <2>0, ConcatProperties DEF Rest
        <5>4. Rest \o line \in Seq(Item)
          BY ONLY <5>1, <5>3, ConcatProperties
        <5>5. Rest' = Rest \o line
          <6>1. (Rest \o line) \o <<>> = Rest \o line
            BY ONLY <5>4, ConcatEmptySeq
          <6> QED BY <5>2, <6>1 DEF Rest
        <5>6. (received \o Rest) \o line = received \o (Rest \o line)
          <6>1. received \in Seq(Item)
            BY <2>0
          <6> QED BY ONLY <5>1, <5>3, <6>1, ConcatAssociative
        <5> QED BY <1>1, <1>7, <5>2, <5>5, <5>6 DEF AtWork
      <4> QED BY <2>2, <4>1, <4>2 DEF Serves
    <3>3. Off' \/ (Busy' /\ jobCommand' \in Known)
      <4>1. jobCommand \in Known
        BY <1>7, LoopPlaces DEF AtWork, Off, Serving
      <4> QED BY <2>2, <4>1 DEF Serves
    <3>4. AtWork'
      BY <1>1, <1>7, <2>2, <3>1, <3>2, <3>3 DEF AtWork, Serves
    <3> QED BY <1>1, <1>7, <3>4
  <2>3. CASE EndCommand
    <3>1. /\ UNCHANGED <<toJob, fromJob, printed, Keys>> /\ buffered' = buffered \o EndOfAnswer /\ Waits'
      BY <2>3, KeysKept DEF EndCommand, Waits
    <3>2. EndOfAnswer \in Seq(Item) /\ Rest \in Seq(Item) /\ Cut = <<>>
      <4>1. Rest \in Seq(Item)
        BY ONLY <2>0, ConcatProperties DEF Rest
      <4> QED BY <1>7, <4>1, EndTypes DEF AtWork, Cut
    <3>3. Rest' = Rest \o EndOfAnswer
      <4>1. (fromJob \o buffered) \o EndOfAnswer = fromJob \o (buffered \o EndOfAnswer)
        BY ONLY <2>0, <3>2, ConcatAssociative
      <4> QED BY <3>1, <4>1 DEF Rest
    <3>4. (received \o Rest) \o EndOfAnswer = received \o (Rest \o EndOfAnswer)
      <4>1. received \in Seq(Item)
        BY <2>0
      <4> QED BY ONLY <3>2, <4>1, ConcatAssociative
    <3>5. received \o <<>> = received
      BY <2>0, ConcatEmptySeq
    <3>6. Ended'
      BY <1>1, <1>7, <3>1, <3>2, <3>3, <3>4, <3>5 DEF AtWork, Ended, Unheard
    <3> QED BY <1>1, <1>7, <3>6
  <2> QED BY <2>1, <2>2, <2>3
<1>8. CASE mainPc \in Talking /\ Ended
  <2>1. Idles
    BY <1>1, <1>4, <1>8, UnheardSteps DEF Ended
  <2>2. Ended'
    BY <1>1, <1>3, <1>8, <2>1 DEF Ended, Idles
  <2> QED BY <1>1, <1>8, <2>2
<1>9. CASE mainPc \notin Talking /\ Between
  <2>1. Idles
    BY <1>1, <1>4, <1>9, UnheardSteps DEF Between
  <2>2. Between'
    BY <1>1, <1>3, <1>5, <1>9, <2>1 DEF Between, Idles
  <2> QED BY <1>1, <1>9, <2>2
<1> QED BY <1>2, <1>6, <1>7, <1>8, <1>9

-----------------------------------------------------------------------------
(* The inductive invariant. *)
ChannelInv == TypesInv /\ Unborn /\ Monitor /\ Early /\ Text /\ Own /\ Exchange

LEMMA ChannelInvInit == ChannelInit => ChannelInv
<1> SUFFICES ASSUME ChannelInit PROVE ChannelInv
  OBVIOUS
<1>1. /\ mainPc = "poll" /\ jobExecutorReadyForCommands = FALSE /\ monitorPc = "crawl" /\ jePc = "none"
      /\ toJob = <<>> /\ cin = "good" /\ fromJob = <<>> /\ buffered = <<>> /\ printed = <<>>
      /\ received = <<>> /\ previous_chunk_ends_in_tag = FALSE
  BY DEF ChannelInit, StartInit
<1>2. Unborn /\ Monitor /\ Early /\ Exchange
  BY <1>1 DEF Unborn, Silent, Monitor, Finished, Starting, Blocked, Early, Talking, Off, Exchange
<1>3. Text /\ Own
  BY <1>1, EmptySeq DEF Text, Own
<1> QED BY <1>2, <1>3, InitTypes DEF ChannelInv

LEMMA ChannelInvNext == ChannelInv /\ [ChannelNext]_allVars => ChannelInv'
<1> SUFFICES ASSUME ChannelInv, [ChannelNext]_allVars PROVE ChannelInv'
  OBVIOUS
<1>1. TypesInv /\ Unborn /\ Monitor /\ Early /\ Text /\ Own /\ Exchange /\ TypesInv'
  BY TypesNext DEF ChannelInv
<1>2. CASE ChannelNext
  <2>1. Unborn' /\ Monitor' /\ Early' /\ Text' /\ Own'
    BY <1>1, <1>2, UnbornNext, MonitorNext, EarlyNext, TextNext, OwnNext
  <2>2. Exchange'
    <3>1. CASE StartNext /\ UNCHANGED channelVars
      BY <1>1, <3>1, StartIsHeard
    <3>2. CASE Accept \/ Main
      BY <1>1, <3>2, QuietMain, ForwardAsks, ArgumentsAskNothing, AnswerIsRead DEF Main
    <3>3. CASE Loop \/ Interrupted
      BY <1>1, <3>3, JobExecutorIsHeard
    <3> QED BY <1>2, <3>1, <3>2, <3>3 DEF ChannelNext
  <2> QED BY <1>1, <2>1, <2>2 DEF ChannelInv
<1>3. CASE UNCHANGED allVars
  <2>1. UNCHANGED <<monitorPc, jobExecutorReadyForCommands, jePc, fromJob>>
    BY <1>3 DEF allVars, startVars, monitorVars, loopVars
  <2>2. UNCHANGED <<mainPc, n, received, previous_chunk_ends_in_tag>>
    BY <1>3 DEF allVars, channelVars, mainVars, clientVars, answerVars
  <2>3. UNCHANGED <<toJob, cin, jobCommand, asker, back, buffered, printed, misread>>
    BY <1>3 DEF allVars, channelVars, cinVars, coutVars
  <2>4. UNCHANGED <<Unborn, Monitor, Early, Text, Own>>
    BY <2>1, <2>2, <2>3 DEF Unborn, Silent, Monitor, Early, Text, Own, Off, Waits
  <2>5. UNCHANGED <<Keys, Rest, Cut, Quiet, Unheard, Busy, Off>>
    BY <2>1, <2>2, <2>3 DEF Keys, Rest, Cut, Quiet, Unheard, Waits, Mistaken, Taken, Busy, Off
  <2>6. UNCHANGED <<Asked, AtWork, Ended, Between>>
    BY <2>1, <2>2, <2>3, <2>5 DEF Asked, AtWork, Ended, Between
  <2>7. UNCHANGED Exchange
    BY <2>1, <2>2, <2>3, <2>6 DEF Exchange
  <2> QED BY <1>1, <2>4, <2>7 DEF ChannelInv
<1> QED BY <1>2, <1>3

LEMMA ChannelInvGives == ChannelInv => AnswerIsOwn
<1> SUFFICES ASSUME ChannelInv, ~misread
             PROVE  /\ \A j \in DOMAIN received : received[j].n = n /\ received[j].b # "<"
                    /\ mainPc = "answered" => received = printed
  BY DEF AnswerIsOwn
<1>1. DOMAIN received = 1..Len(received)
  <2>1. received \in Seq(Item)
    BY TypesGive DEF ChannelInv, AnswerT
  <2> QED BY <2>1, LenProperties
<1>2. mainPc = "answered" => received = printed
  BY DEF ChannelInv, Early, Exchange, Between, Quiet, Finished, Talking
<1> QED BY <1>1, <1>2 DEF ChannelInv, Own

(* A client receives what jobExecutor printed for its command, and nothing that was      *)
(* printed for an earlier one, whatever the chunks in which main reads it and wherever   *)
(* the "<" line is cut (webcrawler.cpp:319); when main has found that line the client    *)
(* has all of it.  Excepted is a jobExecutor that has taken an argument for a command,   *)
(* or lost its input, after a signal (jobExecutor.cpp:397,723).                          *)
THEOREM AnswersAreOwn == ChannelSpec => []AnswerIsOwn
<1>1. ChannelSpec => []ChannelInv
  BY ChannelInvInit, ChannelInvNext, PTL DEF ChannelSpec
<1> QED BY <1>1, ChannelInvGives, PTL
=============================================================================
