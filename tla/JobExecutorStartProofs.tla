----------------------- MODULE JobExecutorStartProofs -----------------------
(***************************************************************************)
(* Theorems about JobExecutorStart for any number of workers and           *)
(* directories, any deaths and failures.                                   *)
(*                                                                         *)
(* Everything rests on what is in a request pipe: the j-th directory of    *)
(* worker w is w + (j - 1) * numWorkers (SeqInv), and while jobExecutor    *)
(* deals, k says how far each worker has got (TurnInv), so that one whose  *)
(* last directory is marked as the last is not dealt another (ShareInv).   *)
(* That READY stands for all directories is carried from the parsing of a  *)
(* worker (ParsedInv) over the opening of its answer pipe (MetInv) to the  *)
(* pipe and the monitor (SaidInv).                                         *)
(***************************************************************************)
EXTENDS JobExecutorStart, SequenceTheorems, TLAPS

dirAt(w, j) == w + (j - 1) * numWorkers
(* The directory to be dealt to w next. *)
nextDir(w) == w + Len(sent[w]) * numWorkers
turn == IF k >= numWorkers THEN 0 ELSE k

PcInv ==
  /\ jePc \in {"none", "ready", "gone"} \cup Starting /\ fromJob \in Seq({READY})
  /\ jePc \in Blocked => i \in Workers

SeqInv ==
  \A w \in Workers : \A j \in 1..Len(sent[w]) :
    dirAt(w, j) \in Dirs /\ sent[w][j] = Message(dirAt(w, j))

EarlyInv ==
  /\ jePc \in {"none", "make", "openR", "blockedR"} => k = 0 /\ \A w \in Workers : sent[w] = <<>>
  /\ monitorPc \in {"crawl", "init"} => jePc = "none" /\ \A w \in Workers : workerPc[w] = "none"

TurnInv ==
  jePc = "send" => \A w \in Workers : workerPc[w] # "dead" =>
    nextDir(w) = i + w - turn + (IF w >= turn THEN 0 ELSE numWorkers)

ShareInv ==
  \A w \in Workers : workerPc[w] \in {"parse", "endless", "openA", "loop", "deaf"} =>
    got[w] = Len(sent[w]) /\ nextDir(w) >= dirfilesize

ParsedInv ==
  \A w \in Workers : workerPc[w] \in {"openA", "loop", "deaf"} =>
    \A j \in 1..got[w] : IsOk(w, j)

MetInv ==
  jePc \in {"openA", "blockedA"} => \A w \in Workers : w < i =>
    nextDir(w) >= dirfilesize /\ \A j \in 1..Len(sent[w]) : IsOk(w, j)

SaidInv ==
  jePc = "ready" \/ fromJob # <<>> \/ msg = "READY" => \A d \in Dirs : content[d] = "ok"

FlagInv ==
  jobExecutorReadyForCommands => monitorPc = "done" /\ (msg # "READY" => ~PipeOpen)

IInv ==
  /\ StartTypeOK /\ PcInv /\ SeqInv /\ EarlyInv /\ TurnInv /\ ShareInv
  /\ ParsedInv /\ MetInv /\ SaidInv /\ FlagInv

-----------------------------------------------------------------------------
(* Arithmetic. *)

LEMMA DivMod ==
  ASSUME NEW x \in Nat, NEW y \in Nat \ {0}
  PROVE  x = y * (x \div y) + (x % y) /\ x % y \in 0..(y - 1) /\ x \div y \in Nat
  BY SMT

LEMMA Strides ==
  ASSUME NEW p \in Int, NEW q \in Int, NEW y \in Nat \ {0}, p < q
  PROVE  p * y + y <= q * y
  BY SMT

(* The number of a worker is the remainder of each of its directories. *)
LEMMA Remainder ==
  ASSUME NEW w \in Nat, NEW q \in Nat, NEW y \in Nat \ {0}, w < y
  PROVE  (w + q * y) % y = w
  <1> DEFINE x == w + q * y
  <1>0. x \in Nat
    BY SMT
  <1>1. x = y * (x \div y) + (x % y) /\ x % y \in 0..(y - 1) /\ x \div y \in Nat
    BY <1>0, DivMod
  <1>2. (x \div y) * y = y * (x \div y)
    BY <1>1, SMT
  <1>3. CASE x \div y = q
    BY <1>1, <1>2, <1>3, SMT
  <1>4. CASE x \div y < q
    <2>1. (x \div y) * y + y <= q * y
      BY <1>1, <1>4, Strides
    <2> QED BY <2>1, <1>2, <1>1, SMT
  <1>5. CASE q < x \div y
    <2>1. q * y + y <= (x \div y) * y
      BY <1>1, <1>5, Strides
    <2> QED BY <2>1, <1>2, <1>1, SMT
  <1> QED BY <1>1, <1>3, <1>4, <1>5, SMT

LEMMA NumWorkers == numWorkers \in Nat \ {0} /\ numWorkers <= dirfilesize /\ dirfilesize \in Nat
  BY StartAssumption DEF numWorkers

(* range of each worker is enough for all directories. *)
LEMMA RangeSuffices == range \in Nat /\ range * numWorkers >= dirfilesize
  <1> DEFINE q == dirfilesize \div numWorkers
             r == dirfilesize % numWorkers
  <1>1. dirfilesize = numWorkers * q + r /\ r \in 0..(numWorkers - 1) /\ q \in Nat
    BY NumWorkers, DivMod
  <1>2. range = q + (IF r > 0 THEN 1 ELSE 0)
    BY DEF range
  <1> HIDE DEF q, r
  <1>3. CASE r > 0
    <2>1. range = q + 1
      BY <1>2, <1>3
    <2>2. (q + 1) * numWorkers = numWorkers * q + numWorkers
      BY <1>1, NumWorkers, SMT
    <2> QED BY <2>1, <2>2, <1>1, NumWorkers, SMT
  <1>4. CASE r = 0
    <2>1. range = q
      BY <1>2, <1>4, <1>1
    <2>2. q * numWorkers = numWorkers * q
      BY <1>1, NumWorkers, SMT
    <2> QED BY <2>1, <2>2, <1>1, <1>4, NumWorkers, SMT
  <1> QED BY <1>1, <1>3, <1>4

(* What has been dealt to a worker: *)
LEMMA Dealt ==
  ASSUME StartTypeOK, SeqInv, NEW w \in Workers
  PROVE  /\ w \in Nat /\ Len(sent[w]) \in Nat /\ got[w] \in Nat /\ Len(sent[w]) <= range
         /\ nextDir(w) \in Nat
         /\ \A j \in 1..Len(sent[w]) : sent[w][j].dir = dirAt(w, j) /\ dirAt(w, j) \in Dirs
  <1>1. w \in Nat /\ Len(sent[w]) \in Nat /\ got[w] \in Nat
    <2>1. w \in Nat
      BY NumWorkers DEF Workers
    <2>2. sent[w] \in Seq([dir : Dirs, last : BOOLEAN]) /\ got[w] \in 0..range
      BY DEF StartTypeOK
    <2> QED BY <2>1, <2>2, RangeSuffices
  <1>2. ASSUME NEW j \in 1..Len(sent[w])
        PROVE  sent[w][j].dir = dirAt(w, j) /\ dirAt(w, j) \in Dirs
    <2>1. dirAt(w, j) \in Dirs /\ sent[w][j] = Message(dirAt(w, j))
      BY DEF SeqInv
    <2>2. Message(dirAt(w, j)).dir = dirAt(w, j)
      BY DEF Message
    <2> QED BY <2>1, <2>2
  <1>3. nextDir(w) \in Nat
    BY <1>1, NumWorkers, SMT DEF nextDir
  <1>4. Len(sent[w]) <= range
    <2> SUFFICES ASSUME Len(sent[w]) > range PROVE FALSE
      BY <1>1, RangeSuffices
    <2>1. range + 1 \in 1..Len(sent[w])
      BY <1>1, RangeSuffices
    <2>2. w + range * numWorkers \in Dirs
      BY <2>1, <1>2, RangeSuffices DEF dirAt
    <2> QED BY <2>2, <1>1, RangeSuffices, NumWorkers DEF Dirs
  <1> QED BY <1>1, <1>2, <1>3, <1>4

(* If nothing is left to deal to w, its directories are those of its remainder. *)
LEMMA WholeShare ==
  ASSUME StartTypeOK, SeqInv, NEW w \in Workers, nextDir(w) >= dirfilesize, NEW d \in Dirs
  PROVE  d % numWorkers = w <=> \E j \in 1..Len(sent[w]) : sent[w][j].dir = d
  <1>0. w \in Nat /\ w < numWorkers /\ Len(sent[w]) \in Nat /\ d \in Nat /\ d < dirfilesize
    BY Dealt, NumWorkers DEF Workers, Dirs
  <1>1. ASSUME d % numWorkers = w
        PROVE  \E j \in 1..Len(sent[w]) : sent[w][j].dir = d
    <2> DEFINE q == d \div numWorkers
    <2>1. d = numWorkers * q + w /\ q \in Nat
      BY <1>0, <1>1, NumWorkers, DivMod
    <2> HIDE DEF q
    <2>2. q < Len(sent[w])
      <3> SUFFICES ASSUME Len(sent[w]) <= q PROVE FALSE
        BY <2>1, <1>0
      <3>1. Len(sent[w]) * numWorkers <= q * numWorkers
        <4>1. CASE Len(sent[w]) = q
          BY <4>1, <2>1, NumWorkers, SMT
        <4>2. CASE Len(sent[w]) < q
          BY <4>2, <2>1, <1>0, NumWorkers, Strides, SMT
        <4>3. PICK n \in Nat : n = Len(sent[w])
          BY <1>0
        <4>4. n = q \/ n < q
          BY <2>1, <4>3
        <4> QED BY <4>1, <4>2, <4>3, <4>4
      <3>2. numWorkers * q = q * numWorkers
        BY <2>1, NumWorkers, SMT
      <3>3. PICK x \in Int : x = Len(sent[w]) * numWorkers
        BY <1>0, NumWorkers
      <3>4. PICK y \in Int : y = q * numWorkers
        BY <2>1, NumWorkers
      <3>5. nextDir(w) = w + x
        BY <3>3 DEF nextDir
      <3>6. d = y + w /\ w + x >= dirfilesize /\ x <= y
        BY <2>1, <3>1, <3>2, <3>3, <3>4, <3>5
      <3> QED BY <1>0, NumWorkers, <3>3, <3>4, <3>6
    <2>3. q + 1 \in 1..Len(sent[w])
      BY <2>1, <2>2, <1>0
    <2>4. dirAt(w, q + 1) = d
      BY <2>1, <1>0, NumWorkers, SMT DEF dirAt
    <2> QED BY <2>3, <2>4, Dealt
  <1>2. ASSUME NEW j \in 1..Len(sent[w]), sent[w][j].dir = d
        PROVE  d % numWorkers = w
    <2>1. d = w + (j - 1) * numWorkers
      BY <1>2, Dealt DEF dirAt
    <2>2. j - 1 \in Nat
      BY <1>0
    <2> QED BY <2>1, <2>2, <1>0, NumWorkers, Remainder
  <1> QED BY <1>1, <1>2


-----------------------------------------------------------------------------
(* What steps have in common. *)

(* A worker stays where it is, goes where nothing is said of its share, or on *)
(* from where its share is known to be whole and parsed.                      *)
Stays(w) ==
  \/ workerPc'[w] = workerPc[w]
  \/ workerPc'[w] \in {"none", "exec", "openR", "dirs", "dead"}
  \/ workerPc[w] \in {"openA", "loop"} /\ workerPc'[w] \in {"loop", "deaf"}

LEMMA KeepsShares ==
  ASSUME IInv, UNCHANGED <<sent, got, content>>, \A w \in Workers : Stays(w)
  PROVE  SeqInv' /\ ShareInv' /\ ParsedInv'
  <1>1. SeqInv'
    BY DEF IInv, SeqInv, dirAt
  <1>2. ShareInv'
    BY DEF IInv, ShareInv, Stays, nextDir
  <1>3. ParsedInv'
    BY DEF IInv, ParsedInv, Stays, IsOk
  <1> QED BY <1>1, <1>2, <1>3

(* Whoever is killed dies or is deaf. *)
LEMMA Killed ==
  ASSUME StartTypeOK, NEW ws, Kill(ws)
  PROVE  /\ workerPc' \in [Workers -> WorkerPcs]
         /\ \A w \in Workers :
              \/ workerPc'[w] = workerPc[w]
              \/ workerPc'[w] = "dead" /\ Alive(w)
              \/ workerPc'[w] = "deaf" /\ workerPc[w] \in {"openA", "loop"}
  BY DEF Kill, StartTypeOK, WorkerPcs, Alive

(* The flag stands for READY as long as somebody holds the pipe. *)
LEMMA KeepsFlag ==
  ASSUME FlagInv, UNCHANGED monitorVars, jePc \notin {"none", "gone"}
  PROVE  FlagInv'
  BY DEF FlagInv, monitorVars, PipeOpen

(* A step of a worker, or its death. *)
Advances(w) ==
  /\ workerPc'[w] = "none" <=> workerPc[w] = "none"
  /\ workerPc[w] = "dead" => workerPc'[w] = "dead"

LEMMA WorkerKeeps ==
  ASSUME IInv, UNCHANGED <<monitorVars, loopVars, fromJob, sent, content>>,
         \A w \in Workers : Advances(w)
  PROVE  PcInv' /\ EarlyInv' /\ TurnInv' /\ MetInv' /\ SaidInv' /\ FlagInv'
  <1> USE DEF IInv, monitorVars, loopVars
  <1>1. PcInv'
    BY DEF PcInv
  <1>2. EarlyInv'
    BY DEF EarlyInv, Advances
  <1>3. TurnInv'
    BY DEF TurnInv, Advances, nextDir, turn
  <1>4. MetInv'
    BY DEF MetInv, nextDir, IsOk
  <1>5. SaidInv'
    BY DEF SaidInv
  <1>6. FlagInv'
    BY DEF FlagInv, PipeOpen, Alive, Advances
  <1> QED BY <1>1, <1>2, <1>3, <1>4, <1>5, <1>6

(* A step of jobExecutor that deals nothing and says nothing. *)
LEMMA JobExecutorKeeps ==
  ASSUME IInv, jePc \in Starting, jePc' \in Starting \cup {"gone"},
         jePc' \in {"make", "openR", "blockedR"} => jePc \in {"make", "openR", "blockedR"},
         UNCHANGED <<monitorVars, k, fromJob, pipeVars, content>>,
         i' \in 0..dirfilesize, fifos' \subseteq Fifos,
         worker_is_dead' \subseteq Workers, a_worker_died' \in BOOLEAN, zombies' \subseteq Workers,
         deaths' \in 0..MaxDeaths, startFailures' \in 0..MaxStartFailures,
         workerPc' \in [Workers -> WorkerPcs], \A w \in Workers : Stays(w)
  PROVE  StartTypeOK' /\ SeqInv' /\ EarlyInv' /\ ShareInv' /\ ParsedInv' /\ SaidInv' /\ FlagInv'
  <1> USE DEF monitorVars, pipeVars
  <1>1. StartTypeOK'
    BY DEF IInv, StartTypeOK
  <1>2. SeqInv' /\ ShareInv' /\ ParsedInv'
    BY KeepsShares
  <1>3. EarlyInv'
    BY DEF IInv, EarlyInv, Starting, Blocked
  <1>4. SaidInv'
    BY DEF IInv, SaidInv, Starting, Blocked
  <1>5. FlagInv'
    BY KeepsFlag DEF IInv, Starting, Blocked
  <1> QED BY <1>1, <1>2, <1>3, <1>4, <1>5

LEMMA GivesUp ==
  ASSUME IInv, jePc \in Starting, NEW gone, GiveUp(gone),
         UNCHANGED <<monitorVars, i, k, fromJob, pipeVars, content, boundVars>>,
         worker_is_dead' \subseteq Workers, a_worker_died' \in BOOLEAN, zombies' \subseteq Workers
  PROVE  IInv'
  <1>1. StartTypeOK
    BY DEF IInv
  <1>2. workerPc' \in [Workers -> WorkerPcs] /\ \A w \in Workers : Stays(w)
    BY <1>1, Killed DEF GiveUp, Stays
  <1>3. jePc' = "wait" /\ fifos' \subseteq Fifos
    BY <1>1 DEF GiveUp, StartTypeOK
  <1>4. i' \in 0..dirfilesize /\ deaths' \in 0..MaxDeaths /\ startFailures' \in 0..MaxStartFailures
    BY <1>1 DEF StartTypeOK, boundVars
  <1>5. StartTypeOK' /\ SeqInv' /\ EarlyInv' /\ ShareInv' /\ ParsedInv' /\ SaidInv' /\ FlagInv'
    BY <1>2, <1>3, <1>4, JobExecutorKeeps DEF Starting, Blocked
  <1>6. PcInv' /\ TurnInv' /\ MetInv'
    BY <1>3 DEF IInv, PcInv, TurnInv, MetInv, Starting, Blocked
  <1> QED BY <1>5, <1>6 DEF IInv

-----------------------------------------------------------------------------
LEMMA InitInv == StartInit => IInv
  <1> SUFFICES ASSUME StartInit PROVE IInv
    OBVIOUS
  <1> USE NumWorkers, RangeSuffices, StartAssumption DEF StartInit
  <1>1. StartTypeOK
    <2>1. sent \in [Workers -> Seq([dir : Dirs, last : BOOLEAN])] /\ \A w \in Workers : Len(sent[w]) = 0
      OBVIOUS
    <2>2. got \in [Workers -> 0..range] /\ workerPc \in [Workers -> WorkerPcs]
      BY DEF WorkerPcs
    <2>3. \A w \in Workers : got[w] <= Len(sent[w])
      BY <2>1
    <2>4. fifos \subseteq Fifos /\ content \in [Dirs -> Contents]
      OBVIOUS
    <2>5. i \in 0..dirfilesize /\ k \in 0..numWorkers /\ deaths \in 0..MaxDeaths
            /\ startFailures \in 0..MaxStartFailures
      OBVIOUS
    <2> HIDE DEF StartInit
    <2>6. /\ monitorPc \in {"crawl", "init", "wait", "done"} /\ msg \in {"none", "READY", ""}
          /\ jobExecutorReadyForCommands \in BOOLEAN /\ a_worker_died \in BOOLEAN
          /\ worker_is_dead \subseteq Workers /\ zombies \subseteq Workers
      BY DEF StartInit
    <2> QED BY ONLY <2>1, <2>2, <2>3, <2>4, <2>5, <2>6 DEF StartTypeOK
  <1>2. PcInv
    BY DEF PcInv, Blocked
  <1>3. SeqInv /\ EarlyInv /\ TurnInv /\ ShareInv /\ ParsedInv /\ MetInv /\ SaidInv /\ FlagInv
    BY DEF SeqInv, EarlyInv, TurnInv, ShareInv, ParsedInv, MetInv, SaidInv, FlagInv
  <1> QED BY <1>1, <1>2, <1>3 DEF IInv


(* The monitor thread. *)
LEMMA MonitorInv ==
  ASSUME IInv, CrawlFinishes \/ init_jobExecutor \/ ForkJobExecutorFails \/ ReadReady
  PROVE  IInv'
  <1>0. /\ StartTypeOK /\ PcInv /\ SeqInv /\ EarlyInv /\ TurnInv /\ ShareInv
        /\ ParsedInv /\ MetInv /\ SaidInv /\ FlagInv
    BY DEF IInv
  <1>1. CASE CrawlFinishes
    <2> USE <1>0, <1>1 DEF CrawlFinishes, loopVars, deadVars, pipeVars, boundVars
    <2>1. StartTypeOK'
      BY DEF StartTypeOK
    <2>2. UNCHANGED <<sent, got, content, jePc, i, k, workerPc, fromJob, msg, jobExecutorReadyForCommands>>
      OBVIOUS
    <2>3. PcInv' /\ EarlyInv' /\ SaidInv' /\ FlagInv'
      BY <2>2 DEF PcInv, EarlyInv, SaidInv, FlagInv
    <2>4. TurnInv' /\ MetInv'
      BY <2>2, <2>3 DEF EarlyInv, TurnInv, MetInv
    <2>5. SeqInv' /\ ShareInv' /\ ParsedInv'
      BY <2>2, KeepsShares DEF Stays
    <2> QED BY <2>1, <2>3, <2>4, <2>5 DEF IInv
  <1>2. CASE init_jobExecutor
    <2> USE <1>0, <1>2 DEF init_jobExecutor, deadVars, pipeVars, boundVars
    <2>1. StartTypeOK'
      BY DEF StartTypeOK
    <2>2. jePc = "none" /\ jePc' = "make" /\ ~jobExecutorReadyForCommands
      BY DEF EarlyInv, FlagInv
    <2>3. PcInv' /\ EarlyInv' /\ TurnInv' /\ MetInv' /\ SaidInv' /\ FlagInv'
      BY <2>2 DEF PcInv, EarlyInv, TurnInv, MetInv, SaidInv, FlagInv, Starting, Blocked
    <2>4. SeqInv' /\ ShareInv' /\ ParsedInv'
      BY KeepsShares DEF Stays
    <2> QED BY <2>1, <2>3, <2>4 DEF IInv
  <1>3. CASE ForkJobExecutorFails
    <2> USE <1>0, <1>3 DEF ForkJobExecutorFails, loopVars, deadVars, pipeVars
    <2>1. StartTypeOK'
      <3>1. startFailures \in 0..MaxStartFailures
        BY ONLY <1>0 DEF StartTypeOK
      <3>2. startFailures' \in 0..MaxStartFailures
        BY ONLY <3>1, <1>3, StartAssumption DEF ForkJobExecutorFails
      <3> QED BY <3>2 DEF StartTypeOK
    <2>2. jePc' = "none" /\ \A w \in Workers : workerPc'[w] = "none"
      BY DEF EarlyInv
    <2>3. PcInv' /\ EarlyInv' /\ TurnInv' /\ MetInv' /\ SaidInv' /\ FlagInv'
      BY <2>2 DEF PcInv, EarlyInv, TurnInv, MetInv, SaidInv, FlagInv, PipeOpen, Alive
    <2>4. SeqInv' /\ ShareInv' /\ ParsedInv'
      BY KeepsShares DEF Stays
    <2> QED BY <2>1, <2>3, <2>4 DEF IInv
  <1>4. CASE ReadReady
    <2> USE <1>0, <1>4 DEF ReadReady, loopVars, deadVars, pipeVars, boundVars
    <2>1. StartTypeOK'
      BY DEF StartTypeOK
    <2>2. PcInv'
      <3>1. fromJob' \in Seq({READY})
        <4>1. fromJob \in Seq({READY})
          BY DEF PcInv
        <4>2. fromJob # <<>> => Tail(fromJob) \in Seq({READY})
          BY ONLY <4>1, HeadTailProperties
        <4> QED BY <4>1, <4>2
      <3> QED BY <3>1 DEF PcInv
    <2>3. EarlyInv' /\ SaidInv' /\ FlagInv'
      BY DEF EarlyInv, SaidInv, FlagInv, PipeOpen, Alive
    <2>4. UNCHANGED <<sent, got, content, jePc, i, k, workerPc>>
      OBVIOUS
    <2>5. TurnInv' /\ MetInv'
      BY <2>4 DEF TurnInv, MetInv, nextDir, turn, IsOk
    <2>6. SeqInv' /\ ShareInv' /\ ParsedInv'
      BY <2>4, KeepsShares DEF Stays
    <2> QED BY <2>1, <2>2, <2>3, <2>5, <2>6 DEF IInv
  <1> QED BY <1>1, <1>2, <1>3, <1>4


(* jobExecutor makes the pipes and the workers, ... *)
LEMMA MakeInv ==
  ASSUME IInv, MakeWorker \/ FifoExists \/ ForkWorkerFails \/ AllMade
  PROVE  IInv'
  <1>0. StartTypeOK /\ PcInv
    BY DEF IInv
  <1>1. /\ i \in 0..dirfilesize /\ k \in 0..numWorkers /\ fifos \subseteq Fifos
        /\ workerPc \in [Workers -> WorkerPcs]
        /\ worker_is_dead \subseteq Workers /\ a_worker_died \in BOOLEAN /\ zombies \subseteq Workers
        /\ deaths \in 0..MaxDeaths /\ startFailures \in 0..MaxStartFailures
    BY <1>0 DEF StartTypeOK
  <1> USE NumWorkers, StartAssumption
  <1>2. \A v \in Workers : {R(v), A(v)} \subseteq Fifos
    BY DEF Fifos, PipesBelow, Workers
  <1>3. CASE MakeWorker
    <2> USE <1>3 DEF MakeWorker, elsewhere, deadVars
    <2>1. i \in Workers /\ i' \in 0..dirfilesize
      BY <1>1 DEF Workers
    <2>2. fifos' \subseteq Fifos
      BY <1>1, <1>2, <2>1
    <2>3. workerPc' \in [Workers -> WorkerPcs] /\ \A w \in Workers : Stays(w)
      BY <1>1, <2>1 DEF WorkerPcs, Stays
    <2>4. jePc = "make" /\ jePc' = "make"
      OBVIOUS
    <2>5. StartTypeOK' /\ SeqInv' /\ EarlyInv' /\ ShareInv' /\ ParsedInv' /\ SaidInv' /\ FlagInv'
      BY <1>1, <2>1, <2>2, <2>3, <2>4, JobExecutorKeeps DEF Starting
    <2>6. PcInv' /\ TurnInv' /\ MetInv'
      BY <1>0, <2>4 DEF PcInv, TurnInv, MetInv, Starting, Blocked
    <2> QED BY <2>5, <2>6 DEF IInv
  <1>4. CASE FifoExists
    <2>1. UNCHANGED <<monitorVars, i, k, fromJob, pipeVars, content, boundVars, zombies, worker_is_dead, a_worker_died>>
      BY <1>4 DEF FifoExists, elsewhere, boundVars, deadVars
    <2>2. PICK gone : GiveUp(gone)
      BY <1>4 DEF FifoExists
    <2>3. jePc \in Starting
      BY <1>4 DEF FifoExists, Starting
    <2> QED BY <1>1, <2>1, <2>2, <2>3, GivesUp
  <1>5. CASE ForkWorkerFails
    <2> USE <1>5 DEF ForkWorkerFails, elsewhere, deadVars
    <2>1. i \in Workers /\ i' \in 0..dirfilesize /\ startFailures' \in 0..MaxStartFailures
      BY <1>1 DEF Workers
    <2>2. fifos' \subseteq Fifos
      BY <1>1, <1>2, <2>1
    <2>3. workerPc' \in [Workers -> WorkerPcs] /\ \A w \in Workers : Stays(w)
      BY <1>1 DEF Stays
    <2>4. jePc = "make" /\ jePc' = "openR"
      OBVIOUS
    <2>5. StartTypeOK' /\ SeqInv' /\ EarlyInv' /\ ShareInv' /\ ParsedInv' /\ SaidInv' /\ FlagInv'
      BY <1>1, <2>1, <2>2, <2>3, <2>4, JobExecutorKeeps DEF Starting
    <2>6. PcInv' /\ TurnInv' /\ MetInv'
      BY <1>0, <2>4 DEF PcInv, TurnInv, MetInv, Starting, Blocked
    <2> QED BY <2>5, <2>6 DEF IInv
  <1>6. CASE AllMade
    <2> USE <1>6 DEF AllMade, LoopEnds, elsewhere, deadVars
    <2>1. i' \in 0..dirfilesize
      OBVIOUS
    <2>2. jePc = "make" /\ jePc' = "openR"
      OBVIOUS
    <2>3. StartTypeOK' /\ SeqInv' /\ EarlyInv' /\ ShareInv' /\ ParsedInv' /\ SaidInv' /\ FlagInv'
      BY <1>1, <2>1, <2>2, JobExecutorKeeps DEF Starting, Stays
    <2>4. PcInv' /\ TurnInv' /\ MetInv'
      BY <1>0, <2>2 DEF PcInv, TurnInv, MetInv, Starting, Blocked
    <2> QED BY <2>3, <2>4 DEF IInv
  <1> QED BY <1>3, <1>4, <1>5, <1>6

(* ... opens the request pipes, ... *)
LEMMA OpenRequestsInv ==
  ASSUME IInv, OpenRequests \/ AllRequestsOpen
  PROVE  IInv'
  <1>0. StartTypeOK /\ PcInv /\ EarlyInv
    BY DEF IInv
  <1>1. /\ i \in 0..dirfilesize /\ k \in 0..numWorkers /\ fifos \subseteq Fifos
        /\ workerPc \in [Workers -> WorkerPcs]
        /\ worker_is_dead \subseteq Workers /\ a_worker_died \in BOOLEAN /\ zombies \subseteq Workers
        /\ deaths \in 0..MaxDeaths /\ startFailures \in 0..MaxStartFailures
    BY <1>0 DEF StartTypeOK
  <1> USE NumWorkers, StartAssumption
  <1>2. CASE Block("openR", "blockedR", R(i))
    <2> USE <1>2 DEF Block
    <2>1. UNCHANGED <<monitorVars, i, k, fromJob, pipeVars, content, boundVars, zombies, worker_is_dead, a_worker_died>>
      BY DEF elsewhere, boundVars, deadVars
    <2>2. CASE R(i) \in fifos
      <3>1. jePc = "openR" /\ jePc' = "blockedR" /\ UNCHANGED <<fifos, workerPc>>
        BY <2>2
      <3>2. StartTypeOK' /\ SeqInv' /\ EarlyInv' /\ ShareInv' /\ ParsedInv' /\ SaidInv' /\ FlagInv'
        BY <1>1, <2>1, <3>1, JobExecutorKeeps DEF Starting, Blocked, Stays, boundVars
      <3>3. i \in Workers
        BY <1>1 DEF Workers
      <3>4. PcInv' /\ TurnInv' /\ MetInv'
        BY <1>0, <2>1, <3>1, <3>3 DEF PcInv, TurnInv, MetInv, Starting, Blocked
      <3> QED BY <3>2, <3>4 DEF IInv
    <2>3. CASE R(i) \notin fifos
      <3>1. GiveUp(Fifos) /\ jePc \in Starting
        BY <2>3 DEF Starting
      <3> QED BY <1>1, <2>1, <3>1, GivesUp
    <2> QED BY <2>2, <2>3
  <1>3. CASE Meet("openR", "blockedR", "openR", "dirs")
    <2> USE <1>3 DEF Meet, elsewhere, deadVars
    <2>1. i \in Workers /\ i' \in 0..dirfilesize
      BY <1>0, <1>1 DEF PcInv, Blocked, Workers
    <2>2. workerPc' \in [Workers -> WorkerPcs] /\ \A w \in Workers : Stays(w)
      BY <1>1, <2>1 DEF WorkerPcs, Stays
    <2>3. jePc = "blockedR" /\ jePc' = "openR"
      OBVIOUS
    <2>4. StartTypeOK' /\ SeqInv' /\ EarlyInv' /\ ShareInv' /\ ParsedInv' /\ SaidInv' /\ FlagInv'
      BY <1>1, <2>1, <2>2, <2>3, JobExecutorKeeps DEF Starting, Blocked
    <2>5. PcInv' /\ TurnInv' /\ MetInv'
      BY <1>0, <2>3 DEF PcInv, TurnInv, MetInv, Starting, Blocked
    <2> QED BY <2>4, <2>5 DEF IInv
  <1>4. CASE AllRequestsOpen
    <2> USE <1>4 DEF AllRequestsOpen, LoopEnds, elsewhere, deadVars
    <2>1. jePc = "openR" /\ jePc' = "send" /\ i' = 0 /\ k' = 0
      BY <1>0 DEF EarlyInv
    <2>2. StartTypeOK' /\ SeqInv' /\ EarlyInv' /\ ShareInv' /\ ParsedInv' /\ SaidInv' /\ FlagInv'
      BY <1>1, <2>1, JobExecutorKeeps DEF Starting, Stays
    <2>3. PcInv' /\ MetInv'
      BY <1>0, <2>1 DEF PcInv, MetInv, Starting, Blocked
    <2>4. TurnInv'
      <3>1. turn' = 0
        BY <2>1 DEF turn
      <3>2. ASSUME NEW w \in Workers PROVE nextDir(w)' = i' + w - turn' + (IF w >= turn' THEN 0 ELSE numWorkers)
        <4>1. sent'[w] = <<>> /\ w \in Nat
          BY <1>0, <2>1 DEF EarlyInv, pipeVars, Workers
        <4> QED BY <4>1, <3>1, <2>1 DEF nextDir
      <3> QED BY <3>2 DEF TurnInv
    <2> QED BY <2>2, <2>3, <2>4 DEF IInv
  <1> QED BY <1>2, <1>3, <1>4 DEF OpenRequests


(* ... deals out the directories, ... *)
LEMMA DistributeInv ==
  ASSUME IInv, distribute_directories_to_workers
  PROVE  IInv'
  <1>0. StartTypeOK /\ PcInv /\ SeqInv /\ EarlyInv /\ TurnInv /\ ShareInv /\ ParsedInv /\ SaidInv /\ FlagInv
    BY DEF IInv
  <1>1. /\ jePc = "send" /\ i < dirfilesize /\ i' = i + 1
        /\ sent' = IF workerPc[turn] = "dead" THEN sent
                   ELSE [sent EXCEPT ![turn] = Append(@, Message(i))]
        /\ k' = turn + 1
        /\ UNCHANGED <<monitorVars, jePc, deadVars, fifos, fromJob, workerPc, got, zombies, content, boundVars>>
    BY DEF distribute_directories_to_workers, turn
  <1>2. /\ i \in 0..dirfilesize /\ k \in 0..numWorkers
        /\ sent \in [Workers -> Seq([dir : Dirs, last : BOOLEAN])] /\ got \in [Workers -> 0..range]
        /\ \A w \in Workers : got[w] <= Len(sent[w])
    BY <1>0 DEF StartTypeOK
  <1>3. turn \in Workers /\ turn \in Nat /\ turn < numWorkers /\ i \in Dirs
    BY <1>1, <1>2, NumWorkers DEF turn, Workers, Dirs
  <1>4. Message(i) \in [dir : Dirs, last : BOOLEAN]
    BY <1>3 DEF Message
  (* What is in a pipe stays; i is appended to the turn's, if that lives. *)
  <1>5. /\ sent' \in [Workers -> Seq([dir : Dirs, last : BOOLEAN])]
        /\ \A w \in Workers :
             \/ sent'[w] = sent[w] /\ (w # turn \/ workerPc[w] = "dead")
             \/ w = turn /\ workerPc[w] # "dead" /\ sent'[w] = Append(sent[w], Message(i))
    <2>1. CASE workerPc[turn] = "dead"
      BY <2>1, <1>1, <1>2, <1>3
    <2>2. CASE workerPc[turn] # "dead"
      <3>1. sent' = [sent EXCEPT ![turn] = Append(sent[turn], Message(i))]
        BY <2>2, <1>1
      <3>2. Append(sent[turn], Message(i)) \in Seq([dir : Dirs, last : BOOLEAN])
        <4>1. sent[turn] \in Seq([dir : Dirs, last : BOOLEAN])
          BY <1>2, <1>3
        <4> QED BY <4>1, <1>4, AppendProperties
      <3>3. sent' \in [Workers -> Seq([dir : Dirs, last : BOOLEAN])]
        BY <3>1, <3>2, <1>2
      <3>4. \A w \in Workers : sent'[w] = IF w = turn THEN Append(sent[turn], Message(i)) ELSE sent[w]
        BY <3>1, <1>2
      <3> QED BY <3>3, <3>4, <2>2
    <2> QED BY <2>1, <2>2
  <1>6. ASSUME NEW w \in Workers, sent'[w] = Append(sent[w], Message(i))
        PROVE  /\ Len(sent'[w]) = Len(sent[w]) + 1 /\ sent'[w][Len(sent[w]) + 1] = Message(i)
               /\ \A j \in 1..Len(sent[w]) : sent'[w][j] = sent[w][j]
    <2>1. sent[w] \in Seq([dir : Dirs, last : BOOLEAN])
      BY <1>2
    <2> QED BY <1>6, <2>1, <1>4
  <1>7. \A w \in Workers : w \in Nat /\ Len(sent[w]) \in Nat /\ Len(sent'[w]) \in Nat
    BY <1>2, <1>5, <1>6, NumWorkers DEF Workers
  <1>8. workerPc[turn] # "dead" => nextDir(turn) = i
    BY <1>0, <1>1, <1>2, <1>3, <1>7, NumWorkers DEF TurnInv
  <1>9. StartTypeOK'
    <2>1. \A w \in Workers : got[w] <= Len(sent'[w])
      BY <1>2, <1>5, <1>6, <1>7, RangeSuffices
    <2>2. i' \in 0..dirfilesize /\ k' \in 0..numWorkers
      BY <1>1, <1>2, <1>3, NumWorkers
    <2> QED BY <1>0, <1>1, <1>5, <2>1, <2>2 DEF StartTypeOK, monitorVars, deadVars, boundVars
  <1>10. PcInv' /\ EarlyInv' /\ MetInv' /\ SaidInv' /\ FlagInv'
    <2>1. PcInv' /\ EarlyInv' /\ MetInv'
      BY <1>0, <1>1 DEF PcInv, EarlyInv, MetInv, Starting, Blocked, monitorVars
    <2>2. SaidInv'
      BY <1>0, <1>1 DEF SaidInv, monitorVars
    <2>3. FlagInv'
      BY <1>0, <1>1, KeepsFlag
    <2> QED BY <2>1, <2>2, <2>3
  <1>11. SeqInv'
    <2> SUFFICES ASSUME NEW w \in Workers, NEW j \in 1..Len(sent'[w])
                 PROVE  dirAt(w, j) \in Dirs /\ sent'[w][j] = Message(dirAt(w, j))
      BY DEF SeqInv, dirAt, Message
    <2>1. CASE sent'[w] = sent[w]
      BY <2>1, <1>0 DEF SeqInv
    <2>2. CASE w = turn /\ workerPc[w] # "dead" /\ sent'[w] = Append(sent[w], Message(i))
      <3>1. CASE j \in 1..Len(sent[w])
        BY <3>1, <2>2, <1>0, <1>6 DEF SeqInv
      <3>2. CASE j = Len(sent[w]) + 1
        <4>1. dirAt(w, j) = i
          BY <3>2, <2>2, <1>7, <1>8 DEF dirAt, nextDir
        <4> QED BY <4>1, <3>2, <2>2, <1>3, <1>6
      <3> QED BY <3>1, <3>2, <2>2, <1>6, <1>7
    <2> QED BY <2>1, <2>2, <1>5
  <1>12. TurnInv'
    <2> SUFFICES ASSUME NEW w \in Workers, workerPc[w] # "dead"
                 PROVE  nextDir(w)' = i + 1 + w - turn' + (IF w >= turn' THEN 0 ELSE numWorkers)
      BY <1>1 DEF TurnInv
    <2>1. turn' = IF turn + 1 = numWorkers THEN 0 ELSE turn + 1
      BY <1>1, <1>3, NumWorkers DEF turn
    <2>2. nextDir(w) = i + w - turn + (IF w >= turn THEN 0 ELSE numWorkers)
      BY <1>0, <1>1 DEF TurnInv
    <2>3. w \in Nat /\ w < numWorkers /\ numWorkers \in Nat /\ i \in Nat
      BY <1>2, NumWorkers DEF Workers
    <2>4. CASE w # turn
      <3>1. nextDir(w)' = nextDir(w)
        BY <2>4, <1>5 DEF nextDir
      <3> QED BY <2>1, <2>2, <2>3, <2>4, <3>1, <1>3
    <2>5. CASE w = turn
      <3>1. Len(sent'[w]) = Len(sent[w]) + 1
        BY <2>5, <1>5, <1>6
      <3> DEFINE p == Len(sent[w]) * numWorkers
                 q == Len(sent'[w]) * numWorkers
      <3>2. q = p + numWorkers /\ p \in Nat
        BY <3>1, <2>3, <1>7
      <3>3. nextDir(w)' = w + q /\ nextDir(w) = w + p
        BY DEF nextDir
      <3> HIDE DEF p, q
      <3> QED BY <2>1, <2>2, <2>3, <2>5, <3>2, <3>3, <1>3
    <2> QED BY <2>4, <2>5
  <1>13. ShareInv'
    <2> SUFFICES ASSUME NEW w \in Workers, workerPc[w] \in {"parse", "endless", "openA", "loop", "deaf"}
                 PROVE  got[w] = Len(sent'[w]) /\ nextDir(w)' >= dirfilesize
      BY <1>1 DEF ShareInv
    <2>1. got[w] = Len(sent[w]) /\ nextDir(w) >= dirfilesize
      BY <1>0 DEF ShareInv
    <2>2. sent'[w] = sent[w]
      BY <2>1, <1>5, <1>8, <1>1, <1>2, NumWorkers
    <2> QED BY <2>1, <2>2 DEF nextDir
  <1>14. ParsedInv'
    <2> SUFFICES ASSUME NEW w \in Workers, workerPc[w] \in {"openA", "loop", "deaf"}, NEW j \in 1..got[w]
                 PROVE  content[sent'[w][j].dir] = "ok"
      BY <1>1 DEF ParsedInv, IsOk
    <2>1. content[sent[w][j].dir] = "ok"
      BY <1>0 DEF ParsedInv, IsOk
    <2>2. j \in 1..Len(sent[w])
      BY <1>2, <1>7, RangeSuffices
    <2>3. sent'[w][j] = sent[w][j]
      BY <2>2, <1>5, <1>6
    <2> QED BY <2>1, <2>3
  <1> QED BY <1>9, <1>10, <1>11, <1>12, <1>13, <1>14 DEF IInv


(* ... opens the answer pipes, ... *)
LEMMA OpenAnswersInv ==
  ASSUME IInv, AllDealtOut \/ OpenAnswers
  PROVE  IInv'
  <1>0. StartTypeOK /\ PcInv /\ ShareInv /\ ParsedInv /\ MetInv
    BY DEF IInv
  <1>1. /\ i \in 0..dirfilesize /\ k \in 0..numWorkers /\ fifos \subseteq Fifos
        /\ workerPc \in [Workers -> WorkerPcs]
        /\ worker_is_dead \subseteq Workers /\ a_worker_died \in BOOLEAN /\ zombies \subseteq Workers
        /\ deaths \in 0..MaxDeaths /\ startFailures \in 0..MaxStartFailures
    BY <1>0 DEF StartTypeOK
  <1> USE NumWorkers, StartAssumption
  <1>2. CASE AllDealtOut
    <2> USE <1>2 DEF AllDealtOut, LoopEnds, elsewhere, deadVars
    <2>1. jePc = "send" /\ jePc' = "openA" /\ i' = 0
      OBVIOUS
    <2>2. StartTypeOK' /\ SeqInv' /\ EarlyInv' /\ ShareInv' /\ ParsedInv' /\ SaidInv' /\ FlagInv'
      BY <1>1, <2>1, JobExecutorKeeps DEF Starting, Stays
    <2>3. PcInv' /\ TurnInv'
      BY <1>0, <2>1 DEF PcInv, TurnInv, Starting, Blocked
    <2>4. MetInv'
      BY <2>1 DEF MetInv, Workers
    <2> QED BY <2>2, <2>3, <2>4 DEF IInv
  <1>3. CASE Block("openA", "blockedA", A(i))
    <2> USE <1>3 DEF Block
    <2>1. UNCHANGED <<monitorVars, i, k, fromJob, pipeVars, content, boundVars, zombies, worker_is_dead, a_worker_died>>
      BY DEF elsewhere, boundVars, deadVars
    <2>2. CASE A(i) \in fifos
      <3>1. jePc = "openA" /\ jePc' = "blockedA" /\ UNCHANGED <<fifos, workerPc>>
        BY <2>2
      <3>2. StartTypeOK' /\ SeqInv' /\ EarlyInv' /\ ShareInv' /\ ParsedInv' /\ SaidInv' /\ FlagInv'
        BY <1>1, <2>1, <3>1, JobExecutorKeeps DEF Starting, Blocked, Stays, boundVars
      <3>3. i \in Workers
        BY <1>1 DEF Workers
      <3>4. PcInv' /\ TurnInv'
        BY <1>0, <2>1, <3>1, <3>3 DEF PcInv, TurnInv, Starting, Blocked
      <3>5. MetInv'
        BY <1>0, <2>1, <3>1 DEF MetInv, pipeVars, nextDir, IsOk
      <3> QED BY <3>2, <3>4, <3>5 DEF IInv
    <2>3. CASE A(i) \notin fifos
      <3>1. GiveUp(Fifos) /\ jePc \in Starting
        BY <2>3 DEF Starting
      <3> QED BY <1>1, <2>1, <3>1, GivesUp
    <2> QED BY <2>2, <2>3
  <1>4. CASE Meet("openA", "blockedA", "openA", "loop")
    <2> USE <1>4 DEF Meet, elsewhere, deadVars
    <2>1. i \in Workers /\ i' \in 0..dirfilesize
      BY <1>0, <1>1 DEF PcInv, Blocked, Workers
    <2>2. workerPc' \in [Workers -> WorkerPcs] /\ \A w \in Workers : Stays(w)
      BY <1>1, <2>1 DEF WorkerPcs, Stays
    <2>3. jePc = "blockedA" /\ jePc' = "openA" /\ workerPc[i] = "openA" /\ i' = i + 1
      OBVIOUS
    <2>4. StartTypeOK' /\ SeqInv' /\ EarlyInv' /\ ShareInv' /\ ParsedInv' /\ SaidInv' /\ FlagInv'
      BY <1>1, <2>1, <2>2, <2>3, JobExecutorKeeps DEF Starting, Blocked
    <2>5. PcInv' /\ TurnInv'
      BY <1>0, <2>3 DEF PcInv, TurnInv, Starting, Blocked
    <2>6. MetInv'
      <3> SUFFICES ASSUME NEW w \in Workers, w < i + 1
                   PROVE  nextDir(w) >= dirfilesize /\ \A j \in 1..Len(sent[w]) : content[sent[w][j].dir] = "ok"
        BY <2>3 DEF MetInv, IsOk, nextDir, pipeVars
      <3>1. CASE w = i
        BY <3>1, <2>3, <1>0 DEF ShareInv, ParsedInv, IsOk
      <3>2. CASE w < i
        BY <3>2, <2>3, <1>0 DEF MetInv, IsOk
      <3>3. w = i \/ w < i
        BY <2>1 DEF Workers
      <3> QED BY <3>1, <3>2, <3>3
    <2> QED BY <2>4, <2>5, <2>6 DEF IInv
  <1> QED BY <1>2, <1>3, <1>4 DEF OpenAnswers

(* ... and says so: what the workers have parsed is everything. *)
LEMMA SayReadyInv ==
  ASSUME IInv, SayReady
  PROVE  IInv'
  <1>0. StartTypeOK /\ PcInv /\ SeqInv /\ EarlyInv /\ MetInv /\ FlagInv
    BY DEF IInv
  <1>1. jePc = "openA" /\ i = numWorkers /\ jePc' = "ready" /\ i' = 0 /\ fromJob' = Append(fromJob, READY)
        /\ UNCHANGED <<k, fifos, workerPc, startFailures, monitorVars, deadVars, pipeVars, zombies, content, deaths>>
    BY DEF SayReady, LoopEnds, elsewhere
  <1>2. StartTypeOK'
    <2>1. i' \in 0..dirfilesize
      BY <1>1, NumWorkers
    <2>2. UNCHANGED <<monitorPc, msg, jobExecutorReadyForCommands, k, worker_is_dead, a_worker_died, fifos,
                      workerPc, sent, got, zombies, content, deaths, startFailures>>
      BY <1>1 DEF monitorVars, deadVars, pipeVars
    <2> QED BY <2>1, <2>2, <1>0 DEF StartTypeOK
  <1>3. PcInv'
    <2>1. fromJob \in Seq({READY})
      BY <1>0 DEF PcInv
    <2>2. Append(fromJob, READY) \in Seq({READY})
      BY ONLY <2>1, AppendProperties
    <2> QED BY <1>1, <2>2 DEF PcInv, Blocked
  <1>4. SeqInv' /\ ShareInv' /\ ParsedInv'
    BY <1>1, KeepsShares DEF Stays, pipeVars
  <1>5. EarlyInv' /\ TurnInv' /\ MetInv'
    BY <1>0, <1>1 DEF EarlyInv, TurnInv, MetInv, monitorVars
  <1>6. FlagInv'
    BY <1>0, <1>1, KeepsFlag
  <1>7. SaidInv'
    <2>1. ASSUME NEW d \in Dirs PROVE content[d] = "ok"
      <3> DEFINE w == d % numWorkers
      <3>1. w \in Workers
        BY NumWorkers, DivMod DEF Dirs, Workers
      <3>2. w < i
        BY <3>1, <1>1, NumWorkers DEF Workers
      <3> HIDE DEF w
      <3>3. nextDir(w) >= dirfilesize /\ \A j \in 1..Len(sent[w]) : IsOk(w, j)
        BY <3>1, <3>2, <1>0, <1>1 DEF MetInv
      <3>4. PICK j \in 1..Len(sent[w]) : sent[w][j].dir = d
        <4>1. d % numWorkers = w
          BY DEF w
        <4> QED BY <4>1, <3>1, <3>3, <1>0, WholeShare
      <3> QED BY <3>3, <3>4 DEF IsOk
    <2> QED BY <2>1, <1>1 DEF SaidInv
  <1> QED BY <1>2, <1>3, <1>4, <1>5, <1>6, <1>7 DEF IInv

LEMMA EndsInv ==
  ASSUME IInv, WaitForWorkers \/ ChildDiedAtStart \/ JobExecutorDies
  PROVE  IInv'
  <1>0. StartTypeOK /\ PcInv /\ EarlyInv /\ SaidInv /\ FlagInv
    BY DEF IInv
  <1>1. /\ i \in 0..dirfilesize /\ k \in 0..numWorkers /\ fifos \subseteq Fifos
        /\ workerPc \in [Workers -> WorkerPcs]
        /\ worker_is_dead \subseteq Workers /\ a_worker_died \in BOOLEAN /\ zombies \subseteq Workers
        /\ deaths \in 0..MaxDeaths /\ startFailures \in 0..MaxStartFailures
    BY <1>0 DEF StartTypeOK
  <1>2. CASE WaitForWorkers
    <2> USE <1>2 DEF WaitForWorkers, elsewhere, deadVars
    <2>1. jePc = "wait" /\ jePc' = "gone"
      OBVIOUS
    <2>2. StartTypeOK' /\ SeqInv' /\ EarlyInv' /\ ShareInv' /\ ParsedInv' /\ SaidInv' /\ FlagInv'
      BY <1>1, <2>1, JobExecutorKeeps DEF Starting, Blocked, Stays
    <2>3. PcInv' /\ TurnInv' /\ MetInv'
      BY <1>0, <2>1 DEF PcInv, TurnInv, MetInv, Blocked
    <2> QED BY <2>2, <2>3 DEF IInv
  <1>3. CASE ChildDiedAtStart
    <2> USE <1>3 DEF ChildDiedAtStart
    <2>1. /\ worker_is_dead' \subseteq Workers /\ a_worker_died' \in BOOLEAN /\ zombies' \subseteq Workers
          /\ UNCHANGED <<monitorVars, i, k, fromJob, pipeVars, content, boundVars>> /\ jePc \in Starting
      BY <1>1
    <2>2. CASE jePc \in Blocked
      BY <2>1, <2>2, GivesUp
    <2>3. CASE jePc \notin Blocked
      <3>1. UNCHANGED <<jePc, fifos, workerPc>>
        BY <2>3
      <3>2. StartTypeOK' /\ SeqInv' /\ EarlyInv' /\ ShareInv' /\ ParsedInv' /\ SaidInv' /\ FlagInv'
        BY <1>1, <2>1, <3>1, JobExecutorKeeps DEF Stays, boundVars
      <3>3. PcInv' /\ TurnInv' /\ MetInv'
        BY <2>1, <3>1 DEF IInv, PcInv, TurnInv, MetInv, pipeVars, nextDir, turn, IsOk
      <3> QED BY <3>2, <3>3 DEF IInv
    <2> QED BY <2>2, <2>3
  <1>4. CASE JobExecutorDies
    <2> USE <1>4 DEF JobExecutorDies, deadVars, pipeVars
    <2>1. jePc \notin {"none", "gone"} /\ jePc' = "gone" /\ deaths' \in 0..MaxDeaths
      BY <1>1, StartAssumption
    <2>2. StartTypeOK'
      BY <1>0, <2>1 DEF StartTypeOK, monitorVars
    <2>3. SeqInv' /\ ShareInv' /\ ParsedInv'
      BY KeepsShares DEF Stays
    <2>4. PcInv' /\ EarlyInv' /\ TurnInv' /\ MetInv' /\ SaidInv'
      BY <1>0, <2>1 DEF PcInv, EarlyInv, TurnInv, MetInv, SaidInv, Blocked, monitorVars
    <2>5. FlagInv'
      BY <1>0, <2>1, KeepsFlag
    <2> QED BY <2>2, <2>3, <2>4, <2>5 DEF IInv
  <1> QED BY <1>2, <1>3, <1>4


(* A worker. *)
LEMMA WorkerInv ==
  ASSUME IInv, NEW w \in Workers, WorkerStarts(w) \/ ExecFails(w) \/ WorkerDies(w)
  PROVE  IInv'
  <1>0. StartTypeOK /\ SeqInv /\ ShareInv /\ ParsedInv
    BY DEF IInv
  <1>1. /\ workerPc \in [Workers -> WorkerPcs] /\ zombies \subseteq Workers /\ fifos \subseteq Fifos
        /\ got \in [Workers -> 0..range]
        /\ deaths \in 0..MaxDeaths /\ startFailures \in 0..MaxStartFailures
    BY <1>0 DEF StartTypeOK
  <1>2. UNCHANGED <<sent, aside>>
    BY DEF WorkerStarts, Exec, ReadDirectory, NoMoreDirectories, parse_subdirectories, ExecFails,
           WorkerDies, pipeVars
  <1>3. UNCHANGED <<monitorVars, loopVars, fromJob, sent, content>>
    BY <1>2 DEF aside
  (* All but the reading of a directory. *)
  <1>4. ASSUME NEW pc \in WorkerPcs \ {"none"}, Becomes(w, pc), Alive(w)
        PROVE  /\ workerPc' \in [Workers -> WorkerPcs] /\ zombies' \subseteq Workers
               /\ \A v \in Workers : Advances(v) /\ workerPc'[v] = IF v = w THEN pc ELSE workerPc[v]
    BY <1>1, <1>4 DEF Becomes, Advances, Alive
  <1>5. ASSUME workerPc' \in [Workers -> WorkerPcs], zombies' \subseteq Workers, fifos' \subseteq Fifos,
               UNCHANGED got, \A v \in Workers : Advances(v) /\ Stays(v),
               deaths' \in 0..MaxDeaths, startFailures' \in 0..MaxStartFailures
        PROVE  IInv'
    <2>1. StartTypeOK'
      BY <1>0, <1>2, <1>5 DEF StartTypeOK, aside, monitorVars, loopVars, deadVars
    <2>2. SeqInv' /\ ShareInv' /\ ParsedInv'
      BY <1>3, <1>5, KeepsShares
    <2>3. PcInv' /\ EarlyInv' /\ TurnInv' /\ MetInv' /\ SaidInv' /\ FlagInv'
      BY <1>3, <1>5, WorkerKeeps
    <2> QED BY <2>1, <2>2, <2>3 DEF IInv
  <1>6. CASE Exec(w)
    <2>1. \E pc \in {"openR", "dead"} : Becomes(w, pc)
      BY <1>6 DEF Exec
    <2>2. UNCHANGED <<fifos, got, deaths, startFailures>> /\ Alive(w)
      BY <1>6 DEF Exec, pipeVars, boundVars, Alive
    <2> QED BY <2>1, <2>2, <1>1, <1>4, <1>5 DEF WorkerPcs, Stays
  <1>7. CASE ExecFails(w)
    <2>1. startFailures' \in 0..MaxStartFailures
      BY <1>1, <1>7, StartAssumption DEF ExecFails
    <2>2. workerPc' \in [Workers -> WorkerPcs] /\ \A v \in Workers : Advances(v) /\ Stays(v)
      BY <1>0, <1>7, Killed DEF ExecFails, Advances, Stays, Alive
    <2>3. zombies' \subseteq Workers /\ fifos' \subseteq Fifos /\ UNCHANGED <<got, deaths>>
      <3>1. 0..w \subseteq Workers
        BY NumWorkers DEF Workers
      <3>2. zombies' \subseteq zombies \cup (0..w) /\ fifos' \subseteq fifos /\ UNCHANGED <<got, deaths>>
        BY <1>7 DEF ExecFails, pipeVars
      <3> QED BY <3>1, <3>2, <1>1
    <2> QED BY <2>1, <2>2, <2>3, <1>1, <1>5
  <1>8. CASE NoMoreDirectories(w)
    <2>1. Becomes(w, "dead") /\ UNCHANGED <<fifos, got, deaths, startFailures>> /\ Alive(w)
      BY <1>8 DEF NoMoreDirectories, pipeVars, boundVars, Alive
    <2> QED BY <2>1, <1>1, <1>4, <1>5 DEF WorkerPcs, Stays
  <1>9. CASE WorkerDies(w)
    <2>1. Becomes(w, "dead") /\ UNCHANGED <<fifos, got, startFailures>> /\ Alive(w)
      BY <1>9 DEF WorkerDies, pipeVars
    <2>2. deaths' \in 0..MaxDeaths
      BY <1>1, <1>9, StartAssumption DEF WorkerDies
    <2> QED BY <2>1, <2>2, <1>1, <1>4, <1>5 DEF WorkerPcs, Stays
  <1>10. CASE parse_subdirectories(w)
    <2>1. UNCHANGED <<fifos, got, deaths, startFailures>> /\ workerPc[w] = "parse" /\ Alive(w)
      BY <1>10 DEF parse_subdirectories, pipeVars, boundVars, Alive
    <2>2. CASE Becomes(w, "dead")
      BY <2>1, <2>2, <1>1, <1>4, <1>5 DEF WorkerPcs, Stays
    <2>3. CASE \/ Becomes(w, "endless")
               \/ Becomes(w, "openA") /\ \A j \in 1..got[w] : IsOk(w, j)
      <3>1. PICK pc \in {"endless", "openA"} :
              Becomes(w, pc) /\ (pc = "openA" => \A j \in 1..got[w] : IsOk(w, j))
        BY <2>3
      <3>2. /\ workerPc' \in [Workers -> WorkerPcs] /\ zombies' \subseteq Workers
            /\ \A v \in Workers : Advances(v) /\ workerPc'[v] = IF v = w THEN pc ELSE workerPc[v]
        BY <3>1, <2>1, <1>4 DEF WorkerPcs
      <3>3. StartTypeOK'
        BY <1>0, <1>2, <2>1, <3>2 DEF StartTypeOK, aside, monitorVars, loopVars, deadVars
      <3>4. SeqInv'
        BY <1>0, <1>2 DEF SeqInv, dirAt
      <3>5. ShareInv'
        BY <1>0, <1>2, <2>1, <3>1, <3>2 DEF ShareInv, nextDir
      <3>6. ParsedInv'
        BY <1>0, <1>2, <2>1, <3>1, <3>2 DEF ParsedInv, IsOk, aside
      <3>7. PcInv' /\ EarlyInv' /\ TurnInv' /\ MetInv' /\ SaidInv' /\ FlagInv'
        BY <1>3, <3>2, WorkerKeeps
      <3> QED BY <3>3, <3>4, <3>5, <3>6, <3>7 DEF IInv
    <2> QED BY <2>2, <2>3, <1>10 DEF parse_subdirectories
  <1>11. CASE ReadDirectory(w)
    <2> DEFINE n == got[w] + 1
               pc == IF sent[w][n].last \/ n = range THEN "parse" ELSE "dirs"
    <2>1. /\ workerPc[w] = "dirs" /\ got[w] < Len(sent[w]) /\ got' = [got EXCEPT ![w] = n]
          /\ UNCHANGED <<fifos, deaths, startFailures>> /\ Alive(w)
      BY <1>11 DEF ReadDirectory, boundVars, Alive
    <2>2. w \in Nat /\ Len(sent[w]) \in Nat /\ got[w] \in Nat /\ Len(sent[w]) <= range /\ range \in Nat
      BY <1>0, Dealt, RangeSuffices
    <2>3. n \in 1..Len(sent[w]) /\ n \in 0..range
      BY <2>1, <2>2
    <2>4. got' \in [Workers -> 0..range] /\ \A v \in Workers : got'[v] = IF v = w THEN n ELSE got[v]
      BY <1>1, <2>1, <2>3
    <2>5. Becomes(w, pc)
      <3>1. got'[w] = n
        BY <2>4
      <3> QED BY <1>11, <3>1 DEF ReadDirectory
    <2>6. /\ workerPc' \in [Workers -> WorkerPcs] /\ zombies' \subseteq Workers
          /\ \A v \in Workers : Advances(v) /\ workerPc'[v] = IF v = w THEN pc ELSE workerPc[v]
      BY <2>1, <2>5, <1>4 DEF WorkerPcs
    <2>7. StartTypeOK'
      <3>1. \A v \in Workers : got'[v] <= Len(sent[v])
        <4>1. \A v \in Workers : got[v] <= Len(sent[v])
          BY <1>0 DEF StartTypeOK
        <4>2. n <= Len(sent[w])
          BY <2>2, <2>3
        <4>3. \A v \in Workers : got'[v] = IF v = w THEN n ELSE got[v]
          BY <2>4
        <4> HIDE DEF n
        <4> QED BY ONLY <4>1, <4>2, <4>3
      <3>2. UNCHANGED <<monitorPc, msg, jobExecutorReadyForCommands, i, k, worker_is_dead, a_worker_died, fifos,
                        sent, content, deaths, startFailures>>
        BY <1>2, <2>1 DEF aside, monitorVars, loopVars, deadVars
      <3>3. workerPc' \in [Workers -> WorkerPcs] /\ zombies' \subseteq Workers /\ got' \in [Workers -> 0..range]
        BY <2>4, <2>6
      <3> HIDE DEF pc, n
      <3> QED BY ONLY <3>1, <3>2, <3>3, <1>0 DEF StartTypeOK
    <2>8. SeqInv'
      BY <1>0, <1>2 DEF SeqInv, dirAt
    <2>9. PcInv' /\ EarlyInv' /\ TurnInv' /\ MetInv' /\ SaidInv' /\ FlagInv'
      BY <1>3, <2>6, WorkerKeeps
    (* At the mark, or with as many as can be, it has them all. *)
    <2>10. pc = "parse" => n = Len(sent[w]) /\ nextDir(w) >= dirfilesize
      <3> SUFFICES ASSUME sent[w][n].last \/ n = range
                   PROVE  n = Len(sent[w]) /\ nextDir(w) >= dirfilesize
        OBVIOUS
      <3>1. sent[w][n] = Message(dirAt(w, n)) /\ dirAt(w, n) \in Dirs
        BY <1>0, <2>3 DEF SeqInv
      <3>2. w + n * numWorkers = dirAt(w, n) + numWorkers
        BY <2>2, <2>3, NumWorkers DEF dirAt
      <3>3. w + n * numWorkers >= dirfilesize
        <4>1. CASE sent[w][n].last
          <5>1. dirfilesize - dirAt(w, n) - numWorkers <= 0
            <6>1. Message(dirAt(w, n)).last = (dirfilesize - dirAt(w, n) - numWorkers <= 0)
              BY DEF Message
            <6> QED BY <6>1, <4>1, <3>1
          <5> QED BY <5>1, <3>1, <3>2, NumWorkers DEF Dirs
        <4>2. CASE n = range
          <5>1. n * numWorkers >= dirfilesize
            BY <4>2, RangeSuffices
          <5>2. n * numWorkers \in Nat
            BY <2>3, <2>2, NumWorkers
          <5> QED BY <5>1, <5>2, <2>2, NumWorkers
        <4> QED BY <4>1, <4>2
      <3>4. n = Len(sent[w])
        <4> SUFFICES ASSUME n + 1 \in 1..Len(sent[w]) PROVE FALSE
          BY <2>2, <2>3
        <4>1. dirAt(w, n + 1) \in Dirs
          BY <1>0, Dealt
        <4>2. dirAt(w, n + 1) = w + n * numWorkers
          BY <2>2, NumWorkers DEF dirAt
        <4> QED BY <4>1, <4>2, <3>3, NumWorkers DEF Dirs
      <3> QED BY <3>3, <3>4 DEF nextDir
    <2>11. ShareInv'
      <3> SUFFICES ASSUME NEW v \in Workers, workerPc'[v] \in {"parse", "endless", "openA", "loop", "deaf"}
                   PROVE  got'[v] = Len(sent[v]) /\ nextDir(v) >= dirfilesize
        BY <1>2 DEF ShareInv, nextDir
      <3>1. CASE v = w
        BY <3>1, <2>4, <2>6, <2>10
      <3>2. CASE v # w
        BY <3>2, <2>4, <2>6, <1>0 DEF ShareInv
      <3> QED BY <3>1, <3>2
    <2>12. ParsedInv'
      BY <1>0, <1>2, <2>4, <2>6 DEF ParsedInv, IsOk, aside
    <2> QED BY <2>7, <2>8, <2>9, <2>11, <2>12 DEF IInv
  <1> QED BY <1>6, <1>7, <1>8, <1>9, <1>10, <1>11 DEF WorkerStarts

LEMMA StutterInv ==
  ASSUME IInv, UNCHANGED startVars
  PROVE  IInv'
  <1> USE DEF startVars, monitorVars, loopVars, deadVars, pipeVars, boundVars
  <1>1. StartTypeOK'
    BY DEF IInv, StartTypeOK
  <1>2. SeqInv' /\ ShareInv' /\ ParsedInv'
    BY KeepsShares DEF Stays
  <1>3. PcInv' /\ EarlyInv' /\ TurnInv' /\ MetInv' /\ SaidInv' /\ FlagInv'
    BY WorkerKeeps DEF Advances
  <1> QED BY <1>1, <1>2, <1>3 DEF IInv

LEMMA NextInv == IInv /\ [StartNext]_startVars => IInv'
  <1> SUFFICES ASSUME IInv, [StartNext]_startVars PROVE IInv'
    OBVIOUS
  <1>1. CASE CrawlFinishes \/ init_jobExecutor \/ ForkJobExecutorFails \/ ReadReady
    BY <1>1, MonitorInv
  <1>2. CASE MakeWorker \/ FifoExists \/ ForkWorkerFails \/ AllMade
    BY <1>2, MakeInv
  <1>3. CASE OpenRequests \/ AllRequestsOpen
    BY <1>3, OpenRequestsInv
  <1>4. CASE distribute_directories_to_workers
    BY <1>4, DistributeInv
  <1>5. CASE AllDealtOut \/ OpenAnswers
    BY <1>5, OpenAnswersInv
  <1>6. CASE SayReady
    BY <1>6, SayReadyInv
  <1>7. CASE WaitForWorkers \/ ChildDiedAtStart \/ JobExecutorDies
    BY <1>7, EndsInv
  <1>8. CASE \E w \in Workers : WorkerStarts(w) \/ ExecFails(w) \/ WorkerDies(w)
    BY <1>8, WorkerInv
  <1>9. CASE UNCHANGED startVars
    BY <1>9, StutterInv
  <1> QED BY <1>1, <1>2, <1>3, <1>4, <1>5, <1>6, <1>7, <1>8, <1>9 DEF StartNext, jobExecutorStarts

(* The variables keep their types, for every number of workers and directories. *)
THEOREM StartTypes == StartSpec => []StartTypeOK
  <1>1. IInv => StartTypeOK
    BY DEF IInv
  <1> QED BY <1>1, InitInv, NextInv, PTL DEF StartSpec

(* However many directories and workers there are, the remainder and the mark      *)
(* (jobExecutor.cpp:785-802) agree with what a worker counts (worker.cpp:78-90): it *)
(* stops with exactly the directories that are its own, and in their order.        *)
THEOREM Shares == StartSpec => []SharesAreWhole
  <1>1. IInv => SharesAreWhole
    <2> SUFFICES ASSUME IInv, NEW w \in Workers, HasShare(w)
                 PROVE  /\ got[w] = Len(sent[w])
                        /\ \A d \in Dirs : d % numWorkers = w <=> \E j \in 1..got[w] : subdirectories(w)[j] = d
                        /\ \A j \in 1..(got[w] - 1) : subdirectories(w)[j] < subdirectories(w)[j + 1]
      BY DEF SharesAreWhole
    <2>1. got[w] = Len(sent[w]) /\ nextDir(w) >= dirfilesize
      BY DEF IInv, ShareInv, HasShare
    <2>2. \A j \in 1..got[w] : subdirectories(w)[j] = sent[w][j].dir
      BY DEF subdirectories
    <2>3. \A d \in Dirs : d % numWorkers = w <=> \E j \in 1..got[w] : subdirectories(w)[j] = d
      BY <2>1, <2>2, WholeShare DEF IInv
    <2>4. ASSUME NEW j \in 1..(got[w] - 1) PROVE subdirectories(w)[j] < subdirectories(w)[j + 1]
      <3>1. w \in Nat /\ got[w] \in Nat
        BY Dealt DEF IInv
      <3>2. j \in 1..got[w] /\ j + 1 \in 1..got[w]
        BY <3>1
      <3>3. subdirectories(w)[j] = dirAt(w, j) /\ subdirectories(w)[j + 1] = dirAt(w, j + 1)
        BY <2>1, <2>2, <3>2, Dealt DEF IInv
      <3>4. (j - 1) * numWorkers + numWorkers <= j * numWorkers
        BY <3>2, NumWorkers, Strides
      <3>5. (j - 1) * numWorkers \in Int /\ j * numWorkers \in Int /\ j + 1 - 1 = j
        BY <3>2, NumWorkers
      <3>6. dirAt(w, j) = w + (j - 1) * numWorkers /\ dirAt(w, j + 1) = w + j * numWorkers
        BY <3>5 DEF dirAt
      <3> QED BY <3>1, <3>3, <3>4, <3>5, <3>6, NumWorkers
    <2> QED BY <2>1, <2>3, <2>4
  <1> QED BY <1>1, InitInv, NextInv, PTL DEF StartSpec

(* READY is never read with a page unparsed, however the start goes wrong; the flag *)
(* without READY (crawling_monitoring.cpp:83) means that nobody is left.            *)
THEOREM Ready == StartSpec => []ReadyMeansParsed
  <1>1. IInv => ReadyMeansParsed
    BY DEF IInv, SaidInv, FlagInv, ReadyMeansParsed
  <1> QED BY <1>1, InitInv, NextInv, PTL DEF StartSpec
=============================================================================
