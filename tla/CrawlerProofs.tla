--------------------------- MODULE CrawlerProofs ---------------------------
(***************************************************************************)
(* Theorems about Crawler for any number of threads and any site.          *)
(*                                                                         *)
(* First the end of the crawl.  FinishedMeansIdle is not inductive: that   *)
(* the last thread to block sees num_of_threads_blocked = num_of_threads   *)
(* says that all the others are blocked (asleep, or woken and not running  *)
(* yet) only because the counter equals the number of threads between ++   *)
(* and -- (CountInv), those tests are made under the queue's lock          *)
(* (MutexInv), and a thread that has left crawl() never comes back.        *)
(* NoneAtWork says where no thread is then; where a thread may be follows, *)
(* as one that has tested the queue and found it empty comes past the test *)
(* only because it is told to stop (QueueInv).  And that the assignment of *)
(* line 68 does not take crawling_has_finished back needs LastInv: a       *)
(* thread can be about to assign it again, but only when all the others    *)
(* are still blocked.                                                      *)
(*                                                                         *)
(* Then what the threads do to the pages, and what follows the crawl.      *)
(* A key that is known is settled, in the queue or in the hand of a thread *)
(* (KnownInv), and only once (OnceInv); a link of a downloaded page is     *)
(* known, or some thread is still to read it (LinksInv).  When the last    *)
(* thread blocks, there is no thread that could, and the queue is empty:   *)
(* the crawl is complete.  All this holds until a deleted urlHistory is    *)
(* searched (strayUses).  HandoverInv says what the monitor's place in the *)
(* code says of how the crawl ended, which is what main relies on when it  *)
(* decides whether there is a jobExecutor to stop.                         *)
(***************************************************************************)
EXTENDS Crawler, FiniteSetTheorems, TLAPS

(* The queue's lock is held by the thread in its critical section, or by a *)
(* thread that left crawl() without releasing it.                          *)
MutexInv ==
  \A t \in Threads : /\ pc[t] \in HoldingPcs => queueLock = t
                     /\ queueLock = t => pc[t] \in HoldingPcs \cup {"done"}

CountInv == num_of_threads_blocked = Cardinality(At(BlockedPcs))

(* What a thread's place in crawl() says of the data it tested on the way. *)
QueueInv ==
  \A t \in Threads : /\ pc[t] \in {"count", "sleep"} => urlQueue = <<>>
                     /\ pc[t] = "inner" => urlQueue # <<>> \/ threads_must_terminate
                     /\ pc[t] = "done" => threads_must_terminate
                     /\ pc[t] = "links" => todo[t] # <<>>

(* The part of FinishedMeansIdle that is kept step by step. *)
NoneAtWork ==
  crawling_has_finished => urlQueue = <<>> /\ At({"new"} \cup WorkingPcs) = {}

LastInv ==
  \A t \in Threads : crawling_has_finished /\ pc[t] = "count" =>
                       \A u \in Threads : pc[u] \in BlockedPcs

IInv == TypeOK /\ MutexInv /\ CountInv /\ QueueInv /\ NoneAtWork /\ LastInv

-----------------------------------------------------------------------------
(* A signal wakes at most one sleeping thread and moves no other. *)
LEMMA SignalEffect ==
  ASSUME NEW f \in [Threads -> ThreadPcs], NEW g \in SignalQueueIsEmpty(f)
  PROVE  /\ g \in [Threads -> ThreadPcs]
         /\ \A t \in Threads : g[t] = f[t] \/ (f[t] = "waiting" /\ g[t] = "woken")
  BY DEF SignalQueueIsEmpty, ThreadPcs, BlockedPcs

(* So does a broadcast, to all of them. *)
LEMMA BroadcastEffect ==
  ASSUME NEW f \in [Threads -> ThreadPcs], NEW g \in BroadcastQueueIsEmpty(f)
  PROVE  /\ g \in [Threads -> ThreadPcs]
         /\ \A t \in Threads : g[t] = f[t] \/ (f[t] = "waiting" /\ g[t] = "woken")
  BY DEF BroadcastQueueIsEmpty, ThreadPcs, BlockedPcs

(* The threads at given places are finitely many, at most all of them.  (Stated *)
(* of any f, so that it can be cited for pc and for pc'.)                       *)
LEMMA PlacesFinite ==
  ASSUME NEW f, NEW S
  PROVE  LET A == {t \in Threads : f[t] \in S}
         IN  /\ IsFiniteSet(A) /\ Cardinality(A) \in 0..NumThreads
             /\ Cardinality(A) = NumThreads => A = Threads
  <1> DEFINE A == {t \in Threads : f[t] \in S}
  <1>1. IsFiniteSet(Threads) /\ A \in SUBSET Threads
    BY ThreadsAssumption
  <1>2. /\ IsFiniteSet(A) /\ Cardinality(A) <= Cardinality(Threads)
        /\ Cardinality(Threads) = Cardinality(A) => Threads = A
    BY <1>1, FS_Subset
  <1>3. Cardinality(A) \in Nat /\ Cardinality(Threads) \in Nat
    BY <1>1, <1>2, FS_CardinalityType
  <1> QED BY <1>2, <1>3 DEF NumThreads

(* The counter is right after a step that blocks and unblocks nobody, ... *)
LEMMA CountSame ==
  ASSUME CountInv, UNCHANGED num_of_threads_blocked,
         \A u \in Threads : pc'[u] \in BlockedPcs <=> pc[u] \in BlockedPcs
  PROVE  CountInv'
  <1>1. At(BlockedPcs)' = At(BlockedPcs)
    BY DEF At
  <1> QED BY <1>1 DEF CountInv

(* ... that blocks t ... *)
LEMMA CountUp ==
  ASSUME CountInv, NEW t \in Threads, pc[t] \notin BlockedPcs, pc'[t] \in BlockedPcs,
         \A u \in Threads \ {t} : pc'[u] \in BlockedPcs <=> pc[u] \in BlockedPcs,
         num_of_threads_blocked' = num_of_threads_blocked + 1
  PROVE  CountInv'
  <1>1. At(BlockedPcs)' = At(BlockedPcs) \cup {t} /\ t \notin At(BlockedPcs)
    BY DEF At
  <1>2. IsFiniteSet(At(BlockedPcs))
    BY PlacesFinite DEF At
  <1>3. Cardinality(At(BlockedPcs)') = Cardinality(At(BlockedPcs)) + 1
    BY <1>1, <1>2, FS_AddElement
  <1> QED BY <1>3 DEF CountInv

(* ... and that unblocks t. *)
LEMMA CountDown ==
  ASSUME CountInv, NEW t \in Threads, pc[t] \in BlockedPcs, pc'[t] \notin BlockedPcs,
         \A u \in Threads \ {t} : pc'[u] \in BlockedPcs <=> pc[u] \in BlockedPcs,
         num_of_threads_blocked' = num_of_threads_blocked - 1
  PROVE  CountInv'
  <1>1. At(BlockedPcs)' = At(BlockedPcs) \ {t} /\ t \in At(BlockedPcs)
    BY DEF At
  <1>2. IsFiniteSet(At(BlockedPcs))
    BY PlacesFinite DEF At
  <1>3. Cardinality(At(BlockedPcs)') = Cardinality(At(BlockedPcs)) - 1
    BY <1>1, <1>2, FS_RemoveElement
  <1> QED BY <1>3 DEF CountInv

(* A step that keeps the counter right keeps it between 0 and num_of_threads. *)
LEMMA CountBound ==
  ASSUME CountInv'
  PROVE  num_of_threads_blocked' \in 0..NumThreads
  BY PlacesFinite DEF CountInv, At

(* When the counter says that all threads are blocked, they are. *)
LEMMA AllBlocked ==
  ASSUME CountInv, num_of_threads_blocked = NumThreads
  PROVE  \A u \in Threads : pc[u] \in BlockedPcs
  <1>1. Cardinality({t \in Threads : pc[t] \in BlockedPcs}) = NumThreads
    BY DEF CountInv, At
  <1>2. {t \in Threads : pc[t] \in BlockedPcs} = Threads
    BY <1>1, PlacesFinite
  <1> QED BY <1>2

(* A step of a crawl thread keeps the invariant. *)
LEMMA CrawlStepInv ==
  ASSUME IInv, NEW t \in Threads, CrawlStep(t)
  PROVE  IInv'
  <1> USE DEF IInv, TypeOK, MutexInv, QueueInv, NoneAtWork, LastInv, At, Goto,
              BlockedPcs, WorkingPcs, HoldingPcs, ThreadPcs,
              queueVars, finishVars, historyVars, pageVars, threadVars, elsewhere,
              flagVars, mainVars
  <1>1. CASE OuterCheck(t)
    <2>1. CountInv'
      BY <1>1, CountSame DEF OuterCheck
    <2>2. TypeOK'
      BY <1>1, <2>1, CountBound, SiteAssumption, ThreadsAssumption DEF OuterCheck
    <2>3. MutexInv' /\ QueueInv' /\ NoneAtWork' /\ LastInv'
      BY <1>1, ThreadsAssumption DEF OuterCheck
    <2> QED BY <2>1, <2>2, <2>3
  <1>2. CASE Acquire(t)
    <2>1. CountInv'
      BY <1>2, CountSame DEF Acquire
    <2>2. TypeOK'
      BY <1>2, <2>1, CountBound, SiteAssumption, ThreadsAssumption DEF Acquire
    <2>3. MutexInv' /\ QueueInv' /\ NoneAtWork' /\ LastInv'
      BY <1>2, ThreadsAssumption DEF Acquire
    <2> QED BY <2>1, <2>2, <2>3
  <1>3. CASE CheckQueue(t)
    <2>1. CountInv'
      <3>1. CASE urlQueue = <<>> /\ ~threads_must_terminate
        <4>1. /\ pc[t] \notin BlockedPcs /\ pc'[t] \in BlockedPcs
              /\ \A u \in Threads \ {t} : pc'[u] \in BlockedPcs <=> pc[u] \in BlockedPcs
              /\ num_of_threads_blocked' = num_of_threads_blocked + 1
          BY <1>3, <3>1 DEF CheckQueue
        <4> QED BY <4>1, CountUp
      <3>2. CASE ~(urlQueue = <<>> /\ ~threads_must_terminate)
        BY <1>3, <3>2, CountSame DEF CheckQueue
      <3> QED BY <3>1, <3>2
    <2>2. TypeOK'
      BY <1>3, <2>1, CountBound, SiteAssumption, ThreadsAssumption DEF CheckQueue
    <2>3. MutexInv' /\ QueueInv' /\ NoneAtWork' /\ LastInv'
      BY <1>3, ThreadsAssumption DEF CheckQueue
    <2> QED BY <2>1, <2>2, <2>3
  <1>4. CASE CountBlocked(t)
    <2>1. CountInv'
      BY <1>4, CountSame DEF CountBlocked
    <2>2. TypeOK'
      BY <1>4, <2>1, CountBound, ThreadsAssumption
      DEF CountBlocked, NothingLeft, SignalCrawlingFinished, MonitorPcs
    <2>3. NothingLeft => \A u \in Threads : pc[u] \in BlockedPcs
      BY AllBlocked DEF NothingLeft
    <2>4. NoneAtWork'
      BY <1>4, <2>3 DEF CountBlocked, NothingLeft
    <2>5. MutexInv' /\ QueueInv' /\ LastInv'
      BY <1>4, ThreadsAssumption DEF CountBlocked
    <2> QED BY <2>1, <2>2, <2>4, <2>5
  <1>5. CASE Sleep(t)
    <2>1. CountInv'
      BY <1>5, CountSame DEF Sleep
    <2>2. TypeOK'
      BY <1>5, <2>1, CountBound, SiteAssumption, ThreadsAssumption DEF Sleep
    <2>3. MutexInv' /\ QueueInv' /\ NoneAtWork' /\ LastInv'
      BY <1>5, ThreadsAssumption DEF Sleep
    <2> QED BY <2>1, <2>2, <2>3
  <1>6. CASE WakeUp(t)
    <2>1. CountInv'
      <3>1. /\ pc[t] \in BlockedPcs /\ pc'[t] \notin BlockedPcs
            /\ \A u \in Threads \ {t} : pc'[u] \in BlockedPcs <=> pc[u] \in BlockedPcs
            /\ num_of_threads_blocked' = num_of_threads_blocked - 1
        BY <1>6 DEF WakeUp
      <3> QED BY <3>1, CountDown
    <2>2. TypeOK'
      BY <1>6, <2>1, CountBound, SiteAssumption, ThreadsAssumption DEF WakeUp
    <2>3. MutexInv'
      BY <1>6, ThreadsAssumption DEF WakeUp
    <2>4. QueueInv' /\ NoneAtWork'
      BY <1>6, ThreadsAssumption DEF WakeUp
    <2>5. LastInv'
      BY <1>6, ThreadsAssumption DEF WakeUp
    <2> QED BY <2>1, <2>2, <2>3, <2>4, <2>5
  <1>7. CASE InnerBreak(t)
    <2>1. CountInv'
      BY <1>7, CountSame DEF InnerBreak
    <2>2. TypeOK'
      BY <1>7, <2>1, CountBound, SiteAssumption, ThreadsAssumption DEF InnerBreak
    <2>3. MutexInv' /\ QueueInv' /\ NoneAtWork' /\ LastInv'
      BY <1>7, ThreadsAssumption DEF InnerBreak
    <2> QED BY <2>1, <2>2, <2>3
  <1>8. CASE Pop(t)
    <2>1. CountInv'
      BY <1>8, CountSame DEF Pop
    <2>2. TypeOK'
      BY <1>8, <2>1, CountBound, SiteAssumption, ThreadsAssumption DEF Pop
    <2>3. MutexInv' /\ QueueInv' /\ NoneAtWork' /\ LastInv'
      BY <1>8, ThreadsAssumption DEF Pop
    <2> QED BY <2>1, <2>2, <2>3
  <1>9. CASE Drop(t)
    <2>1. CountInv'
      BY <1>9, CountSame DEF Drop
    <2>2. TypeOK'
      BY <1>9, <2>1, CountBound, SiteAssumption, ThreadsAssumption DEF Drop
    <2>3. MutexInv' /\ QueueInv' /\ NoneAtWork' /\ LastInv'
      BY <1>9, ThreadsAssumption DEF Drop
    <2> QED BY <2>1, <2>2, <2>3
  <1>10. CASE Download(t)
    <2>1. CountInv'
      BY <1>10, CountSame DEF Download
    <2>2. TypeOK'
      BY <1>10, <2>1, CountBound, SiteAssumption, ThreadsAssumption DEF Download
    <2>3. MutexInv' /\ QueueInv' /\ NoneAtWork' /\ LastInv'
      BY <1>10, ThreadsAssumption DEF Download
    <2> QED BY <2>1, <2>2, <2>3
  <1>11. CASE UpdateStats(t)
    <2>1. CountInv'
      BY <1>11, CountSame DEF UpdateStats
    <2>2. TypeOK'
      BY <1>11, <2>1, CountBound, SiteAssumption, ThreadsAssumption DEF UpdateStats
    <2>3. MutexInv' /\ QueueInv' /\ NoneAtWork' /\ LastInv'
      BY <1>11, ThreadsAssumption DEF UpdateStats
    <2> QED BY <2>1, <2>2, <2>3
  <1>12. CASE PostCheck(t)
    <2>1. CountInv'
      BY <1>12, CountSame DEF PostCheck
    <2>2. Links[KeyOf[url[t]]] \in Seq(Urls)
      BY SiteAssumption
    <2>3. TypeOK'
      BY <1>12, <2>1, <2>2, CountBound DEF PostCheck
    <2>4. MutexInv' /\ QueueInv' /\ NoneAtWork' /\ LastInv'
      BY <1>12, ThreadsAssumption DEF PostCheck
    <2> QED BY <2>1, <2>3, <2>4
  <1>13. CASE AddLink(t)
    <2> DEFINE u == Head(todo[t])
               next == [pc EXCEPT ![t] = IF Tail(todo[t]) = <<>> THEN "outer" ELSE "links"]
    <2>1. todo[t] \in Seq(Urls) /\ todo[t] # <<>>
      BY <1>13 DEF AddLink
    <2>2. u \in Urls /\ Tail(todo[t]) \in Seq(Urls) /\ KeyOf[u] \in Keys
      BY <2>1, SiteAssumption
    <2>3. next \in [Threads -> ThreadPcs]
      OBVIOUS
    <2>4. /\ pc' \in [Threads -> ThreadPcs]
          /\ \A w \in Threads : pc'[w] = next[w] \/ (next[w] = "waiting" /\ pc'[w] = "woken")
      <3> HIDE DEF ThreadPcs
      <3>1. CASE pc' = next
        BY <2>3, <3>1
      <3>2. CASE pc' \in SignalQueueIsEmpty(next)
        <4> HIDE DEF next
        <4> QED BY <2>3, <3>2, SignalEffect
      <3> QED BY <1>13, <3>1, <3>2 DEF AddLink
    <2>5. /\ pc[t] = "links" /\ pc'[t] = next[t] /\ pc'[t] \in WorkingPcs
          /\ \A w \in Threads \ {t} : pc'[w] = pc[w] \/ (pc[w] = "waiting" /\ pc'[w] = "woken")
      BY <1>13, <2>4 DEF AddLink
    <2>6. CountInv'
      BY <1>13, <2>5, CountSame DEF AddLink
    <2>7. /\ urlQueue' \in Seq(Urls) /\ urlHistory' \subseteq Keys /\ strayUses' \in Nat
          /\ todo' \in [Threads -> Seq(Urls)]
      <3> HIDE DEF u, next
      <3>1. urlQueue' = urlQueue \/ urlQueue' = Append(urlQueue, u)
        BY <1>13 DEF AddLink, u
      <3>2. urlHistory' \subseteq urlHistory \cup {KeyOf[u]}
        BY <1>13 DEF AddLink, u
      <3>3. strayUses' = strayUses \/ strayUses' = strayUses + 1
        BY <1>13 DEF AddLink
      <3>4. todo' = [todo EXCEPT ![t] = Tail(todo[t])]
        BY <1>13 DEF AddLink
      <3>5. urlQueue' \in Seq(Urls)
        <4>1. urlQueue \in Seq(Urls)
          OBVIOUS
        <4>2. Append(urlQueue, u) \in Seq(Urls)
          BY <2>2, <4>1
        <4> QED BY <3>1, <4>1, <4>2
      <3>6. todo' \in [Threads -> Seq(Urls)]
        BY <2>2, <3>4
      <3> QED BY <2>2, <3>2, <3>3, <3>5, <3>6
    <2>8. TypeOK'
      BY <1>13, <2>4, <2>6, <2>7, CountBound DEF AddLink
    <2>9. MutexInv' /\ NoneAtWork' /\ LastInv'
      BY <1>13, <2>5, ThreadsAssumption DEF AddLink
    <2>10. QueueInv'
      <3>1. todo'[t] = Tail(todo[t]) /\ \A w \in Threads \ {t} : todo'[w] = todo[w]
        BY <1>13 DEF AddLink
      <3>2. \A w \in Threads : pc[w] \notin {"count", "sleep", "inner"}
        BY <1>13, ThreadsAssumption DEF AddLink
      <3> QED BY <1>13, <2>5, <3>1, <3>2 DEF AddLink
    <2> QED BY <2>6, <2>8, <2>9, <2>10
  <1>14. CASE CrashInHistory(t)
    <2>1. CountInv'
      BY <1>14, CountSame DEF CrashInHistory
    <2>2. TypeOK'
      BY <1>14, <2>1, CountBound, SiteAssumption, ThreadsAssumption DEF CrashInHistory, MainPcs
    <2>3. MutexInv' /\ QueueInv' /\ NoneAtWork' /\ LastInv'
      BY <1>14, ThreadsAssumption DEF CrashInHistory
    <2> QED BY <2>1, <2>2, <2>3
  <1> QED BY <1>1, <1>2, <1>3, <1>4, <1>5, <1>6, <1>7, <1>8, <1>9, <1>10, <1>11, <1>12, <1>13, <1>14 DEF CrawlStep

(* A step that moves no crawl thread and touches none of the data they share under *)
(* the queue's lock disturbs only the types.                                       *)
LEMMA QuietStep ==
  ASSUME IInv, TypeOK',
         UNCHANGED <<queueVars, queueLock, crawling_has_finished, pc, todo>>,
         threads_must_terminate => threads_must_terminate'
  PROVE  IInv'
  <1>1. CountInv'
    BY CountSame DEF IInv, queueVars
  <1>2. MutexInv' /\ QueueInv'
    BY DEF IInv, MutexInv, QueueInv, queueVars
  <1>3. NoneAtWork' /\ LastInv'
    BY DEF IInv, NoneAtWork, LastInv, At, queueVars
  <1> QED BY <1>1, <1>2, <1>3 DEF IInv

(* A step of the monitor keeps it: only the broadcast moves crawl threads. *)
LEMMA MonitorStepInv ==
  ASSUME IInv, MonitorStep
  PROVE  IInv'
  <1> USE DEF IInv, TypeOK, queueVars, finishVars, historyVars, pageVars, threadVars, flagVars,
              mainVars, monitorUnchanged
  <1>1. CASE MonitorBroadcast
    <2>1. /\ pc' \in [Threads -> ThreadPcs]
          /\ \A u \in Threads : pc'[u] = pc[u] \/ (pc[u] = "waiting" /\ pc'[u] = "woken")
      BY <1>1, BroadcastEffect DEF MonitorBroadcast
    <2>2. CountInv'
      BY <1>1, <2>1, CountSame DEF MonitorBroadcast, BlockedPcs
    <2>3. TypeOK'
      BY <1>1, <2>1 DEF MonitorBroadcast, MonitorPcs
    <2>4. MutexInv' /\ QueueInv' /\ NoneAtWork' /\ LastInv'
      BY <1>1, <2>1 DEF MonitorBroadcast, MutexInv, QueueInv, NoneAtWork, LastInv, At,
                        HoldingPcs, WorkingPcs, BlockedPcs
    <2> QED BY <2>2, <2>3, <2>4
  <1>2. CASE ~MonitorBroadcast
    <2> USE DEF MonitorStep, MonitorLock, MonitorTest, MonitorWait, MonitorWakeUp, MonitorSet,
                MonitorJoin, MonitorStartJob, MonitorNoJob, MonitorJobReady
    <2>1. monitorPc' \in MonitorPcs /\ job' \in JobStates
      BY <1>2 DEF MonitorPcs, JobStates
    <2>2. cfLock' \in Threads \cup {Nobody, Monitor}
      BY <1>2
    <2>3. /\ threads_must_terminate' \in BOOLEAN /\ monitor_forced_exit' \in BOOLEAN
          /\ jobExecutorReadyForCommands' \in BOOLEAN /\ UNCHANGED <<pc, queueLock, spurious>>
      BY <1>2
    <2>4. TypeOK'
      BY <1>2, <2>1, <2>2, <2>3
    <2> QED BY <1>2, <2>4, QuietStep
  <1> QED BY <1>1, <1>2

(* A step of main that no client asks for keeps it. *)
LEMMA MainStepInv ==
  ASSUME IInv, MainStep
  PROVE  IInv'
  <1> USE DEF IInv, TypeOK, queueVars, finishVars, historyVars, pageVars, threadVars, flagVars,
              mainVars, mainUnchanged
  <1>1. CASE \E t \in Threads : CreateThread(t)
    <2>1. CountInv'
      BY <1>1, CountSame DEF CreateThread, Goto, BlockedPcs
    <2>2. TypeOK'
      BY <1>1 DEF CreateThread, Goto, ThreadPcs, WorkingPcs
    <2>3. MutexInv' /\ QueueInv' /\ NoneAtWork' /\ LastInv'
      BY <1>1 DEF CreateThread, Goto, MutexInv, QueueInv, NoneAtWork, LastInv, At,
                  HoldingPcs, WorkingPcs, BlockedPcs
    <2> QED BY <2>1, <2>2, <2>3
  <1>2. CASE ~\E t \in Threads : CreateThread(t)
    <2> USE DEF MainStep, StartServing, AnswerCommand, SecondUnlock, DeleteHistory, JoinMonitor,
                SendExit, WaitForJob
    <2>1. job' \in JobStates
      BY <1>2 DEF JobStates
    <2>2. TypeOK'
      BY <1>2, <2>1 DEF MainPcs
    <2> QED BY <1>2, <2>2, QuietStep
  <1> QED BY <1>1, <1>2

(* So does a step of the environment or of jobExecutor. *)
LEMMA EnvironmentInv ==
  ASSUME IInv, Environment \/ JobStep
  PROVE  IInv'
  <1> USE DEF IInv, TypeOK, queueVars, finishVars, historyVars, pageVars, threadVars, flagVars,
              mainVars, mainUnchanged, monitorUnchanged
  <1>1. CASE \E t \in Threads : SpuriousWakeup(t)
    <2>1. CountInv'
      BY <1>1, CountSame DEF SpuriousWakeup, Goto, BlockedPcs
    <2>2. TypeOK'
      BY <1>1, EnvironmentAssumption DEF SpuriousWakeup, Goto, ThreadPcs, BlockedPcs
    <2>3. MutexInv' /\ QueueInv' /\ NoneAtWork' /\ LastInv'
      BY <1>1 DEF SpuriousWakeup, Goto, MutexInv, QueueInv, NoneAtWork, LastInv, At,
                  HoldingPcs, WorkingPcs, BlockedPcs
    <2> QED BY <2>1, <2>2, <2>3
  <1>2. CASE \E t \in Threads : FallSilent(t)
    <2>1. PICK t \in Threads : FallSilent(t)
      BY <1>2
    <2>2. TypeOK'
      BY <2>1 DEF FallSilent, elsewhere
    <2> QED BY <2>1, <2>2, QuietStep DEF FallSilent, elsewhere
  <1>3. CASE ~\E t \in Threads : SpuriousWakeup(t) \/ FallSilent(t)
    <2> USE DEF Environment, ForwardCommand, ForcedShutdown, Shutdown, AcceptFails, JobFails,
                MonitorSpuriousWakeup, JobStep, JobReady, JobExits, SignalCrawlingFinished
    <2>1. monitorPc' \in MonitorPcs
      BY <1>3 DEF MonitorPcs
    <2>2. mainPc' \in MainPcs /\ job' \in JobStates
      BY <1>3 DEF MainPcs, JobStates
    <2>3. /\ monitor_forced_exit' \in BOOLEAN /\ cfLock' \in Threads \cup {Nobody, Monitor}
          /\ spurious' = spurious \/ (spurious < MaxSpurious /\ spurious' = spurious + 1)
      BY <1>3
    <2>4. spurious' \in 0..MaxSpurious
      BY <2>3, EnvironmentAssumption
    <2>5. UNCHANGED <<pc, queueLock, threads_must_terminate, jobExecutorReadyForCommands,
                      exitSent, historyDeleted>>
      BY <1>3
    <2>6. TypeOK'
      BY <1>3, <2>1, <2>2, <2>3, <2>4, <2>5
    <2> QED BY <1>3, <2>6, QuietStep
  <1> QED BY <1>1, <1>2, <1>3

(* It holds of a crawler that has just started, *)
LEMMA InitInv == Init => IInv
  <1> SUFFICES ASSUME Init PROVE IInv
    OBVIOUS
  <1>1. At(BlockedPcs) = {}
    BY DEF Init, At, BlockedPcs
  <1>2. CountInv
    BY <1>1, FS_EmptySet DEF Init, CountInv
  <1>3. num_of_threads_blocked \in 0..NumThreads
    BY <1>2, PlacesFinite DEF CountInv, At
  <1>4. KeyOf[Start] \in Keys /\ Start \in Urls
    BY SiteAssumption
  <1>5. /\ urlQueue \in Seq(Urls) /\ url \in [Threads -> Urls] /\ todo \in [Threads -> Seq(Urls)]
        /\ pc \in [Threads -> ThreadPcs]
    BY <1>4 DEF Init, ThreadPcs
  <1>7. /\ urlHistory \subseteq Keys /\ alldirs \subseteq {DirOf[k] : k \in Keys}
        /\ downloaded \subseteq Keys /\ dropped \subseteq Keys
    BY <1>4 DEF Init
  <1>8. monitorPc \in MonitorPcs /\ mainPc \in MainPcs /\ job \in JobStates
    BY DEF Init, MonitorPcs, MainPcs, JobStates
  <1>9. spurious \in 0..MaxSpurious
    BY EnvironmentAssumption DEF Init
  <1>10. TypeOK
    BY <1>3, <1>5, <1>7, <1>8, <1>9 DEF Init, TypeOK
  <1>6. MutexInv /\ QueueInv /\ NoneAtWork /\ LastInv
    BY ThreadsAssumption DEF Init, MutexInv, QueueInv, NoneAtWork, LastInv, HoldingPcs
  <1> QED BY <1>2, <1>6, <1>10 DEF IInv

(* every step keeps it, *)
LEMMA NextInv == IInv /\ [Next]_vars => IInv'
  <1> SUFFICES ASSUME IInv, [Next]_vars PROVE IInv'
    OBVIOUS
  <1>1. CASE \E t \in Threads : CrawlStep(t)
    BY <1>1, CrawlStepInv
  <1>2. CASE MonitorStep
    BY <1>2, MonitorStepInv
  <1>3. CASE MainStep
    BY <1>3, MainStepInv
  <1>4. CASE Environment \/ JobStep
    BY <1>4, EnvironmentInv
  <1>5. CASE UNCHANGED vars
    BY <1>5 DEF vars, IInv, TypeOK, MutexInv, CountInv, QueueInv, NoneAtWork, LastInv, At,
                queueVars, finishVars, historyVars, pageVars, threadVars, flagVars, mainVars
  <1> QED BY <1>1, <1>2, <1>3, <1>4, <1>5 DEF Next

(* so it always holds. *)
THEOREM Invariance == Spec => []IInv
  BY InitInv, NextInv, PTL DEF Spec

(* Every variable keeps its type and num_of_threads_blocked stays between 0 and *)
(* num_of_threads, whatever wakes the threads and however main ends.            *)
THEOREM Typing == Spec => []TypeOK
  <1>1. IInv => TypeOK
    BY DEF IInv
  <1> QED BY <1>1, Invariance, PTL

(* Once crawling_has_finished is set (crawl.cpp:68) nothing is queued and every *)
(* thread is blocked, is woken and finds the queue empty, or leaves.            *)
THEOREM Idle == Spec => []FinishedMeansIdle
  <1>1. IInv => FinishedMeansIdle
    <2> SUFFICES ASSUME IInv, crawling_has_finished, NEW t \in Threads
                 PROVE  /\ urlQueue = <<>>
                        /\ \/ pc[t] \in BlockedPcs \cup {"check"}
                           \/ threads_must_terminate /\ pc[t] \in {"inner", "done"}
      BY DEF FinishedMeansIdle, IInv, NoneAtWork
    <2>1. urlQueue = <<>> /\ pc[t] \notin {"new"} \cup WorkingPcs
      BY DEF IInv, NoneAtWork, At
    <2>2. pc[t] \in BlockedPcs \cup {"check", "inner", "done"}
      BY <2>1 DEF IInv, TypeOK, ThreadPcs, HoldingPcs, BlockedPcs
    <2>3. pc[t] \in {"inner", "done"} => threads_must_terminate
      BY <2>1 DEF IInv, QueueInv
    <2> QED BY <2>1, <2>2, <2>3
  <1> QED BY <1>1, Invariance, PTL

(* Once crawling_has_finished is set no step takes it back: the next thread to assign *)
(* it finds all the others still blocked.                                              *)
LEMMA FinishedStays ==
  ASSUME IInv, Next, crawling_has_finished
  PROVE  crawling_has_finished'
  <1>1. ASSUME NEW t \in Threads, CountBlocked(t) PROVE crawling_has_finished'
    <2>1. urlQueue = <<>> /\ \A u \in Threads : pc[u] \in BlockedPcs
      BY <1>1 DEF IInv, NoneAtWork, LastInv, CountBlocked
    <2>2. At(BlockedPcs) = Threads
      BY <2>1 DEF At
    <2> QED BY <1>1, <2>1, <2>2 DEF CountBlocked, NothingLeft, IInv, CountInv, NumThreads
  <1>2. ASSUME NEW t \in Threads, CrawlStep(t), ~CountBlocked(t)
        PROVE  UNCHANGED crawling_has_finished
    BY <1>2 DEF CrawlStep, OuterCheck, Acquire, CheckQueue, Sleep, WakeUp, InnerBreak, Pop,
                Drop, Download, UpdateStats, PostCheck, AddLink, CrashInHistory, finishVars
  <1>3. ASSUME MonitorStep \/ JobStep PROVE UNCHANGED crawling_has_finished
    BY <1>3 DEF MonitorStep, MonitorLock, MonitorTest, MonitorWait, MonitorWakeUp, MonitorSet,
                MonitorBroadcast, MonitorJoin, MonitorStartJob, MonitorNoJob, MonitorJobReady,
                JobStep, JobReady, JobExits, monitorUnchanged
  <1>4. ASSUME MainStep \/ Environment PROVE UNCHANGED crawling_has_finished
    BY <1>4 DEF MainStep, CreateThread, StartServing, AnswerCommand, SecondUnlock,
                DeleteHistory, JoinMonitor, SendExit, WaitForJob, Environment, ForwardCommand, ForcedShutdown,
                Shutdown, AcceptFails, JobFails, FallSilent, elsewhere, MonitorSpuriousWakeup, SpuriousWakeup,
                mainUnchanged, monitorUnchanged, finishVars
  <1> QED BY <1>1, <1>2, <1>3, <1>4 DEF Next

(* The assignment of crawl.cpp:68 never takes crawling_has_finished back. *)
THEOREM Stays == Spec => StaysFinished
  <1>1. IInv /\ [Next]_vars => [crawling_has_finished => crawling_has_finished']_vars
    BY FinishedStays
  <1> QED BY <1>1, Invariance, PTL DEF Spec, StaysFinished

-----------------------------------------------------------------------------
(* The pages, and the hand-over to jobExecutor. *)

Settled == downloaded \cup dropped

(* The urls that will settle their key when they are done with: a link to another *)
(* server settles nothing, as it is not in urlHistory.                             *)
Tracked(u) == Kind[u] # "foreign" \/ u = Start
Queued(k) == \E j \in 1..Len(urlQueue) : Tracked(urlQueue[j]) /\ KeyOf[urlQueue[j]] = k
InHand(k) == \E t \in Threads : pc[t] = "fetch" /\ Tracked(url[t]) /\ KeyOf[url[t]] = k

(* What is known is settled, queued or in hand, ... *)
KnownInv ==
  /\ KeyOf[Start] \in urlHistory /\ Settled \subseteq urlHistory /\ downloaded \cap dropped = {}
  /\ \A k \in urlHistory : k \in Settled \/ Queued(k) \/ InHand(k)

(* ... only one of them, and in one place. *)
OnceInv ==
  /\ \A j \in 1..Len(urlQueue) : Tracked(urlQueue[j]) =>
       /\ KeyOf[urlQueue[j]] \in urlHistory \ Settled
       /\ \A h \in 1..Len(urlQueue) : Tracked(urlQueue[h]) /\ KeyOf[urlQueue[h]] = KeyOf[urlQueue[j]] => h = j
       /\ \A t \in Threads : pc[t] = "fetch" /\ Tracked(url[t]) => KeyOf[url[t]] # KeyOf[urlQueue[j]]
  /\ \A t \in Threads : pc[t] = "fetch" /\ Tracked(url[t]) =>
       /\ KeyOf[url[t]] \in urlHistory \ Settled
       /\ \A w \in Threads : pc[w] = "fetch" /\ Tracked(url[w]) /\ KeyOf[url[w]] = KeyOf[url[t]] => w = t

(* A thread past its download reads the links of a page that was downloaded, ... *)
ReadInv ==
  \A t \in Threads :
    /\ pc[t] \in {"stats", "post", "links"} => KeyOf[url[t]] \in downloaded
    /\ pc[t] = "links" => Elements(todo[t]) \subseteq Elements(Links[KeyOf[url[t]]])

(* ... and the links that are not known yet are still to be read by such a thread, *)
(* if that has not left before.                                                     *)
ToRead(k, u) ==
  \E t \in Threads :
    KeyOf[url[t]] = k /\ (pc[t] \in {"stats", "post", "done"} \/ (pc[t] = "links" /\ u \in Elements(todo[t])))
LinksInv ==
  \A k \in downloaded : \A u \in Elements(Links[k]) :
    Kind[u] = "foreign" \/ KeyOf[u] \in urlHistory \/ ToRead(k, u)

TotalInv ==
  /\ IsFiniteSet(downloaded)
  /\ total_pages_downloaded + Cardinality(At({"stats"})) = Cardinality(downloaded)

PagesInv == strayUses = 0 => KnownInv /\ OnceInv /\ ReadInv /\ LinksInv /\ TotalInv

(* The directories are those of the pages. *)
DirsInv == alldirs = {DirOf[k] : k \in downloaded}

(* What the monitor's place says of how the crawl ended, and what it has decided. *)
HandoverInv ==
  /\ monitorPc \in {"set", "broadcast", "join", "start", "init", "done"} =>
       crawling_has_finished \/ monitor_forced_exit
  /\ monitorPc \in {"start", "init", "done"} => \A t \in Threads : pc[t] = "done"
  /\ job # "none" => monitorPc \in {"init", "done"}
  /\ monitorPc \in {"init", "done"} => (job # "none" <=> ~monitor_forced_exit /\ alldirs # {})
  /\ monitorPc = "done" => job \notin {"starting", "stuck"}
  /\ mainPc \in {"exit", "waitpid", "exited"} => monitorPc = "done"
  /\ mainPc \in {"waitpid", "exited"} => (exitSent <=> job # "none")
  /\ mainPc = "exited" => job \in {"none", "unstarted", "dead", "gone"}
  /\ exitSent => mainPc \in {"waitpid", "exited", "crashed"} /\ job \notin {"none", "starting", "stuck"}

PInv == PagesInv /\ DirsInv /\ HandoverInv /\ NoIdleWorker /\ CrawlComplete

-----------------------------------------------------------------------------
(* Sequences: the links to read, the queue. *)

LEMMA ElementsOfTail ==
  ASSUME NEW S, NEW s \in Seq(S), s # <<>>
  PROVE  Elements(s) = {Head(s)} \cup Elements(Tail(s))
  <1>1. Len(s) \in Nat \ {0} /\ Head(s) = s[1] /\ Len(Tail(s)) = Len(s) - 1
    BY SMT
  <1>2. \A j \in 1..Len(Tail(s)) : Tail(s)[j] = s[j + 1]
    BY SMT
  <1>3. ASSUME NEW j \in 1..Len(s) PROVE s[j] \in {Head(s)} \cup Elements(Tail(s))
    <2>1. CASE j = 1
      BY <2>1, <1>1
    <2>2. CASE j # 1
      <3>1. j - 1 \in 1..Len(Tail(s)) /\ (j - 1) + 1 = j
        BY <2>2, <1>1
      <3>2. s[j] = Tail(s)[j - 1]
        BY <3>1, <1>2
      <3> QED BY <3>1, <3>2 DEF Elements
    <2> QED BY <2>1, <2>2
  <1>4. ASSUME NEW j \in 1..Len(Tail(s)) PROVE Tail(s)[j] \in Elements(s)
    <2>1. j + 1 \in 1..Len(s)
      BY <1>1
    <2> QED BY <2>1, <1>2 DEF Elements
  <1>5. Head(s) \in Elements(s)
    <2>1. 1 \in 1..Len(s)
      BY <1>1
    <2> QED BY <2>1, <1>1 DEF Elements
  <1> QED BY <1>3, <1>4, <1>5 DEF Elements

LEMMA ElementsType ==
  ASSUME NEW S, NEW s \in Seq(S)
  PROVE  Elements(s) \subseteq S
  BY DEF Elements

LEMMA ElementsOfNone == Elements(<<>>) = {}
  BY DEF Elements

(* The threads at given places. *)
LEMMA CountOfPlaces ==
  ASSUME NEW f, NEW S
  PROVE  LET A == {t \in Threads : f[t] \in S} IN IsFiniteSet(A) /\ Cardinality(A) \in Nat
  <1> DEFINE A == {t \in Threads : f[t] \in S}
  <1>1. IsFiniteSet(A)
    BY PlacesFinite
  <1>2. Cardinality(A) \in Nat
    BY <1>1, FS_CardinalityType
  <1> QED BY <1>1, <1>2

-----------------------------------------------------------------------------
(* A step that moves no thread to, from or between the places where it has a page *)
(* in hand, and touches neither the queue nor the history.                         *)
PagePcs == {"fetch", "stats", "post", "links"}

LEMMA QuietPages ==
  ASSUME PagesInv, UNCHANGED <<urlQueue, urlHistory, strayUses, downloaded, dropped,
                               total_pages_downloaded, url, todo>>,
         \A t \in Threads : \/ pc'[t] = pc[t]
                            \/ pc[t] \notin PagePcs \cup {"done"} /\ pc'[t] \notin PagePcs
  PROVE  PagesInv'
  <1> SUFFICES ASSUME strayUses = 0 PROVE KnownInv' /\ OnceInv' /\ ReadInv' /\ LinksInv' /\ TotalInv'
    BY DEF PagesInv
  <1> USE DEF PagesInv, PagePcs
  <1>1. KnownInv'
    BY DEF KnownInv, Settled, Queued, InHand, Tracked
  <1>2. OnceInv'
    BY DEF OnceInv, Settled, Tracked
  <1>3. ReadInv'
    BY DEF ReadInv
  <1>4. LinksInv'
    BY DEF LinksInv, ToRead
  <1>5. TotalInv'
    <2>1. At({"stats"})' = At({"stats"})
      BY DEF At
    <2> QED BY <2>1 DEF TotalInv
  <1> QED BY <1>1, <1>2, <1>3, <1>4, <1>5

(* The url at the head of the queue goes into the hand of t. *)
LEMMA PopPages ==
  ASSUME IInv, PagesInv, NEW t \in Threads, Pop(t)
  PROVE  PagesInv'
  <1> SUFFICES ASSUME strayUses = 0 PROVE KnownInv' /\ OnceInv' /\ ReadInv' /\ LinksInv' /\ TotalInv'
    BY DEF PagesInv, Pop, historyVars
  <1>0. KnownInv /\ OnceInv /\ ReadInv /\ LinksInv /\ TotalInv /\ urlQueue \in Seq(Urls) /\ pc \in [Threads -> ThreadPcs]
        /\ url \in [Threads -> Urls]
    BY DEF PagesInv, IInv, TypeOK
  <1>1. /\ urlQueue # <<>> /\ urlQueue' = Tail(urlQueue)
        /\ UNCHANGED <<urlHistory, downloaded, dropped, total_pages_downloaded, todo>>
        /\ pc[t] = "inner"
        /\ \A w \in Threads : pc'[w] = (IF w = t THEN "fetch" ELSE pc[w])
        /\ \A w \in Threads : url'[w] = (IF w = t THEN Head(urlQueue) ELSE url[w])
    BY <1>0 DEF Pop, Goto, historyVars, pageVars
  <1>2. /\ Len(urlQueue) \in Nat \ {0} /\ Head(urlQueue) = urlQueue[1] /\ Len(urlQueue') = Len(urlQueue) - 1
        /\ \A j \in 1..Len(urlQueue') : urlQueue'[j] = urlQueue[j + 1]
    BY <1>0, <1>1, SMT
  <1>3. \A j \in 1..Len(urlQueue') : j + 1 \in 1..Len(urlQueue) /\ j + 1 # 1
    BY <1>2
  <1>4. 1 \in 1..Len(urlQueue)
    BY <1>2
  <1>5. KnownInv'
    <2> SUFFICES ASSUME NEW k \in urlHistory, ~(k \in Settled)
                 PROVE  Queued(k)' \/ InHand(k)'
      BY <1>0, <1>1 DEF KnownInv, Settled
    <2>1. CASE InHand(k)
      BY <2>1, <1>1 DEF InHand
    <2>2. CASE Queued(k)
      <3>1. PICK j \in 1..Len(urlQueue) : Tracked(urlQueue[j]) /\ KeyOf[urlQueue[j]] = k
        BY <2>2 DEF Queued
      <3>2. CASE j = 1
        BY <3>1, <3>2, <1>1, <1>2 DEF InHand, Tracked
      <3>3. CASE j # 1
        <4>1. j - 1 \in 1..Len(urlQueue') /\ (j - 1) + 1 = j
          BY <3>3, <1>2
        <4>2. urlQueue'[j - 1] = urlQueue[j]
          BY <4>1, <1>2
        <4> QED BY <3>1, <4>1, <4>2 DEF Queued, Tracked
      <3> QED BY <3>2, <3>3
    <2> QED BY <2>1, <2>2, <1>0 DEF KnownInv
  <1>6. OnceInv'
    <2>1. ASSUME NEW j \in 1..Len(urlQueue'), Tracked(urlQueue'[j])
          PROVE  /\ KeyOf[urlQueue'[j]] \in urlHistory \ Settled
                 /\ \A h \in 1..Len(urlQueue') : Tracked(urlQueue'[h]) /\ KeyOf[urlQueue'[h]] = KeyOf[urlQueue'[j]] => h = j
                 /\ \A w \in Threads : pc'[w] = "fetch" /\ Tracked(url'[w]) => KeyOf[url'[w]] # KeyOf[urlQueue'[j]]
      <3>1. urlQueue'[j] = urlQueue[j + 1] /\ j + 1 \in 1..Len(urlQueue) /\ j + 1 # 1
        BY <1>2, <1>3
      <3>2. KeyOf[urlQueue'[j]] \in urlHistory \ Settled
        BY <2>1, <3>1, <1>0 DEF OnceInv
      <3>3. ASSUME NEW h \in 1..Len(urlQueue'), Tracked(urlQueue'[h]), KeyOf[urlQueue'[h]] = KeyOf[urlQueue'[j]]
            PROVE  h = j
        <4>1. urlQueue'[h] = urlQueue[h + 1] /\ h + 1 \in 1..Len(urlQueue)
          BY <1>2, <1>3
        <4>2. h + 1 = j + 1
          BY <2>1, <3>1, <3>3, <4>1, <1>0 DEF OnceInv
        <4> QED BY <4>2, <1>2
      <3>4. ASSUME NEW w \in Threads, pc'[w] = "fetch", Tracked(url'[w])
            PROVE  KeyOf[url'[w]] # KeyOf[urlQueue'[j]]
        <4>1. CASE w = t
          BY <4>1, <2>1, <3>1, <3>4, <1>0, <1>1, <1>2, <1>4 DEF OnceInv
        <4>2. CASE w # t
          BY <4>2, <2>1, <3>1, <3>4, <1>0, <1>1 DEF OnceInv
        <4> QED BY <4>1, <4>2
      <3> QED BY <3>2, <3>3, <3>4
    <2>2. ASSUME NEW v \in Threads, pc'[v] = "fetch", Tracked(url'[v])
          PROVE  /\ KeyOf[url'[v]] \in urlHistory \ Settled
                 /\ \A w \in Threads : pc'[w] = "fetch" /\ Tracked(url'[w]) /\ KeyOf[url'[w]] = KeyOf[url'[v]] => w = v
      BY <2>2, <1>0, <1>1, <1>2, <1>4 DEF OnceInv
    <2> QED BY <2>1, <2>2, <1>1 DEF OnceInv, Settled, Tracked
  <1>7. ReadInv'
    BY <1>0, <1>1 DEF ReadInv
  <1>8. LinksInv'
    BY <1>0, <1>1 DEF LinksInv, ToRead
  <1>9. TotalInv'
    <2>1. At({"stats"})' = At({"stats"})
      BY <1>1 DEF At
    <2> QED BY <2>1, <1>0, <1>1 DEF TotalInv
  <1> QED BY <1>5, <1>6, <1>7, <1>8, <1>9

(* The key that t has in hand is given up, ... *)
LEMMA DropPages ==
  ASSUME IInv, PagesInv, NEW t \in Threads, Drop(t)
  PROVE  PagesInv'
  <1> SUFFICES ASSUME strayUses = 0 PROVE KnownInv' /\ OnceInv' /\ ReadInv' /\ LinksInv' /\ TotalInv'
    BY DEF PagesInv, Drop, historyVars
  <1>0. KnownInv /\ OnceInv /\ ReadInv /\ LinksInv /\ TotalInv /\ pc \in [Threads -> ThreadPcs]
    BY DEF PagesInv, IInv, TypeOK
  <1>1. /\ UNCHANGED <<urlQueue, urlHistory, downloaded, total_pages_downloaded, url, todo>>
        /\ pc[t] = "fetch"
        /\ \A w \in Threads : pc'[w] = (IF w = t THEN "outer" ELSE pc[w])
        /\ dropped' = IF Tracked(url[t]) THEN dropped \cup {KeyOf[url[t]]} ELSE dropped
    BY <1>0 DEF Drop, Goto, historyVars, threadVars, queueVars, Tracked
  <1>2. KnownInv'
    BY <1>0, <1>1 DEF KnownInv, Settled, Queued, InHand, OnceInv, Tracked
  <1>3. OnceInv'
    BY <1>0, <1>1 DEF OnceInv, Settled, Tracked
  <1>4. ReadInv' /\ LinksInv'
    BY <1>0, <1>1 DEF ReadInv, LinksInv, ToRead
  <1>5. TotalInv'
    <2>1. At({"stats"})' = At({"stats"})
      BY <1>1 DEF At
    <2> QED BY <2>1, <1>0, <1>1 DEF TotalInv
  <1> QED BY <1>2, <1>3, <1>4, <1>5

(* ... or its page downloaded, whose links are still to be read, ... *)
LEMMA DownloadPages ==
  ASSUME IInv, PagesInv, NEW t \in Threads, Download(t)
  PROVE  PagesInv'
  <1> SUFFICES ASSUME strayUses = 0 PROVE KnownInv' /\ OnceInv' /\ ReadInv' /\ LinksInv' /\ TotalInv'
    BY DEF PagesInv, Download, historyVars
  <1>0. KnownInv /\ OnceInv /\ ReadInv /\ LinksInv /\ TotalInv /\ pc \in [Threads -> ThreadPcs]
        /\ total_pages_downloaded \in Nat
    BY DEF PagesInv, IInv, TypeOK
  <1>1. /\ UNCHANGED <<urlQueue, urlHistory, dropped, total_pages_downloaded, url, todo>>
        /\ pc[t] = "fetch" /\ Tracked(url[t])
        /\ \A w \in Threads : pc'[w] = (IF w = t THEN "stats" ELSE pc[w])
        /\ downloaded' = downloaded \cup {KeyOf[url[t]]}
    BY <1>0 DEF Download, Goto, historyVars, threadVars, queueVars, Tracked
  <1>2. KeyOf[url[t]] \in urlHistory /\ KeyOf[url[t]] \notin Settled
    BY <1>0, <1>1 DEF OnceInv
  <1>3. KnownInv'
    BY <1>0, <1>1, <1>2 DEF KnownInv, Settled, Queued, InHand, Tracked
  <1>4. OnceInv'
    BY <1>0, <1>1 DEF OnceInv, Settled, Tracked
  <1>5. ReadInv' /\ LinksInv'
    BY <1>0, <1>1 DEF ReadInv, LinksInv, ToRead
  <1>6. TotalInv'
    <2>1. At({"stats"})' = At({"stats"}) \cup {t} /\ t \notin At({"stats"})
      BY <1>1 DEF At
    <2>2. IsFiniteSet(At({"stats"})) /\ Cardinality(At({"stats"})) \in Nat
      BY CountOfPlaces DEF At
    <2>3. Cardinality(At({"stats"})') = Cardinality(At({"stats"})) + 1
      BY <2>1, <2>2, FS_AddElement
    <2>4. IsFiniteSet(downloaded') /\ Cardinality(downloaded') = Cardinality(downloaded) + 1
      BY <1>0, <1>1, <1>2, FS_AddElement DEF TotalInv, Settled
    <2> QED BY <2>2, <2>3, <2>4, <1>0, <1>1 DEF TotalInv
  <1> QED BY <1>3, <1>4, <1>5, <1>6

(* ... counted, ... *)
LEMMA UpdateStatsPages ==
  ASSUME IInv, PagesInv, NEW t \in Threads, UpdateStats(t)
  PROVE  PagesInv'
  <1> SUFFICES ASSUME strayUses = 0 PROVE KnownInv' /\ OnceInv' /\ ReadInv' /\ LinksInv' /\ TotalInv'
    BY DEF PagesInv, UpdateStats, historyVars
  <1>0. KnownInv /\ OnceInv /\ ReadInv /\ LinksInv /\ TotalInv /\ pc \in [Threads -> ThreadPcs]
        /\ total_pages_downloaded \in Nat
    BY DEF PagesInv, IInv, TypeOK
  <1>1. /\ UNCHANGED <<urlQueue, urlHistory, dropped, downloaded, url, todo>>
        /\ pc[t] = "stats" /\ total_pages_downloaded' = total_pages_downloaded + 1
        /\ \A w \in Threads : pc'[w] = (IF w = t THEN "post" ELSE pc[w])
    BY <1>0 DEF UpdateStats, Goto, historyVars, threadVars, queueVars
  <1>2. KnownInv' /\ OnceInv'
    BY <1>0, <1>1 DEF KnownInv, OnceInv, Settled, Queued, InHand, Tracked
  <1>3. ReadInv' /\ LinksInv'
    BY <1>0, <1>1 DEF ReadInv, LinksInv, ToRead
  <1>4. TotalInv'
    <2>1. At({"stats"})' = At({"stats"}) \ {t} /\ t \in At({"stats"})
      BY <1>1 DEF At
    <2>2. IsFiniteSet(At({"stats"})) /\ Cardinality(At({"stats"})) \in Nat
      BY CountOfPlaces DEF At
    <2>3. Cardinality(At({"stats"})') = Cardinality(At({"stats"})) - 1
      BY <2>1, <2>2, FS_RemoveElement
    <2>4. Cardinality(At({"stats"})') + 1 = Cardinality(At({"stats"}))
      BY <2>2, <2>3
    <2>5. IsFiniteSet(At({"stats"})') /\ Cardinality(At({"stats"})') \in Nat
      BY CountOfPlaces DEF At
    <2> QED BY <2>2, <2>4, <2>5, <1>0, <1>1 DEF TotalInv
  <1> QED BY <1>2, <1>3, <1>4

(* ... and read, or not, if the threads have to stop. *)
LEMMA PostCheckPages ==
  ASSUME IInv, PagesInv, NEW t \in Threads, PostCheck(t)
  PROVE  PagesInv'
  <1> SUFFICES ASSUME strayUses = 0 PROVE KnownInv' /\ OnceInv' /\ ReadInv' /\ LinksInv' /\ TotalInv'
    BY DEF PagesInv, PostCheck, historyVars
  <1>0. KnownInv /\ OnceInv /\ ReadInv /\ LinksInv /\ TotalInv /\ pc \in [Threads -> ThreadPcs]
        /\ todo \in [Threads -> Seq(Urls)]
    BY DEF PagesInv, IInv, TypeOK
  <1>1. /\ UNCHANGED <<urlQueue, urlHistory, dropped, downloaded, url, total_pages_downloaded>>
        /\ pc[t] = "post" /\ pc'[t] \in {"done", "outer", "links"}
        /\ \A w \in Threads \ {t} : pc'[w] = pc[w] /\ todo'[w] = todo[w]
        /\ pc'[t] = "outer" => Links[KeyOf[url[t]]] = <<>>
        /\ pc'[t] = "links" => todo'[t] = Links[KeyOf[url[t]]]
    BY <1>0 DEF PostCheck, Goto, historyVars, pageVars, queueVars
  <1>2. KnownInv' /\ OnceInv'
    <2>1. \A w \in Threads : pc'[w] = "fetch" <=> pc[w] = "fetch"
      BY <1>1
    <2>2. Settled' = Settled /\ \A k : (Queued(k)' <=> Queued(k)) /\ (InHand(k)' <=> InHand(k))
      BY <1>1, <2>1 DEF Settled, Queued, InHand, Tracked
    <2>3. KnownInv'
      BY <1>0, <1>1, <2>2 DEF KnownInv
    <2>4. OnceInv'
      BY <1>0, <1>1, <2>1, <2>2 DEF OnceInv, Tracked
    <2> QED BY <2>3, <2>4
  <1>3. ReadInv'
    BY <1>0, <1>1 DEF ReadInv
  <1>4. LinksInv'
    <2>1. pc'[t] = "outer" => Elements(Links[KeyOf[url[t]]]) = {}
      BY <1>1 DEF Elements
    <2> SUFFICES ASSUME NEW k \in downloaded, NEW u \in Elements(Links[k]), ToRead(k, u)
                 PROVE  ToRead(k, u)'
      BY <1>0, <1>1 DEF LinksInv
    <2>2. PICK w \in Threads : /\ KeyOf[url[w]] = k
                              /\ \/ pc[w] \in {"stats", "post", "done"}
                                 \/ pc[w] = "links" /\ u \in Elements(todo[w])
      BY DEF ToRead
    <2>3. CASE w # t
      BY <2>2, <2>3, <1>1 DEF ToRead
    <2>4. CASE w = t
      <3>1. pc'[t] # "outer"
        BY <2>1, <2>2, <2>4
      <3>2. pc'[t] = "links" => Elements(todo'[t]) = Elements(Links[k])
        BY <2>2, <2>4, <1>1
      <3> QED BY <2>2, <2>4, <3>1, <3>2, <1>1 DEF ToRead
    <2> QED BY <2>3, <2>4
  <1>5. TotalInv'
    <2>1. At({"stats"})' = At({"stats"})
      BY <1>1 DEF At
    <2> QED BY <2>1, <1>0, <1>1 DEF TotalInv
  <1> QED BY <1>2, <1>3, <1>4, <1>5


(* A link of the page is read: it is known, or becomes known and queued. *)
LEMMA AddLinkPages ==
  ASSUME IInv, PagesInv, NEW t \in Threads, AddLink(t)
  PROVE  PagesInv'
  <1>0. /\ pc \in [Threads -> ThreadPcs] /\ todo \in [Threads -> Seq(Urls)] /\ urlQueue \in Seq(Urls)
        /\ strayUses \in Nat /\ pc[t] = "links" /\ todo[t] # <<>>
    BY DEF IInv, TypeOK, QueueInv, AddLink
  <1> DEFINE u == Head(todo[t])
             next == [pc EXCEPT ![t] = IF Tail(todo[t]) = <<>> THEN "outer" ELSE "links"]
  <1>1. historyDeleted => strayUses' # 0
    BY <1>0 DEF AddLink
  <1> SUFFICES ASSUME strayUses = 0, ~historyDeleted
               PROVE  KnownInv' /\ OnceInv' /\ ReadInv' /\ LinksInv' /\ TotalInv'
    BY <1>0, <1>1 DEF PagesInv, AddLink
  <1>2. KnownInv /\ OnceInv /\ ReadInv /\ LinksInv /\ TotalInv
    BY DEF PagesInv
  <1>3. /\ UNCHANGED <<url, downloaded, dropped, total_pages_downloaded>>
        /\ todo'[t] = Tail(todo[t]) /\ \A w \in Threads \ {t} : todo'[w] = todo[w]
    BY <1>0 DEF AddLink, pageVars
  <1>4. next \in [Threads -> ThreadPcs]
    BY <1>0 DEF ThreadPcs, WorkingPcs
  <1>5. \A w \in Threads : pc'[w] = next[w] \/ (next[w] = "waiting" /\ pc'[w] = "woken")
    <2>1. CASE pc' = next
      BY <2>1
    <2>2. CASE pc' \in SignalQueueIsEmpty(next)
      <3> HIDE DEF next
      <3> QED BY <1>4, <2>2, SignalEffect
    <2> QED BY <2>1, <2>2 DEF AddLink
  <1>6. /\ pc'[t] = IF Tail(todo[t]) = <<>> THEN "outer" ELSE "links"
        /\ \A w \in Threads \ {t} : pc'[w] = pc[w] \/ (pc[w] = "waiting" /\ pc'[w] = "woken")
    BY <1>0, <1>5
  <1>7. \/ KeyOf[u] \in urlHistory /\ UNCHANGED <<urlQueue, urlHistory>>
        \/ /\ KeyOf[u] \notin urlHistory
           /\ urlHistory' = IF Kind[u] # "foreign" THEN urlHistory \cup {KeyOf[u]} ELSE urlHistory
           /\ urlQueue' = Append(urlQueue, u)
    BY DEF AddLink, SearchHistory, AddLinkToHistory
  <1>8. Elements(todo[t]) = {u} \cup Elements(Tail(todo[t])) /\ u \in Urls
    <2>1. todo[t] \in Seq(Urls)
      BY <1>0
    <2>2. Elements(todo[t]) = {u} \cup Elements(Tail(todo[t]))
      BY <1>0, <2>1, ElementsOfTail
    <2> QED BY <2>1, <2>2, ElementsType
  <1>9. Tail(todo[t]) = <<>> => Elements(Tail(todo[t])) = {}
    BY ElementsOfNone
  <1> HIDE DEF u, next
  <1>10. ReadInv'
    BY <1>0, <1>2, <1>3, <1>6, <1>8 DEF ReadInv
  <1>11. TotalInv'
    <2>1. At({"stats"})' = At({"stats"})
      BY <1>0, <1>6 DEF At
    <2> QED BY <2>1, <1>2, <1>3 DEF TotalInv
  <1>12. LinksInv'
    <2> SUFFICES ASSUME NEW k \in downloaded, NEW v \in Elements(Links[k]), ToRead(k, v),
                        Kind[v] # "foreign", KeyOf[v] \notin urlHistory'
                 PROVE  ToRead(k, v)'
      BY <1>2, <1>3, <1>7 DEF LinksInv
    <2>1. PICK w \in Threads : /\ KeyOf[url[w]] = k
                              /\ \/ pc[w] \in {"stats", "post", "done"}
                                 \/ pc[w] = "links" /\ v \in Elements(todo[w])
      BY DEF ToRead
    <2>2. CASE w # t
      BY <2>1, <2>2, <1>3, <1>6 DEF ToRead
    <2>3. CASE w = t
      <3>1. v # u
        BY <1>7
      <3>2. v \in Elements(Tail(todo[t])) /\ Tail(todo[t]) # <<>>
        BY <2>1, <2>3, <3>1, <1>0, <1>8, <1>9
      <3> QED BY <2>1, <2>3, <3>2, <1>3, <1>6 DEF ToRead
    <2> QED BY <2>2, <2>3
  <1>13. CASE KeyOf[u] \in urlHistory
    <2>1. UNCHANGED <<urlQueue, urlHistory>>
      BY <1>7, <1>13
    <2>2. \A w \in Threads : (pc'[w] = "fetch") <=> (pc[w] = "fetch")
      BY <1>0, <1>6
    <2>3. KnownInv'
      BY <2>1, <2>2, <1>2, <1>3 DEF KnownInv, Settled, Queued, InHand, Tracked
    <2>4. OnceInv'
      BY <2>1, <2>2, <1>2, <1>3 DEF OnceInv, Settled, Tracked
    <2> QED BY <2>3, <2>4, <1>10, <1>11, <1>12
  <1>14. CASE KeyOf[u] \notin urlHistory
    <2>1. /\ urlQueue' = Append(urlQueue, u)
          /\ urlHistory' = IF Tracked(u) THEN urlHistory \cup {KeyOf[u]} ELSE urlHistory
      BY <1>2, <1>7, <1>14 DEF KnownInv, Tracked
    <2>2. /\ Len(urlQueue) \in Nat /\ Len(urlQueue') = Len(urlQueue) + 1 /\ urlQueue'[Len(urlQueue) + 1] = u
          /\ \A j \in 1..Len(urlQueue) : urlQueue'[j] = urlQueue[j]
      BY <2>1, <1>0, <1>8
    <2>3. \A j \in 1..Len(urlQueue') : j \in 1..Len(urlQueue) \/ j = Len(urlQueue) + 1
      BY <2>2
    <2>4. \A j \in 1..Len(urlQueue) : j \in 1..Len(urlQueue') /\ j # Len(urlQueue) + 1
      BY <2>2
    <2>5. Len(urlQueue) + 1 \in 1..Len(urlQueue')
      BY <2>2
    <2>6. \A w \in Threads : (pc'[w] = "fetch") <=> (pc[w] = "fetch")
      BY <1>0, <1>6
    <2>7. KnownInv'
      <3> SUFFICES ASSUME NEW k \in urlHistory', k \notin Settled
                   PROVE  Queued(k)' \/ InHand(k)'
        BY <1>2, <1>3, <2>1 DEF KnownInv, Settled
      <3>1. CASE k \in urlHistory /\ Queued(k)
        BY <3>1, <2>2, <2>4 DEF Queued, Tracked
      <3>2. CASE k \in urlHistory /\ InHand(k)
        BY <3>2, <2>6, <1>3 DEF InHand, Tracked
      <3>3. CASE k \notin urlHistory
        BY <3>3, <2>1, <2>2, <2>5 DEF Queued, Tracked
      <3> QED BY <3>1, <3>2, <3>3, <1>2 DEF KnownInv
    <2>8. OnceInv'
      <3> DEFINE n == Len(urlQueue) + 1
      <3>1. ASSUME NEW j \in 1..Len(urlQueue), Tracked(urlQueue[j])
            PROVE  KeyOf[urlQueue[j]] \in urlHistory' \ Settled /\ KeyOf[urlQueue[j]] # KeyOf[u]
        BY <3>1, <1>2, <1>14, <2>1 DEF OnceInv
      <3>2. ASSUME NEW w \in Threads, pc[w] = "fetch", Tracked(url[w])
            PROVE  KeyOf[url[w]] \in urlHistory' \ Settled /\ KeyOf[url[w]] # KeyOf[u]
        BY <3>2, <1>2, <1>14, <2>1 DEF OnceInv
      <3>3. Tracked(u) => KeyOf[u] \in urlHistory' \ Settled
        BY <1>2, <1>14, <2>1 DEF KnownInv
      <3>4. ASSUME NEW j \in 1..Len(urlQueue'), Tracked(urlQueue'[j])
            PROVE  /\ KeyOf[urlQueue'[j]] \in urlHistory' \ Settled
                   /\ \A h \in 1..Len(urlQueue') : Tracked(urlQueue'[h]) /\ KeyOf[urlQueue'[h]] = KeyOf[urlQueue'[j]] => h = j
                   /\ \A w \in Threads : pc[w] = "fetch" /\ Tracked(url[w]) => KeyOf[url[w]] # KeyOf[urlQueue'[j]]
        <4>1. CASE j \in 1..Len(urlQueue)
          <5>1. urlQueue'[j] = urlQueue[j]
            BY <4>1, <2>2
          <5>2. ASSUME NEW h \in 1..Len(urlQueue'), Tracked(urlQueue'[h]), KeyOf[urlQueue'[h]] = KeyOf[urlQueue'[j]]
                PROVE  h = j
            <6>1. CASE h \in 1..Len(urlQueue)
              BY <6>1, <5>1, <5>2, <4>1, <3>4, <2>2, <1>2 DEF OnceInv
            <6>2. CASE h = n
              BY <6>2, <5>1, <5>2, <4>1, <3>4, <3>1, <2>2
            <6> QED BY <6>1, <6>2, <2>3
          <5> QED BY <5>1, <5>2, <4>1, <3>4, <3>1, <1>2 DEF OnceInv
        <4>2. CASE j = n
          <5>1. urlQueue'[j] = u
            BY <4>2, <2>2
          <5>2. ASSUME NEW h \in 1..Len(urlQueue'), Tracked(urlQueue'[h]), KeyOf[urlQueue'[h]] = KeyOf[u]
                PROVE  h = j
            <6>1. CASE h \in 1..Len(urlQueue)
              BY <6>1, <5>2, <3>1, <2>2
            <6> QED BY <6>1, <4>2, <2>3
          <5> QED BY <5>1, <5>2, <3>2, <3>3, <3>4
        <4> QED BY <4>1, <4>2, <2>3
      <3>5. ASSUME NEW v \in Threads, pc[v] = "fetch", Tracked(url[v])
            PROVE  /\ KeyOf[url[v]] \in urlHistory' \ Settled
                   /\ \A w \in Threads : pc[w] = "fetch" /\ Tracked(url[w]) /\ KeyOf[url[w]] = KeyOf[url[v]] => w = v
        BY <3>2, <3>5, <1>2 DEF OnceInv
      <3> QED BY <3>4, <3>5, <2>6, <1>3 DEF OnceInv, Settled, Tracked
    <2> QED BY <2>7, <2>8, <1>10, <1>11, <1>12
  <1> QED BY <1>13, <1>14

-----------------------------------------------------------------------------
(* The other steps of a crawl thread, and those of everybody else, are quiet. *)
LEMMA PagesNext ==
  ASSUME IInv, PagesInv, Next
  PROVE  PagesInv'
  <1>0. pc \in [Threads -> ThreadPcs] /\ strayUses \in Nat
    BY DEF IInv, TypeOK
  <1> USE DEF queueVars, historyVars, pageVars, threadVars, PagePcs, Goto
  <1>1. ASSUME NEW t \in Threads, CrawlStep(t) PROVE PagesInv'
    <2>1. CASE OuterCheck(t) \/ Acquire(t) \/ CheckQueue(t) \/ CountBlocked(t) \/ Sleep(t) \/ WakeUp(t) \/ InnerBreak(t)
      <3>1. /\ UNCHANGED <<urlQueue, urlHistory, strayUses, downloaded, dropped,
                           total_pages_downloaded, url, todo>>
            /\ pc[t] \notin PagePcs \cup {"done"}
            /\ \E p \in {"done", "acquire", "check", "count", "inner", "sleep", "waiting"} : pc' = [pc EXCEPT ![t] = p]
        BY <2>1 DEF OuterCheck, Acquire, CheckQueue, CountBlocked, Sleep, WakeUp, InnerBreak
      <3> QED BY <3>1, <1>0, QuietPages
    <2>2. CASE CrashInHistory(t)
      BY <2>2, <1>0 DEF CrashInHistory, PagesInv
    <2> QED BY <1>1, <2>1, <2>2, PopPages, DropPages, DownloadPages, UpdateStatsPages,
            PostCheckPages, AddLinkPages
            DEF CrawlStep
  <1>2. CASE MonitorStep \/ JobStep
    <2>1. CASE MonitorBroadcast
      BY <2>1, <1>0, BroadcastEffect, QuietPages DEF MonitorBroadcast, monitorUnchanged
    <2>2. CASE ~MonitorBroadcast
      <3>1. UNCHANGED <<urlQueue, urlHistory, strayUses, downloaded, dropped,
                        total_pages_downloaded, url, todo, pc>>
        BY <1>2, <2>2 DEF MonitorStep, MonitorLock, MonitorTest, MonitorWait, MonitorWakeUp,
                MonitorSet, MonitorJoin,
              MonitorStartJob, MonitorNoJob, MonitorJobReady, JobStep, JobReady, JobExits, monitorUnchanged
      <3> QED BY <3>1, QuietPages
    <2> QED BY <2>1, <2>2
  <1>3. CASE MainStep \/ Environment
    <2>1. CASE \E t \in Threads : CreateThread(t) \/ SpuriousWakeup(t)
      <3>1. PICK t \in Threads : CreateThread(t) \/ SpuriousWakeup(t)
        BY <2>1
      <3>2. /\ UNCHANGED <<urlQueue, urlHistory, strayUses, downloaded, dropped,
                           total_pages_downloaded, url, todo>>
            /\ pc[t] \in {"new", "waiting"} /\ \E p \in {"outer", "woken"} : pc' = [pc EXCEPT ![t] = p]
        BY <3>1 DEF CreateThread, SpuriousWakeup, mainUnchanged
      <3> QED BY <3>2, <1>0, QuietPages
    <2>2. CASE ~\E t \in Threads : CreateThread(t) \/ SpuriousWakeup(t)
      <3>1. UNCHANGED <<urlQueue, urlHistory, strayUses, downloaded, dropped,
                        total_pages_downloaded, url, todo, pc>>
        BY <1>3, <2>2 DEF MainStep, Environment, StartServing, AnswerCommand, SecondUnlock,
                DeleteHistory, JoinMonitor, SendExit, WaitForJob, ForwardCommand, ForcedShutdown,
                Shutdown, AcceptFails, JobFails, FallSilent, elsewhere, MonitorSpuriousWakeup,
                mainUnchanged, monitorUnchanged
      <3> QED BY <3>1, QuietPages
    <2> QED BY <2>1, <2>2
  <1> QED BY <1>1, <1>2, <1>3 DEF Next

-----------------------------------------------------------------------------
(* The steps that touch what CrawlPages and the hand-over are about. *)
LEMMA PageSteps ==
  ASSUME IInv, Next
  PROVE  \/ \E t \in Threads : Drop(t) \/ Download(t) \/ AddLink(t) \/ CountBlocked(t) \/ CrashInHistory(t)
         \/ UNCHANGED <<urlHistory, strayUses, downloaded, dropped, alldirs, crawling_has_finished>>
  <1> USE DEF queueVars, finishVars, historyVars, pageVars, threadVars
  <1>1. ASSUME NEW t \in Threads, CrawlStep(t)
        PROVE  \/ Drop(t) \/ Download(t) \/ AddLink(t) \/ CountBlocked(t) \/ CrashInHistory(t)
               \/ UNCHANGED <<urlHistory, strayUses, downloaded, dropped, alldirs,
                              crawling_has_finished>>
    BY <1>1 DEF CrawlStep, OuterCheck, Acquire, CheckQueue, Sleep, WakeUp, InnerBreak, Pop,
            UpdateStats, PostCheck
  <1>2. ASSUME MonitorStep \/ JobStep
        PROVE  UNCHANGED <<urlHistory, strayUses, downloaded, dropped, alldirs,
                           crawling_has_finished>>
    BY <1>2 DEF MonitorStep, MonitorLock, MonitorTest, MonitorWait, MonitorWakeUp, MonitorSet,
                MonitorBroadcast, MonitorJoin, MonitorStartJob, MonitorNoJob, MonitorJobReady,
                JobStep, JobReady, JobExits, monitorUnchanged
  <1>3. ASSUME MainStep \/ Environment
        PROVE  UNCHANGED <<urlHistory, strayUses, downloaded, dropped, alldirs,
                           crawling_has_finished>>
    BY <1>3 DEF MainStep, CreateThread, StartServing, AnswerCommand, SecondUnlock,
                DeleteHistory, JoinMonitor, SendExit, WaitForJob, Environment, ForwardCommand, ForcedShutdown,
                Shutdown, AcceptFails, JobFails, FallSilent, elsewhere, MonitorSpuriousWakeup, SpuriousWakeup,
                mainUnchanged, monitorUnchanged
  <1> QED BY <1>1, <1>2, <1>3 DEF Next

(* Those that touch the pages are of a thread at work, so not after the end. *)
LEMMA FinishedPages ==
  ASSUME IInv, Next, crawling_has_finished
  PROVE  UNCHANGED <<urlHistory, strayUses, downloaded, dropped, alldirs>>
  <1>1. \A t \in Threads : pc[t] \notin {"fetch", "links"}
    BY DEF IInv, NoneAtWork, At, WorkingPcs
  <1>2. \A t \in Threads : CountBlocked(t) => UNCHANGED <<urlHistory, strayUses, downloaded,
                                                          dropped, alldirs>>
    BY DEF CountBlocked, historyVars, pageVars
  <1>3. \A t \in Threads : ~Drop(t) /\ ~Download(t) /\ ~AddLink(t) /\ ~CrashInHistory(t)
    BY <1>1 DEF Drop, Download, AddLink, CrashInHistory
  <1> QED BY <1>2, <1>3, PageSteps

LEMMA DirsNext ==
  ASSUME IInv, DirsInv, Next
  PROVE  DirsInv'
  <1>1. ASSUME NEW t \in Threads, Download(t) PROVE DirsInv'
    BY <1>1 DEF DirsInv, Download
  <1>2. ASSUME NEW t \in Threads, Drop(t) \/ AddLink(t) \/ CountBlocked(t) \/ CrashInHistory(t) PROVE DirsInv'
    BY <1>2 DEF DirsInv, Drop, AddLink, CountBlocked, CrashInHistory, pageVars
  <1> QED BY <1>1, <1>2, PageSteps DEF DirsInv

(* What the last thread to block finds: nothing queued, nobody at work. *)
LEMMA NothingLeftComplete ==
  ASSUME IInv, PagesInv, strayUses = 0, NothingLeft
  PROVE  urlHistory = Settled /\ \A k \in downloaded : LinkedKeys[k] \subseteq urlHistory
  <1>1. \A t \in Threads : pc[t] \notin {"fetch", "stats", "post", "links", "done"}
    BY AllBlocked DEF IInv, NothingLeft, BlockedPcs
  <1>2. KnownInv /\ LinksInv /\ downloaded \subseteq Keys
    BY DEF PagesInv, IInv, TypeOK
  <1>3. urlHistory = Settled
    <2>1. \A k : ~Queued(k)
      BY DEF NothingLeft, Queued
    <2> QED BY <1>1, <1>2, <2>1 DEF KnownInv, InHand
  <1>4. \A k \in downloaded : \A u \in Elements(Links[k]) : Kind[u] = "foreign" \/ KeyOf[u] \in urlHistory
    BY <1>1, <1>2 DEF LinksInv, ToRead
  <1> QED BY <1>2, <1>3, <1>4 DEF LinkedKeys

LEMMA CompleteNext ==
  ASSUME IInv, PagesInv, CrawlComplete, Next
  PROVE  CrawlComplete'
  <1> SUFFICES ASSUME crawling_has_finished', strayUses' = 0
               PROVE  /\ urlHistory' = downloaded' \cup dropped'
                      /\ \A k \in downloaded' : LinkedKeys[k] \subseteq urlHistory'
    BY DEF CrawlComplete
  <1>1. CASE crawling_has_finished
    BY <1>1, FinishedPages DEF CrawlComplete
  <1>2. CASE ~crawling_has_finished
    <2>1. PICK t \in Threads : CountBlocked(t)
      BY <1>2, PageSteps DEF Drop, Download, AddLink, CrashInHistory, finishVars
    <2>2. NothingLeft /\ UNCHANGED <<urlHistory, strayUses, downloaded, dropped>>
      BY <2>1 DEF CountBlocked, historyVars, pageVars
    <2> QED BY <2>2, NothingLeftComplete DEF Settled
  <1> QED BY <1>1, <1>2

-----------------------------------------------------------------------------
(* A thread that has left crawl() does not come back. *)
LEMMA DoneStays ==
  ASSUME IInv, Next, NEW t \in Threads, pc[t] = "done"
  PROVE  pc'[t] = "done"
  <1>0. pc \in [Threads -> ThreadPcs]
    BY DEF IInv, TypeOK
  <1>1. ASSUME NEW w \in Threads, CrawlStep(w) PROVE pc'[t] = "done"
    <2>1. CASE AddLink(w)
      <3> DEFINE next == [pc EXCEPT ![w] = IF Tail(todo[w]) = <<>> THEN "outer" ELSE "links"]
      <3>1. next \in [Threads -> ThreadPcs] /\ next[t] = "done"
        BY <1>0, <2>1 DEF ThreadPcs, WorkingPcs, AddLink
      <3>2. pc' = next \/ pc' \in SignalQueueIsEmpty(next)
        BY <2>1 DEF AddLink
      <3> HIDE DEF next
      <3> QED BY <3>1, <3>2, SignalEffect
    <2>2. CASE ~AddLink(w)
      <3>1. pc' = pc \/ (pc[w] # "done" /\ \E p \in ThreadPcs \cup {"done"} : pc' = [pc EXCEPT ![w] = p])
        BY <1>1, <2>2, <1>0 DEF CrawlStep, OuterCheck, Acquire, CheckQueue, CountBlocked, Sleep,
                WakeUp, InnerBreak, Pop,
             Drop, Download, UpdateStats, PostCheck, CrashInHistory, Goto, ThreadPcs, WorkingPcs,
             HoldingPcs, BlockedPcs
      <3> QED BY <3>1, <1>0
    <2> QED BY <2>1, <2>2
  <1>2. CASE MonitorStep \/ JobStep
    <2>1. CASE MonitorBroadcast
      BY <2>1, <1>0, BroadcastEffect DEF MonitorBroadcast
    <2>2. CASE ~MonitorBroadcast
      BY <1>2, <2>2 DEF MonitorStep, MonitorLock, MonitorTest, MonitorWait, MonitorWakeUp,
              MonitorSet, MonitorJoin,
              MonitorStartJob, MonitorNoJob, MonitorJobReady, JobStep, JobReady, JobExits
    <2> QED BY <2>1, <2>2
  <1>3. CASE MainStep \/ Environment
    BY <1>3, <1>0 DEF MainStep, CreateThread, StartServing, AnswerCommand, SecondUnlock,
            DeleteHistory, JoinMonitor, SendExit, WaitForJob,
              Environment, ForwardCommand, ForcedShutdown, Shutdown, AcceptFails, JobFails, FallSilent, elsewhere,
              MonitorSpuriousWakeup, SpuriousWakeup, Goto
  <1> QED BY <1>1, <1>2, <1>3 DEF Next

(* The monitor and main agree on how the crawl ended. *)
LEMMA HandoverNext ==
  ASSUME IInv, HandoverInv, Next
  PROVE  HandoverInv'
  <1>1. /\ crawling_has_finished => crawling_has_finished'
        /\ (\A t \in Threads : pc[t] = "done") => \A t \in Threads : pc'[t] = "done"
    BY FinishedStays, DoneStays
  <1>2. ASSUME NEW t \in Threads, CrawlStep(t) PROVE HandoverInv'
    <2>1. UNCHANGED <<monitor_forced_exit, job, exitSent>>
      BY <1>2 DEF CrawlStep, OuterCheck, Acquire, CheckQueue, CountBlocked, Sleep, WakeUp,
              InnerBreak, Pop, Drop, Download,
                  UpdateStats, PostCheck, AddLink, CrashInHistory, elsewhere, flagVars, mainVars
    <2>2. monitorPc' = monitorPc \/ (monitorPc = "waiting" /\ monitorPc' = "woken")
      BY <1>2 DEF CrawlStep, OuterCheck, Acquire, CheckQueue, CountBlocked, Sleep, WakeUp,
              InnerBreak, Pop, Drop, Download,
                  UpdateStats, PostCheck, AddLink, CrashInHistory, elsewhere, SignalCrawlingFinished
    <2>3. mainPc' = mainPc \/ mainPc' = "crashed"
      BY <1>2 DEF CrawlStep, OuterCheck, Acquire, CheckQueue, CountBlocked, Sleep, WakeUp,
              InnerBreak, Pop, Drop, Download,
                  UpdateStats, PostCheck, AddLink, CrashInHistory, elsewhere, mainVars
    <2>4. alldirs' = alldirs \/ pc[t] # "done"
      BY <1>2 DEF CrawlStep, OuterCheck, Acquire, CheckQueue, CountBlocked, Sleep, WakeUp,
              InnerBreak, Pop, Drop, Download,
                  UpdateStats, PostCheck, AddLink, CrashInHistory, pageVars
    <2> QED BY <1>1, <2>1, <2>2, <2>3, <2>4 DEF HandoverInv
  <1>3. CASE MonitorStep \/ JobStep
    <2>1. UNCHANGED <<crawling_has_finished, alldirs, monitor_forced_exit, mainPc, exitSent>>
      BY <1>3 DEF MonitorStep, MonitorLock, MonitorTest, MonitorWait, MonitorWakeUp, MonitorSet,
              MonitorBroadcast, MonitorJoin,
              MonitorStartJob, MonitorNoJob, MonitorJobReady, JobStep, JobReady, JobExits, monitorUnchanged, flagVars,
              mainVars, pageVars
    <2>2. CASE MonitorLock \/ MonitorTest \/ MonitorWait \/ MonitorWakeUp \/ MonitorSet \/ MonitorBroadcast
      BY <1>1, <2>1, <2>2 DEF MonitorLock, MonitorTest, MonitorWait, MonitorWakeUp, MonitorSet,
              MonitorBroadcast, HandoverInv
    <2>3. CASE MonitorJoin \/ MonitorStartJob \/ MonitorNoJob \/ MonitorJobReady
      BY <1>1, <2>1, <2>3 DEF MonitorJoin, MonitorStartJob, MonitorNoJob, MonitorJobReady,
              AllJoined, HandoverInv
    <2>4. CASE JobStep
      BY <1>1, <2>1, <2>4 DEF JobStep, JobReady, JobExits, HandoverInv
    <2> QED BY <1>3, <2>2, <2>3, <2>4 DEF MonitorStep
  <1>4. CASE MainStep \/ Environment
    <2>1. UNCHANGED <<crawling_has_finished, alldirs>>
      BY <1>4 DEF MainStep, CreateThread, StartServing, AnswerCommand, SecondUnlock,
              DeleteHistory, JoinMonitor, SendExit, WaitForJob,
              Environment, ForwardCommand, ForcedShutdown, Shutdown, AcceptFails, JobFails, FallSilent, elsewhere,
              MonitorSpuriousWakeup, SpuriousWakeup,
              mainUnchanged, monitorUnchanged, pageVars, finishVars
    <2>2. CASE SendExit
      BY <1>1, <2>1, <2>2 DEF SendExit, HandoverInv, flagVars
    <2>6. CASE WaitForJob
      BY <1>1, <2>1, <2>6 DEF WaitForJob, HandoverInv, flagVars
    <2>7. CASE JobFails
      BY <1>1, <2>1, <2>7 DEF JobFails, HandoverInv, flagVars, monitorUnchanged, mainVars
    <2>3. CASE ForcedShutdown
      BY <1>1, <2>1, <2>3 DEF ForcedShutdown, SignalCrawlingFinished, HandoverInv
    <2>4. CASE JoinMonitor
      BY <1>1, <2>1, <2>4 DEF JoinMonitor, MonitorJoined, HandoverInv, flagVars
    <2>5. CASE ~(SendExit \/ ForcedShutdown \/ JoinMonitor \/ WaitForJob \/ JobFails)
      <3>1. UNCHANGED <<monitor_forced_exit, job, exitSent>>
        BY <1>4, <2>5 DEF MainStep, CreateThread, StartServing, AnswerCommand, SecondUnlock,
                DeleteHistory,
              Environment, ForwardCommand, Shutdown, AcceptFails, FallSilent, elsewhere, MonitorSpuriousWakeup,
              SpuriousWakeup,
              mainUnchanged, monitorUnchanged, flagVars, mainVars
      <3>2. monitorPc' = monitorPc \/ (monitorPc = "waiting" /\ monitorPc' = "woken")
        BY <1>4, <2>5 DEF MainStep, CreateThread, StartServing, AnswerCommand, SecondUnlock,
                DeleteHistory,
              Environment, ForwardCommand, Shutdown, AcceptFails, FallSilent, elsewhere, MonitorSpuriousWakeup,
              SpuriousWakeup
      <3>3. \/ mainPc' = mainPc
            \/ /\ mainPc \notin {"exit", "waitpid", "exited", "crashed"}
               /\ mainPc' \in {"serving", "asking", "cleanup", "join"}
        BY <1>4, <2>5 DEF MainStep, CreateThread, StartServing, AnswerCommand, SecondUnlock,
                DeleteHistory,
              Environment, ForwardCommand, Shutdown, AcceptFails, FallSilent, elsewhere, MonitorSpuriousWakeup,
              SpuriousWakeup,
              monitorUnchanged, mainVars
      <3> QED BY <1>1, <2>1, <3>1, <3>2, <3>3 DEF HandoverInv
    <2> QED BY <2>2, <2>3, <2>4, <2>5, <2>6, <2>7
  <1> QED BY <1>2, <1>3, <1>4 DEF Next

-----------------------------------------------------------------------------
(* Sleepers and queued urls. *)
Awake == Threads \ At({"waiting"})

LEMMA AwakeCount ==
  /\ IsFiniteSet(Awake) /\ Cardinality(Awake) \in Nat
  /\ IsFiniteSet(Awake') /\ Cardinality(Awake') \in Nat
  /\ Awake \subseteq Awake' => Cardinality(Awake) <= Cardinality(Awake')
  <1>1. IsFiniteSet(Awake) /\ IsFiniteSet(Awake')
    <2>1. IsFiniteSet(Threads) /\ Awake \in SUBSET Threads /\ Awake' \in SUBSET Threads
      BY ThreadsAssumption DEF Awake
    <2> QED BY <2>1, FS_Subset
  <1>2. Awake \subseteq Awake' => Cardinality(Awake) <= Cardinality(Awake')
    BY <1>1, FS_Subset
  <1> QED BY <1>1, <1>2, FS_CardinalityType

(* Nobody falls asleep and nothing is queued: as many are awake as before. *)
LEMMA NoIdleSame ==
  ASSUME IInv, NoIdleWorker, threads_must_terminate => threads_must_terminate',
         urlQueue' = urlQueue \/ (urlQueue # <<>> /\ urlQueue' = Tail(urlQueue)),
         \A t \in Threads : pc'[t] = "waiting" => pc[t] = "waiting"
  PROVE  NoIdleWorker'
  <1> SUFFICES ASSUME ~threads_must_terminate', At({"waiting"})' # {}
               PROVE  Len(urlQueue') <= Cardinality(Awake')
    BY DEF NoIdleWorker, Awake
  <1>1. At({"waiting"})' \subseteq At({"waiting"}) /\ Awake \subseteq Awake'
    BY DEF At, Awake
  <1>2. Len(urlQueue) \in Nat /\ Len(urlQueue') \in Nat /\ Len(urlQueue') <= Len(urlQueue)
    <2>1. urlQueue \in Seq(Urls)
      BY DEF IInv, TypeOK
    <2> QED BY <2>1
  <1>3. Len(urlQueue) <= Cardinality(Awake)
    BY <1>1 DEF NoIdleWorker, Awake
  <1> QED BY <1>1, <1>2, <1>3, AwakeCount

(* One link is queued, and one sleeper woken if there are any. *)
LEMMA NoIdleAddLink ==
  ASSUME IInv, NoIdleWorker, NEW t \in Threads, AddLink(t)
  PROVE  NoIdleWorker'
  <1> DEFINE next == [pc EXCEPT ![t] = IF Tail(todo[t]) = <<>> THEN "outer" ELSE "links"]
  <1>1. /\ UNCHANGED threads_must_terminate /\ urlQueue \in Seq(Urls) /\ pc[t] = "links"
        /\ pc \in [Threads -> ThreadPcs] /\ Head(todo[t]) \in Urls
    BY DEF IInv, TypeOK, QueueInv, AddLink, elsewhere, flagVars
  <1>2. next \in [Threads -> ThreadPcs] /\ {w \in Threads : next[w] = "waiting"} = At({"waiting"})
    BY <1>1 DEF ThreadPcs, WorkingPcs, At
  <1>3. \/ pc' = next /\ urlQueue' = urlQueue
        \/ pc' \in SignalQueueIsEmpty(next) /\ urlQueue' = Append(urlQueue, Head(todo[t]))
    BY DEF AddLink
  <1> HIDE DEF next
  <1>4. CASE pc' = next /\ urlQueue' = urlQueue
    <2>1. \A w \in Threads : pc'[w] = "waiting" => pc[w] = "waiting"
      BY <1>2, <1>4 DEF At
    <2> QED BY <1>1, <1>4, <2>1, NoIdleSame
  <1>5. CASE pc' \in SignalQueueIsEmpty(next) /\ urlQueue' = Append(urlQueue, Head(todo[t]))
    <2> SUFFICES ASSUME ~threads_must_terminate', At({"waiting"})' # {}
                 PROVE  Len(urlQueue') <= Cardinality(Awake')
      BY DEF NoIdleWorker, Awake
    <2>1. At({"waiting"}) # {}
      BY <1>2, <1>5, SignalEffect DEF At
    <2>2. PICK v \in At({"waiting"}) : pc' = [next EXCEPT ![v] = "woken"]
      BY <1>2, <1>5, <2>1 DEF SignalQueueIsEmpty
    <2>3. Awake' = Awake \cup {v} /\ v \notin Awake
      BY <1>2, <2>2 DEF Awake, At
    <2>4. Cardinality(Awake') = Cardinality(Awake) + 1
      BY <2>3, AwakeCount, FS_AddElement
    <2>5. Len(urlQueue) <= Cardinality(Awake)
      BY <1>1, <2>1 DEF NoIdleWorker, Awake
    <2>6. Len(urlQueue) \in Nat /\ Len(urlQueue') = Len(urlQueue) + 1
      BY <1>1, <1>5
    <2>7. Cardinality(Awake) \in Nat
      BY AwakeCount
    <2> QED BY <2>4, <2>5, <2>6, <2>7
  <1> QED BY <1>3, <1>4, <1>5

LEMMA NoIdleNext ==
  ASSUME IInv, NoIdleWorker, Next
  PROVE  NoIdleWorker'
  <1>0. pc \in [Threads -> ThreadPcs]
    BY DEF IInv, TypeOK
  <1>1. ASSUME NEW t \in Threads, CrawlStep(t) PROVE NoIdleWorker'
    <2>1. CASE AddLink(t)
      BY <2>1, NoIdleAddLink
    <2>2. CASE Sleep(t)
      <3>1. urlQueue' = <<>>
        BY <2>2 DEF IInv, QueueInv, Sleep, queueVars
      <3>2. Len(urlQueue') = 0
        BY <3>1
      <3> QED BY <3>2, AwakeCount DEF NoIdleWorker, Awake
    <2>3. CASE ~AddLink(t) /\ ~Sleep(t)
      <3>1. UNCHANGED threads_must_terminate
        BY <1>1, <2>3 DEF CrawlStep, OuterCheck, Acquire, CheckQueue, CountBlocked, WakeUp,
                InnerBreak, Pop, Drop, Download,
                  UpdateStats, PostCheck, CrashInHistory, elsewhere, flagVars
      <3>2. urlQueue' = urlQueue \/ (urlQueue # <<>> /\ urlQueue' = Tail(urlQueue))
        BY <1>1, <2>3 DEF CrawlStep, OuterCheck, Acquire, CheckQueue, CountBlocked, WakeUp,
                InnerBreak, Pop, Drop, Download,
                  UpdateStats, PostCheck, CrashInHistory, queueVars
      <3>3. \A w \in Threads : pc'[w] = "waiting" => pc[w] = "waiting"
        BY <1>0, <1>1, <2>3 DEF CrawlStep, OuterCheck, Acquire, CheckQueue, CountBlocked, WakeUp,
                InnerBreak, Pop, Drop, Download,
                  UpdateStats, PostCheck, CrashInHistory, Goto
      <3> QED BY <3>1, <3>2, <3>3, NoIdleSame
    <2> QED BY <2>1, <2>2, <2>3
  <1>2. CASE MonitorStep \/ JobStep
    <2>1. urlQueue' = urlQueue /\ (threads_must_terminate => threads_must_terminate')
      BY <1>2 DEF MonitorStep, MonitorLock, MonitorTest, MonitorWait, MonitorWakeUp, MonitorSet,
              MonitorBroadcast, MonitorJoin,
              MonitorStartJob, MonitorNoJob, MonitorJobReady, JobStep, JobReady, JobExits, monitorUnchanged, flagVars,
              queueVars
    <2>2. \A w \in Threads : pc'[w] = "waiting" => pc[w] = "waiting"
      <3>1. CASE MonitorBroadcast
        BY <3>1, <1>0, BroadcastEffect DEF MonitorBroadcast
      <3>2. CASE ~MonitorBroadcast
        BY <1>2, <3>2 DEF MonitorStep, MonitorLock, MonitorTest, MonitorWait, MonitorWakeUp,
                MonitorSet, MonitorJoin,
              MonitorStartJob, MonitorNoJob, MonitorJobReady, JobStep, JobReady, JobExits
      <3> QED BY <3>1, <3>2
    <2> QED BY <2>1, <2>2, NoIdleSame
  <1>3. CASE MainStep \/ Environment
    <2>1. urlQueue' = urlQueue /\ UNCHANGED threads_must_terminate
      BY <1>3 DEF MainStep, CreateThread, StartServing, AnswerCommand, SecondUnlock,
              DeleteHistory, JoinMonitor, SendExit, WaitForJob,
              Environment, ForwardCommand, ForcedShutdown, Shutdown, AcceptFails, JobFails, FallSilent, elsewhere,
              MonitorSpuriousWakeup, SpuriousWakeup,
              mainUnchanged, monitorUnchanged, flagVars, queueVars
    <2>2. \A w \in Threads : pc'[w] = "waiting" => pc[w] = "waiting"
      BY <1>0, <1>3 DEF MainStep, CreateThread, StartServing, AnswerCommand, SecondUnlock,
              DeleteHistory, JoinMonitor, SendExit, WaitForJob,
              Environment, ForwardCommand, ForcedShutdown, Shutdown, AcceptFails, JobFails, FallSilent, elsewhere,
              MonitorSpuriousWakeup, SpuriousWakeup, Goto
    <2> QED BY <2>1, <2>2, NoIdleSame
  <1> QED BY <1>1, <1>2, <1>3 DEF Next

-----------------------------------------------------------------------------
(* At the start the starting url is queued, and nothing else has happened. *)
LEMMA InitPages == Init => PInv
  <1> SUFFICES ASSUME Init PROVE PInv
    OBVIOUS
  <1>1. urlQueue = <<Start>> /\ Len(urlQueue) = 1 /\ urlQueue[1] = Start /\ 1 \in 1..Len(urlQueue)
    BY DEF Init
  <1>2. KnownInv
    BY <1>1 DEF Init, KnownInv, Settled, Queued, Tracked
  <1>3. OnceInv
    <2>1. \A j \in 1..Len(urlQueue) : j = 1
      BY <1>1
    <2> QED BY <1>1, <2>1 DEF Init, OnceInv, Settled
  <1>4. ReadInv /\ LinksInv
    BY DEF Init, ReadInv, LinksInv
  <1>5. TotalInv
    <2>1. At({"stats"}) = {}
      BY DEF Init, At
    <2>2. IsFiniteSet({}) /\ Cardinality({}) = 0
      BY FS_EmptySet
    <2>3. downloaded = {} /\ total_pages_downloaded = 0
      BY DEF Init
    <2> HIDE DEF Init
    <2> QED BY <2>1, <2>2, <2>3 DEF TotalInv
  <1>6. DirsInv /\ HandoverInv
    BY DEF Init, DirsInv, HandoverInv
  <1>7. NoIdleWorker /\ CrawlComplete
    BY DEF Init, NoIdleWorker, CrawlComplete, At
  <1> QED BY <1>2, <1>3, <1>4, <1>5, <1>6, <1>7 DEF PInv, PagesInv

(* The invariants of the pages and of the hand-over together, on top of IInv. *)
THEOREM PagesInvariance == Spec => []PInv
  <1>1. IInv /\ PInv /\ [Next]_vars => PInv'
    <2> SUFFICES ASSUME IInv, PInv, [Next]_vars PROVE PInv'
      OBVIOUS
    <2>1. CASE Next
      BY <2>1, PagesNext, DirsNext, HandoverNext, NoIdleNext, CompleteNext DEF PInv
    <2>2. CASE UNCHANGED vars
      <3> USE <2>2 DEF vars, queueVars, finishVars, historyVars, pageVars, threadVars, flagVars,
              mainVars, PInv
      <3>1. PagesInv'
        BY QuietPages
      <3>2. DirsInv' /\ HandoverInv'
        BY DEF DirsInv, HandoverInv
      <3>3. NoIdleWorker' /\ CrawlComplete'
        BY DEF NoIdleWorker, CrawlComplete, At
      <3> QED BY <3>1, <3>2, <3>3
    <2> QED BY <2>1, <2>2
  <1> QED BY <1>1, InitPages, Invariance, PTL DEF Spec

(* When the crawl is declared finished (crawl.cpp:68) every url recorded has been *)
(* downloaded or given up, and every link of a downloaded page recorded.          *)
THEOREM Complete == Spec => []CrawlComplete
  <1>1. PInv => CrawlComplete
    BY DEF PInv
  <1> QED BY <1>1, PagesInvariance, PTL

(* A page is downloaded and counted once, and never given up as well, however many *)
(* threads find however many links to it (crawl.cpp:556-563).                      *)
THEOREM Once == Spec => []EachPageOnce
  <1>1. PInv => EachPageOnce
    BY DEF PInv, PagesInv, TotalInv, KnownInv, EachPageOnce
  <1> QED BY <1>1, PagesInvariance, PTL

(* While a thread sleeps there are never more urls queued than threads awake: one *)
(* pthread_cond_signal per link pushed is enough (crawl.cpp:561).                  *)
THEOREM NoIdle == Spec => []NoIdleWorker
  <1>1. PInv => NoIdleWorker
    BY DEF PInv
  <1> QED BY <1>1, PagesInvariance, PTL

(* No crawl thread is left when main deletes urlQueue and destroys its lock, *)
(* QueueIsEmpty and stat_lock (webcrawler.cpp:371-380).  urlHistory, which    *)
(* main deletes before the join, is not part of this (NoUseAfterDelete).      *)
THEOREM Teardown == Spec => []TeardownSafe
  <1>1. PInv => TeardownSafe
    BY DEF PInv, HandoverInv, TeardownSafe
  <1> QED BY <1>1, PagesInvariance, PTL

(* main sends "/exit" exactly if the monitor went to init_jobExecutor (even if no *)
(* process came of it), never to one whose start is not over, and leaves none     *)
(* running (crawling_monitoring.cpp:80, webcrawler.cpp:382-387).                  *)
THEOREM Agreement == Spec => []JobExecutorAgreement
  <1>1. PInv => JobExecutorAgreement
    BY DEF PInv, HandoverInv, JobExecutorAgreement
  <1> QED BY <1>1, PagesInvariance, PTL

(* jobExecutor is started on a finished crawl only, and on the directory of every *)
(* page downloaded (crawling_monitoring.cpp:58-61,80,133-137).                     *)
THEOREM WholeSite == Spec => []JobGetsWholeSite
  <1>1. PInv => JobGetsWholeSite
    BY DEF PInv, HandoverInv, DirsInv, JobGetsWholeSite
  <1> QED BY <1>1, PagesInvariance, PTL

-----------------------------------------------------------------------------
(* The crawler implements CrawlPages. *)

(* A thread that downloads gets a page, one that drops what is tracked loses it, *)
(* one that reads a link that is not known learns it, the last to block finishes: *)
(* every other step changes nothing of what CrawlPages sees.                      *)
LEMMA StepImplements ==
  ASSUME IInv, PInv, Next, ~(strayUses' > 0)
  PROVE  CP!Next \/ UNCHANGED CP!vars
  <1> USE DEF CP!vars
  <1>0. /\ strayUses \in Nat /\ KeyOf \in [Urls -> Keys] /\ url \in [Threads -> Urls]
        /\ todo \in [Threads -> Seq(Urls)] /\ downloaded \subseteq Keys
    BY SiteAssumption DEF IInv, TypeOK
  <1>1. ASSUME NEW t \in Threads, AddLink(t) \/ Download(t) \/ Drop(t) \/ CountBlocked(t)
        PROVE  strayUses = 0 /\ strayUses' = 0
    BY <1>0, <1>1 DEF AddLink, Download, Drop, CountBlocked, historyVars
  <1>2. ASSUME NEW t \in Threads, Download(t) PROVE CP!Next
    <2>1. KeyOf[url[t]] \in urlHistory \ Settled /\ KeyOf[url[t]] \in Keys
      BY <1>0, <1>1, <1>2 DEF PInv, PagesInv, OnceInv, Tracked, Download
    <2>2. CP!Get(KeyOf[url[t]])
      BY <2>1, <1>2 DEF CP!Get, CP!Settled, Settled, Download, historyVars, finishVars
    <2> QED BY <2>1, <2>2 DEF CP!Next
  <1>3. ASSUME NEW t \in Threads, Drop(t) PROVE CP!Next \/ UNCHANGED CP!vars
    <2>1. CASE ~Tracked(url[t])
      BY <1>3, <2>1 DEF Drop, Tracked, historyVars, finishVars
    <2>2. CASE Tracked(url[t])
      <3>1. KeyOf[url[t]] \in urlHistory \ Settled /\ KeyOf[url[t]] \in Keys
        BY <1>0, <1>1, <1>3, <2>2 DEF PInv, PagesInv, OnceInv, Drop
      <3>2. CP!Lose(KeyOf[url[t]])
        BY <3>1, <1>3, <2>2 DEF CP!Lose, CP!Settled, Settled, Drop, Tracked, historyVars, finishVars
      <3> QED BY <3>1, <3>2 DEF CP!Next
    <2> QED BY <2>1, <2>2
  <1>4. ASSUME NEW t \in Threads, AddLink(t) PROVE CP!Next \/ UNCHANGED CP!vars
    <2> DEFINE u == Head(todo[t])
               p == KeyOf[url[t]]
    <2>1. /\ UNCHANGED <<downloaded, dropped, crawling_has_finished>>
          /\ \/ urlHistory' = urlHistory
             \/ /\ Kind[u] # "foreign" /\ KeyOf[u] \notin urlHistory
                /\ urlHistory' = urlHistory \cup {KeyOf[u]}
      <3>1. ~historyDeleted
        BY <1>0, <1>1, <1>4 DEF AddLink
      <3> QED BY <1>4, <3>1 DEF AddLink, SearchHistory, AddLinkToHistory, pageVars, finishVars
    <2>2. CASE Kind[u] # "foreign" /\ KeyOf[u] \notin urlHistory /\ urlHistory' = urlHistory \cup {KeyOf[u]}
      <3>1. pc[t] = "links" /\ todo[t] # <<>> /\ todo[t] \in Seq(Urls)
        BY <1>0, <1>4 DEF AddLink, IInv, QueueInv
      <3>2. p \in downloaded /\ Elements(todo[t]) \subseteq Elements(Links[p])
        BY <3>1, <1>1, <1>4 DEF PInv, PagesInv, ReadInv
      <3>3. u \in Elements(todo[t]) /\ u \in Urls
        <4>1. u \in Elements(todo[t])
          BY <3>1, ElementsOfTail
        <4> QED BY <4>1, <3>1, ElementsType
      <3>4. KeyOf[u] \in LinkedKeys[p]
        BY <3>2, <3>3, <2>2, <1>0 DEF LinkedKeys
      <3>5. CP!Learn(KeyOf[u]) /\ KeyOf[u] \in Keys
        BY <3>2, <3>3, <3>4, <2>1, <2>2, <1>0 DEF CP!Learn
      <3> QED BY <3>5 DEF CP!Next
    <2> QED BY <2>1, <2>2
  <1>5. ASSUME NEW t \in Threads, CountBlocked(t) PROVE CP!Next \/ UNCHANGED CP!vars
    <2>1. UNCHANGED <<urlHistory, downloaded, dropped>> /\ crawling_has_finished' = NothingLeft
      BY <1>5 DEF CountBlocked, historyVars, pageVars
    <2>2. CASE NothingLeft
      <3>1. urlHistory = Settled /\ \A k \in downloaded : LinkedKeys[k] \subseteq urlHistory
        BY <1>1, <1>5, <2>2, NothingLeftComplete DEF PInv
      <3>2. crawling_has_finished' = TRUE
        BY <2>1, <2>2
      <3> QED BY <2>1, <3>1, <3>2 DEF CP!Next, CP!Finish, CP!Settled, Settled
    <2>3. CASE ~NothingLeft
      <3>1. crawling_has_finished' = FALSE
        BY <2>1, <2>3 DEF NothingLeft
      <3>2. crawling_has_finished = FALSE
        BY <3>1, FinishedStays DEF IInv, TypeOK
      <3> QED BY <2>1, <3>1, <3>2
    <2> QED BY <2>2, <2>3
  <1>6. ASSUME NEW t \in Threads, CrashInHistory(t) PROVE FALSE
    BY <1>0, <1>6 DEF CrashInHistory
  <1> QED BY <1>2, <1>3, <1>4, <1>5, <1>6, PageSteps

(* The crawler, with its threads, locks and queue, implements CrawlPages up to the *)
(* first use of a deleted urlHistory.                                               *)
THEOREM Refinement == Spec => ImplementsCrawlPages
  <1>1. Init => CP!Init
    BY DEF Init, CP!Init
  <1>2. IInv /\ PInv /\ [Next]_vars => [strayUses' > 0 \/ CP!Next]_CP!vars
    <2>1. UNCHANGED vars => UNCHANGED CP!vars
      BY DEF vars, CP!vars, finishVars, historyVars, pageVars
    <2> QED BY <2>1, StepImplements
  <1> QED BY <1>1, <1>2, Invariance, PagesInvariance, PTL DEF Spec, ImplementsCrawlPages

=============================================================================
