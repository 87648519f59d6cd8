---------------------------- MODULE ServeInOrder ----------------------------
(***************************************************************************)
(* What the web server promises of the connections to its serving port,    *)
(* without its locks and signals: they are taken up in the order in which  *)
(* they were accepted, each one once and by one server, which has it until *)
(* it ends it and takes up no other before.                                *)
(***************************************************************************)
EXTENDS Naturals, Sequences

CONSTANTS Conns,   \* the connections to the serving port
          Servers, \* those who serve them
          None     \* nothing to serve

VARIABLES queue,    \* accepted and not taken up yet
          serves,   \* serves[s]: the connection that s serves, or None
          finished  \* closed, or abandoned by the one who served them

vars == <<queue, serves, finished>>

Queued == {queue[i] : i \in DOMAIN queue}
Busy == {serves[s] : s \in Servers} \ {None}

Init == queue = <<>> /\ serves = [s \in Servers |-> None] /\ finished = {}

Accept(c) == /\ c \notin Queued \cup Busy \cup finished
             /\ queue' = Append(queue, c)
             /\ UNCHANGED <<serves, finished>>

TakeUp(s) == /\ queue # <<>> /\ serves[s] = None
             /\ Head(queue) \notin Busy \cup finished
             /\ queue' = Tail(queue)
             /\ serves' = [serves EXCEPT ![s] = Head(queue)]
             /\ UNCHANGED finished

End(s) == /\ serves[s] # None
          /\ serves' = [serves EXCEPT ![s] = None]
          /\ finished' = finished \cup {serves[s]}
          /\ UNCHANGED queue

Next == (\E s \in Servers : TakeUp(s) \/ End(s)) \/ \E c \in Conns : Accept(c)

Spec == Init /\ [][Next]_vars
=============================================================================
