---------------------------- MODULE MCWebServer ----------------------------
(***************************************************************************)
(* Clients for TLC.  In the safety run connection a asks for a page, or    *)
(* for something that is refused, and the client of b asks for a page,     *)
(* leaves before the answer or cannot be read; on the command port one     *)
(* client sends STATS in two chunks, one sends a command that is too long  *)
(* (MaxCommand chunks fill the buffer) and one shuts the server down.      *)
(***************************************************************************)
EXTENDS WebServer, TLC

MCConns == {"a", "b"}
MCOutcomes == "a" :> {"page", "error"} @@ "b" :> {"page", "gone", "unread"}
MCChunks == "stats" :> <<"part", "STATS">> @@ "long" :> <<"part", "part", "part", "illegal">>
              @@ "stop" :> <<"SHUTDOWN">>
MCCommandConns == DOMAIN MCChunks
(* The liveness run: the cfg makes b a client that never asks for anything, and *)
(* one client of the command port leaves in the middle of a command.            *)
LiveConns == {"a", "b"}
LiveOutcomes == "a" :> {"page", "gone"} @@ "b" :> {"error"}
FewChunks == "halfway" :> <<"part">> @@ "stats" :> <<"STATS">> @@ "stop" :> <<"SHUTDOWN">>
FewCommandConns == DOMAIN FewChunks
(* The run of SHUTDOWN alone. *)
StopChunks == "stop" :> <<"SHUTDOWN">>
StopCommandConns == DOMAIN StopChunks

(* The threads of the pool run the same code; no other value is told apart by it. *)
ThreadSymmetry == Permutations(Threads)
=============================================================================
