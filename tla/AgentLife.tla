----------------------------- MODULE AgentLife -----------------------------
(***************************************************************************)
(* What the commands of a user rely on of the agent: there is one at most, *)
(* and one that was told to stop answers the requests it took before the   *)
(* next one takes any.  AgentLifecycle, with its processes, pid files and  *)
(* sockets, implements this module, and System is built from it.           *)
(***************************************************************************)
CONSTANT Crashes    \* whether agents are killed

VARIABLE agent      \* "down", "up" or "draining"

Init == agent = "down"

\* The server is bound to the socket, and takes requests.
Start == agent = "down" /\ agent' = "up"

\* The server takes no more of them.
Stop == agent = "up" /\ agent' = "draining"

\* The last request is answered.
Exit == agent = "draining" /\ agent' = "down"

Kill == Crashes /\ agent # "down" /\ agent' = "down"

Next == Start \/ Stop \/ Exit \/ Kill

Spec == Init /\ [][Next]_agent
=============================================================================
