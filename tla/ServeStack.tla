------------------------------ MODULE ServeStack ------------------------------
(***************************************************************************)
(* manage.py serve (serve.py, serve_supervisor.py): a run reclaims the     *)
(* ports its orphans still hold, starts the gateway and the UI, waits for  *)
(* one of them to exit or for a signal, and stops them all.  Each child    *)
(* watches its supervisor.  Runs overlap: a second serve, or the orphans   *)
(* of a killed one.  The MCP server is one more child of the same kind.    *)
(***************************************************************************)
EXTENDS Integers, FiniteSets

CONSTANTS Serves, Services

VARIABLES
  sup,      \* "none", "reclaim", "check", "up", "stopping", "gone"
  child     \* of each run and service: "none", "starting", "up", "gone"

stack == <<sup, child>>

StackInit ==
  /\ sup = [n \in Serves |-> "none"]
  /\ child = [n \in Serves |-> [v \in Services |-> "none"]]

Alive(n, v) == child[n][v] \in {"starting", "up"}
IsUp(v) == \E n \in Serves : child[n][v] = "up"
Stopped(n) == [v \in Services |-> IF Alive(n, v) THEN "gone" ELSE child[n][v]]

\* _is_reclaimable_nadir_orphan: a listener whose command line can be read and
\* whose supervisor is dead.  `mute` holds the children for which ps gives no
\* answer to one of the two questions; no parent is taken for a dead one.
Orphan(m, v, mute) ==
  /\ child[m][v] = "up" /\ <<m, v, "command">> \notin mute
  /\ sup[m] = "gone" \/ <<m, v, "parent">> \in mute

\* _reclaim_port_listeners: only orphans are signalled.
Reclaimed(m, mute) ==
  [v \in Services |-> IF Orphan(m, v, mute) THEN "gone" ELSE child[m][v]]

Serve(n) ==
  /\ sup[n] = "none" /\ sup' = [sup EXCEPT ![n] = "reclaim"]
  /\ UNCHANGED child

Reclaim(n, mute) ==
  /\ sup[n] = "reclaim" /\ sup' = [sup EXCEPT ![n] = "check"]
  /\ child' = [m \in Serves |-> Reclaimed(m, mute)]

\* assert_serve_ports_free: a port of one of its services is taken.
PortTaken == \E v \in Services : IsUp(v)

\* The check, then start_children.
StartChildren(n) ==
  /\ sup[n] = "check"
  /\ IF PortTaken
       THEN sup' = [sup EXCEPT ![n] = "gone"] /\ UNCHANGED child
       ELSE /\ sup' = [sup EXCEPT ![n] = "up"]
            /\ child' = [child EXCEPT ![n] = [v \in Services |-> "starting"]]

\* A child that finds its port taken exits.
Bind(n, v) ==
  /\ child[n][v] = "starting"
  /\ child' = [child EXCEPT ![n][v] = IF IsUp(v) THEN "gone" ELSE "up"]
  /\ UNCHANGED sup

\* Mutation: the supervisor waits for all its children.
NoticeAll(n) ==
  /\ sup[n] = "up" /\ \A v \in Services : child[n][v] = "gone"
  /\ sup' = [sup EXCEPT ![n] = "stopping"]
  /\ UNCHANGED child

\* wait_for_exit
Notice(n) ==
  /\ sup[n] = "up" /\ \E v \in Services : child[n][v] = "gone"
  /\ sup' = [sup EXCEPT ![n] = "stopping"]
  /\ UNCHANGED child

StopRequested(n) ==
  /\ sup[n] = "up" /\ sup' = [sup EXCEPT ![n] = "stopping"]
  /\ UNCHANGED child

\* stop_children reclaims the ports again at its end.
StopChildren(n, mute) ==
  /\ sup[n] = "stopping" /\ sup' = [sup EXCEPT ![n] = "gone"]
  /\ child' = [m \in Serves |-> IF m = n THEN Stopped(n) ELSE Reclaimed(m, mute)]

\* start_parent_death_watch_if_needed
WatchParent(n, v) ==
  /\ sup[n] = "gone" /\ Alive(n, v)
  /\ child' = [child EXCEPT ![n][v] = "gone"]
  /\ UNCHANGED sup

\* External: a child exits on its own, or the supervisor is killed.
ChildDies(n, v) ==
  /\ Alive(n, v) /\ child' = [child EXCEPT ![n][v] = "gone"]
  /\ UNCHANGED sup

SupervisorKilled(n) ==
  /\ sup[n] \notin {"none", "gone"} /\ sup' = [sup EXCEPT ![n] = "gone"]
  /\ UNCHANGED child

-----------------------------------------------------------------------------
\* A stack stops as a whole, whichever of its processes goes first: no UI is
\* left without its gateway, and no child without its supervisor.
StacksStopWhole ==
  []<>(\A n \in Serves :
         sup[n] = "gone" \/ (\E v \in Services : child[n][v] = "gone")
           => \A v \in Services : ~Alive(n, v))
=============================================================================
