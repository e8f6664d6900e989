--------------------------- MODULE SessionGateway ---------------------------
(***************************************************************************)
(* The gateway's accept loop, its session tasks and the session pool       *)
(* (gateway.rs, session.rs, session_pool.rs). One element of Sessions is   *)
(* one accepted tunnel with the task serving it. A task negotiates, waits  *)
(* for the first heartbeat, puts its session into the pool in the place of *)
(* the machine's previous one, stops that one, watches its own session     *)
(* until it dies, and then removes it if it is still the pooled one. Tasks *)
(* run concurrently, and so do the heartbeat handlers of a session.        *)
(***************************************************************************)
CONSTANTS
  Sessions,           \* accepted tunnels, each with a task of its own
  Machines,           \* machine ids
  AdmissionRequired,  \* whether an admission token is configured
  None                \* no machine id, no session

ASSUME AdmissionAssumption == AdmissionRequired \in BOOLEAN
ASSUME NoneAssumption == None \notin Sessions \cup Machines

VARIABLES
  serving,    \* the accept loop runs; FALSE once the gateway shuts down
  phase,      \* where each session's task is
  secure,     \* the tunnel was upgraded to an encrypted one
  running,    \* the session's RPC manager runs
  heartbeat,  \* SessionState.heartbeat: the machine id it carries, or None
  unsent,     \* a heartbeat was stored whose watch notification is not sent
  notified,   \* the watch channel holds a heartbeat
  key,        \* the machine id the task registers under
  previous,   \* the session its insertion returned, still to be stopped
  pool        \* SessionPool: machine id -> session

vars == <<serving, phase, secure, running, heartbeat, unsent, notified, key, previous, pool>>

Phases == {"new", "waiting", "identified", "evicting", "registered", "done"}

TypeOK ==
  /\ serving \in BOOLEAN
  /\ phase \in [Sessions -> Phases]
  /\ secure \in [Sessions -> BOOLEAN]
  /\ running \in [Sessions -> BOOLEAN]
  /\ heartbeat \in [Sessions -> Machines \cup {None}]
  /\ unsent \in [Sessions -> BOOLEAN]
  /\ notified \in [Sessions -> BOOLEAN]
  /\ key \in [Sessions -> Machines \cup {None}]
  /\ previous \in [Sessions -> Sessions \cup {None}]
  /\ pool \in [Machines -> Sessions \cup {None}]

Init ==
  /\ serving = TRUE
  /\ phase = [s \in Sessions |-> "new"]
  /\ secure = [s \in Sessions |-> FALSE]
  /\ running = [s \in Sessions |-> FALSE]
  /\ heartbeat = [s \in Sessions |-> None]
  /\ unsent = [s \in Sessions |-> FALSE]
  /\ notified = [s \in Sessions |-> FALSE]
  /\ key = [s \in Sessions |-> None]
  /\ previous = [s \in Sessions |-> None]
  /\ pool = [m \in Machines |-> None]

-----------------------------------------------------------------------------
(* The heartbeat RPC.                                                      *)

(* What a client may send: a machine id or none, and a token that matches  *)
(* the configured one or does not.                                         *)
Request == [machine_id : Machines \cup {None}, token_matches : BOOLEAN]

(* Mutant: the machine id may change between heartbeats.                   *)
AdmittedUnpinned(s, request) ==
  /\ request.machine_id # None
  /\ secure[s]
  /\ AdmissionRequired => request.token_matches

(* The early returns of the handler, in the order of the code.             *)
Admitted(s, request) ==
  /\ request.machine_id # None
  /\ secure[s]
  /\ AdmissionRequired => request.token_matches
  /\ heartbeat[s] \in {None, request.machine_id}

(* The handler up to the release of the state lock.                        *)
Heartbeat(s, request) ==
  /\ running[s]
  /\ Admitted(s, request)
  /\ heartbeat' = [heartbeat EXCEPT ![s] = request.machine_id]
  /\ unsent' = [unsent EXCEPT ![s] = TRUE]
  /\ UNCHANGED <<serving, phase, secure, running, notified, key, previous, pool>>

(* heartbeat_tx.send_replace, after the lock was released.                 *)
NotifyHeartbeat(s) ==
  /\ unsent[s]
  /\ unsent' = [unsent EXCEPT ![s] = FALSE]
  /\ notified' = [notified EXCEPT ![s] = TRUE]
  /\ UNCHANGED <<serving, phase, secure, running, heartbeat, key, previous, pool>>

(* The tunnel breaks, the client leaves or nothing arrives for 30 s.       *)
Disconnect(s) ==
  /\ running[s]
  /\ running' = [running EXCEPT ![s] = FALSE]
  /\ UNCHANGED <<serving, phase, secure, heartbeat, unsent, notified, key, previous, pool>>

-----------------------------------------------------------------------------
(* accept_session, one task per tunnel.                                    *)

(* Negotiation ends with an encrypted or a plaintext tunnel.               *)
Accept(s, upgraded) ==
  /\ serving
  /\ phase[s] = "new"
  /\ phase' = [phase EXCEPT ![s] = "waiting"]
  /\ secure' = [secure EXCEPT ![s] = upgraded]
  /\ running' = [running EXCEPT ![s] = TRUE]
  /\ UNCHANGED <<serving, heartbeat, unsent, notified, key, previous, pool>>

(* Negotiation fails, or the tunnel has no metadata.                       *)
RejectTunnel(s) ==
  /\ serving
  /\ phase[s] = "new"
  /\ phase' = [phase EXCEPT ![s] = "done"]
  /\ UNCHANGED <<serving, secure, running, heartbeat, unsent, notified, key, previous, pool>>

(* wait_for_first_heartbeat returns the session's state, whether or not    *)
(* the session still runs; its machine id becomes the key.                 *)
FirstHeartbeat(s) ==
  /\ phase[s] = "waiting"
  /\ notified[s]
  /\ phase' = [phase EXCEPT ![s] = "identified"]
  /\ key' = [key EXCEPT ![s] = heartbeat[s]]
  /\ UNCHANGED <<serving, secure, running, heartbeat, unsent, notified, previous, pool>>

(* No heartbeat within 15 s, or the session was found dead. Both race the  *)
(* notification, so a notified session may be given up as well. The        *)
(* session is dropped, and its RPC manager with it.                        *)
GiveUp(s) ==
  /\ phase[s] = "waiting"
  /\ phase' = [phase EXCEPT ![s] = "done"]
  /\ running' = [running EXCEPT ![s] = FALSE]
  /\ UNCHANGED <<serving, secure, heartbeat, unsent, notified, key, previous, pool>>

(* Mutant: the previous session is dropped from the pool and forgotten.    *)
RegisterWithoutEviction(s) ==
  /\ phase[s] = "identified"
  /\ pool' = [pool EXCEPT ![key[s]] = s]
  /\ phase' = [phase EXCEPT ![s] = "registered"]
  /\ UNCHANGED <<serving, secure, running, heartbeat, unsent, notified, key, previous>>

(* sessions.insert: the previous session is returned, to be stopped.       *)
Register(s) ==
  /\ phase[s] = "identified"
  /\ pool' = [pool EXCEPT ![key[s]] = s]
  /\ previous' = [previous EXCEPT ![s] = pool[key[s]]]
  /\ phase' = [phase EXCEPT ![s] = IF pool[key[s]] = None THEN "registered" ELSE "evicting"]
  /\ UNCHANGED <<serving, secure, running, heartbeat, unsent, notified, key>>

(* Mutant: the previous session is released but not stopped.               *)
ReleasePrevious(s) ==
  /\ phase[s] = "evicting"
  /\ previous' = [previous EXCEPT ![s] = None]
  /\ phase' = [phase EXCEPT ![s] = "registered"]
  /\ UNCHANGED <<serving, secure, running, heartbeat, unsent, notified, key, pool>>

(* previous.stop().await has finished.                                     *)
StopPrevious(s) ==
  /\ phase[s] = "evicting"
  /\ running' = [running EXCEPT ![previous[s]] = FALSE]
  /\ previous' = [previous EXCEPT ![s] = None]
  /\ phase' = [phase EXCEPT ![s] = "registered"]
  /\ UNCHANGED <<serving, secure, heartbeat, unsent, notified, key, pool>>

(* Mutants: removal without the pointer comparison; no removal at all.     *)
remove_always(m, s) == pool' = [pool EXCEPT ![m] = None]

remove_never(m, s) == pool' = pool

remove_if_current(m, s) ==
  pool' = IF pool[m] = s THEN [pool EXCEPT ![m] = None] ELSE pool

(* The task wakes once a second; it finds its session dead.                *)
Unregister(s) ==
  /\ phase[s] = "registered"
  /\ ~running[s]
  /\ remove_if_current(key[s], s)
  /\ phase' = [phase EXCEPT ![s] = "done"]
  /\ UNCHANGED <<serving, secure, running, heartbeat, unsent, notified, key, previous>>

(* The shutdown signal, or the listener failing: every task is aborted at  *)
(* the await it is in, which runs neither the eviction nor the removal,    *)
(* and drops its session unless the pool still holds it.                   *)
Shutdown ==
  /\ serving
  /\ serving' = FALSE
  /\ phase' = [s \in Sessions |-> "done"]
  /\ running' = [s \in Sessions |-> running[s] /\ \E m \in Machines : pool[m] = s]
  /\ UNCHANGED <<secure, heartbeat, unsent, notified, key, previous, pool>>

-----------------------------------------------------------------------------
Task(s) ==
  \/ \E upgraded \in BOOLEAN : Accept(s, upgraded)
  \/ RejectTunnel(s)
  \/ FirstHeartbeat(s)
  \/ GiveUp(s)
  \/ Register(s)
  \/ StopPrevious(s)
  \/ Unregister(s)

Next ==
  \/ \E s \in Sessions :
       \/ Task(s)
       \/ \E request \in Request : Heartbeat(s, request)
       \/ NotifyHeartbeat(s)
       \/ Disconnect(s)
  \/ Shutdown

(* The runtime keeps polling a task whose await is ready; a first          *)
(* heartbeat, a disconnect or a shutdown may never come.                   *)
TaskFairness(s) ==
  /\ WF_vars(NotifyHeartbeat(s))
  /\ WF_vars(FirstHeartbeat(s) \/ GiveUp(s))
  /\ WF_vars(Register(s))
  /\ WF_vars(StopPrevious(s))
  /\ WF_vars(Unregister(s))

Fairness == \A s \in Sessions : TaskFairness(s)

Spec == Init /\ [][Next]_vars /\ Fairness

-----------------------------------------------------------------------------
(* A pooled session has an encrypted tunnel and a stored heartbeat that    *)
(* names the machine it is pooled under, for as long as it is pooled. So   *)
(* the collector always finds the machine's view; one machine without one  *)
(* would be reported under the nil id, and the controller refuses such a   *)
(* snapshot as a whole.                                                    *)
PooledSessionsAreIdentified ==
  \A m \in Machines : pool[m] # None => secure[pool[m]] /\ heartbeat[pool[m]] = m

(* No session is lost alive: once registered, a running session is the     *)
(* pooled one of its machine or some task is about to stop it.             *)
NoOrphanSession ==
  \A s \in Sessions :
    serving /\ running[s] /\ phase[s] \in {"evicting", "registered"} =>
      \/ pool[key[s]] = s
      \/ \E t \in Sessions : phase[t] = "evicting" /\ previous[t] = s

(* The pool never keeps what nobody watches: while the gateway serves, a   *)
(* pooled session's task is still there to remove it.                      *)
PooledSessionsAreWatched ==
  \A m \in Machines :
    serving /\ pool[m] # None => phase[pool[m]] \in {"evicting", "registered"}

(* A late disconnect is harmless: a machine loses its entry only when the  *)
(* session in it is dead; otherwise the entry is replaced.                 *)
LiveSessionOnlyReplaced ==
  [][\A m \in Machines :
       pool[m] # None /\ running[pool[m]] => pool'[m] # None]_vars

(* A dead session leaves the pool.                                         *)
DeadSessionsLeave ==
  \A m \in Machines, s \in Sessions :
    (serving /\ pool[m] = s /\ ~running[s]) ~> (pool[m] # s \/ ~serving)

(* A session that lost its place is stopped, so that the client it serves  *)
(* reconnects instead of heart-beating into a session nobody reads.        *)
ReplacedSessionsStop ==
  \A s \in Sessions :
    (serving /\ phase[s] \in {"evicting", "registered"} /\ pool[key[s]] # s)
      ~> (~running[s] \/ ~serving)
=============================================================================
