------------------------ MODULE SessionGatewayProofs ------------------------
(***************************************************************************)
(* The safety properties of SessionGateway for any number of tunnels and   *)
(* machines. What the pool holds is only right because of what the tasks   *)
(* went through before, so the inductive invariant says where each phase   *)
(* leaves the session's heartbeat, key and pool entry.                     *)
(***************************************************************************)
EXTENDS SessionGateway, TLAPS

(* A heartbeat is stored only on encrypted tunnels, a notification only    *)
(* follows a stored heartbeat, and a tunnel not yet accepted has neither.  *)
HeartbeatsAreSecure ==
  \A s \in Sessions :
    /\ phase[s] = "new" => heartbeat[s] = None /\ ~running[s]
    /\ heartbeat[s] # None => secure[s]
    /\ unsent[s] \/ notified[s] => heartbeat[s] # None

(* From identification on, the key is the machine id of the heartbeat.     *)
KeysAreHeartbeats ==
  \A s \in Sessions :
    /\ phase[s] \in {"identified", "evicting", "registered"} =>
         key[s] \in Machines /\ key[s] = heartbeat[s]
    /\ phase[s] = "evicting" => previous[s] \in Sessions

(* A pooled session sits under its key.                                    *)
PoolKeys ==
  \A m \in Machines : pool[m] # None => key[pool[m]] = m /\ heartbeat[pool[m]] = m

(* A stopped gateway has no task left.                                     *)
StoppedTasksAreDone == ~serving => \A s \in Sessions : phase[s] = "done"

IInv ==
  /\ TypeOK
  /\ HeartbeatsAreSecure
  /\ KeysAreHeartbeats
  /\ PoolKeys
  /\ StoppedTasksAreDone
  /\ PooledSessionsAreWatched
  /\ NoOrphanSession

-----------------------------------------------------------------------------
(* Init establishes the invariant.                                         *)
LEMMA InitIInv == Init => IInv
BY NoneAssumption
   DEF Init, IInv, TypeOK, Phases, HeartbeatsAreSecure, KeysAreHeartbeats, PoolKeys,
       StoppedTasksAreDone, PooledSessionsAreWatched, NoOrphanSession

(* The heartbeat RPC and a disconnect preserve it.                         *)
LEMMA SessionStep ==
  ASSUME IInv, NEW s \in Sessions,
         \/ \E request \in Request : Heartbeat(s, request)
         \/ NotifyHeartbeat(s)
         \/ Disconnect(s)
  PROVE  IInv'
<1> USE NoneAssumption DEF IInv
<1>1. ASSUME NEW request \in Request, Heartbeat(s, request) PROVE IInv'
  <2> USE <1>1 DEF Heartbeat, Admitted, Request
  <2>1. TypeOK' BY DEF TypeOK
  <2>2. HeartbeatsAreSecure' BY DEF TypeOK, HeartbeatsAreSecure
  <2>3. KeysAreHeartbeats' BY DEF TypeOK, KeysAreHeartbeats
  <2>4. PoolKeys' BY DEF TypeOK, PoolKeys
  <2>5. StoppedTasksAreDone' /\ PooledSessionsAreWatched' /\ NoOrphanSession'
    BY DEF StoppedTasksAreDone, PooledSessionsAreWatched, NoOrphanSession
  <2> QED BY <2>1, <2>2, <2>3, <2>4, <2>5
<1>2. ASSUME NotifyHeartbeat(s) PROVE IInv'
  BY <1>2 DEF NotifyHeartbeat, TypeOK, HeartbeatsAreSecure, KeysAreHeartbeats, PoolKeys,
              StoppedTasksAreDone, PooledSessionsAreWatched, NoOrphanSession
<1>3. ASSUME Disconnect(s) PROVE IInv'
  BY <1>3 DEF Disconnect, TypeOK, HeartbeatsAreSecure, KeysAreHeartbeats, PoolKeys,
              StoppedTasksAreDone, PooledSessionsAreWatched, NoOrphanSession
<1> QED BY <1>1, <1>2, <1>3

(* Every step of a session's task preserves it.                            *)
LEMMA TaskStep ==
  ASSUME IInv, NEW s \in Sessions, Task(s) PROVE IInv'
<1> USE NoneAssumption DEF IInv
<1>1. ASSUME NEW upgraded \in BOOLEAN, Accept(s, upgraded) PROVE IInv'
  <2> USE <1>1 DEF Accept
  <2>1. TypeOK' BY DEF TypeOK, Phases
  <2>2. HeartbeatsAreSecure' /\ KeysAreHeartbeats'
    BY DEF TypeOK, HeartbeatsAreSecure, KeysAreHeartbeats
  <2>3. PoolKeys' /\ StoppedTasksAreDone' BY DEF PoolKeys, StoppedTasksAreDone
  <2>4. PooledSessionsAreWatched' BY DEF TypeOK, PooledSessionsAreWatched
  <2>5. NoOrphanSession' BY DEF TypeOK, NoOrphanSession
  <2> QED BY <2>1, <2>2, <2>3, <2>4, <2>5
<1>2. ASSUME RejectTunnel(s) PROVE IInv'
  BY <1>2 DEF RejectTunnel, TypeOK, Phases, HeartbeatsAreSecure, KeysAreHeartbeats, PoolKeys,
              StoppedTasksAreDone, PooledSessionsAreWatched, NoOrphanSession
<1>3. ASSUME FirstHeartbeat(s) PROVE IInv'
  <2> USE <1>3 DEF FirstHeartbeat
  <2>1. TypeOK' BY DEF TypeOK, Phases
  <2>2. HeartbeatsAreSecure' /\ KeysAreHeartbeats'
    BY DEF TypeOK, HeartbeatsAreSecure, KeysAreHeartbeats
  <2>3. \A m \in Machines : pool[m] # s
    BY DEF TypeOK, PooledSessionsAreWatched, StoppedTasksAreDone
  <2>4. PoolKeys' /\ StoppedTasksAreDone' /\ PooledSessionsAreWatched'
    BY <2>3 DEF TypeOK, PoolKeys, StoppedTasksAreDone, PooledSessionsAreWatched
  <2>5. NoOrphanSession' BY DEF TypeOK, NoOrphanSession
  <2> QED BY <2>1, <2>2, <2>4, <2>5
<1>4. ASSUME GiveUp(s) PROVE IInv'
  <2> USE <1>4 DEF GiveUp
  <2>1. TypeOK' BY DEF TypeOK, Phases
  <2>2. HeartbeatsAreSecure' /\ KeysAreHeartbeats'
    BY DEF TypeOK, HeartbeatsAreSecure, KeysAreHeartbeats
  <2>3. PoolKeys' /\ StoppedTasksAreDone' /\ PooledSessionsAreWatched'
    BY DEF TypeOK, PoolKeys, StoppedTasksAreDone, PooledSessionsAreWatched
  <2>4. NoOrphanSession' BY DEF TypeOK, NoOrphanSession
  <2> QED BY <2>1, <2>2, <2>3, <2>4
<1>5. ASSUME Register(s) PROVE IInv'
  <2> USE <1>5 DEF Register
  <2>1. key[s] \in Machines /\ key[s] = heartbeat[s] BY DEF KeysAreHeartbeats
  <2>2. TypeOK' BY <2>1 DEF TypeOK, Phases
  <2>3. HeartbeatsAreSecure' BY DEF TypeOK, HeartbeatsAreSecure
  <2>4. KeysAreHeartbeats' BY <2>1 DEF TypeOK, KeysAreHeartbeats
  <2>5. PoolKeys' /\ StoppedTasksAreDone'
    BY <2>1 DEF TypeOK, PoolKeys, StoppedTasksAreDone
  <2>6. PooledSessionsAreWatched' BY <2>1 DEF TypeOK, PooledSessionsAreWatched
  <2>7. NoOrphanSession'
    <3> SUFFICES ASSUME NEW r \in Sessions, serving', running'[r],
                        phase'[r] \in {"evicting", "registered"}, pool'[key'[r]] # r
                 PROVE  \E t \in Sessions : phase'[t] = "evicting" /\ previous'[t] = r
      BY DEF NoOrphanSession
    <3>1. r # s BY <2>1 DEF TypeOK
    <3>2. CASE pool[key[r]] = r
      <4>1. key[r] = key[s]
        BY <2>1, <3>1, <3>2 DEF TypeOK, KeysAreHeartbeats
      <4> QED BY <2>1, <3>1, <3>2, <4>1 DEF TypeOK
    <3>3. CASE pool[key[r]] # r
      BY <2>1, <3>1, <3>3 DEF TypeOK, NoOrphanSession
    <3> QED BY <3>2, <3>3
  <2> QED BY <2>2, <2>3, <2>4, <2>5, <2>6, <2>7
<1>6. ASSUME StopPrevious(s) PROVE IInv'
  <2> USE <1>6 DEF StopPrevious
  <2>1. previous[s] \in Sessions BY DEF KeysAreHeartbeats
  <2>2. TypeOK' BY <2>1 DEF TypeOK, Phases
  <2>3. HeartbeatsAreSecure' /\ KeysAreHeartbeats'
    BY <2>1 DEF TypeOK, HeartbeatsAreSecure, KeysAreHeartbeats
  <2>4. PoolKeys' /\ StoppedTasksAreDone' /\ PooledSessionsAreWatched'
    BY DEF TypeOK, PoolKeys, StoppedTasksAreDone, PooledSessionsAreWatched
  <2>5. NoOrphanSession' BY <2>1 DEF TypeOK, NoOrphanSession
  <2> QED BY <2>2, <2>3, <2>4, <2>5
<1>7. ASSUME Unregister(s) PROVE IInv'
  <2> USE <1>7 DEF Unregister, remove_if_current
  <2>1. key[s] \in Machines BY DEF KeysAreHeartbeats
  <2>2. TypeOK' BY <2>1 DEF TypeOK, Phases
  <2>3. HeartbeatsAreSecure' /\ KeysAreHeartbeats'
    BY DEF TypeOK, HeartbeatsAreSecure, KeysAreHeartbeats
  <2>4. PoolKeys' /\ StoppedTasksAreDone'
    BY <2>1 DEF TypeOK, PoolKeys, StoppedTasksAreDone
  <2>5. PooledSessionsAreWatched'
    BY <2>1 DEF TypeOK, PooledSessionsAreWatched, PoolKeys
  <2>6. NoOrphanSession' BY <2>1 DEF TypeOK, NoOrphanSession
  <2> QED BY <2>2, <2>3, <2>4, <2>5, <2>6
<1> QED BY <1>1, <1>2, <1>3, <1>4, <1>5, <1>6, <1>7 DEF Task

LEMMA NextIInv == IInv /\ [Next]_vars => IInv'
<1> SUFFICES ASSUME IInv, [Next]_vars PROVE IInv' OBVIOUS
<1>1. CASE Shutdown
  BY <1>1 DEF IInv, Shutdown, TypeOK, Phases, HeartbeatsAreSecure, KeysAreHeartbeats, PoolKeys,
              StoppedTasksAreDone, PooledSessionsAreWatched, NoOrphanSession
<1>2. CASE UNCHANGED vars
  BY <1>2 DEF vars, IInv, TypeOK, HeartbeatsAreSecure, KeysAreHeartbeats, PoolKeys,
              StoppedTasksAreDone, PooledSessionsAreWatched, NoOrphanSession
<1> QED BY <1>1, <1>2, SessionStep, TaskStep DEF Next

-----------------------------------------------------------------------------
(* The inductive invariant holds throughout.                               *)
THEOREM Invariance == Spec => []IInv
BY InitIInv, NextIInv, PTL DEF Spec

(* Pooled sessions are encrypted and identified by their key: the          *)
(* collector never has to report a machine it cannot name.                 *)
THEOREM PooledIdentified == Spec => []PooledSessionsAreIdentified
<1>1. IInv => PooledSessionsAreIdentified
  BY NoneAssumption
     DEF IInv, TypeOK, PoolKeys, HeartbeatsAreSecure, PooledSessionsAreIdentified
<1> QED BY <1>1, Invariance, PTL

(* A running session that was registered is pooled or about to be stopped. *)
THEOREM NoOrphans == Spec => []NoOrphanSession
<1>1. IInv => NoOrphanSession BY DEF IInv
<1> QED BY <1>1, Invariance, PTL

(* While the gateway serves, a task watches every pooled session.          *)
THEOREM PooledWatched == Spec => []PooledSessionsAreWatched
<1>1. IInv => PooledSessionsAreWatched BY DEF IInv
<1> QED BY <1>1, Invariance, PTL

(* A late disconnect of a replaced session removes nobody else's entry.    *)
THEOREM LateDisconnectIsHarmless == Spec => LiveSessionOnlyReplaced
<1>1. ASSUME IInv, [Next]_vars
      PROVE  [\A m \in Machines :
                pool[m] # None /\ running[pool[m]] => pool'[m] # None]_vars
  <2> SUFFICES ASSUME Next, NEW m \in Machines, pool[m] # None, running[pool[m]]
               PROVE  pool'[m] # None
    BY <1>1 DEF vars
  <2>1. ASSUME NEW s \in Sessions, Task(s) PROVE pool'[m] # None
    <3>1. CASE Register(s)
      BY <3>1, NoneAssumption DEF Register, IInv, TypeOK, KeysAreHeartbeats
    <3>2. CASE Unregister(s)
      BY <3>2, NoneAssumption
         DEF Unregister, remove_if_current, IInv, TypeOK, KeysAreHeartbeats, PoolKeys
    <3> QED BY <2>1, <3>1, <3>2
         DEF Task, Accept, RejectTunnel, FirstHeartbeat, GiveUp, StopPrevious
  <2>2. CASE Shutdown BY <2>2 DEF Shutdown
  <2> QED BY <2>1, <2>2 DEF Next, Heartbeat, NotifyHeartbeat, Disconnect
<1> QED BY <1>1, Invariance, PTL DEF Spec, LiveSessionOnlyReplaced

-----------------------------------------------------------------------------
(* Liveness, for any number of tunnels and machines. The prover does not   *)
(* compute ENABLED, so that a task whose await is ready can take its next  *)
(* step is a hypothesis of the theorems: the two actions assign each       *)
(* variable once, under these guards, and change the phase.                *)
CanStopPrevious(s) == ENABLED <<StopPrevious(s)>>_vars
CanUnregister(s) == ENABLED <<Unregister(s)>>_vars

ReadyTasksCanStep ==
  \A s \in Sessions :
    /\ phase[s] = "evicting" => CanStopPrevious(s)
    /\ phase[s] = "registered" /\ ~running[s] => CanUnregister(s)

Dead(m, s) == serving /\ pool[m] = s /\ ~running[s]
Evicting(s) == phase[s] = "evicting"
Registered(s) == phase[s] = "registered"
Left(m, s) == pool[m] # s \/ ~serving

(* A dead session stays dead, and its task goes on where it was, until it  *)
(* has left its place.                                                     *)
LEMMA DeadStep ==
  ASSUME IInv, NEW m \in Machines, NEW s \in Sessions, Dead(m, s), [Next]_vars
  PROVE  \/ Left(m, s)'
         \/ Dead(m, s)' /\ phase'[s] = phase[s] /\ ~Unregister(s)
         \/ Dead(m, s)' /\ Evicting(s) /\ Registered(s)'
<1> USE NoneAssumption DEF Dead, Left, Evicting, Registered
<1>1. /\ phase[s] \in {"evicting", "registered"} /\ key[s] = m
      /\ serving \in BOOLEAN /\ phase \in [Sessions -> Phases]
      /\ running \in [Sessions -> BOOLEAN] /\ pool \in [Machines -> Sessions \cup {None}]
  BY DEF IInv, TypeOK, PooledSessionsAreWatched, PoolKeys
<1>2. CASE UNCHANGED vars
  BY <1>1, <1>2 DEF vars, Unregister
<1>3. CASE Shutdown
  BY <1>3 DEF Shutdown
<1>4. ASSUME NEW t \in Sessions, t # s, Task(t)
      PROVE  \/ Left(m, s)'
             \/ Dead(m, s)' /\ phase'[s] = phase[s] /\ ~Unregister(s)
  <2>1. phase'[s] = phase[s] /\ serving' = serving
    BY <1>1, <1>4 DEF Task, Accept, RejectTunnel, FirstHeartbeat, GiveUp, Register, StopPrevious,
                      Unregister
  <2>2. ~running'[s]
    <3>1. CASE StopPrevious(t)
      BY <1>1, <3>1 DEF StopPrevious
    <3>2. CASE ~StopPrevious(t)
      BY <1>1, <1>4, <3>2 DEF Task, Accept, RejectTunnel, FirstHeartbeat, GiveUp, Register,
                              Unregister
    <3> QED BY <3>1, <3>2
  <2>3. ~Unregister(s)
    BY <1>1, <2>1 DEF Unregister
  <2> QED BY <2>1, <2>2, <2>3
<1>5. ASSUME Task(s)
      PROVE  Left(m, s)' \/ (Dead(m, s)' /\ Evicting(s) /\ Registered(s)')
  <2>1. StopPrevious(s) \/ Unregister(s)
    BY <1>1, <1>5 DEF Task, Accept, RejectTunnel, FirstHeartbeat, GiveUp, Register
  <2>2. CASE StopPrevious(s)
    BY <1>1, <2>2 DEF StopPrevious
  <2>3. CASE Unregister(s)
    BY <1>1, <2>3 DEF Unregister, remove_if_current
  <2> QED BY <2>1, <2>2, <2>3
<1>6. ASSUME NEW t \in Sessions,
             \/ \E request \in Request : Heartbeat(t, request)
             \/ NotifyHeartbeat(t)
             \/ Disconnect(t)
      PROVE  Dead(m, s)' /\ phase'[s] = phase[s] /\ ~Unregister(s)
  BY <1>1, <1>6 DEF Heartbeat, NotifyHeartbeat, Disconnect, Unregister
<1> QED BY <1>2, <1>3, <1>4, <1>5, <1>6 DEF Next

(* The task of a pooled session that died wakes up, finishes the eviction  *)
(* it may be in, and removes its session, unless another task has taken    *)
(* the place meanwhile (gateway.rs, accept_session).                       *)
THEOREM DeadLeave == Spec /\ []ReadyTasksCanStep => DeadSessionsLeave
<1> SUFFICES ASSUME NEW m \in Machines, NEW s \in Sessions
             PROVE  Spec /\ []ReadyTasksCanStep =>
                      ((serving /\ pool[m] = s /\ ~running[s]) ~> (pool[m] # s \/ ~serving))
  BY DEF DeadSessionsLeave
<1>1. IInv /\ Dead(m, s) => Evicting(s) \/ Registered(s)
  BY NoneAssumption DEF IInv, PooledSessionsAreWatched, Dead, Evicting, Registered
<1>2. IInv /\ Dead(m, s) /\ Evicting(s) /\ [Next]_vars =>
        Left(m, s)' \/ (Dead(m, s)' /\ (Evicting(s)' \/ Registered(s)'))
  BY DeadStep DEF Evicting
<1>3. IInv /\ Dead(m, s) /\ Evicting(s) /\ <<StopPrevious(s)>>_vars =>
        Left(m, s)' \/ (Dead(m, s)' /\ Registered(s)')
  <2> SUFFICES ASSUME IInv, Dead(m, s), Evicting(s), StopPrevious(s)
               PROVE  Left(m, s)' \/ (Dead(m, s)' /\ Registered(s)')
    BY DEF vars
  <2>1. Next
    BY DEF Next, Task
  <2>2. phase'[s] # phase[s]
    BY DEF StopPrevious, IInv, TypeOK
  <2> QED BY <2>1, <2>2, DeadStep
<1>4. IInv /\ Dead(m, s) /\ Registered(s) /\ [Next]_vars =>
        Left(m, s)' \/ (Dead(m, s)' /\ Registered(s)')
  BY DeadStep DEF Evicting, Registered
<1>5. IInv /\ Dead(m, s) /\ Registered(s) /\ <<Unregister(s)>>_vars => Left(m, s)'
  <2> SUFFICES ASSUME IInv, Dead(m, s), Registered(s), Unregister(s)
               PROVE  Left(m, s)'
    BY DEF vars
  <2>1. Next
    BY DEF Next, Task
  <2> QED BY <2>1, DeadStep DEF Evicting, Registered
<1>6. /\ ReadyTasksCanStep /\ Evicting(s) => CanStopPrevious(s)
      /\ ReadyTasksCanStep /\ Dead(m, s) /\ Registered(s) => CanUnregister(s)
  BY DEF ReadyTasksCanStep, Evicting, Registered, Dead
<1>7. /\ serving /\ pool[m] = s /\ ~running[s] => Dead(m, s)
      /\ Left(m, s) => pool[m] # s \/ ~serving
  BY DEF Dead, Left
<1>8. Fairness => TaskFairness(s)
  BY DEF Fairness
<1> QED BY <1>1, <1>2, <1>3, <1>4, <1>5, <1>6, <1>7, <1>8, Invariance, PTL
        DEF Spec, TaskFairness, CanStopPrevious, CanUnregister

(* What a session that lost its place waits for: a task that has yet to    *)
(* stop it.                                                                *)
Replaced(s) == serving /\ phase[s] \in {"evicting", "registered"} /\ pool[key[s]] # s
Stopped(s) == ~running[s] \/ ~serving
Stops(t, s) == serving /\ phase[t] = "evicting" /\ previous[t] = s

LEMMA StopsStep ==
  ASSUME IInv, NEW s \in Sessions, NEW t \in Sessions, Stops(t, s), [Next]_vars
  PROVE  /\ Stops(t, s)' \/ Stopped(s)'
         /\ StopPrevious(t) => Stopped(s)'
<1> USE NoneAssumption DEF Stops, Stopped
<1>1. /\ serving \in BOOLEAN /\ phase \in [Sessions -> Phases]
      /\ running \in [Sessions -> BOOLEAN]
      /\ previous \in [Sessions -> Sessions \cup {None}]
  BY DEF IInv, TypeOK
<1>2. StopPrevious(t) => Stopped(s)'
  BY <1>1 DEF StopPrevious
<1>3. CASE UNCHANGED vars
  BY <1>2, <1>3 DEF vars
<1>4. CASE Shutdown
  BY <1>2, <1>4 DEF Shutdown
<1>5. ASSUME NEW u \in Sessions, u # t, Task(u)
      PROVE  Stops(t, s)'
  BY <1>1, <1>5 DEF Task, Accept, RejectTunnel, FirstHeartbeat, GiveUp, Register, StopPrevious,
                    Unregister
<1>6. CASE Task(t)
  BY <1>2, <1>6 DEF Task, Accept, RejectTunnel, FirstHeartbeat, GiveUp, Register, Unregister
<1>7. ASSUME NEW u \in Sessions,
             \/ \E request \in Request : Heartbeat(u, request)
             \/ NotifyHeartbeat(u)
             \/ Disconnect(u)
      PROVE  Stops(t, s)'
  BY <1>7 DEF Heartbeat, NotifyHeartbeat, Disconnect
<1> QED BY <1>2, <1>3, <1>4, <1>5, <1>6, <1>7 DEF Next

(* Whichever task took a session's place, it stops that session before it  *)
(* does anything else, so no client is left with a session nobody reads    *)
(* (gateway.rs, previous.stop().await).                                    *)
THEOREM ReplacedStop == Spec /\ []ReadyTasksCanStep => ReplacedSessionsStop
<1> SUFFICES ASSUME NEW s \in Sessions
             PROVE  Spec /\ []ReadyTasksCanStep =>
                      ((serving /\ phase[s] \in {"evicting", "registered"} /\ pool[key[s]] # s)
                         ~> (~running[s] \/ ~serving))
  BY DEF ReplacedSessionsStop
<1>1. ASSUME NEW t \in Sessions
      PROVE  Spec /\ []ReadyTasksCanStep => [](Stops(t, s) => <>Stopped(s))
  <2>1. IInv /\ Stops(t, s) /\ [Next]_vars => Stops(t, s)' \/ Stopped(s)'
    BY StopsStep
  <2>2. IInv /\ Stops(t, s) /\ <<StopPrevious(t)>>_vars => Stopped(s)'
    <3> SUFFICES ASSUME IInv, Stops(t, s), StopPrevious(t) PROVE Stopped(s)'
      BY DEF vars
    <3>1. Next
      BY DEF Next, Task
    <3> QED BY <3>1, StopsStep
  <2>3. ReadyTasksCanStep /\ Stops(t, s) => CanStopPrevious(t)
    BY DEF ReadyTasksCanStep, Stops
  <2>4. Fairness => TaskFairness(t)
    BY DEF Fairness
  <2> QED BY <2>1, <2>2, <2>3, <2>4, Invariance, PTL DEF Spec, TaskFairness, CanStopPrevious
<1>2. Spec /\ []ReadyTasksCanStep => \A t \in Sessions : [](Stops(t, s) => <>Stopped(s))
  BY <1>1
<1>3. (\A t \in Sessions : [](Stops(t, s) => <>Stopped(s)))
        => [](\A t \in Sessions : (Stops(t, s) => <>Stopped(s)))
  OBVIOUS
<1>4. (\A t \in Sessions : (Stops(t, s) => <>Stopped(s)))
        => ((\E t \in Sessions : Stops(t, s)) => <>Stopped(s))
  OBVIOUS
<1>5. IInv /\ Replaced(s) => Stopped(s) \/ \E t \in Sessions : Stops(t, s)
  BY DEF IInv, NoOrphanSession, Replaced, Stopped, Stops
<1>6. /\ serving /\ phase[s] \in {"evicting", "registered"} /\ pool[key[s]] # s => Replaced(s)
      /\ Stopped(s) => ~running[s] \/ ~serving
  BY DEF Replaced, Stopped
<1> QED BY <1>2, <1>3, <1>4, <1>5, <1>6, Invariance, PTL
=============================================================================
