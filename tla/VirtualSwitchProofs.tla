------------------------ MODULE VirtualSwitchProofs ------------------------
(***************************************************************************)
(* Proofs about module VirtualSwitch, for every set of virtual switches,   *)
(* datapaths and cables and every dependency between them.  The first half *)
(* holds whatever is queued when an event happens; the second half is      *)
(* about a loop that runs the handlers of earlier completions first        *)
(* (StaleCompletions = FALSE; with StaleCompletions the run vs_backoff     *)
(* refutes OnlineOnlyIfReady).                                             *)
(***************************************************************************)
EXTENDS VirtualSwitch, FiniteSetTheorems, TLAPS

\* The records of TypeOK
Rec ==
  [state    : {"down", "try_connecting", "connected"},
   sock     : {"closed", "connecting", "failed", "open"},
   timer    : BOOLEAN,
   reads    : BOOLEAN,
   ready    : Seq(Completions),
   interest : SUBSET Dpids]

\* What holds of one virtual switch after every handler: it is registered at
\* all its switches or at none, at all if it is connected, and only while it
\* is ready.
Sound(v, r, on, lk) ==
  /\ r.interest # {} => /\ r.interest = Deps[v]
                        /\ Ready(v, on, lk)
                        /\ r.state # "down"
  /\ r.state = "connected" => r.interest = Deps[v]

Registrations ==
  fault = "none" => \A v \in VSwitches : Sound(v, vs[v], online, links)

\* The inductive invariant
IInv == TypeOK /\ Registrations /\ ReadyIsNotDown

-----------------------------------------------------------------------------
\* The parts of handlers

\* A virtual switch whose dependencies are online and ready stays ready when
\* nothing it looks at shrinks: no route is lost by a new switch or link.
LEMMA ReachableMonotone ==
  ASSUME NEW from, NEW on, NEW lk, NEW on2, NEW lk2,
         on \subseteq on2, lk \subseteq lk2
  PROVE  Reachable(from, on, lk) \subseteq Reachable(from, on2, lk2)
  BY DEF Reachable

LEMMA ReadyMonotone ==
  ASSUME NEW v \in VSwitches, NEW on, NEW lk, NEW on2, NEW lk2,
         on \subseteq on2, lk \subseteq lk2, Ready(v, on, lk)
  PROVE  Ready(v, on2, lk2)
<1>1. Deps[v] \subseteq on2
  BY DEF Ready
<1>2. \A d \in Deps[v] : Deps[v] \subseteq Reachable(d, on2, lk2)
  BY ReachableMonotone DEF Ready
<1> QED
  BY <1>1, <1>2 DEF Ready

\* A queued completion leaves the rest of the record alone.
LEMMA QueueFields ==
  ASSUME NEW r \in Rec, NEW k \in Completions
  PROVE  /\ Queue(r, k) \in Rec
         /\ Queue(r, k) = [r EXCEPT !.ready = Append(r.ready, k)]
<1>1. Append(r.ready, k) \in Seq(Completions)
  BY DEF Rec
<1> QED
  BY <1>1 DEF Queue, Rec

\* try_connect does not touch the registrations and leaves "down".
LEMMA TryConnectFields ==
  ASSUME NEW r \in Rec
  PROVE  /\ TryConnect(r) \in Rec
         /\ TryConnect(r).state = "try_connecting"
         /\ TryConnect(r).interest = r.interest
<1> DEFINE s == [r EXCEPT !.state = "try_connecting"]
<1>1. s \in Rec /\ s.state = "try_connecting" /\ s.interest = r.interest
  BY DEF Rec
<1>2. "connect_failed" \in Completions
  BY DEF Completions
<1>3. Queue(s, "connect_failed") \in Rec
  BY <1>1, <1>2, QueueFields
<1>4. /\ Queue(s, "connect_failed").state = "try_connecting"
      /\ Queue(s, "connect_failed").interest = r.interest
  BY <1>1 DEF Queue, Rec
<1>5. CASE r.sock \in {"closed", "failed"}
  BY <1>5 DEF TryConnect, Rec
<1>6. CASE r.sock \notin {"closed", "failed"}
  BY <1>3, <1>4, <1>6 DEF TryConnect
<1> QED
  BY <1>5, <1>6

\* Closing the connection changes neither the state nor the registrations.
LEMMA DisconnectFields ==
  ASSUME NEW r \in Rec
  PROVE  /\ Disconnect(r) \in Rec
         /\ Disconnect(r).state = r.state
         /\ Disconnect(r).interest = r.interest
<1> DEFINE q == IF r.sock = "connecting" THEN Queue(r, "connect_failed") ELSE r
<1>1. q \in Rec
  BY QueueFields DEF Completions
<1>2. q.state = r.state /\ q.interest = r.interest
  BY DEF Queue, Rec
<1>3. Disconnect(r) = [q EXCEPT !.sock = "closed", !.reads = FALSE,
                                !.timer = FALSE]
  BY DEF Disconnect
<1> HIDE DEF q
<1> QED
  BY <1>1, <1>2, <1>3 DEF Rec

\* stop ends the registrations at the switches that are online, and connects
\* again only a virtual switch that was connected.
LEMMA StopFields ==
  ASSUME NEW r \in Rec, NEW on
  PROVE  /\ Stop(r, on) \in Rec
         /\ Stop(r, on).interest = r.interest \ on
         /\ Stop(r, on).state = IF r.state = "connected"
                                THEN "try_connecting" ELSE r.state
<1> DEFINE s == [Disconnect(r) EXCEPT !.interest = @ \ on]
<1>1. s \in Rec /\ s.state = r.state /\ s.interest = r.interest \ on
  BY DisconnectFields DEF Rec
<1>2. Stop(r, on) = IF r.state = "connected" THEN TryConnect(s) ELSE s
  BY DEF Stop
<1> HIDE DEF s
<1> QED
  BY <1>1, <1>2, TryConnectFields

\* check_online leaves a virtual switch down exactly if it is not ready.
LEMMA CheckOnlineFields ==
  ASSUME NEW v \in VSwitches, NEW r \in Rec, NEW on, NEW lk
  PROVE  /\ CheckOnline(v, r, on, lk) \in Rec
         /\ CheckOnline(v, r, on, lk).state = "down" <=> ~Ready(v, on, lk)
         /\ CheckOnline(v, r, on, lk).state = "connected" =>
              r.state = "connected"
         /\ CheckOnline(v, r, on, lk).interest =
              IF GoesDown(v, r, on, lk) THEN r.interest \ on ELSE r.interest
<1>1. CASE GoesDown(v, r, on, lk)
  <2> DEFINE d == [r EXCEPT !.state = "down"]
  <2>1. d \in Rec /\ d.state = "down" /\ d.interest = r.interest
    BY DEF Rec
  <2>2. CheckOnline(v, r, on, lk) = Stop(d, on)
    BY <1>1 DEF CheckOnline, GoesDown
  <2> HIDE DEF d
  <2> QED
    BY <1>1, <2>1, <2>2, StopFields DEF GoesDown
<1>2. CASE ~GoesDown(v, r, on, lk) /\ Ready(v, on, lk) /\ r.state = "down"
  BY <1>2, TryConnectFields DEF CheckOnline, GoesDown
<1>3. CASE ~GoesDown(v, r, on, lk) /\ ~(Ready(v, on, lk) /\ r.state = "down")
  BY <1>3 DEF CheckOnline, GoesDown
<1> QED
  BY <1>1, <1>2, <1>3

\* check_online re-establishes what Sound says, whatever became of the network,
\* for a virtual switch that is registered at the switches that are left.
LEMMA CheckOnlineSound ==
  ASSUME NEW v \in VSwitches, NEW r \in Rec, NEW on, NEW lk,
         r.interest # {} => r.interest = Deps[v] \cap on /\ r.state # "down",
         r.state = "connected" => r.interest = Deps[v] \cap on
  PROVE  Sound(v, CheckOnline(v, r, on, lk), on, lk)
<1> DEFINE c == CheckOnline(v, r, on, lk)
<1>1. /\ c.state = "down" <=> ~Ready(v, on, lk)
      /\ c.state = "connected" => r.state = "connected"
      /\ c.interest = IF GoesDown(v, r, on, lk) THEN r.interest \ on
                                                ELSE r.interest
  BY CheckOnlineFields
<1> HIDE DEF c
<1>2. CASE GoesDown(v, r, on, lk)
  <2>1. c.interest = {} /\ c.state = "down"
    BY <1>1, <1>2 DEF GoesDown
  <2> QED
    BY <2>1 DEF Sound, c
<1>3. CASE ~GoesDown(v, r, on, lk)
  <2>1. r.state # "down" => Deps[v] \cap on = Deps[v] /\ Ready(v, on, lk)
    BY <1>3 DEF GoesDown, Ready
  <2>2. c.interest = r.interest
    BY <1>1, <1>3
  <2> QED
    BY <1>1, <2>1, <2>2 DEF Sound, c
<1> QED
  BY <1>2, <1>3

\* Calling check_online of every virtual switch makes all of them sound again
\* and leaves none down that is ready.
LEMMA CheckAllSound ==
  ASSUME NEW f \in [VSwitches -> Rec], NEW on, NEW lk,
         \A v \in VSwitches :
           /\ f[v].interest # {} => /\ f[v].interest = Deps[v] \cap on
                                    /\ f[v].state # "down"
           /\ f[v].state = "connected" => f[v].interest = Deps[v] \cap on
  PROVE  /\ CheckAll(f, on, lk) \in [VSwitches -> Rec]
         /\ \A v \in VSwitches :
              /\ Sound(v, CheckAll(f, on, lk)[v], on, lk)
              /\ CheckAll(f, on, lk)[v].state = "down" <=> ~Ready(v, on, lk)
<1>1. ASSUME NEW v \in VSwitches
      PROVE  /\ CheckOnline(v, f[v], on, lk) \in Rec
             /\ Sound(v, CheckOnline(v, f[v], on, lk), on, lk)
             /\ CheckOnline(v, f[v], on, lk).state = "down"
                  <=> ~Ready(v, on, lk)
  <2>1. f[v] \in Rec
    OBVIOUS
  <2> QED
    BY <2>1, CheckOnlineFields, CheckOnlineSound
<1> QED
  BY <1>1 DEF CheckAll

\* A recalculation after an event keeps the types and, when no switch went
\* away, all of the invariant.
LEMMA RecalculateSound ==
  ASSUME IInv, fault = "none", NEW on, NEW lk, online \subseteq on,
         online' = on, links' = lk, Recalculate(on, lk)
  PROVE  /\ vs' \in [VSwitches -> Rec]
         /\ \A v \in VSwitches : vs'[v].interest \subseteq Deps[v]
         /\ fault' \in {"none", "remove_interest"}
         /\ Registrations' /\ ReadyIsNotDown'
<1>1. vs \in [VSwitches -> Rec]
  BY DEF IInv, TypeOK, Rec
<1>2. \A v \in VSwitches :
        /\ vs[v].interest # {} => /\ vs[v].interest = Deps[v] \cap on
                                  /\ vs[v].state # "down"
        /\ vs[v].state = "connected" => vs[v].interest = Deps[v] \cap on
  BY DEF IInv, Registrations, Sound, Ready
<1>3. vs' = CheckAll(vs, on, lk)
  BY DEF Recalculate
<1>4. /\ vs' \in [VSwitches -> Rec]
      /\ \A v \in VSwitches : /\ Sound(v, vs'[v], on, lk)
                              /\ vs'[v].state = "down" <=> ~Ready(v, on, lk)
  BY <1>1, <1>2, <1>3, CheckAllSound
<1>5. \A v \in VSwitches : vs'[v].interest \subseteq Deps[v]
  BY <1>4 DEF Sound
<1>6. Registrations'
  BY <1>4 DEF Registrations
<1>7. ReadyIsNotDown'
  BY <1>4 DEF ReadyIsNotDown
<1> QED
  BY <1>4, <1>5, <1>6, <1>7 DEF Recalculate

\* TypeOK in terms of Rec.
LEMMA TypeOKRec ==
  TypeOK <=> /\ phase \in {"loaded", "running", "stopping", "stopped"}
             /\ online \subseteq Dpids
             /\ links \subseteq Cables
             /\ vs \in [VSwitches -> Rec]
             /\ \A v \in VSwitches : vs[v].interest \subseteq Deps[v]
             /\ fault \in {"none", "register_interest", "remove_interest",
                           "update_dynamic_rules", "slice"}
  BY DEF TypeOK, Rec

-----------------------------------------------------------------------------
\* The inductive invariant, event by event and handler by handler

LEMMA IInvInit == Init => IInv
<1> SUFFICES ASSUME Init PROVE IInv
  OBVIOUS
<1>1. << >> \in Seq(Completions)
  OBVIOUS
<1>2. TypeOK
  BY <1>1 DEF Init, TypeOK
<1>3. Registrations /\ ReadyIsNotDown
  BY DEF Init, Registrations, Sound, ReadyIsNotDown
<1> QED
  BY <1>2, <1>3 DEF IInv

\* The events after which calculate_routes runs, PhysicalSwitch::stop aside.
LEMMA RecalculatingEvents ==
  ASSUME IInv,
         \/ Start
         \/ \E d \in Dpids : SwitchOnline(d)
         \/ \E c \in Cables : LinkUp(c) \/ LinkDown(c)
  PROVE  IInv'
<1>1. CASE Start
  <2>1. Registrations' /\ ReadyIsNotDown'
    BY <1>1, RecalculateSound DEF Start, Settled
  <2>2. TypeOK'
    BY <1>1, RecalculateSound DEF Start, Settled, IInv, TypeOK, Rec
  <2> QED
    BY <2>1, <2>2 DEF IInv
<1>2. ASSUME NEW d \in Dpids, SwitchOnline(d) PROVE IInv'
  <2>1. Registrations' /\ ReadyIsNotDown'
    BY <1>2, RecalculateSound DEF SwitchOnline, Settled
  <2>2. TypeOK'
    BY <1>2, RecalculateSound DEF SwitchOnline, Settled, IInv, TypeOK, Rec
  <2> QED
    BY <2>1, <2>2 DEF IInv
<1>3. ASSUME NEW c \in Cables, LinkUp(c) PROVE IInv'
  <2>1. Registrations' /\ ReadyIsNotDown'
    BY <1>3, RecalculateSound DEF LinkUp, Settled
  <2>2. TypeOK'
    BY <1>3, RecalculateSound DEF LinkUp, Settled, IInv, TypeOK, Rec
  <2> QED
    BY <2>1, <2>2 DEF IInv
<1>4. ASSUME NEW c \in Cables, LinkDown(c) PROVE IInv'
  <2>1. Registrations' /\ ReadyIsNotDown'
    BY <1>4, RecalculateSound DEF LinkDown, Settled
  <2>2. TypeOK'
    BY <1>4, RecalculateSound DEF LinkDown, Settled, IInv, TypeOK, Rec
  <2> QED
    BY <2>1, <2>2 DEF IInv
<1> QED
  BY <1>1, <1>2, <1>3, <1>4

\* PhysicalSwitch::stop: the lost links are handled while the switch is still
\* registered, then the switch goes with what was registered at it.
LEMMA SwitchStopPreserves ==
  ASSUME IInv, NEW d \in Dpids, SwitchStop(d)
  PROVE  IInv'
<1> DEFINE f == IF links' = links THEN vs ELSE CheckAll(vs, online, links')
           g == [v \in VSwitches |-> [f[v] EXCEPT !.interest = @ \ {d}]]
<1>1. vs \in [VSwitches -> Rec] /\ fault = "none"
  BY DEF IInv, TypeOK, Rec, SwitchStop, Settled
<1>2. \A v \in VSwitches : Sound(v, vs[v], online, links)
  BY <1>1 DEF IInv, Registrations
<1>3. \A v \in VSwitches :
        /\ vs[v].interest # {} => /\ vs[v].interest = Deps[v] \cap online
                                  /\ vs[v].state # "down"
        /\ vs[v].state = "connected" => vs[v].interest = Deps[v] \cap online
  BY <1>2 DEF Sound, Ready
<1>4. /\ f \in [VSwitches -> Rec]
      /\ \A v \in VSwitches : Sound(v, f[v], online, links')
  BY <1>1, <1>2, <1>3, CheckAllSound
<1>5. online' = online \ {d} /\ vs' = CheckAll(g, online', links')
      /\ fault' \in {"none", "remove_interest"}
      /\ links' \subseteq links /\ phase' = phase
  BY DEF SwitchStop
<1> HIDE DEF f
<1>6. /\ g \in [VSwitches -> Rec]
      /\ \A v \in VSwitches : /\ g[v].state = f[v].state
                              /\ g[v].interest = f[v].interest \ {d}
  BY <1>4 DEF Rec
<1> HIDE DEF g
<1>7. ASSUME NEW v \in VSwitches
      PROVE  /\ g[v].interest # {} => /\ g[v].interest = Deps[v] \cap online'
                                      /\ g[v].state # "down"
             /\ g[v].state = "connected" => g[v].interest = Deps[v] \cap online'
  <2>1. f[v].interest # {} => f[v].interest = Deps[v] \cap online
    BY <1>4 DEF Sound, Ready
  <2>2. f[v].state = "connected" => f[v].interest = Deps[v] \cap online
    BY <1>4, <2>1 DEF Sound
  <2>3. (Deps[v] \cap online) \ {d} = Deps[v] \cap online'
    BY <1>5
  <2>4. f[v].interest # {} => f[v].state # "down"
    BY <1>4 DEF Sound
  <2> QED
    BY <1>6, <2>1, <2>2, <2>3, <2>4
<1>8. /\ vs' \in [VSwitches -> Rec]
      /\ \A v \in VSwitches :
           /\ Sound(v, vs'[v], online', links')
           /\ vs'[v].state = "down" <=> ~Ready(v, online', links')
  BY <1>5, <1>6, <1>7, CheckAllSound
<1>9. \A v \in VSwitches : vs'[v].interest \subseteq Deps[v]
  BY <1>8 DEF Sound
<1>10. TypeOK'
  BY <1>5, <1>8, <1>9 DEF IInv, TypeOK, Rec
<1>11. Registrations' /\ ReadyIsNotDown'
  BY <1>8 DEF Registrations, ReadyIsNotDown
<1> QED
  BY <1>10, <1>11 DEF IInv

\* The end of Hypervisor::stop: no switch is left, so nothing is registered.
LEMMA FinishStopPreserves ==
  ASSUME IInv, FinishStop
  PROVE  IInv'
<1>1. /\ vs \in [VSwitches -> Rec] /\ online = {} /\ online' = {}
      /\ links' = links /\ fault = "none" /\ fault' = "none"
  BY DEF IInv, TypeOK, Rec, FinishStop
<1>2. ASSUME NEW v \in VSwitches
      PROVE  vs[v].interest = {} /\ (vs[v].state = "connected" => Deps[v] = {})
  BY <1>1 DEF IInv, Registrations, Sound, Ready
<1>3. ASSUME NEW v \in VSwitches
      PROVE  /\ vs'[v] \in Rec /\ vs'[v].state = "down"
             /\ vs'[v].interest = {}
  <2> DEFINE r == [vs[v] EXCEPT !.state = "down"]
  <2>1. r \in Rec /\ r.state = "down" /\ r.interest = {}
    BY <1>1, <1>2, ZenonT(60) DEF Rec
  <2>2. vs'[v] = IF vs[v].state = "down" THEN vs[v] ELSE Stop(r, online)
    BY DEF FinishStop
  <2> HIDE DEF r
  <2> QED
    BY <1>1, <1>2, <2>1, <2>2, StopFields
<1>4. vs' \in [VSwitches -> Rec]
  BY <1>3 DEF FinishStop
<1>5. TypeOK'
  BY <1>3, <1>4 DEF IInv, TypeOK, Rec, FinishStop
<1>6. Registrations' /\ ReadyIsNotDown'
  BY <1>3 DEF Registrations, Sound, ReadyIsNotDown, FinishStop
<1> QED
  BY <1>5, <1>6 DEF IInv

\* A step that changes the record of one virtual switch, and of its state and
\* its registrations nothing.
LEMMA QuietStep ==
  ASSUME IInv, NEW v \in VSwitches, NEW r \in Rec,
         r.state = vs[v].state, r.interest = vs[v].interest,
         vs' = [vs EXCEPT ![v] = r],
         UNCHANGED <<phase, online, links, fault>>
  PROVE  IInv'
<1>1. vs \in [VSwitches -> Rec]
  BY DEF IInv, TypeOK, Rec
<1>2. /\ vs' \in [VSwitches -> Rec]
      /\ \A w \in VSwitches : /\ vs'[w].state = vs[w].state
                              /\ vs'[w].interest = vs[w].interest
  BY <1>1
<1>3. TypeOK'
  BY <1>2 DEF IInv, TypeOK, Rec
<1>4. Registrations' /\ ReadyIsNotDown'
  BY <1>2 DEF IInv, Registrations, Sound, ReadyIsNotDown
<1> QED
  BY <1>3, <1>4 DEF IInv

\* The operations of a virtual switch that complete are only queued.
LEMMA EventPreserves ==
  ASSUME IInv, NEW v \in VSwitches,
         \/ ConnectSucceeds(v) \/ ConnectFails(v)
         \/ TimerExpires(v) \/ ControllerLost(v)
  PROVE  IInv'
<1> DEFINE Same(r) == r \in Rec /\ r.state = vs[v].state
                                /\ r.interest = vs[v].interest
<1>1. vs[v] \in Rec
  BY DEF IInv, TypeOK, Rec
<1>2. ASSUME NEW r, Same(r), NEW k \in Completions PROVE Same(Queue(r, k))
  BY <1>2, QueueFields DEF Rec
<1>3. ASSUME NEW r, Same(r), Event(v, r) PROVE IInv'
  BY <1>3, QuietStep DEF Event
<1>4. /\ Same([vs[v] EXCEPT !.sock = "open"])
      /\ Same([vs[v] EXCEPT !.timer = FALSE])
      /\ Same([vs[v] EXCEPT !.sock = "failed", !.reads = FALSE])
  BY <1>1 DEF Rec
<1>5. {"connected", "connect_failed", "backoff_expired", "io_error"}
        \subseteq Completions
  BY DEF Completions
<1> HIDE DEF Same
<1>6. CASE ConnectSucceeds(v)
  BY <1>2, <1>3, <1>4, <1>5, <1>6 DEF ConnectSucceeds
<1>7. CASE ConnectFails(v)
  <2> DEFINE r == Queue([vs[v] EXCEPT !.sock = "failed", !.reads = FALSE],
                        "connect_failed")
  <2>1. Same(r) /\ Same(Queue(r, "io_error"))
    BY <1>2, <1>4, <1>5
  <2> QED
    BY <1>3, <1>7, <2>1 DEF ConnectFails
<1>8. CASE TimerExpires(v)
  BY <1>2, <1>3, <1>4, <1>5, <1>8 DEF TimerExpires
<1>9. CASE ControllerLost(v)
  <2> DEFINE r == [vs[v] EXCEPT !.sock = "failed", !.reads = FALSE]
             e == IF vs[v].reads THEN Queue(r, "io_error") ELSE r
  <2>1. Same(e)
    BY <1>2, <1>4, <1>5
  <2>2. Same(Queue(e, "io_error"))
    BY <1>2, <1>5, <2>1
  <2> QED
    BY <1>3, <1>9, <2>1, <2>2 DEF ControllerLost
<1> QED
  BY <1>6, <1>7, <1>8, <1>9

\* A step of one virtual switch that leaves it sound, and down only if it was.
LEMMA SoundStep ==
  ASSUME IInv, NEW v \in VSwitches, NEW r \in Rec, fault = "none",
         r.interest \subseteq Deps[v],
         fault' = "none" => Sound(v, r, online, links),
         r.state = "down" => vs[v].state = "down",
         vs' = [vs EXCEPT ![v] = r],
         UNCHANGED <<phase, online, links>>,
         fault' \in {"none", "register_interest", "remove_interest",
                     "update_dynamic_rules", "slice"}
  PROVE  IInv'
<1>1. vs \in [VSwitches -> Rec]
  BY DEF IInv, TypeOK, Rec
<1>2. vs' \in [VSwitches -> Rec] /\ vs'[v] = r
      /\ \A w \in VSwitches \ {v} : vs'[w] = vs[w]
  BY <1>1
<1>3. TypeOK'
  BY <1>2 DEF IInv, TypeOK, Rec
<1>4. Registrations'
  BY <1>2 DEF IInv, Registrations, Sound
<1>5. ReadyIsNotDown'
  BY <1>2 DEF IInv, ReadyIsNotDown
<1> QED
  BY <1>3, <1>4, <1>5 DEF IInv

\* Taking a completion from the queue.
LEMMA HandledFields ==
  ASSUME IInv, NEW v \in VSwitches, vs[v].ready # << >>
  PROVE  /\ Handled(v) \in Rec
         /\ Handled(v) = [vs[v] EXCEPT !.ready = Tail(vs[v].ready)]
<1>1. vs[v] \in Rec /\ vs[v].ready \in Seq(Completions)
  BY DEF IInv, TypeOK, Rec
<1>2. Tail(vs[v].ready) \in Seq(Completions)
  BY <1>1
<1> QED
  BY <1>1, <1>2 DEF Handled, Rec

LEMMA HandlerPreserves ==
  ASSUME IInv, NEW v \in VSwitches, Handle(v)
  PROVE  IInv'
<1> DEFINE h == Handled(v)
<1>1. /\ vs \in [VSwitches -> Rec] /\ fault = "none"
      /\ vs[v].ready # << >> /\ vs[v] \in Rec
  BY DEF IInv, TypeOK, Rec, Handle, HandleConnected, HandleConnectFailed,
         BackoffExpired, HandleIoError, Pending
<1>2. h \in Rec /\ h.state = vs[v].state /\ h.interest = vs[v].interest
  BY <1>1, HandledFields DEF Rec
<1>3. Sound(v, vs[v], online, links) /\ vs[v].interest \subseteq Deps[v]
  BY <1>1 DEF IInv, Registrations, TypeOK
<1>4. Deps[v] \subseteq Dpids
  BY VirtualSwitchAssumption
<1> HIDE DEF h
<1>5. CASE HandleConnected(v)
  <2>1. CASE vs[v].state # "try_connecting"
    BY <1>2, <1>5, <2>1, QuietStep DEF HandleConnected, h
  <2>2. CASE vs[v].state = "try_connecting"
    <3> DEFINE r == [h EXCEPT !.state = "connected", !.interest = Deps[v]]
               s == CASE r.sock \in {"open", "connecting"} ->
                           [r EXCEPT !.reads = TRUE]
                      [] r.sock = "failed" -> Queue(r, "io_error")
                      [] OTHER -> r
    <3>1. r \in Rec /\ r.state = "connected" /\ r.interest = Deps[v]
      BY <1>2, <1>4 DEF Rec
    <3>2. vs' = [vs EXCEPT ![v] = s] /\ fault' = StartThrows(v)
          /\ UNCHANGED <<phase, online, links>>
      BY <1>5, <2>2 DEF HandleConnected, RegistersAt, h
    <3> HIDE DEF r
    <3>3. s \in Rec /\ s.state = "connected" /\ s.interest = Deps[v]
      <4>1. CASE r.sock \in {"open", "connecting"}
        BY <3>1, <4>1 DEF Rec
      <4>2. CASE r.sock = "failed"
        <5>1. Queue(r, "io_error") \in Rec
              /\ Queue(r, "io_error") = [r EXCEPT !.ready =
                                           Append(r.ready, "io_error")]
          BY <3>1, QueueFields DEF Completions
        <5>2. s = Queue(r, "io_error")
          BY <4>2
        <5> QED
          BY <3>1, <5>1, <5>2 DEF Rec
      <4>3. CASE r.sock \notin {"open", "connecting", "failed"}
        BY <3>1, <4>3
      <4> QED
        BY <4>1, <4>2, <4>3
    <3> HIDE DEF s
    <3>4. fault' = "none" => Sound(v, s, online, links)
      BY <3>2, <3>3 DEF StartThrows, Sound
    <3>5. fault' \in {"none", "register_interest", "update_dynamic_rules"}
      BY <3>2 DEF StartThrows
    <3> QED
      BY <1>1, <3>2, <3>3, <3>4, <3>5, SoundStep
  <2> QED
    BY <2>1, <2>2
<1>6. CASE HandleConnectFailed(v)
  <2> DEFINE r == [h EXCEPT !.timer = @ \/ vs[v].state = "try_connecting"]
  <2>1. r \in Rec /\ r.state = vs[v].state /\ r.interest = vs[v].interest
    BY <1>2 DEF Rec
  <2> QED
    BY <1>6, <2>1, QuietStep DEF HandleConnectFailed, h
<1>7. CASE BackoffExpired(v)
  <2>1. /\ TryConnect(h) \in Rec
        /\ TryConnect(h).state = "try_connecting"
        /\ TryConnect(h).interest = vs[v].interest
    BY <1>2, TryConnectFields
  <2>2. Sound(v, TryConnect(h), online, links)
    BY <1>3, <2>1 DEF Sound
  <2> QED
    BY <1>1, <1>3, <1>7, <2>1, <2>2, SoundStep DEF BackoffExpired, h
<1>8. CASE HandleIoError(v)
  <2>1. /\ Stop(h, online) \in Rec
        /\ Stop(h, online).interest = vs[v].interest \ online
        /\ Stop(h, online).state = IF vs[v].state = "connected"
                                   THEN "try_connecting" ELSE vs[v].state
    BY <1>2, StopFields
  <2>2. vs[v].interest \ online = {}
    BY <1>3 DEF Sound, Ready
  <2>3. Sound(v, Stop(h, online), online, links)
    BY <2>1, <2>2 DEF Sound
  <2> QED
    BY <1>1, <1>8, <2>1, <2>2, <2>3, SoundStep DEF HandleIoError, h
<1> QED
  BY <1>5, <1>6, <1>7, <1>8 DEF Handle

\* The inductive invariant holds in every reachable state: the virtual
\* switches are registered and connected soundly whatever happens while
\* completions are queued.
THEOREM InductiveInvariant == Spec => []IInv
<1>1. Init => IInv
  BY IInvInit
<1>2. IInv /\ [Next]_vars => IInv'
  <2> SUFFICES ASSUME IInv, [Next]_vars PROVE IInv'
    OBVIOUS
  <2>1. CASE Start \/ \E d \in Dpids : SwitchOnline(d)
    BY <2>1, RecalculatingEvents
  <2>2. ASSUME NEW c \in Cables, LinkUp(c) \/ LinkDown(c) PROVE IInv'
    BY <2>2, RecalculatingEvents
  <2>3. ASSUME NEW d \in Dpids, SwitchStop(d) PROVE IInv'
    BY <2>3, SwitchStopPreserves
  <2>4. CASE BeginStop
    BY <2>4 DEF BeginStop, IInv, TypeOK, Registrations, ReadyIsNotDown
  <2>5. CASE FinishStop
    BY <2>5, FinishStopPreserves
  <2>6. ASSUME NEW v \in VSwitches,
               \/ ConnectSucceeds(v) \/ ConnectFails(v)
               \/ TimerExpires(v) \/ ControllerLost(v)
        PROVE  IInv'
    BY <2>6, EventPreserves
  <2>7. ASSUME NEW v \in VSwitches, Handle(v) PROVE IInv'
    BY <2>7, HandlerPreserves
  <2>8. CASE UNCHANGED vars
    BY <2>8 DEF vars, IInv, TypeOK, Registrations, ReadyIsNotDown
  <2> QED
    BY <2>1, <2>2, <2>3, <2>4, <2>5, <2>6, <2>7, <2>8 DEF Next
<1> QED
  BY <1>1, <1>2, PTL DEF Spec

\* No handler stores a value outside its type, however the events interleave
\* with the completions that are queued.
THEOREM TypeCorrect == Spec => []TypeOK
<1>1. IInv => TypeOK
  BY DEF IInv
<1> QED
  BY <1>1, InductiveInvariant, PTL

\* A virtual switch is registered at all its physical switches or at none, and
\* only while they are online and reach each other: the routes that
\* update_dynamic_rules looks up for it exist.
THEOREM RegistrationsAreReady == Spec => []RegisteredIsReady
<1>1. IInv => RegisteredIsReady
  BY DEF IInv, Registrations, Sound, RegisteredIsReady
<1> QED
  BY <1>1, InductiveInvariant, PTL

\* A virtual switch that serves its controller is registered at every switch
\* it has a port on.
THEOREM ServedMeansRegistered == Spec => []ConnectedIsRegistered
<1>1. IInv => ConnectedIsRegistered
  BY DEF IInv, Registrations, Sound, ConnectedIsRegistered
<1> QED
  BY <1>1, InductiveInvariant, PTL

\* No virtual switch stays down when it could be online: no event that makes
\* one ready goes by without a check_online.
THEOREM NoneDownNeedlessly == Spec => []ReadyIsNotDown
<1>1. IInv => ReadyIsNotDown
  BY DEF IInv
<1> QED
  BY <1>1, InductiveInvariant, PTL

-----------------------------------------------------------------------------
\* A loop that runs the handlers of earlier completions before the next event

Prompt == StaleCompletions = FALSE

\* A virtual switch that is down has closed its connection; at most the
\* connect that this aborted is still queued.
Resting(r) ==
  /\ r.state = "down" /\ r.sock = "closed" /\ ~r.timer /\ ~r.reads
  /\ r.ready \in {<< >>, <<"connect_failed">>}

\* A virtual switch that is not down waits for one thing, its socket in the
\* state that belongs to it: its connect, its timer, its controller, or the
\* one completion that is queued.
Waiting(r, state, sock, timer, reads, ready) ==
  /\ r.state = state /\ r.sock = sock
  /\ r.timer = timer /\ r.reads = reads /\ r.ready = ready

Driven(r) ==
  \/ Waiting(r, "try_connecting", "connecting", FALSE, FALSE, << >>)
  \/ Waiting(r, "try_connecting", "failed", TRUE, FALSE, << >>)
  \/ Waiting(r, "connected", "open", FALSE, TRUE, << >>)
  \/ Waiting(r, "try_connecting", "open", FALSE, FALSE, <<"connected">>)
  \/ Waiting(r, "try_connecting", "failed", FALSE, FALSE, <<"connect_failed">>)
  \/ Waiting(r, "try_connecting", "failed", FALSE, FALSE, <<"backoff_expired">>)
  \/ Waiting(r, "connected", "failed", FALSE, FALSE, <<"io_error">>)

Shaped(r) == Resting(r) \/ Driven(r)

Shapes == fault = "none" => \A v \in VSwitches : Shaped(vs[v])

\* Which virtual switches are down; and Hypervisor::stop starts when nothing
\* is queued.
Downs ==
  fault = "none" =>
    \A v \in VSwitches :
      /\ phase \in {"loaded", "stopped"} => vs[v].state = "down"
      /\ phase \in {"running", "stopping"} =>
           (vs[v].state = "down" <=> ~Ready(v, online, links))
      /\ phase = "stopping" /\ vs[v].state # "down" => vs[v].ready = << >>

\* The one exception that is left
Faults == fault \in {"none", "remove_interest"}

\* The inductive invariant of the prompt loop
PInv == IInv /\ Shapes /\ Downs /\ Faults

\* The few sequences of the shapes.
LEMMA ShortQueues ==
  ASSUME NEW k \in Completions
  PROVE  /\ Append(<< >>, k) = <<k>> /\ Tail(<<k>>) = << >>
         /\ Head(<<k>>) = k /\ <<k>> # << >> /\ Len(<<k>>) = 1
<1> HIDE DEF Completions
<1> QED
  OBVIOUS

LEMMA CompletionNames ==
  /\ "connected" \in Completions /\ "connect_failed" \in Completions
  /\ "backoff_expired" \in Completions /\ "io_error" \in Completions
  BY DEF Completions

\* Closing the connection of a virtual switch that is not down and has nothing
\* queued leaves at most the aborted connect.
LEMMA DisconnectShape ==
  ASSUME NEW r \in Rec, r.ready = << >>
  PROVE  /\ Disconnect(r).sock = "closed"
         /\ ~Disconnect(r).timer /\ ~Disconnect(r).reads
         /\ Disconnect(r).ready = IF r.sock = "connecting"
                                  THEN <<"connect_failed">> ELSE << >>
<1>1. Append(r.ready, "connect_failed") = <<"connect_failed">>
  BY ShortQueues, CompletionNames
<1>2. CASE r.sock = "connecting"
  BY <1>1, <1>2 DEF Disconnect, Queue, Rec
<1>3. CASE r.sock # "connecting"
  BY <1>3 DEF Disconnect, Rec
<1> QED
  BY <1>2, <1>3

\* A virtual switch that goes down with nothing queued rests.
LEMMA GoDownRests ==
  ASSUME NEW r \in Rec, r.ready = << >>, NEW on
  PROVE  Resting(Stop([r EXCEPT !.state = "down"], on))
<1> DEFINE d == [r EXCEPT !.state = "down"]
<1>1. d \in Rec /\ d.state = "down" /\ d.ready = << >>
  BY DEF Rec
<1> HIDE DEF d
<1>2. Stop(d, on) = [Disconnect(d) EXCEPT !.interest = @ \ on]
  BY <1>1 DEF Stop
<1>3. Disconnect(d) \in Rec /\ Disconnect(d).state = "down"
  BY <1>1, DisconnectFields
<1>4. /\ Disconnect(d).sock = "closed"
      /\ ~Disconnect(d).timer /\ ~Disconnect(d).reads
      /\ Disconnect(d).ready \in {<< >>, <<"connect_failed">>}
  BY <1>1, DisconnectShape
<1> QED
  BY <1>2, <1>3, <1>4 DEF Resting, Rec, d

\* check_online keeps the shapes, if the virtual switches it changes have
\* nothing queued.
LEMMA CheckOnlineShape ==
  ASSUME NEW v \in VSwitches, NEW r \in Rec, NEW on, NEW lk, Shaped(r),
         r.state = "down" /\ Ready(v, on, lk) => r.ready = << >>,
         r.state # "down" => r.ready = << >>
  PROVE  /\ Shaped(CheckOnline(v, r, on, lk))
         /\ CheckOnline(v, r, on, lk).state # "down" =>
              CheckOnline(v, r, on, lk).ready = << >>
<1>1. CASE GoesDown(v, r, on, lk)
  <2>1. CheckOnline(v, r, on, lk) = Stop([r EXCEPT !.state = "down"], on)
    BY <1>1 DEF CheckOnline, GoesDown
  <2>2. Resting(CheckOnline(v, r, on, lk))
    BY <1>1, <2>1, GoDownRests DEF GoesDown
  <2> QED
    BY <2>2 DEF Shaped, Resting
<1>2. CASE ~GoesDown(v, r, on, lk) /\ Ready(v, on, lk) /\ r.state = "down"
  <2>1. CheckOnline(v, r, on, lk) = TryConnect(r)
    BY <1>2 DEF CheckOnline
  <2>2. Resting(r) /\ r.ready = << >>
    BY <1>2 DEF Shaped, Driven, Waiting
  <2>3. TryConnect(r) = [r EXCEPT !.state = "try_connecting",
                                  !.sock = "connecting"]
    BY <2>2 DEF TryConnect, Resting
  <2>4. Waiting(TryConnect(r), "try_connecting", "connecting", FALSE, FALSE,
                << >>)
    BY <2>2, <2>3 DEF Waiting, Resting, Rec
  <2> QED
    BY <2>1, <2>4 DEF Shaped, Driven, Waiting
<1>3. CASE ~GoesDown(v, r, on, lk) /\ ~(Ready(v, on, lk) /\ r.state = "down")
  <2>1. CheckOnline(v, r, on, lk) = r
    BY <1>3 DEF CheckOnline
  <2> QED
    BY <2>1
<1> QED
  BY <1>1, <1>2, <1>3

LEMMA CheckAllShape ==
  ASSUME NEW f \in [VSwitches -> Rec], NEW on, NEW lk,
         \A v \in VSwitches :
           /\ Shaped(f[v])
           /\ f[v].state = "down" /\ Ready(v, on, lk) => f[v].ready = << >>
           /\ f[v].state # "down" => f[v].ready = << >>
  PROVE  /\ CheckAll(f, on, lk) \in [VSwitches -> Rec]
         /\ \A v \in VSwitches :
              /\ Shaped(CheckAll(f, on, lk)[v])
              /\ CheckAll(f, on, lk)[v].state = "down" <=> ~Ready(v, on, lk)
              /\ CheckAll(f, on, lk)[v].state # "down" =>
                   CheckAll(f, on, lk)[v].ready = << >>
<1>1. ASSUME NEW v \in VSwitches
      PROVE  /\ CheckOnline(v, f[v], on, lk) \in Rec
             /\ Shaped(CheckOnline(v, f[v], on, lk))
             /\ CheckOnline(v, f[v], on, lk).state = "down"
                  <=> ~Ready(v, on, lk)
             /\ CheckOnline(v, f[v], on, lk).state # "down" =>
                  CheckOnline(v, f[v], on, lk).ready = << >>
  <2>1. f[v] \in Rec
    OBVIOUS
  <2>2. /\ CheckOnline(v, f[v], on, lk) \in Rec
        /\ CheckOnline(v, f[v], on, lk).state = "down" <=> ~Ready(v, on, lk)
    BY <2>1, CheckOnlineFields
  <2>3. /\ Shaped(f[v])
        /\ f[v].state = "down" /\ Ready(v, on, lk) => f[v].ready = << >>
        /\ f[v].state # "down" => f[v].ready = << >>
    OBVIOUS
  <2>4. /\ Shaped(CheckOnline(v, f[v], on, lk))
        /\ CheckOnline(v, f[v], on, lk).state # "down" =>
             CheckOnline(v, f[v], on, lk).ready = << >>
    BY <2>1, <2>3, CheckOnlineShape
  <2> QED
    BY <2>2, <2>4
<1> QED
  BY <1>1 DEF CheckAll

\* Without stale completions an event finds every queue empty.
LEMMA SettledIsQuiet ==
  ASSUME Prompt, TypeOK, NEW v \in VSwitches, MayHappen(v)
  PROVE  vs[v].ready = << >>
<1>1. Len(vs[v].ready) <= 0
  BY DEF MayHappen, Prompt
<1>2. vs[v].ready \in Seq(Completions)
  BY DEF TypeOK
<1> HIDE DEF Completions
<1> QED
  BY <1>1, <1>2

LEMMA RecalculateShapes ==
  ASSUME Prompt, PInv, Settled, NEW on, NEW lk,
         online' = on, links' = lk, Recalculate(on, lk),
         phase' = "running"
  PROVE  Shapes' /\ Downs' /\ Faults'
<1>1. vs \in [VSwitches -> Rec] /\ TypeOK /\ fault = "none"
  BY DEF PInv, IInv, TypeOK, Rec, Settled
<1>2. \A v \in VSwitches : Shaped(vs[v]) /\ vs[v].ready = << >>
  BY <1>1, SettledIsQuiet DEF PInv, Shapes, Settled
<1>3. /\ \A v \in VSwitches : /\ Shaped(vs'[v])
                              /\ vs'[v].state = "down" <=> ~Ready(v, on, lk)
  BY <1>1, <1>2, CheckAllShape DEF Recalculate
<1>4. Faults'
  BY DEF Recalculate, Faults
<1>5. Shapes' /\ Downs'
  BY <1>3 DEF Shapes, Downs
<1> QED
  BY <1>4, <1>5

\* PhysicalSwitch::stop: what goes down with the lost links does not come back
\* when the switch itself is gone, so its aborted connect is all it leaves.
LEMMA SwitchStopShapes ==
  ASSUME Prompt, PInv, NEW d \in Dpids, SwitchStop(d)
  PROVE  Shapes' /\ Downs' /\ Faults'
<1> DEFINE f == IF links' = links THEN vs ELSE CheckAll(vs, online, links')
           g == [v \in VSwitches |-> [f[v] EXCEPT !.interest = @ \ {d}]]
           Calm(h, on, lk) ==
             \A v \in VSwitches :
               /\ Shaped(h[v])
               /\ h[v].state = "down" => ~Ready(v, on, lk)
               /\ h[v].state # "down" => h[v].ready = << >>
<1>1. /\ vs \in [VSwitches -> Rec] /\ TypeOK /\ fault = "none"
      /\ phase \in {"running", "stopping"}
  BY DEF PInv, IInv, TypeOK, Rec, SwitchStop, Settled
<1>2. Calm(vs, online, links)
  <2>1. CASE phase = "stopping"
    BY <1>1, <2>1 DEF PInv, Shapes, Downs
  <2>2. CASE phase # "stopping"
    <3>1. \A v \in VSwitches : vs[v].ready = << >>
      BY <1>1, <2>2, SettledIsQuiet DEF SwitchStop, Settled
    <3> QED
      BY <1>1, <2>2, <3>1 DEF PInv, Shapes, Downs
  <2> QED
    BY <2>1, <2>2
<1>3. online' = online \ {d} /\ vs' = CheckAll(g, online', links')
      /\ fault' \in {"none", "remove_interest"}
      /\ links' \subseteq links /\ phase' = phase
  BY DEF SwitchStop
<1>4. \A v \in VSwitches :
        Ready(v, online, links') => Ready(v, online, links)
  BY <1>3, ReadyMonotone
<1>5. f \in [VSwitches -> Rec] /\ Calm(f, online, links')
  <2>1. CASE links' = links
    BY <1>1, <1>2, <2>1
  <2>2. CASE links' # links
    <3>1. \A v \in VSwitches :
            /\ Shaped(vs[v])
            /\ vs[v].state = "down" /\ Ready(v, online, links')
                 => vs[v].ready = << >>
            /\ vs[v].state # "down" => vs[v].ready = << >>
      BY <1>2, <1>4
    <3> QED
      BY <1>1, <2>2, <3>1, CheckAllShape
  <2> QED
    BY <2>1, <2>2
<1> HIDE DEF f
<1>6. /\ g \in [VSwitches -> Rec]
      /\ \A v \in VSwitches :
           /\ g[v].state = f[v].state /\ g[v].sock = f[v].sock
           /\ g[v].timer = f[v].timer /\ g[v].reads = f[v].reads
           /\ g[v].ready = f[v].ready
  BY <1>5, SMTT(30) DEF Rec
<1> HIDE DEF g
<1>7. Calm(g, online, links')
  BY <1>5, <1>6 DEF Shaped, Resting, Driven, Waiting
<1>8. \A v \in VSwitches :
        Ready(v, online', links') => Ready(v, online, links')
  BY <1>3, ReadyMonotone
<1>9. \A v \in VSwitches :
        /\ Shaped(g[v])
        /\ g[v].state = "down" /\ Ready(v, online', links')
             => g[v].ready = << >>
        /\ g[v].state # "down" => g[v].ready = << >>
  BY <1>7, <1>8
<1>10. \A v \in VSwitches :
         /\ Shaped(vs'[v])
         /\ vs'[v].state = "down" <=> ~Ready(v, online', links')
         /\ vs'[v].state # "down" => vs'[v].ready = << >>
  <2>1. \A v \in VSwitches :
          /\ Shaped(CheckAll(g, online', links')[v])
          /\ CheckAll(g, online', links')[v].state = "down"
               <=> ~Ready(v, online', links')
          /\ CheckAll(g, online', links')[v].state # "down" =>
               CheckAll(g, online', links')[v].ready = << >>
    <3> DEFINE on == online'
               lk == links'
    <3>1. \A v \in VSwitches :
            /\ Shaped(g[v])
            /\ g[v].state = "down" /\ Ready(v, on, lk) => g[v].ready = << >>
            /\ g[v].state # "down" => g[v].ready = << >>
      BY <1>9
    <3> HIDE DEF on, lk
    <3>2. \A v \in VSwitches :
            /\ Shaped(CheckAll(g, on, lk)[v])
            /\ CheckAll(g, on, lk)[v].state = "down" <=> ~Ready(v, on, lk)
            /\ CheckAll(g, on, lk)[v].state # "down" =>
                 CheckAll(g, on, lk)[v].ready = << >>
      BY <1>6, <3>1, CheckAllShape
    <3> QED
      BY <3>2 DEF on, lk
  <2> QED
    BY <1>3, <2>1
<1> QED
  BY <1>1, <1>3, <1>10 DEF Shapes, Downs, Faults

\* The end of Hypervisor::stop: every virtual switch rests.
LEMMA FinishStopShapes ==
  ASSUME PInv, FinishStop
  PROVE  Shapes' /\ Downs' /\ Faults'
<1>1. /\ vs \in [VSwitches -> Rec] /\ fault = "none" /\ fault' = "none"
      /\ phase = "stopping" /\ phase' = "stopped"
  BY DEF PInv, IInv, TypeOK, Rec, FinishStop
<1>2. ASSUME NEW v \in VSwitches
      PROVE  Resting(vs'[v])
  <2>1. CASE vs[v].state = "down"
    BY <1>1, <2>1 DEF FinishStop, PInv, Shapes, Shaped, Driven, Waiting
  <2>2. CASE vs[v].state # "down"
    <3>1. vs[v].ready = << >> /\ vs[v] \in Rec
      BY <1>1, <2>2 DEF PInv, Downs
    <3>2. vs'[v] = Stop([vs[v] EXCEPT !.state = "down"], online)
      BY <2>2 DEF FinishStop
    <3> QED
      BY <3>1, <3>2, GoDownRests
  <2> QED
    BY <2>1, <2>2
<1> QED
  BY <1>1, <1>2 DEF Shapes, Shaped, Resting, Downs, Faults

\* A step of one virtual switch that keeps its shape and leaves it down if and
\* only if it was.
LEMMA ShapedStep ==
  ASSUME PInv, NEW v \in VSwitches, NEW r,
         phase # "stopping",
         Shaped(r), r.state = "down" <=> vs[v].state = "down",
         vs' = [vs EXCEPT ![v] = r], fault = "none",
         UNCHANGED <<phase, online, links>>, Faults'
  PROVE  Shapes' /\ Downs' /\ Faults'
<1>1. vs'[v] = r /\ \A w \in VSwitches \ {v} : vs'[w] = vs[w]
  BY DEF PInv, IInv, TypeOK
<1> QED
  BY <1>1 DEF PInv, Shapes, Downs

\* An operation of a virtual switch completes: it was the one thing waited for.
LEMMA EventShapes ==
  ASSUME Prompt, PInv, NEW v \in VSwitches,
         \/ ConnectSucceeds(v) \/ ConnectFails(v)
         \/ TimerExpires(v) \/ ControllerLost(v)
  PROVE  Shapes' /\ Downs' /\ Faults'
<1>1. /\ vs[v] \in Rec /\ TypeOK /\ fault = "none" /\ MayHappen(v)
      /\ phase # "stopping" /\ UNCHANGED <<phase, online, links, fault>>
      /\ ~StaleCompletions
  BY DEF PInv, IInv, TypeOK, Rec, ConnectSucceeds, ConnectFails, TimerExpires,
         ControllerLost, Event, Prompt
<1>2. vs[v].ready = << >> /\ Shaped(vs[v])
  BY <1>1, SettledIsQuiet DEF PInv, Shapes
<1>3. ASSUME NEW k \in Completions
      PROVE  Append(vs[v].ready, k) = <<k>> /\ <<k>> # << >>
  BY <1>2, <1>3, ShortQueues
<1>4. Faults'
  BY <1>1 DEF PInv, Faults
<1>5. CASE ConnectSucceeds(v)
  <2> DEFINE r == Queue([vs[v] EXCEPT !.sock = "open"], "connected")
  <2>1. Waiting(vs[v], "try_connecting", "connecting", FALSE, FALSE, << >>)
    BY <1>2, <1>5 DEF ConnectSucceeds, Shaped, Resting, Driven, Waiting
  <2>2. Waiting(r, "try_connecting", "open", FALSE, FALSE, <<"connected">>)
    BY <1>1, <1>3, <2>1, CompletionNames DEF Waiting, Queue, Rec
  <2>3. Shaped(r) /\ r.state # "down" /\ vs[v].state # "down"
    BY <2>1, <2>2 DEF Shaped, Driven, Waiting
  <2> QED
    BY <1>1, <1>4, <1>5, <2>3, ShapedStep DEF ConnectSucceeds, Event
<1>6. CASE ConnectFails(v)
  <2> DEFINE r == Queue([vs[v] EXCEPT !.sock = "failed", !.reads = FALSE],
                        "connect_failed")
  <2>1. Waiting(vs[v], "try_connecting", "connecting", FALSE, FALSE, << >>)
    BY <1>2, <1>6 DEF ConnectFails, Shaped, Resting, Driven, Waiting
  <2>2. Waiting(r, "try_connecting", "failed", FALSE, FALSE,
                <<"connect_failed">>)
    BY <1>1, <1>3, <2>1, CompletionNames DEF Waiting, Queue, Rec
  <2>3. Shaped(r) /\ r.state # "down" /\ vs[v].state # "down"
    BY <2>1, <2>2 DEF Shaped, Driven, Waiting
  <2>4. vs' = [vs EXCEPT ![v] = r]
    BY <1>6, <2>1 DEF ConnectFails, Event, Waiting
  <2> QED
    BY <1>1, <1>4, <2>3, <2>4, ShapedStep
<1>7. CASE TimerExpires(v)
  <2> DEFINE r == Queue([vs[v] EXCEPT !.timer = FALSE], "backoff_expired")
  <2>1. Waiting(vs[v], "try_connecting", "failed", TRUE, FALSE, << >>)
    BY <1>2, <1>7 DEF TimerExpires, Shaped, Resting, Driven, Waiting
  <2>2. Waiting(r, "try_connecting", "failed", FALSE, FALSE,
                <<"backoff_expired">>)
    BY <1>1, <1>3, <2>1, CompletionNames DEF Waiting, Queue, Rec
  <2>3. Shaped(r) /\ r.state # "down" /\ vs[v].state # "down"
    BY <2>1, <2>2 DEF Shaped, Driven, Waiting
  <2> QED
    BY <1>1, <1>4, <1>7, <2>3, ShapedStep DEF TimerExpires, Event
<1>8. CASE ControllerLost(v)
  <2> DEFINE r == Queue([vs[v] EXCEPT !.sock = "failed", !.reads = FALSE],
                        "io_error")
  <2>1. Waiting(vs[v], "connected", "open", FALSE, TRUE, << >>)
    BY <1>2, <1>8 DEF ControllerLost, Shaped, Resting, Driven, Waiting
  <2>2. Waiting(r, "connected", "failed", FALSE, FALSE, <<"io_error">>)
    BY <1>1, <1>3, <2>1, CompletionNames DEF Waiting, Queue, Rec
  <2>3. Shaped(r) /\ r.state # "down" /\ vs[v].state # "down"
    BY <2>1, <2>2 DEF Shaped, Driven, Waiting
  <2>4. vs' = [vs EXCEPT ![v] = r]
    BY <1>1, <1>8, <2>1 DEF ControllerLost, Event, Waiting
  <2> QED
    BY <1>1, <1>4, <2>3, <2>4, ShapedStep
<1> QED
  BY <1>5, <1>6, <1>7, <1>8

\* A handler finds the virtual switch as the completion left it, and starts
\* the next thing to wait for.
LEMMA HandlerShapes ==
  ASSUME Prompt, PInv, NEW v \in VSwitches, Handle(v)
  PROVE  Shapes' /\ Downs' /\ Faults'
<1> DEFINE h == Handled(v)
<1>1. /\ vs[v] \in Rec /\ fault = "none" /\ phase \in {"running", "stopped"}
      /\ vs[v].ready # << >> /\ UNCHANGED <<phase, online, links>>
      /\ Sound(v, vs[v], online, links) /\ Shaped(vs[v])
      /\ phase = "running" =>
           (vs[v].state = "down" <=> ~Ready(v, online, links))
      /\ phase = "stopped" => vs[v].state = "down"
  BY DEF PInv, IInv, Registrations, Shapes, Downs, TypeOK, Rec, Handle,
         HandleConnected, HandleConnectFailed, BackoffExpired, HandleIoError,
         Pending
<1>2. /\ h \in Rec /\ h.state = vs[v].state /\ h.sock = vs[v].sock
      /\ h.timer = vs[v].timer /\ h.reads = vs[v].reads
      /\ h.ready = Tail(vs[v].ready) /\ h.interest = vs[v].interest
  BY <1>1, HandledFields DEF PInv, Rec
<1>3. \A k \in Completions : Head(<<k>>) = k /\ Tail(<<k>>) = << >>
  BY ShortQueues
<1>4. ASSUME vs[v].state # "down"
      PROVE  Ready(v, online, links) /\ phase = "running"
  BY <1>1, <1>4
<1> HIDE DEF h
<1>5. CASE HandleConnected(v)
  <2>1. Waiting(vs[v], "try_connecting", "open", FALSE, FALSE, <<"connected">>)
    BY <1>1, <1>3, <1>5, CompletionNames
       DEF HandleConnected, Pending, Shaped, Resting, Driven, Waiting
  <2> DEFINE r == [h EXCEPT !.state = "connected", !.interest = Deps[v]]
             s == [r EXCEPT !.reads = TRUE]
  <2>2. r.sock = "open"
    BY <1>2, <2>1 DEF Waiting, Rec
  <2>3. vs' = [vs EXCEPT ![v] = s] /\ fault' = StartThrows(v)
    BY <1>5, <2>1, <2>2 DEF HandleConnected, RegistersAt, Waiting, h
  <2>4. Waiting(s, "connected", "open", FALSE, TRUE, << >>)
    BY <1>2, <1>3, <2>1, CompletionNames DEF Waiting, Rec
  <2>5. Shaped(s) /\ s.state # "down" /\ vs[v].state # "down"
    BY <2>1, <2>4 DEF Shaped, Driven, Waiting
  <2>6. Faults'
    BY <1>4, <2>3, <2>5 DEF StartThrows, Ready, Faults
  <2> HIDE DEF s
  <2> QED
    BY <1>1, <2>3, <2>5, <2>6, ShapedStep
<1>6. CASE HandleConnectFailed(v)
  <2> DEFINE s == [h EXCEPT !.timer = @ \/ vs[v].state = "try_connecting"]
  <2>1. vs' = [vs EXCEPT ![v] = s] /\ Faults'
    BY <1>1, <1>6 DEF HandleConnectFailed, h, Faults
  <2>2. CASE vs[v].state = "down"
    <3>1. Resting(vs[v]) /\ vs[v].ready = <<"connect_failed">>
      BY <1>1, <2>2 DEF Shaped, Resting, Driven, Waiting
    <3>2. Resting(s) /\ s.state = "down"
      BY <1>2, <1>3, <2>2, <3>1, CompletionNames DEF Resting, Rec
    <3> HIDE DEF s
    <3> QED
      BY <1>1, <2>1, <2>2, <3>2, ShapedStep DEF Shaped
  <2>3. CASE vs[v].state # "down"
    <3>1. Waiting(vs[v], "try_connecting", "failed", FALSE, FALSE,
                  <<"connect_failed">>)
      BY <1>1, <1>3, <1>6, <2>3, CompletionNames
         DEF HandleConnectFailed, Pending, Shaped, Resting, Driven, Waiting
    <3>2. Waiting(s, "try_connecting", "failed", TRUE, FALSE, << >>)
      BY <1>2, <1>3, <3>1, CompletionNames DEF Waiting, Rec
    <3>3. Shaped(s) /\ s.state # "down"
      BY <3>2 DEF Shaped, Driven, Waiting
    <3> HIDE DEF s
    <3> QED
      BY <1>1, <2>1, <2>3, <3>3, ShapedStep
  <2> QED
    BY <2>2, <2>3
<1>7. CASE BackoffExpired(v)
  <2>1. Waiting(vs[v], "try_connecting", "failed", FALSE, FALSE,
                <<"backoff_expired">>)
    BY <1>1, <1>3, <1>7, CompletionNames
       DEF BackoffExpired, Pending, Shaped, Resting, Driven, Waiting
  <2> DEFINE s == TryConnect(h)
  <2>2. s = [h EXCEPT !.state = "try_connecting", !.sock = "connecting"]
    BY <1>2, <2>1 DEF TryConnect, Waiting
  <2>3. Waiting(s, "try_connecting", "connecting", FALSE, FALSE, << >>)
    BY <1>2, <1>3, <2>1, <2>2, CompletionNames DEF Waiting, Rec
  <2>4. Shaped(s) /\ s.state # "down" /\ vs[v].state # "down"
    BY <2>1, <2>3 DEF Shaped, Driven, Waiting
  <2>5. vs' = [vs EXCEPT ![v] = s] /\ Faults'
    BY <1>4, <1>7, <2>4 DEF BackoffExpired, h, Faults
  <2> HIDE DEF s
  <2> QED
    BY <1>1, <2>4, <2>5, ShapedStep
<1>8. CASE HandleIoError(v)
  <2>1. Waiting(vs[v], "connected", "failed", FALSE, FALSE, <<"io_error">>)
    BY <1>1, <1>3, <1>8, CompletionNames
       DEF HandleIoError, Pending, Shaped, Resting, Driven, Waiting
  <2> DEFINE d == [Disconnect(h) EXCEPT !.interest = @ \ online]
             s == Stop(h, online)
  <2>2. Disconnect(h) = [h EXCEPT !.sock = "closed", !.reads = FALSE,
                                  !.timer = FALSE]
    BY <1>2, <2>1 DEF Disconnect, Waiting
  <2>3. /\ d \in Rec /\ d.sock = "closed" /\ ~d.timer /\ ~d.reads
        /\ d.ready = << >>
    BY <1>2, <1>3, <2>1, <2>2, CompletionNames, ZenonT(60) DEF Waiting, Rec
  <2>4. s = TryConnect(d)
    BY <1>2, <2>1 DEF Stop, Waiting
  <2> HIDE DEF d
  <2>5. TryConnect(d) = [d EXCEPT !.state = "try_connecting",
                                  !.sock = "connecting"]
    BY <2>3 DEF TryConnect
  <2>6. Waiting(s, "try_connecting", "connecting", FALSE, FALSE, << >>)
    BY <2>3, <2>4, <2>5 DEF Waiting, Rec
  <2>7. Shaped(s) /\ s.state # "down" /\ vs[v].state # "down"
    BY <2>1, <2>6 DEF Shaped, Driven, Waiting
  <2>8. vs' = [vs EXCEPT ![v] = s] /\ Faults'
    BY <1>8 DEF HandleIoError, h, Faults
  <2> HIDE DEF s
  <2> QED
    BY <1>1, <2>7, <2>8, ShapedStep
<1> QED
  BY <1>5, <1>6, <1>7, <1>8 DEF Handle

\* The stronger inductive invariant, when the handlers of earlier completions
\* run before the next event.
THEOREM PromptInvariant == ASSUME Prompt PROVE Spec => []PInv
<1>1. Init => PInv
  <2> SUFFICES ASSUME Init PROVE PInv
    OBVIOUS
  <2>1. IInv
    BY IInvInit
  <2>2. \A v \in VSwitches : Resting(vs[v])
    BY DEF Init, Resting
  <2>3. Shapes /\ Downs /\ Faults
    BY <2>2 DEF Init, Shapes, Shaped, Downs, Resting, Faults
  <2> QED
    BY <2>1, <2>3 DEF PInv
<1>2. PInv /\ IInv' /\ [Next]_vars => PInv'
  <2> SUFFICES ASSUME PInv, [Next]_vars PROVE Shapes' /\ Downs' /\ Faults'
    BY DEF PInv
  <2>1. CASE Start
    BY <2>1, RecalculateShapes DEF Start
  <2>2. ASSUME NEW d \in Dpids, SwitchOnline(d)
        PROVE  Shapes' /\ Downs' /\ Faults'
    BY <2>2, RecalculateShapes DEF SwitchOnline
  <2>3. ASSUME NEW c \in Cables, LinkUp(c)
        PROVE  Shapes' /\ Downs' /\ Faults'
    BY <2>3, RecalculateShapes DEF LinkUp
  <2>4. ASSUME NEW c \in Cables, LinkDown(c)
        PROVE  Shapes' /\ Downs' /\ Faults'
    BY <2>4, RecalculateShapes DEF LinkDown
  <2>5. ASSUME NEW d \in Dpids, SwitchStop(d)
        PROVE  Shapes' /\ Downs' /\ Faults'
    BY <2>5, SwitchStopShapes
  <2>6. CASE BeginStop
    <3>1. \A v \in VSwitches : vs[v].ready = << >>
      BY <2>6, SettledIsQuiet DEF BeginStop, Settled, PInv, IInv
    <3> QED
      BY <2>6, <3>1 DEF BeginStop, PInv, Shapes, Downs, Faults
  <2>7. CASE FinishStop
    BY <2>7, FinishStopShapes
  <2>8. ASSUME NEW v \in VSwitches,
               \/ ConnectSucceeds(v) \/ ConnectFails(v)
               \/ TimerExpires(v) \/ ControllerLost(v)
        PROVE  Shapes' /\ Downs' /\ Faults'
    BY <2>8, EventShapes
  <2>9. ASSUME NEW v \in VSwitches, Handle(v)
        PROVE  Shapes' /\ Downs' /\ Faults'
    BY <2>9, HandlerShapes
  <2>10. CASE UNCHANGED vars
    BY <2>10 DEF vars, PInv, Shapes, Downs, Faults
  <2> QED
    BY <2>1, <2>2, <2>3, <2>4, <2>5, <2>6, <2>7, <2>8, <2>9, <2>10 DEF Next
<1> QED
  BY <1>1, <1>2, InductiveInvariant, PTL DEF Spec

\* design.md:581: a virtual switch is online, or tries to be, only while its
\* physical switches are online and reach each other.  It needs that an event
\* finds no completion queued: a stale backoff_expired connects a virtual
\* switch that went down.
THEOREM OnlineNeedsReady == ASSUME Prompt PROVE Spec => []OnlineOnlyIfReady
<1>1. PInv => OnlineOnlyIfReady
  BY DEF PInv, Downs, OnlineOnlyIfReady
<1> QED
  BY <1>1, PromptInvariant, PTL

\* A virtual switch that is not down waits for exactly one thing: no handler
\* forgets to start the next operation and none starts two.
THEOREM ExactlyOneDriver == ASSUME Prompt PROVE Spec => []OneDriver
<1> DEFINE W(r) == {w \in {"connect", "timer", "read"} :
                      \/ w = "connect" /\ r.sock = "connecting"
                      \/ w = "timer" /\ r.timer
                      \/ w = "read" /\ r.reads}
<1>1. ASSUME NEW r, Driven(r) PROVE Drivers(r) = 1
  <2>1. CASE r.ready = << >>
    <3>1. \E w : W(r) = {w}
      <4>1. Waiting(r, "try_connecting", "connecting", FALSE, FALSE, << >>)
              => W(r) = {"connect"}
        BY DEF Waiting
      <4>2. Waiting(r, "try_connecting", "failed", TRUE, FALSE, << >>)
              => W(r) = {"timer"}
        BY DEF Waiting
      <4>3. Waiting(r, "connected", "open", FALSE, TRUE, << >>)
              => W(r) = {"read"}
        BY DEF Waiting
      <4> QED
        BY <1>1, <2>1, <4>1, <4>2, <4>3 DEF Driven, Waiting
    <3>2. Cardinality(W(r)) = 1
      BY <3>1, FS_Singleton
    <3> QED
      BY <2>1, <3>2 DEF Drivers
  <2>2. CASE r.ready # << >>
    <3>1. Len(r.ready) = 1 /\ W(r) = {}
      BY <1>1, <2>2 DEF Driven, Waiting
    <3>2. Cardinality(W(r)) = 0
      BY <3>1, FS_EmptySet
    <3> QED
      BY <3>1, <3>2 DEF Drivers
  <2> QED
    BY <2>1, <2>2
<1>2. PInv => OneDriver
  <2> SUFFICES ASSUME PInv, fault = "none", NEW v \in VSwitches,
                      vs[v].state # "down"
               PROVE  Drivers(vs[v]) = 1
    BY DEF OneDriver
  <2>1. Driven(vs[v])
    BY DEF PInv, Shapes, Shaped, Resting
  <2> QED
    BY <1>1, <2>1
<1> QED
  BY <1>2, PromptInvariant, PTL

\* The one uncaught exception that can end the process is that of
\* remove_interest, when a virtual switch goes down that only tries to connect
\* (the violation run vs_go_down): start always finds the switches and the
\* routes, and no backoff outlives its slice.
THEOREM OnlyGoingDownThrows ==
  ASSUME Prompt
  PROVE  Spec => [](fault \in {"none", "remove_interest"})
<1>1. PInv => fault \in {"none", "remove_interest"}
  BY DEF PInv, Faults
<1> QED
  BY <1>1, PromptInvariant, PTL
=============================================================================
