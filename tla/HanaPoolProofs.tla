--------------------------- MODULE HanaPoolProofs ---------------------------
(***************************************************************************)
(* The safety of the connection pool, for any number of workers, DSNs and  *)
(* handles.                                                                *)
(***************************************************************************)
EXTENDS HanaPool, TLAPS

\* A handle that a worker has opened and not yet stored belongs to it alone.
Private(w) == pc[w] \in {"pingNew", "swap"}
OwnInv ==
    /\ \A w \in Workers : pc[w] # "idle" => dsn[w] \in DSNs
    /\ \A w \in Workers : pc[w] \in {"pingCached", "pingNew", "swap"} => h[w] \in Handles
    /\ \A w \in Workers : Private(w) =>
        /\ state[h[w]] = "open"
        /\ \A d \in DSNs : dbs[d] # h[w]
        /\ \A v \in Workers : v # w => h[v] # h[w]

\* No handle is cached for two DSNs.
NoSharing == \A d, e \in DSNs : dbs[d] = dbs[e] /\ d # e => dbs[d] = None

\* Disconnect finds every worker idle and they stay so; the handles that are
\* still open are those Range has not come to.
DownInv ==
    /\ main \in {"ranging", "done"} => \A w \in Workers : pc[w] = "idle"
    /\ main \in {"running", "stopping"} => visited = {}
    /\ main = "ranging" =>
        \A x \in Handles : state[x] = "open" => \E d \in DSNs \ visited : dbs[d] = x

PoolInv == PoolTypeOK /\ OwnInv /\ NoSharing /\ CachedIsOpen /\ NoLeak /\ DownInv /\ CleanShutdown

LEMMA FreshUnused ==
    ASSUME \E x \in Handles : Unused(x)
    PROVE  Fresh \in Handles /\ Unused(Fresh)
BY DEF Fresh

LEMMA PoolInit == Init => PoolInv
<1> SUFFICES ASSUME Init PROVE PoolInv
  OBVIOUS
<1>1. PoolTypeOK
  BY DEF Init, PoolTypeOK
<1>2. OwnInv
  BY DEF Init, OwnInv, Private
<1>3. NoSharing /\ CachedIsOpen
  BY DEF Init, NoSharing, CachedIsOpen
<1>4. NoLeak /\ DownInv /\ CleanShutdown
  BY DEF Init, NoLeak, DownInv, CleanShutdown
<1> QED BY <1>1, <1>2, <1>3, <1>4 DEF PoolInv

\* Connect and Disconnect keep the type.
LEMMA PoolTypeStep ==
    ASSUME PoolInv, [Next]_vars
    PROVE  PoolTypeOK'
<1> USE PoolAssumption DEF PoolInv, PoolTypeOK
<1>1. ASSUME NEW w \in Workers, Load(w) PROVE PoolTypeOK'
  BY <1>1 DEF Load
<1>2. ASSUME NEW w \in Workers, PingCached(w) PROVE PoolTypeOK'
  BY <1>2 DEF PingCached, Fault
<1>3. ASSUME NEW w \in Workers, Open(w) PROVE PoolTypeOK'
  BY <1>3, FreshUnused DEF Open, Fault, ToIdle
<1>4. ASSUME NEW w \in Workers, PingNew(w) PROVE PoolTypeOK'
  BY <1>4 DEF PingNew, Fault, ToIdle
<1>5. ASSUME NEW w \in Workers, Swap(w) PROVE PoolTypeOK'
  BY <1>5 DEF Swap, StartClose, Store, OwnInv
<1>6. ASSUME NEW w \in Workers, Release(w) PROVE PoolTypeOK'
  BY <1>6 DEF Release, ToIdle
<1>7. ASSUME NEW x \in Handles, Close(x) PROVE PoolTypeOK'
  BY <1>7 DEF Close
<1>8. CASE Stop
  BY <1>8 DEF Stop
<1>9. CASE BeginDisconnect
  BY <1>9 DEF BeginDisconnect
<1>10. ASSUME NEW d \in DSNs, Range(d) PROVE PoolTypeOK'
  BY <1>10 DEF Range, StartClose
<1>11. CASE Clear
  BY <1>11 DEF Clear
<1>12. CASE UNCHANGED vars
  BY <1>12 DEF vars
<1>13. CASE Exit
  BY <1>13 DEF Exit
<1> QED BY <1>1, <1>2, <1>3, <1>4, <1>5, <1>6, <1>7, <1>8, <1>9, <1>10, <1>11, <1>12, <1>13
        DEF Next, Work, Disconnect

\* Before and after Disconnect begins, whatever the workers do.
LEMMA PoolStep ==
    ASSUME PoolInv, [Next]_vars
    PROVE  OwnInv' /\ NoSharing' /\ CachedIsOpen' /\ NoLeak' /\ DownInv' /\ CleanShutdown'
<1> USE DEF PoolInv
<1>t. PoolTypeOK
  OBVIOUS
<1>1. ASSUME NEW w \in Workers, Load(w)
      PROVE  OwnInv' /\ NoSharing' /\ CachedIsOpen' /\ NoLeak' /\ DownInv' /\ CleanShutdown'
  <2>1. OwnInv'
    BY <1>1, <1>t DEF Load, OwnInv, Private, PoolTypeOK
  <2>2. NoSharing' /\ CachedIsOpen' /\ CleanShutdown'
    BY <1>1 DEF Load, NoSharing, CachedIsOpen, CleanShutdown
  <2>3. NoLeak'
    BY <1>1, <1>t DEF Load, NoLeak, PoolTypeOK
  <2>4. DownInv'
    BY <1>1, <1>t DEF Load, DownInv, PoolTypeOK
  <2> QED BY <2>1, <2>2, <2>3, <2>4
<1>2. ASSUME NEW w \in Workers, PingCached(w)
      PROVE  OwnInv' /\ NoSharing' /\ CachedIsOpen' /\ NoLeak' /\ DownInv' /\ CleanShutdown'
  <2>1. OwnInv'
    BY <1>2, <1>t, PoolAssumption DEF PingCached, OwnInv, Private, PoolTypeOK
  <2>2. NoSharing' /\ CachedIsOpen' /\ CleanShutdown'
    BY <1>2 DEF PingCached, NoSharing, CachedIsOpen, CleanShutdown
  <2>3. NoLeak'
    BY <1>2, <1>t DEF PingCached, NoLeak, PoolTypeOK
  <2>4. DownInv'
    BY <1>2, <1>t DEF PingCached, DownInv, PoolTypeOK
  <2> QED BY <2>1, <2>2, <2>3, <2>4
<1>3. ASSUME NEW w \in Workers, Open(w)
      PROVE  OwnInv' /\ NoSharing' /\ CachedIsOpen' /\ NoLeak' /\ DownInv' /\ CleanShutdown'
  <2>1. CASE Fault /\ ToIdle(w) /\ UNCHANGED state
    <3>1. OwnInv'
      BY <1>3, <2>1, <1>t, PoolAssumption DEF Open, ToIdle, OwnInv, Private, PoolTypeOK
    <3>2. NoSharing' /\ CachedIsOpen' /\ CleanShutdown'
      BY <1>3, <2>1 DEF Open, NoSharing, CachedIsOpen, CleanShutdown
    <3>3. NoLeak' /\ DownInv'
      BY <1>3, <2>1, <1>t DEF Open, ToIdle, NoLeak, DownInv, PoolTypeOK
    <3> QED BY <3>1, <3>2, <3>3
  <2>2. CASE /\ \E x \in Handles : Unused(x)
             /\ state' = [state EXCEPT ![Fresh] = "open"]
             /\ h' = [h EXCEPT ![w] = Fresh]
             /\ pc' = [pc EXCEPT ![w] = "pingNew"]
             /\ UNCHANGED <<dsn, faults>>
    <3>1. Fresh \in Handles /\ Unused(Fresh)
      BY <2>2, FreshUnused
    <3>2. UNCHANGED <<dbs, main, visited, wg>> /\ pc[w] = "open"
      BY <1>3 DEF Open
    <3>3. OwnInv'
      BY <2>2, <3>1, <3>2, <1>t DEF OwnInv, Private, PoolTypeOK, Unused
    <3>4. NoSharing'
      BY <3>2 DEF NoSharing
    <3>5. CachedIsOpen'
      BY <2>2, <3>1, <3>2, <1>t DEF CachedIsOpen, PoolTypeOK
    <3>6. NoLeak'
      BY <2>2, <3>1, <3>2, <1>t DEF NoLeak, PoolTypeOK
    <3>7. main \notin {"ranging", "done"}
      BY <3>2 DEF DownInv
    <3>8. DownInv' /\ CleanShutdown'
      BY <3>2, <3>7 DEF DownInv, CleanShutdown
    <3> QED BY <3>3, <3>4, <3>5, <3>6, <3>8
  <2> QED BY <1>3, <2>1, <2>2 DEF Open
<1>4. ASSUME NEW w \in Workers, PingNew(w)
      PROVE  OwnInv' /\ NoSharing' /\ CachedIsOpen' /\ NoLeak' /\ DownInv' /\ CleanShutdown'
  <2>1. UNCHANGED <<dbs, main, visited, wg>> /\ pc[w] = "pingNew"
    BY <1>4 DEF PingNew
  <2>2. main \notin {"ranging", "done"}
    BY <2>1 DEF DownInv
  <2>3. NoSharing' /\ DownInv' /\ CleanShutdown'
    BY <2>1, <2>2 DEF NoSharing, DownInv, CleanShutdown
  <2>4. CASE pc' = [pc EXCEPT ![w] = "swap"] /\ UNCHANGED <<state, dsn, h, faults>>
    <3>1. OwnInv'
      BY <2>1, <2>4, <1>t DEF OwnInv, Private, PoolTypeOK
    <3>2. CachedIsOpen' /\ NoLeak'
      BY <2>1, <2>4, <1>t DEF CachedIsOpen, NoLeak, PoolTypeOK
    <3> QED BY <2>3, <3>1, <3>2
  <2>5. CASE state' = [state EXCEPT ![h[w]] = "closing"] /\ ToIdle(w)
    <3>1. h[w] \in Handles /\ \A d \in DSNs : dbs[d] # h[w]
      BY <2>1 DEF OwnInv, Private
    <3>2. OwnInv'
      BY <2>1, <2>5, <3>1, <1>t, PoolAssumption DEF ToIdle, OwnInv, Private, PoolTypeOK
    <3>3. CachedIsOpen' /\ NoLeak'
      BY <2>1, <2>5, <3>1, <1>t DEF ToIdle, CachedIsOpen, NoLeak, PoolTypeOK
    <3> QED BY <2>3, <3>2, <3>3
  <2> QED BY <1>4, <2>4, <2>5 DEF PingNew
<1>5. ASSUME NEW w \in Workers, Swap(w)
      PROVE  OwnInv' /\ NoSharing' /\ CachedIsOpen' /\ NoLeak' /\ DownInv' /\ CleanShutdown'
  <2>1. /\ pc[w] = "swap" /\ dsn[w] \in DSNs /\ h[w] \in Handles /\ state[h[w]] = "open"
        /\ \A d \in DSNs : dbs[d] # h[w]
        /\ \A v \in Workers : v # w => h[v] # h[w]
    BY <1>5 DEF Swap, OwnInv, Private
  <2>2. /\ state' = [x \in Handles |-> IF x = dbs[dsn[w]] /\ state[x] = "open" THEN "closing"
                                        ELSE state[x]]
        /\ dbs' = [dbs EXCEPT ![dsn[w]] = h[w]]
        /\ pc' = [pc EXCEPT ![w] = "use"]
        /\ UNCHANGED <<dsn, h, main, visited, wg, faults>>
    BY <1>5 DEF Swap, StartClose, Store
  <2>3. OwnInv'
    BY <2>1, <2>2, <1>t DEF OwnInv, Private, PoolTypeOK
  <2>4. NoSharing'
    BY <2>1, <2>2, <1>t DEF NoSharing, PoolTypeOK
  <2>5. CachedIsOpen'
    BY <2>1, <2>2, <1>t DEF CachedIsOpen, NoSharing, PoolTypeOK
  <2>6. NoLeak'
    BY <2>1, <2>2, <1>t DEF NoLeak, PoolTypeOK
  <2>7. main \notin {"ranging", "done"}
    BY <2>1 DEF DownInv
  <2>8. DownInv' /\ CleanShutdown'
    BY <2>2, <2>7 DEF DownInv, CleanShutdown
  <2> QED BY <2>3, <2>4, <2>5, <2>6, <2>8
<1>6. ASSUME NEW w \in Workers, Release(w)
      PROVE  OwnInv' /\ NoSharing' /\ CachedIsOpen' /\ NoLeak' /\ DownInv' /\ CleanShutdown'
  <2>1. OwnInv'
    BY <1>6, <1>t, PoolAssumption DEF Release, ToIdle, OwnInv, Private, PoolTypeOK
  <2>2. NoSharing' /\ CachedIsOpen' /\ CleanShutdown'
    BY <1>6 DEF Release, NoSharing, CachedIsOpen, CleanShutdown
  <2>3. NoLeak' /\ DownInv'
    BY <1>6, <1>t DEF Release, ToIdle, NoLeak, DownInv, PoolTypeOK
  <2> QED BY <2>1, <2>2, <2>3
<1>7. ASSUME NEW x \in Handles, Close(x)
      PROVE  OwnInv' /\ NoSharing' /\ CachedIsOpen' /\ NoLeak' /\ DownInv' /\ CleanShutdown'
  <2>1. OwnInv'
    BY <1>7, <1>t DEF Close, OwnInv, Private, PoolTypeOK
  <2>2. NoSharing' /\ CachedIsOpen' /\ CleanShutdown'
    BY <1>7, <1>t DEF Close, NoSharing, CachedIsOpen, CleanShutdown, PoolTypeOK
  <2>3. NoLeak' /\ DownInv'
    BY <1>7, <1>t DEF Close, NoLeak, DownInv, PoolTypeOK
  <2> QED BY <2>1, <2>2, <2>3
<1>8. CASE Stop
  BY <1>8 DEF Stop, OwnInv, Private, NoSharing, CachedIsOpen, NoLeak, DownInv, CleanShutdown
<1>9. CASE BeginDisconnect
  <2>1. OwnInv' /\ NoSharing' /\ CachedIsOpen' /\ NoLeak' /\ CleanShutdown'
    BY <1>9 DEF BeginDisconnect, OwnInv, Private, NoSharing, CachedIsOpen, NoLeak, CleanShutdown
  <2>2. main = "stopping" /\ main' = "ranging" /\ UNCHANGED <<dbs, state, pc, visited>>
    BY <1>9 DEF BeginDisconnect
  <2>3. \A w \in Workers : pc[w] = "idle"
    BY <1>9 DEF BeginDisconnect
  <2>4. ASSUME NEW x \in Handles, state[x] = "open" PROVE \E d \in DSNs \ visited : dbs[d] = x
    <3>1. \E d \in DSNs : dbs[d] = x
      BY <2>2, <2>3, <2>4 DEF NoLeak
    <3>2. visited = {}
      BY <2>2 DEF DownInv
    <3> QED BY <3>1, <3>2
  <2> QED BY <2>1, <2>2, <2>3, <2>4 DEF DownInv
<1>10. ASSUME NEW d \in DSNs, Range(d)
       PROVE  OwnInv' /\ NoSharing' /\ CachedIsOpen' /\ NoLeak' /\ DownInv' /\ CleanShutdown'
  <2>1. /\ main = "ranging" /\ visited' = visited \cup {d}
        /\ state' = [x \in Handles |-> IF x = dbs[d] /\ state[x] = "open" THEN "closing"
                                        ELSE state[x]]
        /\ UNCHANGED <<dbs, pc, dsn, h, main, faults>>
    BY <1>10 DEF Range, StartClose
  <2>2. OwnInv'
    BY <2>1, <1>t DEF OwnInv, Private, PoolTypeOK
  <2>3. NoSharing' /\ CachedIsOpen' /\ NoLeak' /\ CleanShutdown'
    BY <2>1 DEF NoSharing, CachedIsOpen, NoLeak, CleanShutdown
  <2>4. DownInv'
    BY <2>1, <1>t DEF DownInv, PoolTypeOK
  <2> QED BY <2>2, <2>3, <2>4
<1>11. CASE Clear
  <2>1. OwnInv'
    BY <1>11, <1>t, PoolAssumption DEF Clear, OwnInv, Private, PoolTypeOK
  <2>2. NoSharing' /\ CachedIsOpen' /\ NoLeak'
    BY <1>11 DEF Clear, NoSharing, CachedIsOpen, NoLeak
  <2>3. DownInv' /\ CleanShutdown'
    BY <1>11 DEF Clear, Waited, DownInv, CleanShutdown
  <2> QED BY <2>1, <2>2, <2>3
<1>12. CASE UNCHANGED vars
  BY <1>12 DEF vars, OwnInv, Private, NoSharing, CachedIsOpen, NoLeak, DownInv, CleanShutdown
<1>13. CASE Exit
  BY <1>13, PoolAssumption
  DEF Exit, OwnInv, Private, NoSharing, CachedIsOpen, NoLeak, DownInv, CleanShutdown
<1> QED BY <1>1, <1>2, <1>3, <1>4, <1>5, <1>6, <1>7, <1>8, <1>9, <1>10, <1>11, <1>12, <1>13
        DEF Next, Work, Disconnect

\* What holds of the pool at every moment, for any number of workers.
LEMMA PoolCorrect == Spec => []PoolInv
<1>1. PoolInv /\ [Next]_vars => PoolInv'
  BY PoolTypeStep, PoolStep DEF PoolInv
<1> QED BY <1>1, PoolInit, PTL DEF Spec

\* Every handle, DSN and worker variable of the pool stays in its range.
THEOREM PoolTypeCorrect == Spec => []PoolTypeOK
<1>1. PoolInv => PoolTypeOK
  BY DEF PoolInv
<1> QED BY <1>1, PoolCorrect, PTL

\* Connect never leaves a closed connection in the map: the handle it hands to
\* the closing goroutine is one that no DSN refers to any more.
THEOREM CachedIsOpenCorrect == Spec => []CachedIsOpen
<1>1. PoolInv => CachedIsOpen
  BY DEF PoolInv
<1> QED BY <1>1, PoolCorrect, PTL

\* Concurrent Connects leak no connection: the one that loses the race for a DSN
\* closes the handle it replaces.
THEOREM NoLeakCorrect == Spec => []NoLeak
<1>1. PoolInv => NoLeak
  BY DEF PoolInv
<1> QED BY <1>1, PoolCorrect, PTL

\* Disconnect leaves no connection open.
THEOREM CleanShutdownCorrect == Spec => []CleanShutdown
<1>1. PoolInv => CleanShutdown
  BY DEF PoolInv
<1> QED BY <1>1, PoolCorrect, PTL
=============================================================================
