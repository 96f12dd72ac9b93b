------------------------------- MODULE HanaPool -------------------------------
(***************************************************************************)
(* The pool of HANA connections (internal/clients/hana): reconcile workers *)
(* call Connect for the DSN of their ProviderConfig, share the *sql.DB it  *)
(* returns, and run statements on it; the process calls Disconnect at its  *)
(* end.  The pool is a sync.Map: Load and Swap are atomic, what lies       *)
(* between them is not.                                                    *)
(***************************************************************************)
EXTENDS Naturals, FiniteSets

CONSTANTS
    Workers, DSNs,
    Handles,    \* identities of *sql.DB values
    None,
    MaxFaults   \* how often opening or pinging a reachable handle fails

ASSUME PoolAssumption == None \notin Handles \cup DSNs /\ MaxFaults \in Nat

VARIABLES
    dbs,        \* the sync.Map: the handle cached for each DSN, or None
    state,      \* each handle: open, closing or closed (also before it is opened)
    pc, dsn, h, \* each worker: where it is, the DSN it asked for, the handle it holds
    main,       \* the process: running, stopping, ranging (in Disconnect), done, exited
    visited,    \* the keys Range has passed
    wg,         \* the handles whose close Disconnect waits for
    faults

vars == <<dbs, state, pc, dsn, h, main, visited, wg, faults>>

Init ==
    /\ dbs = [d \in DSNs |-> None]
    /\ state = [x \in Handles |-> "closed"]
    /\ pc = [w \in Workers |-> "idle"]
    /\ dsn = [w \in Workers |-> None]
    /\ h = [w \in Workers |-> None]
    /\ main = "running"
    /\ visited = {}
    /\ wg = {}
    /\ faults = 0

\* sql.Open returns a handle that nothing refers to; which one does not matter.
Unused(x) ==
    /\ state[x] = "closed"
    /\ \A w \in Workers : h[w] # x
    /\ \A d \in DSNs : dbs[d] # x
Fresh == CHOOSE x \in Handles : Unused(x)

ToIdle(w) ==
    /\ pc' = [pc EXCEPT ![w] = "idle"]
    /\ dsn' = [dsn EXCEPT ![w] = None]
    /\ h' = [h EXCEPT ![w] = None]

Fault == faults < MaxFaults /\ faults' = faults + 1

-----------------------------------------------------------------------------
(* Connect *)

\* (mutant: the map is not consulted)
LoadNothing(w) ==
    /\ pc[w] = "idle" /\ main = "running"
    /\ \E d \in DSNs : dsn' = [dsn EXCEPT ![w] = d]
    /\ pc' = [pc EXCEPT ![w] = "open"]
    /\ UNCHANGED <<dbs, state, h, main, visited, wg, faults>>

Load(w) ==
    /\ pc[w] = "idle" /\ main = "running"
    /\ \E d \in DSNs :
        /\ dsn' = [dsn EXCEPT ![w] = d]
        /\ h' = [h EXCEPT ![w] = dbs[d]]
        /\ pc' = [pc EXCEPT ![w] = IF dbs[d] = None THEN "open" ELSE "pingCached"]
    /\ UNCHANGED <<dbs, state, main, visited, wg, faults>>

\* (mutant: a cached handle that does not answer is closed at once)
PingOrClose(w) ==
    /\ pc[w] = "pingCached"
    /\ \/ state[h[w]] = "open" /\ pc' = [pc EXCEPT ![w] = "use"] /\ UNCHANGED <<state, h, faults>>
       \/ /\ IF state[h[w]] = "open" THEN Fault ELSE UNCHANGED faults
          /\ state' = [state EXCEPT ![h[w]] = "closed"]
          /\ pc' = [pc EXCEPT ![w] = "open"]
          /\ h' = [h EXCEPT ![w] = None]
    /\ UNCHANGED <<dbs, dsn, main, visited, wg>>

PingCached(w) ==
    /\ pc[w] = "pingCached"
    /\ \/ state[h[w]] = "open" /\ pc' = [pc EXCEPT ![w] = "use"] /\ UNCHANGED <<h, faults>>
       \/ /\ IF state[h[w]] = "open" THEN Fault ELSE UNCHANGED faults
          /\ pc' = [pc EXCEPT ![w] = "open"]
          /\ h' = [h EXCEPT ![w] = None]
    /\ UNCHANGED <<dbs, state, dsn, main, visited, wg>>

Open(w) ==
    /\ pc[w] = "open"
    /\ \/ /\ \E x \in Handles : Unused(x)
          /\ state' = [state EXCEPT ![Fresh] = "open"]
          /\ h' = [h EXCEPT ![w] = Fresh]
          /\ pc' = [pc EXCEPT ![w] = "pingNew"]
          /\ UNCHANGED <<dsn, faults>>
       \/ Fault /\ ToIdle(w) /\ UNCHANGED state
    /\ UNCHANGED <<dbs, main, visited, wg>>

PingNew(w) ==
    /\ pc[w] = "pingNew"
    /\ \/ pc' = [pc EXCEPT ![w] = "swap"] /\ UNCHANGED <<state, dsn, h, faults>>
       \/ /\ Fault
          /\ state' = [state EXCEPT ![h[w]] = "closing"]
          /\ ToIdle(w)
    /\ UNCHANGED <<dbs, main, visited, wg>>

\* The handle that is replaced is closed in a goroutine, whoever still uses it.
\* (mutant: the replaced handle is forgotten)
Forget(prev) == UNCHANGED state
StartClose(prev) ==
    state' = [x \in Handles |-> IF x = prev /\ state[x] = "open" THEN "closing"
                               ELSE state[x]]

\* The key is a salted hash of the DSN, taken to differ for different DSNs.
Store(d, x) == dbs' = [dbs EXCEPT ![d] = x]

Swap(w) ==
    /\ pc[w] = "swap"
    /\ StartClose(dbs[dsn[w]])
    /\ Store(dsn[w], h[w])
    /\ pc' = [pc EXCEPT ![w] = "use"]
    /\ UNCHANGED <<dsn, h, main, visited, wg, faults>>

\* The reconcile ends, after statements that succeeded or failed.
Release(w) ==
    /\ pc[w] = "use"
    /\ ToIdle(w)
    /\ UNCHANGED <<dbs, state, main, visited, wg, faults>>

-----------------------------------------------------------------------------
(* The closing goroutines. *)

Close(x) ==
    /\ state[x] = "closing"
    /\ state' = [state EXCEPT ![x] = "closed"]
    /\ UNCHANGED <<dbs, pc, dsn, h, main, visited, wg, faults>>

-----------------------------------------------------------------------------
(* The end of the process: the manager stops, then Disconnect. *)

Stop ==
    /\ main = "running"
    /\ main' = "stopping"
    /\ UNCHANGED <<dbs, state, pc, dsn, h, visited, wg, faults>>

\* The manager waits for its workers; when they are done main returns, and the
\* deferred Disconnect runs.
BeginDisconnect ==
    /\ main = "stopping" /\ \A w \in Workers : pc[w] = "idle"
    /\ main' = "ranging"
    /\ UNCHANGED <<dbs, state, pc, dsn, h, visited, wg, faults>>

\* Workers that outlast the grace period make Start return an error, on which
\* the process exits at once: no deferred call runs, and what it held is gone.
Exit ==
    /\ main = "stopping" /\ \E w \in Workers : pc[w] # "idle"
    /\ main' = "exited"
    /\ dbs' = [d \in DSNs |-> None]
    /\ state' = [x \in Handles |-> "closed"]
    /\ pc' = [w \in Workers |-> "idle"]
    /\ dsn' = [w \in Workers |-> None]
    /\ h' = [w \in Workers |-> None]
    /\ UNCHANGED <<visited, wg, faults>>

\* (mutant: a key without a handle is waited for too)
RangeOverAll(d) ==
    /\ main = "ranging" /\ d \notin visited
    /\ visited' = visited \cup {d}
    /\ wg' = wg \cup {dbs[d]}
    /\ StartClose(dbs[d])
    /\ UNCHANGED <<dbs, pc, dsn, h, main, faults>>

Range(d) ==
    /\ main = "ranging" /\ d \notin visited
    /\ visited' = visited \cup {d}
    /\ wg' = wg \cup ({dbs[d]} \ {None})
    /\ StartClose(dbs[d])
    /\ UNCHANGED <<dbs, pc, dsn, h, main, faults>>

\* wg.Wait returns once the handles Range saw are closed.
\* (mutant: Clear comes before Range is done)
WaitForNothing == \A x \in wg : state[x] # "closing"
Waited == visited = DSNs /\ \A x \in wg : state[x] # "closing"

Clear ==
    /\ main = "ranging" /\ Waited
    /\ dbs' = [d \in DSNs |-> None]
    /\ main' = "done"
    /\ UNCHANGED <<state, pc, dsn, h, visited, wg, faults>>

-----------------------------------------------------------------------------
Work(w) ==
    Load(w) \/ PingCached(w) \/ Open(w) \/ PingNew(w) \/ Swap(w) \/ Release(w)
Disconnect == BeginDisconnect \/ (\E d \in DSNs : Range(d)) \/ Clear

Next ==
    \/ \E w \in Workers : Work(w)
    \/ \E x \in Handles : Close(x)
    \/ Stop \/ Exit \/ Disconnect

Spec == Init /\ [][Next]_vars

\* Goroutines that can run do run: a worker, which every poll interval gives a
\* resource to connect for, and a closing goroutine.
FairSpec ==
    /\ Spec
    /\ \A w \in Workers : WF_vars(Work(w))
    /\ \A x \in Handles : WF_vars(Close(x))

-----------------------------------------------------------------------------
(* Properties *)

\* Every variable keeps its type; Disconnect waits for handles only, never for a
\* key whose handle is gone.
PoolTypeOK ==
    /\ dbs \in [DSNs -> Handles \cup {None}]
    /\ state \in [Handles -> {"open", "closing", "closed"}]
    /\ pc \in [Workers -> {"idle", "open", "pingCached", "pingNew", "swap", "use"}]
    /\ dsn \in [Workers -> DSNs \cup {None}]
    /\ h \in [Workers -> Handles \cup {None}]
    /\ main \in {"running", "stopping", "ranging", "done", "exited"}
    /\ visited \subseteq DSNs /\ wg \subseteq Handles
    /\ faults \in Nat

\* Until Disconnect begins, a cached handle is open: the goroutine that closes a
\* handle never hits the one the map holds, however Connects interleave.
CachedIsOpen ==
    main \in {"running", "stopping"} => \A d \in DSNs : dbs[d] # None => state[dbs[d]] = "open"

\* Until Disconnect begins no connection leaks: an open handle is cached for one
\* DSN, or belongs to the one worker that is about to cache or discard it.
NoLeak ==
    main \in {"running", "stopping"} =>
        \A x \in Handles : state[x] = "open" =>
            \/ \E d \in DSNs : dbs[d] = x
            \/ \E w \in Workers : h[w] = x /\ pc[w] \in {"pingNew", "swap"}

\* When Disconnect has run no connection is open, whatever the Connects that raced
\* before it left in the map or in the hands of the closing goroutines.
CleanShutdown ==
    main = "done" => \A x \in Handles : state[x] # "open"

\* Once failures stop, workers get handles that nobody closes under them: the
\* Connects that raced for a DSN settle on one handle.
EventuallyUsable ==
    <>[](main = "running" => \A w \in Workers : pc[w] = "use" => state[h[w]] = "open")
=============================================================================
