-------------------------- MODULE InboundListener --------------------------
(***************************************************************************)
(* pkg/proxy/inbound.go: one listener with its accept loop, a goroutine    *)
(* per connection, and Close, which waits for those goroutines on a        *)
(* sync.WaitGroup.  The accept loop counts a connection (wg.Add) after     *)
(* Accept has returned it, so Close can run between the two.  The          *)
(* WaitGroup is modelled with its two panics: an Add from zero while a     *)
(* waiter is still registered, and a waiter woken to a nonzero counter.    *)
(***************************************************************************)
EXTENDS Integers, FiniteSets

CONSTANTS Conns,    \* connections that clients open
          Closers   \* goroutines calling Close

ASSUME InboundAssumption == IsFiniteSet(Conns) /\ IsFiniteSet(Closers)

VARIABLES open,     \* the listening socket is open
          closed,   \* l.closed
          serve,    \* the accept loop
          stage,    \* per connection
          wg,       \* counter of l.wg
          waiters,  \* goroutines asleep in wg.Wait
          closer,   \* per caller of Close
          active,   \* stats.ActiveConns
          crashed,  \* an unrecovered panic has ended the process
          late      \* history: connections counted after closed was set

loopVars == <<open, closed, serve>>
groupVars == <<wg, waiters, closer>>
vars == <<loopVars, stage, groupVars, active, crashed, late>>

TypeOK ==
  /\ {open, closed, crashed} \subseteq BOOLEAN
  /\ serve \in {"accept", "counting", "failed", "sleep", "gone"}
  /\ stage \in [Conns -> {"new", "queued", "accepted", "peek", "dial", "relay",
                          "ending", "waking", "over"}]
  /\ wg \in 0..Cardinality(Conns)
  /\ waiters \in 0..Cardinality(Closers)
  /\ closer \in [Closers -> {"idle", "closed", "asleep", "woken", "drained",
                             "returned", "panicked"}]
  /\ active \in 0..Cardinality(Conns)
  /\ late \subseteq Conns

Init ==
  /\ open = TRUE
  /\ closed = FALSE
  /\ serve = "accept"
  /\ stage = [c \in Conns |-> "new"]
  /\ wg = 0
  /\ waiters = 0
  /\ closer = [k \in Closers |-> "idle"]
  /\ active = 0
  /\ crashed = FALSE
  /\ late = {}

Move(c, from, to) ==
  /\ stage[c] = from
  /\ stage' = [stage EXCEPT ![c] = to]

-----------------------------------------------------------------------------
(* serve                                                                   *)

Connect(c) ==
  /\ open
  /\ Move(c, "new", "queued")
  /\ UNCHANGED <<loopVars, groupVars, active, crashed, late>>

Accept(c) ==
  /\ serve = "accept"
  /\ open
  /\ Move(c, "queued", "accepted")
  /\ serve' = "counting"
  /\ UNCHANGED <<open, closed, groupVars, active, crashed, late>>

\* Accept fails because the socket is closed, or for want of descriptors.
AcceptFails ==
  /\ serve = "accept"
  /\ serve' = "failed"
  /\ UNCHANGED <<open, closed, stage, groupVars, active, crashed, late>>

\* Mutant: every failure of Accept is retried.
AfterFailureRetry ==
  /\ serve = "failed"
  /\ serve' = "sleep"
  /\ UNCHANGED <<open, closed, stage, groupVars, active, crashed, late>>

AfterFailure ==
  /\ serve = "failed"
  /\ serve' = IF closed THEN "gone" ELSE "sleep"
  /\ UNCHANGED <<open, closed, stage, groupVars, active, crashed, late>>

SleepOver ==
  /\ serve = "sleep"
  /\ serve' = "accept"
  /\ UNCHANGED <<open, closed, stage, groupVars, active, crashed, late>>

\* wg.Add(1) and the go statement; Add panics if the counter is zero while
\* waiters are registered.
Count(c) ==
  /\ serve = "counting"
  /\ Move(c, "accepted", "peek")
  /\ serve' = "accept"
  /\ wg' = wg + 1
  /\ crashed' = (wg = 0 /\ waiters > 0)
  /\ late' = IF closed THEN late \cup {c} ELSE late
  /\ UNCHANGED <<open, closed, waiters, closer, active>>

-----------------------------------------------------------------------------
(* handleConn, with the deferred calls of the goroutine around it          *)

HandlerVarsSame == UNCHANGED <<loopVars, groupVars, crashed, late>>

\* The first byte arrives.
Peek(c) ==
  /\ Move(c, "peek", "dial")
  /\ UNCHANGED active
  /\ HandlerVarsSame

\* The client hangs up before its first byte, or GetDialer has no node.
GiveUp(c) ==
  /\ Move(c, "peek", "ending") \/ Move(c, "dial", "ending")
  /\ UNCHANGED active
  /\ HandlerVarsSame

Dial(c) ==
  /\ Move(c, "dial", "relay")
  /\ active' = active + 1
  /\ HandlerVarsSame

\* Mutant: DecrConn is not deferred.
RelayEndsUncounted(c) ==
  /\ Move(c, "relay", "ending")
  /\ UNCHANGED active
  /\ HandlerVarsSame

RelayEnds(c) ==
  /\ Move(c, "relay", "ending")
  /\ active' = active - 1
  /\ HandlerVarsSame

\* Mutant: Done is called twice.
DoneTwice(c) ==
  /\ Move(c, "ending", IF wg = 1 /\ waiters > 0 THEN "waking" ELSE "over")
  /\ wg' = wg - 2
  /\ UNCHANGED <<loopVars, waiters, closer, active, crashed, late>>

\* wg.Done: the last one has the waiters to wake.
Done(c) ==
  /\ Move(c, "ending", IF wg = 1 /\ waiters > 0 THEN "waking" ELSE "over")
  /\ wg' = wg - 1
  /\ UNCHANGED <<loopVars, waiters, closer, active, crashed, late>>

WakeWaiters(c) ==
  /\ Move(c, "waking", "over")
  /\ waiters' = 0
  /\ closer' = [k \in Closers |-> IF closer[k] = "asleep" THEN "woken" ELSE closer[k]]
  /\ UNCHANGED <<loopVars, wg, active, crashed, late>>

-----------------------------------------------------------------------------
(* Close                                                                   *)

\* Mutant: the socket stays open.
CloseKeepsSocket(k) ==
  /\ closer[k] = "idle"
  /\ closer' = [closer EXCEPT ![k] = IF closed THEN "returned" ELSE "closed"]
  /\ closed' = TRUE
  /\ UNCHANGED <<open, serve, stage, wg, waiters, active, crashed, late>>

\* The critical section; the kernel resets what nobody accepted.
Close(k) ==
  /\ closer[k] = "idle"
  /\ closer' = [closer EXCEPT ![k] = IF closed THEN "returned" ELSE "closed"]
  /\ closed' = TRUE
  /\ open' = FALSE
  /\ stage' = [c \in Conns |-> IF ~closed /\ stage[c] = "queued" THEN "over" ELSE stage[c]]
  /\ UNCHANGED <<serve, wg, waiters, active, crashed, late>>

Wait(k) ==
  /\ closer[k] = "closed"
  /\ closer' = [closer EXCEPT ![k] = IF wg = 0 THEN "drained" ELSE "asleep"]
  /\ waiters' = IF wg = 0 THEN waiters ELSE waiters + 1
  /\ UNCHANGED <<loopVars, stage, wg, active, crashed, late>>

\* A waiter woken to a nonzero counter panics (in the caller of Close).
WaitOver(k) ==
  /\ closer[k] = "woken"
  /\ closer' = [closer EXCEPT ![k] = IF wg = 0 THEN "drained" ELSE "panicked"]
  /\ UNCHANGED <<loopVars, stage, wg, waiters, active, crashed, late>>

-----------------------------------------------------------------------------
ServeStep ==
  AcceptFails \/ AfterFailure \/ SleepOver \/ \E c \in Conns : Accept(c) \/ Count(c)
\* These wait for others: for the client, for the node or the target, and in
\* GetDialer, if this is the tunnel's listener, for t.mu (tunnel.go:51).
AwaitingStep(c) == Connect(c) \/ Peek(c) \/ Dial(c) \/ RelayEnds(c) \/ GiveUp(c)
HandlerStep(c) == Done(c) \/ WakeWaiters(c)
CloserStep(k) == Wait(k) \/ WaitOver(k)

Next ==
  /\ ~crashed
  /\ \/ ServeStep
     \/ \E c \in Conns : AwaitingStep(c) \/ HandlerStep(c)
     \/ \E k \in Closers : Close(k) \/ CloserStep(k)

Spec == Init /\ [][Next]_vars

\* The Go scheduler runs the accept loop, every handler that waits for nobody,
\* and every caller of Close.  Neither clients nor GetDialer owe anything.
FairSpec ==
  /\ Spec
  /\ WF_vars(~crashed /\ ServeStep)
  /\ \A c \in Conns : WF_vars(~crashed /\ HandlerStep(c))
  /\ \A k \in Closers : WF_vars(~crashed /\ CloserStep(k))

-----------------------------------------------------------------------------
(* Safety                                                                  *)

Live == {c \in Conns : stage[c] \in {"peek", "dial", "relay", "ending"}}

\* The counters are what they count, on every path through a handler: the
\* WaitGroup the handlers not yet done, ActiveConns (the dashboard's
\* "active_conns") those that have a dialer (inbound.go:110-112, 133-136).
CountersExact ==
  /\ wg = Cardinality(Live)
  /\ active = Cardinality({c \in Conns : stage[c] = "relay"})

\* What a Close that has waited promises: at most one connection per listener,
\* the one the accept loop had in hand, is served after the port is reported
\* closed; every handler counted before is over.  And without that connection
\* neither the accept loop nor the caller of Close can panic (inbound.go:82-93,
\* 98-110): the misuse of the WaitGroup needs it.
OneLateConnection ==
  /\ Cardinality(late) <= 1
  /\ (\E k \in Closers : closer[k] = "drained") => Live \subseteq late
  /\ crashed \/ (\E k \in Closers : closer[k] = "panicked") => late # {}

\* Whoever sleeps in Close has a handler still to wake it, whichever calls of
\* Add, Done and Wait come between: the counter never goes to zero past a
\* waiter (inbound.go:92, 104, 107-112).
NobodyWaitsInVain ==
  (\E k \in Closers : closer[k] = "asleep") =>
    \E c \in Conns : stage[c] \in {"peek", "dial", "relay", "ending", "waking"}

\* What the end of Close rests on: the WaitGroup counts the handlers, and its
\* last one finds whoever waits for it (inbound.go:92, 107-112).
CloseIsWoken == CountersExact /\ NobodyWaitsInVain

-----------------------------------------------------------------------------
(* Liveness                                                                *)

\* A closed listener's accept loop ends: no goroutine leak (inbound.go:96-108).
ServeEnds == closed ~> (serve = "gone" \/ crashed)

\* Close returns if no handler stays for ever without a word of its client, in
\* GetDialer, or in a relay.  A node's GetDialer returns at once (inbound.go:35);
\* the tunnel's waits for a lock that the caller of this very Close holds
\* (tunnel.go:51, 117, 124): there the premise can fail, as TunnelPool's run
\* for UpdateReturns shows.
HandlersMoveOn == \A c \in Conns : []<>(stage[c] \notin {"peek", "dial", "relay"})
CloseReturns ==
  HandlersMoveOn =>
    \A k \in Closers :
      (closer[k] # "idle") ~>
        (closer[k] \in {"drained", "returned", "panicked"} \/ crashed)

\* A listener that is closed goes away for good: its loop always, the callers of
\* Close if no handler is kept for ever.
ListenerEnds == ServeEnds /\ CloseReturns
=============================================================================
