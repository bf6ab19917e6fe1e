------------------------------ MODULE ListenerProofs --------------------------
(***************************************************************************)
(* Proofs about what listens.  First InboundListener, for any number of    *)
(* connections and of callers of Close.  Then Proxy, for any sets of       *)
(* nodes, callers, requests and clients and any highest port: the manager  *)
(* and the tunnel are there what they are alone, so what NodeManagerProofs *)
(* and TunnelPoolProofs show of them holds, and with it what is said of    *)
(* both together.                                                          *)
(***************************************************************************)
EXTENDS InboundListener, Proxy, FiniteSetTheorems, TLAPS

Stages == {"new", "queued", "accepted", "peek", "dial", "relay", "ending", "waking", "over"}
LiveStages == {"peek", "dial", "relay", "ending"}
CloserStages == {"idle", "closed", "asleep", "woken", "drained", "returned", "panicked"}

In(S) == {c \in Conns : stage[c] \in S}
Asleep == {k \in Closers : closer[k] = "asleep"}

Types ==
  /\ open \in BOOLEAN /\ closed \in BOOLEAN /\ crashed \in BOOLEAN
  /\ serve \in {"accept", "counting", "failed", "sleep", "gone"}
  /\ stage \in [Conns -> Stages]
  /\ closer \in [Closers -> CloserStages]
  /\ late \subseteq Conns

Counts ==
  /\ wg = Cardinality(In(LiveStages))
  /\ active = Cardinality(In({"relay"}))
  /\ waiters = Cardinality(Asleep)

\* The accept loop has at most one connection in hand.
OneInHand ==
  \A c \in Conns : stage[c] = "accepted" =>
    serve = "counting" /\ \A d \in Conns : stage[d] = "accepted" => d = c

\* Once the socket is closed the one in hand is the last one.
LateIsLast ==
  /\ open <=> ~closed
  /\ late # {} => closed /\ \A c \in Conns : stage[c] # "accepted"
  /\ \A c, d \in late : c = d

\* Whoever was counted in time is over once the counter has reached zero, for
\* it is closed by then.
DoneOnes ==
  (\/ \E c \in Conns : stage[c] = "waking"
   \/ \E k \in Closers : closer[k] \in {"woken", "drained"})
    => closed /\ In(LiveStages) \subseteq late

ClosersClosed == \A k \in Closers : closer[k] # "idle" => closed

PanicsLate ==
  crashed \/ (\E k \in Closers : closer[k] = "panicked") => late # {}

IInv == Types /\ Counts /\ OneInHand /\ LateIsLast /\ DoneOnes /\ ClosersClosed /\ PanicsLate

-----------------------------------------------------------------------------
LEMMA FiniteIn == \A S : IsFiniteSet(In(S)) /\ Cardinality(In(S)) \in Nat
<1>. TAKE S
<1>1. In(S) \in SUBSET Conns
  BY DEF In
<1>. QED
  BY <1>1, InboundAssumption, FS_Subset, FS_CardinalityType

LEMMA FiniteAsleep == IsFiniteSet(Asleep) /\ Cardinality(Asleep) \in Nat
<1>1. Asleep \in SUBSET Closers
  BY DEF Asleep
<1>. QED
  BY <1>1, InboundAssumption, FS_Subset, FS_CardinalityType

\* What a move of one connection does to a set of stages.
LEMMA MoveIn ==
  ASSUME Types, NEW c \in Conns, NEW from, NEW to \in Stages, Move(c, from, to), NEW S
  PROVE  /\ stage[c] = from /\ stage' = [stage EXCEPT ![c] = to] /\ stage' \in [Conns -> Stages]
         /\ (from \in S <=> to \in S) => In(S)' = In(S)
         /\ from \notin S /\ to \in S =>
              In(S)' = In(S) \cup {c} /\ Cardinality(In(S)') = Cardinality(In(S)) + 1
         /\ from \in S /\ to \notin S =>
              In(S)' = In(S) \ {c} /\ Cardinality(In(S)') = Cardinality(In(S)) - 1
<1>1. stage[c] = from /\ stage' = [stage EXCEPT ![c] = to] /\ stage' \in [Conns -> Stages]
  BY DEF Move, Types
<1>2. (from \in S <=> to \in S) => In(S)' = In(S)
  BY <1>1 DEF In, Types
<1>3. ASSUME from \notin S, to \in S
      PROVE  In(S)' = In(S) \cup {c} /\ Cardinality(In(S)') = Cardinality(In(S)) + 1
  <2>1. In(S)' = In(S) \cup {c} /\ c \notin In(S)
    BY <1>1, <1>3 DEF In, Types
  <2>. QED
    BY <2>1, FiniteIn, FS_AddElement
<1>4. ASSUME from \in S, to \notin S
      PROVE  In(S)' = In(S) \ {c} /\ Cardinality(In(S)') = Cardinality(In(S)) - 1
  <2>1. In(S)' = In(S) \ {c} /\ c \in In(S)
    BY <1>1, <1>4 DEF In, Types
  <2>. QED
    BY <2>1, FiniteIn, FS_RemoveElement
<1>. QED
  BY <1>1, <1>2, <1>3, <1>4

LEMMA InitIInv == Init => IInv
<1>. SUFFICES ASSUME Init PROVE IInv
  OBVIOUS
<1>1. Types
  BY DEF Init, Types, Stages, CloserStages
<1>2. In(LiveStages) = {} /\ In({"relay"}) = {} /\ Asleep = {}
  BY DEF Init, In, LiveStages, Asleep
<1>3. Counts
  BY <1>2, FS_EmptySet DEF Init, Counts
<1>. QED
  BY <1>1, <1>3
  DEF Init, IInv, OneInHand, LateIsLast, DoneOnes, ClosersClosed, PanicsLate

-----------------------------------------------------------------------------
(* The accept loop *)

\* Steps that move no connection.
LEMMA LoopKeeps ==
  ASSUME IInv, AcceptFails \/ AfterFailure \/ SleepOver
  PROVE  IInv'
<1>1. /\ UNCHANGED <<open, closed, stage, groupVars, active, crashed, late>>
      /\ serve # "counting" /\ serve' \in {"accept", "failed", "sleep", "gone"}
  BY DEF AcceptFails, AfterFailure, SleepOver
<1>2. In(LiveStages)' = In(LiveStages) /\ In({"relay"})' = In({"relay"}) /\ Asleep' = Asleep
  BY <1>1 DEF In, Asleep, groupVars
<1>3. Types' /\ Counts'
  BY <1>1, <1>2 DEF IInv, Types, Counts, groupVars
<1>4. OneInHand' /\ LateIsLast' /\ ClosersClosed' /\ PanicsLate'
  BY <1>1 DEF IInv, OneInHand, LateIsLast, ClosersClosed, PanicsLate, groupVars
<1>5. DoneOnes'
  BY <1>1, <1>2 DEF IInv, DoneOnes, groupVars
<1>. QED
  BY <1>3, <1>4, <1>5 DEF IInv

LEMMA AcceptKeeps ==
  ASSUME IInv, NEW c \in Conns, Accept(c)
  PROVE  IInv'
<1>. Types
  BY DEF IInv
<1>. "accepted" \in Stages
  BY DEF Stages
<1>1. /\ Move(c, "queued", "accepted") /\ serve = "accept" /\ serve' = "counting" /\ open
      /\ UNCHANGED <<open, closed, wg, waiters, closer, active, crashed, late>>
  BY DEF Accept, groupVars
<1>2. stage' = [stage EXCEPT ![c] = "accepted"] /\ stage' \in [Conns -> Stages]
  BY <1>1, MoveIn
<1>3. In(LiveStages)' = In(LiveStages) /\ In({"relay"})' = In({"relay"}) /\ Asleep' = Asleep
  BY <1>1, MoveIn DEF LiveStages, Asleep
<1>4. Types' /\ Counts'
  BY <1>1, <1>2, <1>3 DEF IInv, Types, Counts
<1>5. OneInHand'
  BY <1>1, <1>2 DEF IInv, Types, OneInHand
<1>6. LateIsLast' /\ ClosersClosed' /\ PanicsLate'
  BY <1>1 DEF IInv, LateIsLast, ClosersClosed, PanicsLate
<1>7. DoneOnes'
  BY <1>1, <1>2, <1>3 DEF IInv, Types, DoneOnes
<1>. QED
  BY <1>4, <1>5, <1>6, <1>7 DEF IInv

\* The one counted once the socket is closed was the one in hand, and is the
\* last.  A panic needs it: nobody waits unless the socket is closed.
LEMMA CountKeeps ==
  ASSUME IInv, NEW c \in Conns, Count(c)
  PROVE  IInv'
<1>. Types
  BY DEF IInv
<1>. "peek" \in Stages
  BY DEF Stages
<1>1. /\ Move(c, "accepted", "peek") /\ serve' = "accept"
      /\ wg' = wg + 1 /\ crashed' = (wg = 0 /\ waiters > 0)
      /\ late' = IF closed THEN late \cup {c} ELSE late
      /\ UNCHANGED <<open, closed, waiters, closer, active>>
  BY DEF Count
<1>2. /\ stage[c] = "accepted" /\ stage' = [stage EXCEPT ![c] = "peek"]
      /\ stage' \in [Conns -> Stages]
  BY <1>1, MoveIn
<1>3. /\ In(LiveStages)' = In(LiveStages) \cup {c}
      /\ Cardinality(In(LiveStages)') = Cardinality(In(LiveStages)) + 1
  BY <1>1, MoveIn DEF LiveStages
<1>4. In({"relay"})' = In({"relay"}) /\ Asleep' = Asleep
  BY <1>1, MoveIn DEF Asleep
<1>5. Types'
  BY <1>1, <1>2 DEF Types
<1>6. Counts'
  BY <1>1, <1>3, <1>4 DEF IInv, Counts
<1>7. late = {} /\ \A d \in Conns : d # c => stage[d] # "accepted"
  BY <1>2 DEF IInv, LateIsLast, OneInHand
<1>8. OneInHand' /\ LateIsLast'
  BY <1>1, <1>2, <1>7 DEF IInv, Types, OneInHand, LateIsLast
<1>9. DoneOnes'
  BY <1>1, <1>2, <1>3 DEF IInv, Types, DoneOnes
<1>10. ClosersClosed'
  BY <1>1 DEF IInv, ClosersClosed
<1>11. crashed' => closed
  <2>0. crashed' => waiters > 0
    BY <1>1, Zenon
  <2>1. CASE Asleep = {}
    <3>1. waiters = 0
      BY <2>1, FS_EmptySet DEF IInv, Counts
    <3>2. ~(waiters > 0)
      BY <3>1
    <3>. QED
      BY <2>0, <3>2
  <2>2. CASE Asleep # {}
    BY <2>2 DEF IInv, ClosersClosed, Asleep
  <2>. QED
    BY <2>1, <2>2
<1>12. PanicsLate'
  BY <1>1, <1>7, <1>11 DEF IInv, PanicsLate
<1>. QED
  BY <1>5, <1>6, <1>8, <1>9, <1>10, <1>12 DEF IInv

-----------------------------------------------------------------------------
(* Clients and handlers *)

\* Steps between stages that are both before, both in or both after the
\* handler's.
LEMMA HandlerKeeps ==
  ASSUME IInv, NEW c \in Conns,
         Connect(c) \/ Peek(c) \/ GiveUp(c) \/ Dial(c) \/ RelayEnds(c)
  PROVE  IInv'
<1>. Types
  BY DEF IInv
<1>1. UNCHANGED <<open, closed, serve, wg, waiters, closer, crashed, late>>
  BY DEF Connect, Peek, GiveUp, Dial, RelayEnds, HandlerVarsSame, loopVars, groupVars
<1>2. PICK from, to \in Stages \ {"accepted", "waking", "over"} :
        /\ Move(c, from, to)
        /\ from \in LiveStages <=> to \in LiveStages
        /\ active' = IF to = "relay" THEN active + 1
                     ELSE IF from = "relay" THEN active - 1 ELSE active
        /\ from # to
  BY DEF Connect, Peek, GiveUp, Dial, RelayEnds, HandlerVarsSame, Stages, LiveStages
<1>3. stage' = [stage EXCEPT ![c] = to] /\ stage' \in [Conns -> Stages]
  BY <1>2, MoveIn
<1>4. In(LiveStages)' = In(LiveStages) /\ Asleep' = Asleep
  BY <1>1, <1>2, MoveIn DEF Asleep
<1>5. active' = Cardinality(In({"relay"})')
  BY <1>2, MoveIn DEF IInv, Counts
<1>6. Types' /\ Counts'
  BY <1>1, <1>3, <1>4, <1>5 DEF IInv, Types, Counts
<1>7. OneInHand' /\ LateIsLast' /\ ClosersClosed' /\ PanicsLate'
  BY <1>1, <1>2, <1>3 DEF IInv, Types, OneInHand, LateIsLast, ClosersClosed, PanicsLate
<1>8. DoneOnes'
  BY <1>1, <1>2, <1>3, <1>4 DEF IInv, Types, DoneOnes
<1>. QED
  BY <1>6, <1>7, <1>8 DEF IInv

LEMMA DoneKeeps ==
  ASSUME IInv, NEW c \in Conns, Done(c)
  PROVE  IInv'
<1>. Types
  BY DEF IInv
<1>. DEFINE to == IF wg = 1 /\ waiters > 0 THEN "waking" ELSE "over"
<1>1. /\ Move(c, "ending", to) /\ to \in Stages /\ to \in {"waking", "over"} /\ wg' = wg - 1
      /\ UNCHANGED <<open, closed, serve, waiters, closer, active, crashed, late>>
  BY DEF Done, Stages, loopVars
<1>2. stage' = [stage EXCEPT ![c] = to] /\ stage' \in [Conns -> Stages]
  BY <1>1, MoveIn
<1>3. /\ In(LiveStages)' = In(LiveStages) \ {c}
      /\ Cardinality(In(LiveStages)') = Cardinality(In(LiveStages)) - 1
  BY <1>1, MoveIn DEF LiveStages
<1>4. In({"relay"})' = In({"relay"}) /\ Asleep' = Asleep
  BY <1>1, MoveIn DEF Asleep
<1>5. Types' /\ Counts'
  BY <1>1, <1>2, <1>3, <1>4 DEF IInv, Types, Counts
<1>6. OneInHand' /\ LateIsLast' /\ ClosersClosed' /\ PanicsLate'
  BY <1>1, <1>2 DEF IInv, Types, OneInHand, LateIsLast, ClosersClosed, PanicsLate
<1>7. DoneOnes'
  <2>1. CASE to = "waking"
    <3>1. wg = 1 /\ waiters > 0
      BY <2>1
    <3>2. Cardinality(In(LiveStages)') = 0 /\ IsFiniteSet(In(LiveStages)')
      BY <1>3, <3>1, FiniteIn, FS_RemoveElement DEF IInv, Counts
    <3>3. In(LiveStages)' = {}
      BY <3>2, FS_EmptySet
    <3>4. Asleep # {}
      BY <3>1, FS_EmptySet DEF IInv, Counts
    <3>5. closed
      BY <3>4 DEF IInv, ClosersClosed, Asleep
    <3>. QED
      BY <1>1, <3>3, <3>5 DEF DoneOnes
  <2>2. CASE to = "over"
    BY <1>1, <1>2, <1>3, <2>2 DEF IInv, Types, DoneOnes
  <2>. QED
    BY <1>1, <2>1, <2>2
<1>. QED
  BY <1>5, <1>6, <1>7 DEF IInv

LEMMA WakeKeeps ==
  ASSUME IInv, NEW c \in Conns, WakeWaiters(c)
  PROVE  IInv'
<1>. Types
  BY DEF IInv
<1>. "over" \in Stages
  BY DEF Stages
<1>1. /\ Move(c, "waking", "over") /\ waiters' = 0
      /\ closer' = [k \in Closers |-> IF closer[k] = "asleep" THEN "woken" ELSE closer[k]]
      /\ UNCHANGED <<open, closed, serve, wg, active, crashed, late>>
  BY DEF WakeWaiters, loopVars
<1>2. /\ stage[c] = "waking" /\ stage' = [stage EXCEPT ![c] = "over"]
      /\ stage' \in [Conns -> Stages]
  BY <1>1, MoveIn
<1>3. In(LiveStages)' = In(LiveStages) /\ In({"relay"})' = In({"relay"})
  BY <1>1, MoveIn DEF LiveStages
<1>4. Asleep' = {} /\ closer' \in [Closers -> CloserStages]
  BY <1>1 DEF Types, Asleep, CloserStages
<1>5. Types' /\ Counts'
  BY <1>1, <1>2, <1>3, <1>4, FS_EmptySet DEF IInv, Types, Counts
<1>6. closed /\ In(LiveStages) \subseteq late
  BY <1>2 DEF IInv, DoneOnes
<1>7. OneInHand' /\ LateIsLast'
  BY <1>1, <1>2 DEF IInv, Types, OneInHand, LateIsLast
<1>8. DoneOnes' /\ ClosersClosed'
  BY <1>1, <1>3, <1>6 DEF DoneOnes, ClosersClosed
<1>9. PanicsLate'
  BY <1>1 DEF IInv, PanicsLate
<1>. QED
  BY <1>5, <1>7, <1>8, <1>9 DEF IInv

-----------------------------------------------------------------------------
(* Close *)

LEMMA CloseKeeps ==
  ASSUME IInv, NEW k \in Closers, Close(k)
  PROVE  IInv'
<1>. DEFINE to == IF closed THEN "returned" ELSE "closed"
<1>1. /\ closer[k] = "idle" /\ closer' = [closer EXCEPT ![k] = to] /\ closed' = TRUE /\ open' = FALSE
      /\ stage' = [c \in Conns |-> IF ~closed /\ stage[c] = "queued" THEN "over" ELSE stage[c]]
      /\ UNCHANGED <<serve, wg, waiters, active, crashed, late>>
  BY DEF Close
<1>2. In(LiveStages)' = In(LiveStages) /\ In({"relay"})' = In({"relay"})
  BY <1>1 DEF In, LiveStages
<1>3. Asleep' = Asleep
  BY <1>1 DEF IInv, Types, Asleep
<1>4. Types'
  BY <1>1 DEF IInv, Types, Stages, CloserStages
<1>5. Counts'
  BY <1>1, <1>2, <1>3 DEF IInv, Counts
<1>6. OneInHand' /\ LateIsLast' /\ ClosersClosed'
  BY <1>1 DEF IInv, OneInHand, LateIsLast, ClosersClosed
<1>7. DoneOnes' /\ PanicsLate'
  BY <1>1, <1>2 DEF IInv, Types, DoneOnes, PanicsLate
<1>. QED
  BY <1>4, <1>5, <1>6, <1>7 DEF IInv

\* Whoever finds the counter at zero finds no handler at work.
LEMMA NobodyLive ==
  ASSUME IInv, wg = 0
  PROVE  In(LiveStages) = {}
  BY FiniteIn, FS_EmptySet DEF IInv, Counts

LEMMA WaitKeeps ==
  ASSUME IInv, NEW k \in Closers, Wait(k)
  PROVE  IInv'
<1>. DEFINE to == IF wg = 0 THEN "drained" ELSE "asleep"
<1>1. /\ closer[k] = "closed" /\ closer' = [closer EXCEPT ![k] = to]
      /\ waiters' = IF wg = 0 THEN waiters ELSE waiters + 1
      /\ UNCHANGED <<open, closed, serve, stage, wg, active, crashed, late>>
  BY DEF Wait, loopVars
<1>2. In(LiveStages)' = In(LiveStages) /\ In({"relay"})' = In({"relay"})
  BY <1>1 DEF In
<1>3. waiters' = Cardinality(Asleep')
  <2>1. CASE wg = 0
    <3>1. Asleep' = Asleep
      BY <1>1, <2>1 DEF IInv, Types, Asleep
    <3>. QED
      BY <1>1, <2>1, <3>1 DEF IInv, Counts
  <2>2. CASE wg # 0
    <3>1. Asleep' = Asleep \cup {k} /\ k \notin Asleep
      BY <1>1, <2>2 DEF IInv, Types, Asleep
    <3>. QED
      BY <1>1, <2>2, <3>1, FiniteAsleep, FS_AddElement DEF IInv, Counts
  <2>. QED
    BY <2>1, <2>2
<1>4. Types'
  BY <1>1 DEF IInv, Types, CloserStages
<1>5. Counts'
  BY <1>1, <1>2, <1>3 DEF IInv, Counts
<1>6. closed
  BY <1>1 DEF IInv, ClosersClosed
<1>7. OneInHand' /\ LateIsLast' /\ ClosersClosed'
  BY <1>1, <1>6 DEF IInv, OneInHand, LateIsLast, ClosersClosed
<1>8. PanicsLate'
  BY <1>1 DEF IInv, Types, PanicsLate
<1>9. DoneOnes'
  <2>1. CASE wg = 0
    BY <1>1, <1>2, <1>6, <2>1, NobodyLive DEF DoneOnes
  <2>2. CASE wg # 0
    BY <1>1, <1>2, <2>2 DEF IInv, Types, DoneOnes
  <2>. QED
    BY <2>1, <2>2
<1>. QED
  BY <1>4, <1>5, <1>7, <1>8, <1>9 DEF IInv

LEMMA WaitOverKeeps ==
  ASSUME IInv, NEW k \in Closers, WaitOver(k)
  PROVE  IInv'
<1>. DEFINE to == IF wg = 0 THEN "drained" ELSE "panicked"
<1>1. /\ closer[k] = "woken" /\ closer' = [closer EXCEPT ![k] = to]
      /\ UNCHANGED <<open, closed, serve, stage, wg, waiters, active, crashed, late>>
  BY DEF WaitOver, loopVars
<1>2. In(LiveStages)' = In(LiveStages) /\ In({"relay"})' = In({"relay"})
  BY <1>1 DEF In
<1>3. Asleep' = Asleep
  BY <1>1 DEF IInv, Types, Asleep
<1>4. Types' /\ Counts'
  BY <1>1, <1>2, <1>3 DEF IInv, Types, Counts, CloserStages
<1>5. closed /\ In(LiveStages) \subseteq late
  BY <1>1 DEF IInv, DoneOnes
<1>6. OneInHand' /\ LateIsLast' /\ ClosersClosed' /\ DoneOnes'
  BY <1>1, <1>2, <1>5 DEF IInv, OneInHand, LateIsLast, ClosersClosed, DoneOnes
<1>7. PanicsLate'
  <2>1. CASE wg = 0
    BY <1>1, <2>1 DEF IInv, Types, PanicsLate
  <2>2. CASE wg # 0
    <3>1. In(LiveStages) # {}
      BY <2>2, FS_EmptySet DEF IInv, Counts
    <3>. QED
      BY <1>1, <1>5, <3>1 DEF PanicsLate
  <2>. QED
    BY <2>1, <2>2
<1>. QED
  BY <1>4, <1>6, <1>7 DEF IInv

-----------------------------------------------------------------------------
LEMMA NextIInv ==
  ASSUME IInv, [Next]_vars
  PROVE  IInv'
<1>1. CASE ServeStep
  BY <1>1, LoopKeeps, AcceptKeeps, CountKeeps DEF ServeStep
<1>2. ASSUME NEW c \in Conns, AwaitingStep(c) \/ HandlerStep(c) PROVE IInv'
  BY <1>2, HandlerKeeps, DoneKeeps, WakeKeeps DEF AwaitingStep, HandlerStep
<1>3. ASSUME NEW k \in Closers, Close(k) \/ CloserStep(k) PROVE IInv'
  BY <1>3, CloseKeeps, WaitKeeps, WaitOverKeeps DEF CloserStep
<1>4. CASE UNCHANGED vars
  <2>1. UNCHANGED <<open, closed, serve, stage, wg, waiters, closer, active, crashed, late>>
    BY <1>4 DEF vars, loopVars, groupVars
  <2>2. In(LiveStages)' = In(LiveStages) /\ In({"relay"})' = In({"relay"}) /\ Asleep' = Asleep
    BY <2>1 DEF In, Asleep
  <2>3. Types' /\ Counts' /\ DoneOnes'
    BY <2>1, <2>2 DEF IInv, Types, Counts, DoneOnes
  <2>4. OneInHand' /\ LateIsLast' /\ ClosersClosed' /\ PanicsLate'
    BY <2>1 DEF IInv, OneInHand, LateIsLast, ClosersClosed, PanicsLate
  <2>. QED
    BY <2>3, <2>4 DEF IInv
<1>. QED
  BY <1>1, <1>2, <1>3, <1>4 DEF Next

\* The inductive invariant: the counters count, one connection is in hand, and
\* the counter at zero under a closed socket leaves the late one only.
THEOREM Inductive == Spec => []IInv
  BY InitIInv, NextIInv, PTL DEF Spec

\* The variables keep their types (inbound.go:40-47).
THEOREM TypeCorrect == Spec => []TypeOK
<1>1. ASSUME IInv PROVE TypeOK
  <2>1. /\ Cardinality(In(LiveStages)) \in 0..Cardinality(Conns)
        /\ Cardinality(In({"relay"})) \in 0..Cardinality(Conns)
    <3>1. \A S : In(S) \in SUBSET Conns
      BY DEF In
    <3>2. Cardinality(Conns) \in Nat
      BY InboundAssumption, FS_CardinalityType
    <3>3. ASSUME NEW S PROVE Cardinality(In(S)) <= Cardinality(Conns)
      BY <3>1, InboundAssumption, FS_Subset
    <3>. QED
      BY <3>2, <3>3, FiniteIn
  <2>2. Cardinality(Asleep) \in 0..Cardinality(Closers)
    <3>1. Asleep \in SUBSET Closers
      BY DEF Asleep
    <3>2. Cardinality(Closers) \in Nat
      BY InboundAssumption, FS_CardinalityType
    <3>3. Cardinality(Asleep) <= Cardinality(Closers)
      BY <3>1, InboundAssumption, FS_Subset
    <3>. QED
      BY <3>2, <3>3, FiniteAsleep
  <2>. QED
    BY <1>1, <2>1, <2>2 DEF IInv, Types, Counts, TypeOK, Stages, CloserStages
<1>. QED
  BY <1>1, Inductive, PTL

\* The WaitGroup counts the handlers not yet done, ActiveConns those with a
\* dialer (inbound.go:110-112, 133-136).
THEOREM CountersCorrect == Spec => []CountersExact
<1>1. ASSUME IInv PROVE CountersExact
  <2>1. Live = In(LiveStages) /\ {c \in Conns : stage[c] = "relay"} = In({"relay"})
    BY DEF Live, In, LiveStages
  <2>. QED
    BY <1>1, <2>1 DEF IInv, Counts, CountersExact
<1>. QED
  BY <1>1, Inductive, PTL

\* One connection at most is served by a closed listener, and neither the accept
\* loop nor a caller of Close panics without it (inbound.go:82-93, 98-110).
THEOREM OneLateCorrect == Spec => []OneLateConnection
<1>1. ASSUME IInv PROVE OneLateConnection
  <2>1. Cardinality(late) <= 1
    <3>1. CASE late = {}
      BY <3>1, FS_EmptySet
    <3>2. ASSUME NEW c \in late PROVE Cardinality(late) <= 1
      <4>1. late = {c}
        BY <1>1, <3>2 DEF IInv, LateIsLast
      <4>. QED
        BY <4>1, FS_Singleton
    <3>. QED
      BY <3>1, <3>2
  <2>2. Live = In(LiveStages)
    BY DEF Live, In, LiveStages
  <2>3. (\E k \in Closers : closer[k] = "drained") => Live \subseteq late
    BY <1>1, <2>2 DEF IInv, DoneOnes
  <2>. QED
    BY <1>1, <2>1, <2>3 DEF IInv, PanicsLate, OneLateConnection
<1>. QED
  BY <1>1, Inductive, PTL

\* The waiter registers with the counter above zero, the last Done finds it
\* registered, and an Add from zero cannot come between without a panic.
THEOREM WakersCorrect == Spec => []NobodyWaitsInVain
<1>. DEFINE Wakers == Asleep # {} => In(LiveStages \cup {"waking"}) # {}
<1>1. Init => Wakers
  BY DEF Init, Asleep
<1>2. ASSUME IInv, Wakers, [Next]_vars PROVE Wakers'
  <2>. Types
    BY <1>2 DEF IInv
  <2>1. ASSUME Asleep' = Asleep,
               In(LiveStages \cup {"waking"})' = In(LiveStages \cup {"waking"})
        PROVE  Wakers'
    BY <1>2, <2>1
  <2>2. CASE AcceptFails \/ AfterFailure \/ SleepOver \/ UNCHANGED vars
    BY <2>1, <2>2 DEF AcceptFails, AfterFailure, SleepOver, vars, loopVars, groupVars, Asleep, In
  <2>3. ASSUME NEW c \in Conns, Accept(c) \/ Count(c) \/ AwaitingStep(c) \/ Dial(c) PROVE Wakers'
    <3>1. UNCHANGED closer
      BY <2>3 DEF Accept, Count, AwaitingStep, Connect, Peek, GiveUp, Dial, RelayEnds,
                  HandlerVarsSame, loopVars, groupVars
    <3>2. \E from, to \in Stages \ {"waking"} :
            Move(c, from, to) /\ (from \in LiveStages => to \in LiveStages)
      BY <2>3 DEF Accept, Count, AwaitingStep, Connect, Peek, GiveUp, Dial, RelayEnds, Stages,
                  LiveStages
    <3>3. In(LiveStages \cup {"waking"}) \subseteq In(LiveStages \cup {"waking"})'
      BY <3>2 DEF Move, Types, In
    <3>. QED
      BY <1>2, <3>1, <3>3 DEF Asleep
  <2>4. ASSUME NEW c \in Conns, Done(c) PROVE Wakers'
    <3>. DEFINE to == IF wg = 1 /\ waiters > 0 THEN "waking" ELSE "over"
    <3>1. Move(c, "ending", to) /\ to \in Stages /\ Asleep' = Asleep
      BY <2>4 DEF Done, Stages, Asleep
    <3>2. /\ stage' = [stage EXCEPT ![c] = to] /\ to \notin LiveStages
          /\ Cardinality(In(LiveStages)') = wg - 1
      BY <1>2, <3>1, MoveIn DEF LiveStages, IInv, Counts
    <3>3. CASE waiters = 0
      BY <1>2, <3>1, <3>3, FiniteAsleep, FS_EmptySet DEF IInv, Counts
    <3>4. CASE wg = 1 /\ waiters # 0
      <4>1. waiters > 0
        BY <1>2, <3>4, FiniteAsleep DEF IInv, Counts
      <4>. QED
        BY <3>2, <3>4, <4>1 DEF In, Types
    <3>5. CASE wg # 1
      <4>1. In(LiveStages)' # {}
        <5>1. wg \in Nat
          BY <1>2, FiniteIn DEF IInv, Counts
        <5>. QED
          BY <3>2, <3>5, <5>1, FS_EmptySet
      <4>. QED
        BY <4>1 DEF In
    <3>. QED
      BY <3>3, <3>4, <3>5
  <2>5. ASSUME NEW c \in Conns, WakeWaiters(c) PROVE Wakers'
    BY <2>5 DEF WakeWaiters, Asleep
  <2>6. ASSUME NEW k \in Closers, Close(k) \/ WaitOver(k) PROVE Wakers'
    <3>1. Asleep' = Asleep
      BY <2>6 DEF Close, WaitOver, Asleep, Types
    <3>2. In(LiveStages \cup {"waking"})' = In(LiveStages \cup {"waking"})
      BY <2>6 DEF Close, WaitOver, In, LiveStages, Types
    <3>. QED
      BY <2>1, <3>1, <3>2
  <2>7. ASSUME NEW k \in Closers, Wait(k) PROVE Wakers'
    <3>1. UNCHANGED stage
      BY <2>7 DEF Wait
    <3>2. CASE wg = 0
      BY <1>2, <2>7, <3>1, <3>2 DEF Wait, Asleep, In, Types
    <3>3. CASE wg # 0
      <4>1. In(LiveStages) # {}
        BY <1>2, <3>3, FS_EmptySet DEF IInv, Counts
      <4>. QED
        BY <3>1, <4>1 DEF In
    <3>. QED
      BY <3>2, <3>3
  <2>. QED
    BY <1>2, <2>2, <2>3, <2>4, <2>5, <2>6, <2>7
    DEF Next, ServeStep, AwaitingStep, HandlerStep, CloserStep
<1>3. Wakers => NobodyWaitsInVain
  BY DEF Asleep, In, LiveStages, NobodyWaitsInVain
<1>4. IInv /\ Wakers /\ [Next]_vars => Wakers'
  BY <1>2
<1>. QED
  BY <1>1, <1>3, <1>4, Inductive, PTL DEF Spec

\* A wait in Close has an end to hope for: the handlers that are counted, the last
\* of which wakes it (inbound.go:92, 107-112).
THEOREM CloseIsWokenCorrect == Spec => []CloseIsWoken
  BY CountersCorrect, WakersCorrect, PTL DEF CloseIsWoken

-----------------------------------------------------------------------------
(* Proxy: the components with what is proved of them.                      *)

MP == INSTANCE NodeManagerProofs WITH socket <- NodeSocket
TP == INSTANCE TunnelPoolProofs
        WITH socket <- TunnelSocket, mu <- tmu, stage <- client, Conns <- Clients, Shared <- Ports

\* The components may assume of their constants what they do.
LEMMA ManagerConstants == M!ManagerAssumption
  BY ProxyAssumption DEF M!ManagerAssumption

LEMMA TunnelConstants == T!TunnelAssumption
  BY ProxyAssumption DEF T!TunnelAssumption, Ports

SocketTyped == socket \in [Ports -> Nodes \cup {Free, Tunnel, Other}]

LEMMA BindsTyped ==
  ASSUME SocketTyped, NEW S \in SUBSET (Nodes \cup {Free, Tunnel, Other}), Binds(S)
  PROVE  SocketTyped'
  BY DEF SocketTyped, Binds

LEMMA NextTyped == SocketTyped /\ [ProxyNext]_proxyVars => SocketTyped'
<1>. SUFFICES ASSUME SocketTyped, [ProxyNext]_proxyVars PROVE SocketTyped'
  OBVIOUS
<1>1. CASE ManagerStep
  BY <1>1, BindsTyped DEF ManagerStep
<1>2. CASE TunnelStep
  BY <1>2, BindsTyped DEF TunnelStep
<1>3. CASE Signal \/ MainGoesOn \/ UNCHANGED proxyVars
  BY <1>3 DEF Signal, MainGoesOn, proxyVars, SocketTyped
<1>4. CASE \E p \in Ports : OtherProgram(p)
  BY <1>4 DEF OtherProgram, SocketTyped
<1>. QED
  BY <1>1, <1>2, <1>3, <1>4 DEF ProxyNext

LEMMA AlwaysTyped == ProxySpec => []SocketTyped
<1>1. ProxyInit => SocketTyped
  BY DEF ProxyInit, SocketTyped
<1>. QED
  BY <1>1, NextTyped, PTL DEF ProxySpec

-----------------------------------------------------------------------------
(* The manager *)

\* What the tunnel and others do to the sockets is to the manager what other
\* programs do.
LEMMA OthersOfManager ==
  ASSUME SocketTyped, NEW p \in Ports, NEW v \in {Free, Tunnel, Other},
         socket[p] \in {Free, Tunnel, Other}, socket' = [socket EXCEPT ![p] = v]
  PROVE  \/ NodeSocket' = NodeSocket
         \/ NodeSocket[p] = Free /\ NodeSocket' = [NodeSocket EXCEPT ![p] = Other]
         \/ NodeSocket[p] = Other /\ NodeSocket' = [NodeSocket EXCEPT ![p] = Free]
<1>1. /\ NodeSocket[p] = IF socket[p] = Tunnel THEN Other ELSE socket[p]
      /\ NodeSocket' = [NodeSocket EXCEPT ![p] = IF v = Tunnel THEN Other ELSE v]
  BY DEF NodeSocket, SocketTyped
<1>2. NodeSocket = [NodeSocket EXCEPT ![p] = NodeSocket[p]]
  BY DEF NodeSocket
<1>. HIDE DEF NodeSocket
<1>. QED
  BY <1>1, <1>2

LEMMA EnvironmentOfManager ==
  ASSUME SocketTyped, UNCHANGED <<activeNodes, managerOnly>>,
         \/ UNCHANGED socket
         \/ \E p \in Ports, v \in {Free, Tunnel, Other} :
              socket[p] \in {Free, Tunnel, Other} /\ socket' = [socket EXCEPT ![p] = v]
  PROVE  [M!Next]_(M!vars)
<1>. USE DEF managerOnly, M!managerVars, M!callVars, M!vars
<1>1. CASE UNCHANGED socket
  BY <1>1 DEF NodeSocket
<1>2. ASSUME NEW p \in Ports, NEW v \in {Free, Tunnel, Other},
             socket[p] \in {Free, Tunnel, Other}, socket' = [socket EXCEPT ![p] = v]
      PROVE  [M!Next]_(M!vars)
  <2>1. CASE NodeSocket' = NodeSocket
    BY <2>1
  <2>2. CASE NodeSocket[p] = Free /\ NodeSocket' = [NodeSocket EXCEPT ![p] = Other]
    <3>1. M!OtherBinds(p)
      BY <2>2 DEF M!OtherBinds
    <3>. QED
      BY <3>1 DEF M!Next, M!Environment, Ports
  <2>3. CASE NodeSocket[p] = Other /\ NodeSocket' = [NodeSocket EXCEPT ![p] = Free]
    <3>1. M!OtherReleases(p)
      BY <2>3 DEF M!OtherReleases
    <3>. QED
      BY <3>1 DEF M!Next, M!Environment, Ports
  <2>. QED
    BY <1>2, <2>1, <2>2, <2>3, OthersOfManager
<1>. QED
  BY <1>1, <1>2

\* Beside the tunnel the manager is what it is by itself, so that all that is
\* proved of it holds in the package (manager.go, main.go:81, 117-119).
THEOREM ManagerKept == ProxySpec => M!Spec
<1>1. ProxyInit => M!Init
  BY DEF ProxyInit
<1>2. SocketTyped /\ [ProxyNext]_proxyVars => [M!Next]_(M!vars)
  <2>. SUFFICES ASSUME SocketTyped, [ProxyNext]_proxyVars PROVE [M!Next]_(M!vars)
    OBVIOUS
  <2>1. CASE ManagerStep
    BY <2>1 DEF ManagerStep, SyncTunnel, M!Next, M!CallerStep, M!Environment
  <2>2. CASE Signal \/ MainGoesOn
    BY <2>2, ProxyAssumption DEF Signal, MainGoesOn, M!Next, M!Call, M!CallerStep
  <2>3. CASE TunnelStep
    BY <2>3, EnvironmentOfManager DEF TunnelStep, Binds
  <2>4. CASE \E p \in Ports : OtherProgram(p)
    BY <2>4, EnvironmentOfManager DEF OtherProgram
  <2>5. CASE UNCHANGED proxyVars
    BY <2>5, EnvironmentOfManager DEF proxyVars
  <2>. QED
    BY <2>1, <2>2, <2>3, <2>4, <2>5 DEF ProxyNext
<1>. QED
  BY <1>1, <1>2, AlwaysTyped, PTL DEF ProxySpec, M!Spec

\* MP is M with its proofs.
LEMMA SameManager == M!Spec <=> MP!Spec
<1>1. M!Init <=> MP!Init
  BY DEF M!Init, MP!Init
<1>2. \A used, base : M!AllocatePort(used, base) = MP!AllocatePort(used, base)
  BY DEF M!AllocatePort, MP!AllocatePort, M!Cardinality, MP!Cardinality
<1>3. \A c : M!SetBasePort(c) <=> MP!SetBasePort(c)
  BY DEF M!SetBasePort, MP!SetBasePort, M!Running, MP!Running, M!managerVars,
         MP!managerVars, M!callVars, MP!callVars
<1>4. \A c : M!Return(c) <=> MP!Return(c)
  BY DEF M!Return, MP!Return, M!Running, MP!Running, M!managerVars, MP!managerVars,
         M!callVars, MP!callVars
<1>5. \A c : M!SweepDone(c) <=> MP!SweepDone(c)
  BY DEF M!SweepDone, MP!SweepDone, M!Running, MP!Running, M!managerVars, MP!managerVars,
         M!callVars, MP!callVars
<1>6. \A c : M!SyncTunnel(c) <=> MP!SyncTunnel(c)
  BY DEF M!SyncTunnel, MP!SyncTunnel, M!Running, MP!Running, M!managerVars,
         MP!managerVars, M!callVars, MP!callVars
<1>7. \A c : M!CallStopAll(c) <=> MP!CallStopAll(c)
  BY DEF M!CallStopAll, MP!CallStopAll, M!Running, MP!Running, M!managerVars,
         MP!managerVars, M!callVars, MP!callVars
<1>8. \A c : M!ConnOpen(c) <=> MP!ConnOpen(c)
  BY DEF M!ConnOpen, MP!ConnOpen, M!managerVars, MP!managerVars, M!callVars, MP!callVars
<1>9. \A c : M!ConnEnd(c) <=> MP!ConnEnd(c)
  BY DEF M!ConnEnd, MP!ConnEnd, M!managerVars, MP!managerVars, M!callVars, MP!callVars
<1>10. \A c : M!OtherBinds(c) <=> MP!OtherBinds(c)
  BY DEF M!OtherBinds, MP!OtherBinds, M!managerVars, MP!managerVars, M!callVars,
         MP!callVars
<1>11. \A c : M!OtherReleases(c) <=> MP!OtherReleases(c)
  BY DEF M!OtherReleases, MP!OtherReleases, M!managerVars, MP!managerVars, M!callVars,
         MP!callVars
<1>12. \A c, n : M!StartRefused(c, n) <=> MP!StartRefused(c, n)
  BY <1>2 DEF M!StartRefused, MP!StartRefused, M!Take, MP!Take, M!NothingDone, MP!NothingDone,
         M!CanListen, MP!CanListen, M!Put, MP!Put, M!Running, MP!Running
<1>13. \A c, n : M!StartBindError(c, n) <=> MP!StartBindError(c, n)
  BY <1>2 DEF M!StartBindError, MP!StartBindError, M!Take, MP!Take, M!NothingDone,
         MP!NothingDone, M!CanListen, MP!CanListen, M!Put, MP!Put, M!Running, MP!Running
<1>14. \A c, n : M!Start(c, n) <=> MP!Start(c, n)
  BY <1>2 DEF M!Start, MP!Start, M!Take, MP!Take, M!NothingDone, MP!NothingDone, M!CanListen,
         MP!CanListen, M!Put, MP!Put, M!Running, MP!Running
<1>15. \A c, n : M!StopNotRunning(c, n) <=> MP!StopNotRunning(c, n)
  BY DEF M!StopNotRunning, MP!StopNotRunning, M!Take, MP!Take, M!NothingDone,
         MP!NothingDone, M!CloseListener, MP!CloseListener, M!Delete, MP!Delete,
         M!Running, MP!Running, M!managerVars, MP!managerVars
<1>16. \A c, n : M!Stop(c, n) <=> MP!Stop(c, n)
  BY DEF M!Stop, MP!Stop, M!Take, MP!Take, M!NothingDone, MP!NothingDone,
         M!CloseListener, MP!CloseListener, M!Delete, MP!Delete, M!Running, MP!Running,
         M!managerVars, MP!managerVars
<1>17. \A c, n : M!SweepNode(c, n) <=> MP!SweepNode(c, n)
  BY DEF M!SweepNode, MP!SweepNode, M!Take, MP!Take, M!NothingDone, MP!NothingDone,
         M!CloseListener, MP!CloseListener, M!Delete, MP!Delete, M!Running, MP!Running,
         M!managerVars, MP!managerVars
<1>18. \A c, n : M!Forget(c, n) <=> MP!Forget(c, n)
  BY DEF M!Forget, MP!Forget, M!Take, MP!Take, M!NothingDone, MP!NothingDone,
         M!CloseListener, MP!CloseListener, M!Delete, MP!Delete, M!Running, MP!Running,
         M!managerVars, MP!managerVars
<1>19. \A c, n, s : M!CallBatch(c, n, s) <=> MP!CallBatch(c, n, s)
  BY DEF M!CallBatch, MP!CallBatch, M!managerVars, MP!managerVars
<1>20. M!Next <=> MP!Next
  BY <1>3, <1>4, <1>5, <1>6, <1>7, <1>8, <1>9, <1>10, <1>11, <1>12, <1>13, <1>14, <1>15,
     <1>16, <1>17, <1>18, <1>19
  DEF M!Next, MP!Next, M!Call, MP!Call, M!CallerStep, MP!CallerStep, M!NodeStep,
      MP!NodeStep, M!Environment, MP!Environment
<1>21. [M!Next]_(M!vars) <=> [MP!Next]_(MP!vars)
  BY <1>20 DEF M!vars, MP!vars, M!managerVars, MP!managerVars, M!callVars, MP!callVars
<1>. QED
  BY <1>1, <1>21, PTL DEF M!Spec, MP!Spec

\* What is proved of the manager by itself.
LEMMA ManagerLifted ==
  ProxySpec => [](M!TypeOK /\ M!TablesAgree /\ M!ListenersMatchTable /\ MP!LockHeld)
<1>1. MP!Spec => []MP!IInv
  BY MP!Inductive, ManagerConstants DEF M!ManagerAssumption
<1>2. MP!IInv => M!TypeOK /\ M!ListenersMatchTable /\ MP!LockHeld
  BY DEF MP!IInv, MP!TypeOK, M!TypeOK, MP!ListenersMatchTable, M!ListenersMatchTable,
         MP!Running, M!Running
<1>3. MP!IInv => M!PortTable /\ M!TunnelInSync
  BY DEF MP!IInv, MP!PortTable, M!PortTable, MP!TunnelInSync, M!TunnelInSync, MP!Running, M!Running
<1>4. MP!IInv => M!TablesAgree
  BY <1>2, <1>3 DEF M!TablesAgree
<1>. QED
  BY <1>1, <1>2, <1>4, ManagerKept, SameManager, PTL

-----------------------------------------------------------------------------
(* The tunnel *)

\* What the manager and others do to the sockets is to the tunnel what other
\* programs do.
LEMMA OthersOfTunnel ==
  ASSUME SocketTyped, NEW p \in Ports, NEW v \in Nodes \cup {Free, Other},
         socket[p] \in Nodes \cup {Free, Other}, socket' = [socket EXCEPT ![p] = v]
  PROVE  \/ TunnelSocket' = TunnelSocket
         \/ TunnelSocket[p] = Free /\ TunnelSocket' = [TunnelSocket EXCEPT ![p] = Other]
         \/ TunnelSocket[p] = Other /\ TunnelSocket' = [TunnelSocket EXCEPT ![p] = Free]
<1>. DEFINE seen(w) == IF w \in {Free, Tunnel} THEN w ELSE Other
<1>1. /\ TunnelSocket[p] = seen(socket[p])
      /\ TunnelSocket' = [TunnelSocket EXCEPT ![p] = seen(v)]
  BY DEF TunnelSocket, SocketTyped
<1>2. seen(socket[p]) \in {Free, Other} /\ seen(v) \in {Free, Other}
  BY ProxyAssumption
<1>3. TunnelSocket = [TunnelSocket EXCEPT ![p] = TunnelSocket[p]]
  BY DEF TunnelSocket
<1>. HIDE DEF TunnelSocket, seen
<1>. QED
  BY <1>1, <1>2, <1>3

LEMMA EnvironmentOfTunnel ==
  ASSUME SocketTyped, UNCHANGED <<activeNodes, tunnelOnly>>,
         \/ UNCHANGED socket
         \/ \E p \in Ports, v \in Nodes \cup {Free, Other} :
              socket[p] \in Nodes \cup {Free, Other} /\ socket' = [socket EXCEPT ![p] = v]
  PROVE  [T!Next]_(T!vars)
<1>. USE DEF tunnelOnly, T!adminVars, T!vars
<1>1. CASE UNCHANGED socket
  BY <1>1 DEF TunnelSocket
<1>2. ASSUME NEW p \in Ports, NEW v \in Nodes \cup {Free, Other},
             socket[p] \in Nodes \cup {Free, Other}, socket' = [socket EXCEPT ![p] = v]
      PROVE  [T!Next]_(T!vars)
  <2>1. CASE TunnelSocket' = TunnelSocket
    BY <2>1
  <2>2. CASE \/ TunnelSocket[p] = Free /\ TunnelSocket' = [TunnelSocket EXCEPT ![p] = Other]
             \/ TunnelSocket[p] = Other /\ TunnelSocket' = [TunnelSocket EXCEPT ![p] = Free]
    <3>1. T!OtherProgram(p)
      BY <2>2 DEF T!OtherProgram
    <3>. QED
      BY <3>1 DEF T!Next, Ports
  <2>. QED
    BY <1>2, <2>1, <2>2, OthersOfTunnel
<1>. QED
  BY <1>1, <1>2

\* The manager tells the tunnel with t.mu free, of running nodes only.
LEMMA SyncIsUpdate ==
  ASSUME SocketTyped, M!TypeOK, NEW c \in Callers, SyncTunnel(c),
         Binds(Nodes \cup {Free}), UNCHANGED tunnelOnly
  PROVE  T!UpdateActiveNodes(M!Running) /\ M!Running \in SUBSET Nodes
<1>1. NodeSocket' = NodeSocket
  BY DEF SyncTunnel, M!SyncTunnel
<1>2. socket' = socket
  <2>. SUFFICES ASSUME NEW p \in Ports, NEW v \in Nodes \cup {Free},
                       socket[p] \in Nodes \cup {Free}, socket' = [socket EXCEPT ![p] = v]
                PROVE  v = socket[p]
    BY DEF Binds, SocketTyped
  <2>1. NodeSocket[p] = socket[p] /\ NodeSocket'[p] = v
    BY ProxyAssumption DEF NodeSocket, SocketTyped
  <2>. QED
    BY <1>1, <2>1
<1>3. TunnelSocket' = TunnelSocket
  BY <1>2 DEF TunnelSocket
<1>. QED
  BY <1>3 DEF SyncTunnel, M!SyncTunnel, T!UpdateActiveNodes, tunnelOnly, T!adminVars, M!TypeOK,
              M!Running

\* Beside the manager the tunnel is what it is by itself (tunnel.go,
\* manager.go:237-251, main.go:69-81, 117-119).
THEOREM TunnelKept == ProxySpec => T!Spec
<1>1. ProxyInit => T!Init
  BY DEF ProxyInit
<1>2. SocketTyped /\ M!TypeOK /\ [ProxyNext]_proxyVars => [T!Next]_(T!vars)
  <2>. SUFFICES ASSUME SocketTyped, M!TypeOK, [ProxyNext]_proxyVars PROVE [T!Next]_(T!vars)
    OBVIOUS
  <2>1. CASE ManagerStep
    <3>1. CASE \E c \in Callers : SyncTunnel(c)
      BY <2>1, <3>1, SyncIsUpdate DEF ManagerStep, T!Next
    <3>2. CASE UNCHANGED activeNodes
      BY <2>1, <3>2, EnvironmentOfTunnel DEF ManagerStep, Binds
    <3>3. CASE \/ \E b \in BasePorts : M!SetBasePort(b)
               \/ \E c \in Callers : M!Call(c) \/ M!Return(c) \/ M!SweepDone(c)
               \/ \E n \in Nodes : M!ConnOpen(n) \/ M!ConnEnd(n)
      <4>1. UNCHANGED activeNodes
        BY <3>3 DEF M!SetBasePort, M!Call, M!CallBatch, M!CallStopAll, M!Return, M!SweepDone,
                    M!ConnOpen, M!ConnEnd, M!managerVars
      <4>. QED
        BY <4>1, <3>2
    <3>4. CASE \E c \in Callers, n \in Nodes : M!NodeStep(c, n)
      <4>1. UNCHANGED activeNodes
        BY <3>4 DEF M!NodeStep, M!StartRefused, M!StartBindError, M!Start, M!StopNotRunning,
                    M!Stop, M!SweepNode, M!Forget, M!Take, M!managerVars
      <4>. QED
        BY <4>1, <3>2
    <3>. QED
      BY <2>1, <3>1, <3>3, <3>4 DEF ManagerStep
  <2>2. CASE TunnelStep
    BY <2>2 DEF TunnelStep, T!Next
  <2>3. CASE Signal
    BY <2>3, EnvironmentOfTunnel DEF Signal, M!CallStopAll, M!managerVars
  <2>4. CASE MainGoesOn
    BY <2>4 DEF MainGoesOn, T!Next
  <2>5. CASE \E p \in Ports : OtherProgram(p)
    BY <2>5, EnvironmentOfTunnel DEF OtherProgram
  <2>6. CASE UNCHANGED proxyVars
    BY <2>6, EnvironmentOfTunnel DEF proxyVars
  <2>. QED
    BY <2>1, <2>2, <2>3, <2>4, <2>5, <2>6 DEF ProxyNext
<1>. QED
  BY <1>1, <1>2, AlwaysTyped, ManagerLifted, PTL DEF ProxySpec, T!Spec

LEMMA SameTunnel == T!Spec <=> TP!Spec
<1>. USE DEF T!adminVars, TP!adminVars
<1>1. T!Init <=> TP!Init
  BY DEF T!Init, TP!Init, T!Config, TP!Config
<1>2. \A a : T!StopNothing(a) <=> TP!StopNothing(a)
  BY DEF T!StopNothing, TP!StopNothing, T!AfterStop, TP!AfterStop, T!Go, TP!Go
<1>3. \A a : T!Stop(a) <=> TP!Stop(a)
  BY DEF T!Stop, TP!Stop, T!Go, TP!Go
<1>4. \A a : T!Stopped(a) <=> TP!Stopped(a)
  BY DEF T!Stopped, TP!Stopped, T!AfterStop, TP!AfterStop, T!Go, TP!Go
<1>5. \A a : T!Start(a) <=> TP!Start(a)
  BY DEF T!Start, TP!Start, T!Go, TP!Go
<1>6. \A a, cfg : T!UpdateConfig(a, cfg) <=> TP!UpdateConfig(a, cfg)
  BY DEF T!UpdateConfig, TP!UpdateConfig, T!Go, TP!Go, T!Idle, TP!Idle
<1>7. T!Shutdown <=> TP!Shutdown
  BY DEF T!Shutdown, TP!Shutdown, T!Go, TP!Go
<1>8. \A S : T!UpdateActiveNodes(S) <=> TP!UpdateActiveNodes(S)
  BY DEF T!UpdateActiveNodes, TP!UpdateActiveNodes
<1>9. \A x, from, to : T!Move(x, from, to) <=> TP!Move(x, from, to)
  BY DEF T!Move, TP!Move
<1>10. \A x : /\ T!Connect(x) <=> TP!Connect(x)
              /\ T!FirstByte(x) <=> TP!FirstByte(x)
              /\ T!HangUp(x) <=> TP!HangUp(x)
              /\ T!GetDialer(x) <=> TP!GetDialer(x)
  BY <1>9 DEF T!Connect, TP!Connect, T!FirstByte, TP!FirstByte, T!HangUp, TP!HangUp,
              T!GetDialer, TP!GetDialer
<1>11. \A p : T!OtherProgram(p) <=> TP!OtherProgram(p)
  BY DEF T!OtherProgram, TP!OtherProgram
<1>12. T!Next <=> TP!Next
  BY <1>2, <1>3, <1>4, <1>5, <1>6, <1>7, <1>8, <1>10, <1>11
  DEF T!Next, TP!Next, T!AdminStep, TP!AdminStep, T!Config, TP!Config
<1>13. [T!Next]_(T!vars) <=> [TP!Next]_(TP!vars)
  BY <1>12 DEF T!vars, TP!vars
<1>. QED
  BY <1>1, <1>13, PTL DEF T!Spec, TP!Spec

\* What is proved of the tunnel by itself.
LEMMA TunnelLifted ==
  ProxySpec => [](T!TypeOK /\ T!TunnelFitsConfig /\ T!SocketIsInbound /\ T!OneDrainer /\ TP!MainWaits)
<1>1. TP!Spec => []TP!IInv
  BY TP!Inductive, TunnelConstants DEF T!TunnelAssumption
<1>2. TP!IInv => T!TypeOK /\ T!SocketIsInbound /\ T!OneDrainer /\ TP!MainWaits
  BY DEF TP!IInv, TP!TypeOK, T!TypeOK, TP!SocketIsInbound, T!SocketIsInbound, TP!OneDrainer,
         T!OneDrainer, TP!Config, T!Config
<1>3. TP!IInv => T!TunnelFitsConfig
  BY <1>2 DEF TP!IInv, TP!RunningMatchesConfig, T!RunningMatchesConfig, T!TunnelFitsConfig
<1>. QED
  BY <1>1, <1>2, <1>3, TunnelKept, SameTunnel, PTL

-----------------------------------------------------------------------------
(* Both *)

\* main calls no node up and no single one down, and does one thing after the
\* other: nothing of the tunnel before its signal, nothing of the manager
\* once it stops the tunnel.
MainInOrder ==
  /\ todo[Main] = {}
  /\ ~exiting => step[Main] = "none"
  /\ exiting => task[Main] = "none" /\ pc[Main] = "unlocked"

ProxyIInv ==
  /\ ProxyTypeOK
  /\ M!ListenersMatchTable
  /\ MP!LockHeld
  /\ T!SocketIsInbound
  /\ T!OneDrainer
  /\ MainInOrder

LEMMA MainIsBoth == Main \in Callers /\ Main \in Admins
  BY ProxyAssumption

LEMMA NextInOrder ==
  M!TypeOK /\ T!TypeOK /\ TP!MainWaits /\ MainInOrder /\ [ProxyNext]_proxyVars => MainInOrder'
<1>. SUFFICES ASSUME M!TypeOK, T!TypeOK, TP!MainWaits, MainInOrder, [ProxyNext]_proxyVars
              PROVE  MainInOrder'
  OBVIOUS
<1>. USE MainIsBoth DEF MainInOrder, M!TypeOK, T!TypeOK
<1>1. CASE ManagerStep
  <2>. UNCHANGED <<exiting, step>>
    BY <1>1 DEF ManagerStep, tunnelOnly
  <2>1. CASE \/ \E b \in BasePorts : M!SetBasePort(b)
             \/ \E n \in Nodes : M!ConnOpen(n) \/ M!ConnEnd(n)
    BY <2>1 DEF M!SetBasePort, M!ConnOpen, M!ConnEnd, M!callVars
  <2>2. ASSUME NEW c \in Callers \ {Main}, M!Call(c) \/ M!Return(c) PROVE MainInOrder'
    BY <2>2 DEF M!Call, M!CallBatch, M!CallStopAll, M!Return
  <2>3. ASSUME NEW c \in Callers, SyncTunnel(c) \/ M!SweepDone(c) PROVE MainInOrder'
    BY <2>3 DEF SyncTunnel, M!SyncTunnel, M!SweepDone
  <2>4. ASSUME NEW c \in Callers, NEW n \in Nodes, M!NodeStep(c, n) PROVE MainInOrder'
    <3>1. CASE M!SweepNode(c, n) \/ M!Forget(c, n)
      BY <3>1 DEF M!SweepNode, M!Forget, M!CloseListener
    <3>2. CASE \/ M!StartRefused(c, n) \/ M!StartBindError(c, n) \/ M!Start(c, n)
               \/ M!StopNotRunning(c, n) \/ M!Stop(c, n)
      <4>1. n \in todo[c] /\ todo' = [todo EXCEPT ![c] = @ \ {n}] /\ task' = task
        BY <3>2 DEF M!StartRefused, M!StartBindError, M!Start, M!StopNotRunning, M!Stop, M!Take
      <4>2. c # Main
        BY <4>1
      <4>3. pc'[Main] = pc[Main]
        BY <3>2, <4>2 DEF M!StartRefused, M!StartBindError, M!Start, M!StopNotRunning, M!Stop,
                          M!NothingDone, M!CloseListener
      <4>. QED
        BY <4>1, <4>2, <4>3
    <3>. QED
      BY <2>4, <3>1, <3>2 DEF M!NodeStep
  <2>. QED
    BY <1>1, <2>1, <2>2, <2>3, <2>4 DEF ManagerStep
<1>2. CASE TunnelStep
  <2>. UNCHANGED <<todo, task, pc>>
    BY <1>2 DEF TunnelStep, managerOnly
  <2>1. ASSUME NEW a \in Admins, T!AdminStep(a) \/ \E cfg \in T!Config : T!UpdateConfig(a, cfg)
        PROVE  MainInOrder'
    BY <2>1 DEF T!AdminStep, T!StopNothing, T!Stop, T!Stopped, T!Start, T!UpdateConfig,
                T!AfterStop, T!Go
  <2>2. ASSUME NEW x \in Clients,
               T!Connect(x) \/ T!FirstByte(x) \/ T!HangUp(x) \/ T!GetDialer(x)
        PROVE  MainInOrder'
    BY <2>2 DEF T!Connect, T!FirstByte, T!HangUp, T!GetDialer, T!Move, T!adminVars
  <2>. QED
    BY <1>2, <2>1, <2>2 DEF TunnelStep
<1>3. CASE Signal
  BY <1>3 DEF Signal, tunnelOnly, M!CallStopAll
<1>4. CASE MainGoesOn
  BY <1>4 DEF MainGoesOn, M!Return, T!Shutdown
<1>5. CASE (\E p \in Ports : OtherProgram(p)) \/ UNCHANGED proxyVars
  BY <1>5 DEF OtherProgram, proxyVars, managerOnly, tunnelOnly
<1>. QED
  BY <1>1, <1>2, <1>3, <1>4, <1>5 DEF ProxyNext

\* What is known of each alone, and the order of main.
THEOREM ProxyInductive == ProxySpec => []ProxyIInv
<1>1. ProxyInit => MainInOrder
  BY MainIsBoth DEF ProxyInit, M!Init, T!Init, MainInOrder
<1>2. ProxySpec => []MainInOrder
  BY <1>1, NextInOrder, ManagerLifted, TunnelLifted, PTL DEF ProxySpec
<1>3. SocketTyped /\ M!TypeOK /\ T!TypeOK => ProxyTypeOK
  BY DEF SocketTyped, ProxyTypeOK
<1>. QED
  BY <1>2, <1>3, AlwaysTyped, ManagerLifted, TunnelLifted, PTL DEF ProxyIInv

\* So neither notices the other but as its environment (manager.go, tunnel.go,
\* main.go:69-81, 117-119).
THEOREM BothKept == ProxySpec => EachKeepsItsSpec
  BY ManagerKept, TunnelKept, PTL DEF EachKeepsItsSpec

\* The tables of the manager and the configuration of the tunnel hold with the
\* other competing for the ports and for t.mu.
THEOREM PackageAgrees == ProxySpec => [](M!TablesAgree /\ T!TunnelFitsConfig)
  BY ManagerLifted, TunnelLifted, PTL

\* The state of both has its types.
THEOREM ProxyTypeCorrect == ProxySpec => []ProxyTypeOK
  BY ProxyInductive, PTL DEF ProxyIInv

\* Only a port in the middle of a close is shown by a node and the tunnel both.
THEOREM PortsApartCorrect == ProxySpec => []PortsApart
<1>1. ProxyIInv => PortsApart
  <2>. SUFFICES ASSUME ProxyIInv, NEW n \in DOMAIN runningNodes, inbound = runningNodes[n],
                       \A c \in Callers : closing[c] # n, \A a \in Admins : step[a] # "drain"
                PROVE  FALSE
    BY DEF PortsApart
  <2>1. n \in Nodes /\ inbound \in Ports
    BY DEF ProxyIInv, ProxyTypeOK, M!TypeOK, Ports
  <2>2. NodeSocket[inbound] = n
    BY DEF ProxyIInv, M!ListenersMatchTable, M!Running
  <2>3. socket[inbound] # Tunnel
    BY <2>1, <2>2, ProxyAssumption DEF NodeSocket
  <2>4. TunnelSocket[inbound] = Tunnel
    BY <2>1 DEF ProxyIInv, T!SocketIsInbound
  <2>. QED
    BY <2>1, <2>3, <2>4, ProxyAssumption DEF TunnelSocket
<1>. QED
  BY <1>1, ProxyInductive, PTL

\* A circle of goroutines through t.mu is that of Stuck; one without t.mu would
\* need the holder of m.mu to wait for something else than t.mu.
THEOREM OnlyDeadlockCorrect == ProxySpec => []OnlyThatDeadlock
<1>1. ProxyIInv => OnlyThatDeadlock
  <2>. SUFFICES ASSUME ProxyIInv, ~Stuck, NEW S \in SUBSET Goroutines, S # {},
                       \A p \in S : \E q \in S : WaitsFor(p, q)
                PROVE  FALSE
    BY DEF OnlyThatDeadlock
  <2>. USE ProxyAssumption, MainIsBoth DEF ProxyIInv, Goroutines
  <2>1. step[Main] = "drain" => pc[Main] = "unlocked"
    BY DEF MainInOrder
  <2>2. tmu \notin S
    <3>. SUFFICES ASSUME tmu \in S PROVE FALSE
      OBVIOUS
    <3>1. tmu \in Admins /\ step[tmu] = "drain"
      BY DEF ProxyTypeOK, T!TypeOK, T!OneDrainer
    <3>2. PICK q \in S : WaitsFor(tmu, q)
      OBVIOUS
    <3>3. ~ (tmu \in Callers /\ (pc[tmu] = "sync" \/ todo[tmu] # {}))
      BY <2>1, <3>1 DEF MainInOrder
    <3>4. q \in Clients /\ client[q] # "out"
      BY <3>1, <3>2, <3>3 DEF WaitsFor
    <3>5. client[q] = "dial"
      BY <3>4 DEF WaitsFor
    <3>. QED
      BY <3>1, <3>4, <3>5 DEF Stuck
  <2>3. S \cap Clients = {}
    BY <2>2 DEF WaitsFor
  <2>4. mu \notin S
    <3>. SUFFICES ASSUME mu \in S PROVE FALSE
      OBVIOUS
    <3>1. mu \in Callers /\ pc[mu] # "unlocked"
      BY DEF ProxyTypeOK, M!TypeOK, MP!LockHeld
    <3>2. PICK q \in S : WaitsFor(mu, q)
      OBVIOUS
    <3>3. mu \in Admins /\ step[mu] = "drain"
      BY <2>2, <2>3, <3>1, <3>2 DEF WaitsFor
    <3>. QED
      BY <2>1, <3>1, <3>3
  <2>. QED
    BY <2>2, <2>3, <2>4 DEF WaitsFor
<1>. QED
  BY <1>1, ProxyInductive, PTL

\* Neither side can undo it: the manager has no step on the tunnel's state but
\* with t.mu free, the tunnel none that takes a handler from GetDialer.
LEMMA StuckStep ==
  ASSUME ProxyIInv, Stuck, [ProxyNext]_proxyVars
  PROVE  /\ Stuck' /\ UNCHANGED tmu
         /\ \A c \in Callers : pc[c] = "sync" => pc'[c] = "sync" /\ mu' = mu
<1>. USE ProxyAssumption, MainIsBoth DEF ProxyIInv
<1>. DEFINE Waits == \A c \in Callers : pc[c] = "sync" => pc'[c] = "sync" /\ mu' = mu
<1>1. PICK a \in Admins : \E x \in Clients : step[a] = "drain" /\ client[x] = "dial"
  BY DEF Stuck
<1>2. PICK x \in Clients : client[x] = "dial"
  BY <1>1
<1>3. tmu = a /\ tmu # NoOne /\ step[a] = "drain"
  BY <1>1 DEF T!OneDrainer
<1>4. \A c \in Callers : pc[c] = "sync" => mu = c
  BY DEF MP!LockHeld
<1>5. CASE ManagerStep
  <2>1. Stuck' /\ UNCHANGED tmu
    BY <1>1, <1>5 DEF ManagerStep, tunnelOnly, Stuck
  <2>. SUFFICES ASSUME NEW c \in Callers, pc[c] = "sync" PROVE pc'[c] = "sync" /\ mu' = mu
    BY <2>1
  <2>2. mu = c /\ mu # NoOne /\ \A d \in Callers : d = c \/ pc[d] = "unlocked"
    BY <1>4 DEF MP!LockHeld
  <2>3. CASE \E b \in BasePorts : M!SetBasePort(b)
    BY <2>2, <2>3 DEF M!SetBasePort
  <2>4. CASE \E n \in Nodes : M!ConnOpen(n) \/ M!ConnEnd(n)
    BY <2>4 DEF M!ConnOpen, M!ConnEnd, M!callVars
  <2>5. CASE \E d \in Callers : M!Call(d) \/ M!Return(d)
    BY <2>2, <2>5 DEF M!Call, M!CallBatch, M!CallStopAll, M!Return
  <2>6. CASE \E d \in Callers : SyncTunnel(d)
    BY <1>3, <2>6 DEF SyncTunnel
  <2>7. CASE \E d \in Callers : M!SweepDone(d)
    BY <2>2, <2>7 DEF M!SweepDone
  <2>8. ASSUME NEW d \in Callers, NEW n \in Nodes, M!NodeStep(d, n) PROVE FALSE
    <3>1. pc[d] \notin {"sweep", "close"}
      BY <2>2
    <3>. QED
      BY <2>2, <2>8, <3>1 DEF M!NodeStep, M!StartRefused, M!StartBindError, M!Start,
              M!StopNotRunning, M!Stop, M!SweepNode, M!Forget, M!Take
  <2>. QED
    BY <1>5, <2>3, <2>4, <2>5, <2>6, <2>7, <2>8 DEF ManagerStep
<1>6. CASE TunnelStep
  <2>1. Waits
    BY <1>6 DEF TunnelStep, managerOnly
  <2>2. \A b \in Admins : ~T!AdminStep(b) /\ \A cfg \in T!Config : ~T!UpdateConfig(b, cfg)
    BY <1>2, <1>3 DEF T!AdminStep, T!StopNothing, T!Stop, T!Stopped, T!Start, T!UpdateConfig
  <2>3. ASSUME NEW y \in Clients,
               T!Connect(y) \/ T!FirstByte(y) \/ T!HangUp(y) \/ T!GetDialer(y)
        PROVE  client'[x] = "dial" /\ UNCHANGED <<tmu, step>>
    BY <1>2, <1>3, <2>3 DEF T!Connect, T!FirstByte, T!HangUp, T!GetDialer, T!Move, T!adminVars,
                            ProxyTypeOK, T!TypeOK
  <2>. QED
    BY <1>3, <1>6, <2>1, <2>2, <2>3 DEF TunnelStep, Stuck
<1>7. CASE Signal
  <2>1. Stuck' /\ UNCHANGED tmu
    BY <1>1, <1>7 DEF Signal, tunnelOnly, Stuck
  <2>2. Waits
    BY <1>4, <1>7 DEF Signal, M!CallStopAll
  <2>. QED
    BY <2>1, <2>2
<1>8. CASE MainGoesOn
  <2>1. a # Main
    BY <1>3, <1>8 DEF MainGoesOn, T!Shutdown, MainInOrder
  <2>2. step'[a] = "drain" /\ UNCHANGED <<tmu, client>>
    BY <1>3, <1>8, <2>1 DEF MainGoesOn, T!Shutdown, T!Go, ProxyTypeOK, T!TypeOK
  <2>3. Waits
    BY <1>8 DEF MainGoesOn, M!Return
  <2>. QED
    BY <1>2, <2>2, <2>3 DEF Stuck
<1>9. CASE (\E p \in Ports : OtherProgram(p)) \/ UNCHANGED proxyVars
  BY <1>9 DEF OtherProgram, proxyVars, managerOnly, tunnelOnly, Stuck
<1>. QED
  BY <1>5, <1>6, <1>7, <1>8, <1>9 DEF ProxyNext

\* Stuck is a property of the process from then on.
THEOREM StuckForGoodCorrect == ProxySpec => StuckForGood
  BY ProxyInductive, StuckStep, PTL DEF ProxySpec, StuckForGood

\* So one handler in GetDialer at the moment of a stop ends both: the tunnel
\* never goes on, and who then comes to it from the manager keeps m.mu for ever.
THEOREM NoWayOut ==
  ASSUME NEW c \in Callers
  PROVE  ProxySpec =>
           /\ [](Stuck => []Stuck)
           /\ [](Stuck /\ pc[c] = "sync" => [](pc[c] = "sync" /\ mu = c))
<1>1. ProxyIInv /\ Stuck /\ [ProxyNext]_proxyVars => Stuck'
  BY StuckStep
<1>2. ProxyIInv /\ (Stuck /\ pc[c] = "sync") /\ [ProxyNext]_proxyVars
        => (Stuck /\ pc[c] = "sync")'
  BY StuckStep
<1>3. ProxyIInv /\ Stuck /\ pc[c] = "sync" => mu = c
  BY DEF ProxyIInv, MP!LockHeld
<1>. QED
  BY <1>1, <1>2, <1>3, ProxyInductive, PTL DEF ProxySpec

\* The locks of the package: one circle, and what is in it stays in it.
THEOREM OneDeadlockCorrect == ProxySpec => OneDeadlock
  BY OnlyDeadlockCorrect, StuckForGoodCorrect, PTL DEF OneDeadlock
===============================================================================
