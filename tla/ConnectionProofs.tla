-------------------------- MODULE ConnectionProofs --------------------------
(***************************************************************************)
(* What a connection through the proxy is given: its node, as              *)
(* TunnelRouting chooses it, for any nodes, lists and results of tests;    *)
(* and its bytes, as Relay passes them on, however much the ends send.     *)
(***************************************************************************)
EXTENDS Relay, TunnelRouting, FiniteSetTheorems, SequenceTheorems, WellFoundedInduction, TLAPS

-----------------------------------------------------------------------------
(* Relay: its types, what either end sees of a conversation, and the counts *)
(* of bytes.  First the inductive invariant.                                *)

\* What a client is told before the dial, and before its data.
Said == IF kind = "socks5" THEN <<Method>> ELSE << >>
Told == IF kind = "plain" THEN << >> ELSE Append(Said, Established)
Before(d) == IF d = "up" THEN << >> ELSE Told

\* What is sent ahead of the relay is known to be: only that may be lost.
AheadIsSent ==
  \A d \in Directions :
    /\ Source(d) \in ahead => sent[d] > First(d)
    /\ stage \notin {"relay", "over"} /\ sent[d] > First(d) => Source(d) \in ahead

\* Before the relay the handler is done with the messages it has taken and
\* with nothing else, but for what HTTPDialer drops.
HandshakeUses ==
  /\ stage = "greet" => kind = "socks5" /\ used["up"] = 0
  /\ stage = "request" => used["up"] = Messages - 1
  /\ stage \in {"dial", "answered", "reply"} => used["up"] = Messages
  /\ stage \in {"greet", "request", "dial", "answered"} => used["down"] = 0
  /\ stage = "reply" => used["down"] = 0 \/ node = "http"

Idle(d) == at[d] = "none" /\ held[d] = << >> /\ count[d] = 0

\* No data has been sent to either end.
NoneRelayed ==
  /\ \A d \in Directions : Idle(d)
  /\ out["up"] = << >>
  /\ CASE stage = "greet" -> out["down"] = << >>
       [] stage = "over" -> out["down"] \in {<< >>, Said, Append(Said, Refused)}
       [] OTHER -> out["down"] = Said

\* What the other end has been sent goes up to n; the rest that has been used is
\* in the buffer, or was when a write failed.
Relayed(d, from, n) ==
  /\ out[d] = Before(d) \o Items(from, n)
  /\ CASE at[d] = "read"  -> n = used[d] /\ held[d] = << >>
       [] at[d] = "write" -> held[d] = Items(n, used[d])
       [] at[d] = "count" -> n = used[d]
       [] OTHER           -> at[d] \in {"break", "done"}
  /\ IF kind = "plain" THEN count[d] = 0
     ELSE LET written == n - from
          IN  /\ at[d] \in {"read", "write"} => count[d] = written
              /\ at[d] = "count" => count[d] + Len(held[d]) = written
              /\ count[d] <= written /\ written <= count[d] + Len(held[d])

SomeRelayed(d) == \E from \in Starts(d) : \E n \in from..used[d] : Relayed(d, from, n)

Conversation ==
  /\ stage \notin {"relay", "over"} => NoneRelayed
  /\ stage = "relay" => \A d \in Directions : SomeRelayed(d)
  /\ stage = "over" => \/ NoneRelayed
                       \/ /\ \A d \in Directions : SomeRelayed(d) /\ at[d] = "done"
                          /\ kind = "plain" => out["up"] = << >>
  /\ kind = "plain" /\ stage = "relay" => at["up"] = "done" /\ out["up"] = << >>

IInv == TypeOK /\ AheadIsSent /\ HandshakeUses /\ Conversation

-----------------------------------------------------------------------------
(* Items, which are all that is read and written.                          *)

LEMMA ItemsType ==
  ASSUME NEW m \in Nat, NEW n \in Nat, m <= n
  PROVE  /\ Items(m, n) \in Seq(Nat)
         /\ Len(Items(m, n)) = n - m
         /\ \A i \in 1..(n - m) : Items(m, n)[i] = m + i
<1>. DEFINE s == Items(m, n)
<1>1. /\ n - m \in Nat /\ s \in [1..(n - m) -> Nat]
      /\ \A i \in 1..(n - m) : s[i] = m + i
  BY DEF Items
<1>2. s \in Seq(Nat) /\ Len(s) = n - m
  BY <1>1, LenProperties, SeqDef
<1>. QED
  BY <1>1, <1>2

LEMMA NoItems ==
  ASSUME NEW n \in Nat
  PROVE  Items(n, n) = << >>
BY ItemsType, EmptySeq

LEMMA ItemsGoOn ==
  ASSUME NEW k \in Nat, NEW m \in Nat, NEW n \in Nat, k <= m, m <= n
  PROVE  Items(k, m) \o Items(m, n) = Items(k, n)
<1>. DEFINE a == Items(k, m)
            b == Items(m, n)
            c == Items(k, n)
<1>1. k <= n
  OBVIOUS
<1>2. /\ a \in Seq(Nat) /\ Len(a) = m - k /\ \A i \in 1..(m - k) : a[i] = k + i
      /\ b \in Seq(Nat) /\ Len(b) = n - m /\ \A i \in 1..(n - m) : b[i] = m + i
      /\ c \in Seq(Nat) /\ Len(c) = n - k /\ \A i \in 1..(n - k) : c[i] = k + i
  BY <1>1, ItemsType
<1>. HIDE DEF a, b, c
<1>3. /\ a \o b \in Seq(Nat) /\ Len(a \o b) = n - k
      /\ \A i \in 1..(n - k) : (a \o b)[i] = IF i <= m - k THEN a[i] ELSE b[i - (m - k)]
  <2>1. Len(a) + Len(b) = n - k
    BY <1>2
  <2>2. /\ a \o b \in Seq(Nat) /\ Len(a \o b) = Len(a) + Len(b)
        /\ \A i \in 1..(Len(a) + Len(b)) :
             (a \o b)[i] = IF i <= Len(a) THEN a[i] ELSE b[i - Len(a)]
    BY <1>2, ConcatProperties, Zenon
  <2>. QED
    BY <1>2, <2>1, <2>2
<1>4. ASSUME NEW i \in 1..(n - k)
      PROVE  (a \o b)[i] = c[i]
  <2>1. CASE i <= m - k
    BY <1>2, <1>3, <2>1
  <2>2. CASE ~(i <= m - k)
    <3>1. i - (m - k) \in 1..(n - m)
      BY <2>2
    <3>2. b[i - (m - k)] = m + (i - (m - k))
      BY <1>2, <3>1
    <3>3. m + (i - (m - k)) = k + i
      OBVIOUS
    <3>4. (a \o b)[i] = b[i - (m - k)]
      BY <1>3, <2>2
    <3>5. c[i] = k + i
      BY <1>2
    <3>. QED
      BY <3>2, <3>3, <3>4, <3>5
  <2>. QED
    BY <2>1, <2>2
<1>5. a \o b = c
  BY <1>2, <1>3, <1>4, SeqEqual
<1>. QED
  BY <1>5 DEF a, b, c

\* The first items of a buffer, those that a failed write has sent.
LEMMA ItemsPart ==
  ASSUME NEW m \in Nat, NEW n \in Nat, m <= n, NEW k \in 0..(n - m)
  PROVE  SubSeq(Items(m, n), 1, k) = Items(m, m + k)
<1>. DEFINE a == Items(m, n)
            b == Items(m, m + k)
<1>1. k \in Nat /\ m + k \in Nat /\ m <= m + k /\ (m + k) - m = k
  OBVIOUS
<1>2. /\ a \in Seq(Nat) /\ \A i \in 1..(n - m) : a[i] = m + i
      /\ b \in Seq(Nat) /\ Len(b) = k /\ \A i \in 1..k : b[i] = m + i
  BY <1>1, ItemsType
<1>. HIDE DEF a, b
<1>3. \A i \in 1..k : a[i] = b[i] /\ a[i] \in Nat
  BY <1>1, <1>2
<1>4. /\ SubSeq(a, 1, k) \in Seq(Nat) /\ Len(SubSeq(a, 1, k)) = k
      /\ \A i \in 1..k : SubSeq(a, 1, k)[i] = a[i]
  BY <1>1, <1>3, SubSeqProperties
<1>5. SubSeq(a, 1, k) = b
  BY <1>2, <1>3, <1>4, SeqEqual
<1>. QED
  BY <1>5 DEF a, b

\* What has been written goes on with the buffer.
LEMMA OutGoesOn ==
  ASSUME NEW s \in Seq(Int), NEW k \in Nat, NEW m \in Nat, NEW n \in Nat, k <= m, m <= n
  PROVE  (s \o Items(k, m)) \o Items(m, n) = s \o Items(k, n)
<1>. DEFINE a == Items(k, m)
            b == Items(m, n)
<1>1. a \in Seq(Int) /\ b \in Seq(Int)
  BY ItemsType, SeqMonotonic, Nat \subseteq Int
<1>2. a \o b = Items(k, n)
  BY ItemsGoOn
<1>. HIDE DEF a, b
<1>3. (s \o a) \o b = s \o (a \o b)
  BY <1>1, ConcatAssociative, Z3
<1>. QED
  BY <1>2, <1>3 DEF a, b

LEMMA ReplyTypes ==
  ASSUME kind \in {"socks5", "connect", "plain"}
  PROVE  /\ Said \in Seq(Int) /\ Told \in Seq(Int)
         /\ \A d \in Directions : Before(d) \in Seq(Int)
         /\ kind = "socks5"  => Said = <<Method>> /\ Told = <<Method, Established>>
         /\ kind = "connect" => Said = << >> /\ Told = <<Established>>
         /\ kind = "plain"   => Said = << >> /\ Told = << >>
<1>1. Method \in Int /\ Established \in Int
  BY DEF Method, Established
<1>2. Append(<<Method>>, Established) = <<Method, Established>>
  <2>. DEFINE s == Append(<<Method>>, Established)
  <2>1. <<Method>> \in Seq(Int) /\ Len(<<Method>>) = 1
    BY <1>1
  <2>2. s \in Seq(Int) /\ Len(s) = 2 /\ s[1] = Method /\ s[2] = Established
    BY <1>1, <2>1, AppendProperties
  <2>. HIDE DEF s
  <2>3. s = <<Method, Established>>
    BY <2>2
  <2>. QED
    BY <2>3 DEF s
<1>3. Append(<< >>, Established) = <<Established>>
  OBVIOUS
<1>4. CASE kind = "socks5"
  BY <1>1, <1>2, <1>4 DEF Said, Told, Before
<1>5. CASE kind = "connect"
  BY <1>1, <1>3, <1>5 DEF Said, Told, Before
<1>6. CASE kind = "plain"
  BY <1>1, <1>6 DEF Said, Told, Before
<1>. QED
  BY <1>4, <1>5, <1>6

LEMMA FirstType ==
  ASSUME NEW d
  PROVE  First(d) \in Nat /\ Messages \in 1..2 /\ First("up") = Messages /\ First("down") = 0
BY DEF First, Messages

-----------------------------------------------------------------------------
(* The steps of the proof: first what the handler is done with.            *)

LEMMA InitIInv == Init => IInv
<1>. SUFFICES ASSUME Init
              PROVE  IInv
  OBVIOUS
<1>1. TypeOK
  <2>1. << >> \in Seq(Nat) /\ << >> \in Seq(Int)
    OBVIOUS
  <2>2. /\ sent = [d \in Directions |-> 0] /\ taken = sent /\ used = sent /\ count = sent
        /\ sent \in [Directions -> Nat] /\ \A d \in Directions : sent[d] = 0
    BY DEF Init
  <2>3. /\ at \in [Directions -> {"none"}] /\ held \in [Directions -> Seq(Nat)]
        /\ out \in [Directions -> Seq(Int)]
    BY <2>1 DEF Init
  <2>4. \A d \in Directions : count[d] <= used[d] /\ used[d] <= taken[d] /\ taken[d] <= sent[d]
    BY <2>2
  <2>5. \A f \in {sent, taken, used, count} : f \in [Directions -> Nat]
    BY <2>2
  <2>6. peer \in [{"client", "remote"} -> {"none", "open", "done", "gone"}]
    BY DEF Init
  <2>. QED
    BY <2>3, <2>4, <2>5, <2>6 DEF Init, TypeOK
<1>2. AheadIsSent
  BY FirstType DEF Init, AheadIsSent, Directions
<1>3. HandshakeUses
  BY DEF Init, HandshakeUses, Messages, Directions
<1>4. Conversation
  BY DEF Init, Conversation, NoneRelayed, Idle, Said, Directions
<1>. QED
  BY <1>1, <1>2, <1>3, <1>4 DEF IInv

LEMMA AheadStep ==
  ASSUME IInv, [Next]_vars
  PROVE  AheadIsSent'
<1>. USE FirstType DEF IInv, TypeOK, AheadIsSent, First, Messages, Source, Directions
<1>1. CASE \E d \in Directions : Send(d)
  BY <1>1 DEF Send
<1>2. CASE ~\E d \in Directions : Send(d)
  <2>1. UNCHANGED <<kind, sent, ahead>> /\ (stage \in {"relay", "over"} => stage' \in {"relay", "over"})
    BY <1>2 DEF Next, Handler, Ends, Pump, vars, traffic, Leave, StopOrRead, Connected, DialFails,
         Greet, AcceptRequest, RejectMessage, HandshakeEnds, DialReturns, BeginRelay, RoundTrip,
         HandlerReturns, Over, Read, ReadEnds, Write, WriteFails, Count, CloseBoth
  <2>. QED
    BY <2>1
<1>. QED
  BY <1>1, <1>2

LEMMA UsesStep ==
  ASSUME IInv, [Next]_vars
  PROVE  HandshakeUses'
<1>. USE DEF IInv, TypeOK, HandshakeUses, Messages, Directions
<1>1. CASE UNCHANGED <<kind, node, stage, used>>
  BY <1>1
<1>2. CASE stage' \in {"relay", "over"}
  BY <1>2
<1>3. CASE Connected
  BY <1>3 DEF Connected, traffic
<1>4. ASSUME NEW t, Greet(t) \/ AcceptRequest(t)
      PROVE  HandshakeUses'
  BY <1>4 DEF Greet, AcceptRequest, TakeMessage
<1>5. CASE DialReturns
  BY <1>5 DEF DialReturns
<1>6. CASE \E d \in Directions : Pump(d)
  <2>1. stage = "relay" /\ UNCHANGED stage
    BY <1>6 DEF Pump, Read, ReadEnds, Write, WriteFails, Count, CloseBoth,
         Conversation, NoneRelayed, SomeRelayed, Idle
  <2>. QED
    BY <2>1
<1>. QED
  BY <1>1, <1>2, <1>3, <1>4, <1>5, <1>6
     DEF Next, Handler, Ends, vars, traffic, Send, Leave, StopOrRead, DialFails, RejectMessage,
         HandshakeEnds, BeginRelay, RoundTrip, HandlerReturns, Over

-----------------------------------------------------------------------------
(* What a step leaves of a conversation.                                   *)

LEMMA StartsGrow ==
  ASSUME TypeOK, AheadIsSent', NEW d \in Directions, UNCHANGED <<kind, node>>,
         ahead \subseteq ahead', sent[d] \in Nat, sent'[d] \in Nat, sent[d] <= sent'[d]
  PROVE  Starts(d) \subseteq Starts(d)'
<1>1. First(d) \in Nat /\ First(d)' = First(d)
  BY FirstType DEF First, Messages
<1>2. CASE MayLose(d)
  <2>1. MayLose(d)'
    BY <1>2 DEF MayLose, Source
  <2>. QED
    BY <1>1, <1>2, <2>1 DEF Starts
<1>3. CASE ~MayLose(d)
  <2>1. MayLose(d)' => sent'[d] > First(d)
    BY <1>1 DEF MayLose, AheadIsSent, Source
  <2>. QED
    BY <1>1, <1>3, <2>1 DEF Starts
<1>. QED
  BY <1>2, <1>3

\* The handler does nothing in this direction.
Rests(d) ==
  /\ UNCHANGED <<kind, node>> /\ ahead \subseteq ahead'
  /\ sent'[d] \in Nat /\ sent[d] <= sent'[d]
  /\ used'[d] = used[d] /\ at'[d] = at[d] /\ held'[d] = held[d]
  /\ out'[d] = out[d] /\ count'[d] = count[d]

LEMMA RestKeeps ==
  ASSUME TypeOK, AheadIsSent', NEW d \in Directions, Rests(d), SomeRelayed(d)
  PROVE  SomeRelayed(d)'
<1>1. PICK from \in Starts(d) : \E n \in from..used[d] : Relayed(d, from, n)
  BY DEF SomeRelayed
<1>2. PICK n \in from..used[d] : Relayed(d, from, n)
  BY <1>1
<1>3. from \in Starts(d)'
  BY StartsGrow DEF Rests, TypeOK
<1>4. Before(d)' = Before(d)
  BY DEF Rests, Before, Told, Said
<1>5. Relayed(d, from, n)'
  BY <1>2, <1>4 DEF Relayed, Rests, Items
<1>. QED
  BY <1>2, <1>3, <1>5 DEF SomeRelayed, Rests

\* A step of the pump in one direction.
Pumps(d) ==
  /\ stage = "relay"
  /\ UNCHANGED <<kind, node, stage, sent, ahead>>
  /\ \A e \in Directions \ {d} : Rests(e)

\* The part of the invariant that is about the relay, after such a step.
LEMMA PumpKeeps ==
  ASSUME IInv, AheadIsSent', NEW d \in Directions, Pumps(d),
         at[d] # "done", kind = "plain" => d # "up", SomeRelayed(d)'
  PROVE  Conversation'
<1>1. \A e \in Directions : SomeRelayed(e)'
  BY RestKeeps DEF Pumps, IInv, Conversation
<1>2. kind = "plain" => at'["up"] = "done" /\ out'["up"] = << >>
  BY DEF Pumps, Rests, IInv, Conversation, Directions
<1>. QED
  BY <1>1, <1>2 DEF Pumps, Conversation

-----------------------------------------------------------------------------
(* The steps of pipeBidirectional.                                         *)

\* Where a pump runs, and the numbers it has to do with.
LEMMA PumpRuns ==
  ASSUME IInv, NEW d \in Directions, at[d] \in {"read", "write", "count", "break"}
  PROVE  /\ stage = "relay" /\ (kind = "plain" => d # "up")
         /\ used[d] \in Nat /\ taken[d] \in Nat /\ sent[d] \in Nat /\ count[d] \in Nat
         /\ count[d] <= used[d] /\ used[d] <= taken[d] /\ taken[d] <= sent[d]
         /\ SomeRelayed(d) /\ Starts(d) \subseteq Nat
<1>1. /\ stage = "relay" /\ SomeRelayed(d) /\ (kind = "plain" => d # "up")
  BY DEF IInv, Conversation, NoneRelayed, Idle, TypeOK, Directions
<1>2. /\ used[d] \in Nat /\ taken[d] \in Nat /\ sent[d] \in Nat /\ count[d] \in Nat
      /\ count[d] <= used[d] /\ used[d] <= taken[d] /\ taken[d] <= sent[d]
  BY DEF IInv, TypeOK
<1>3. Starts(d) \subseteq Nat
  BY FirstType, <1>2 DEF Starts
<1>. QED
  BY <1>1, <1>2, <1>3

\* A read goes on from what has been used.
LEMMA ReadStep ==
  ASSUME IInv, AheadIsSent', NEW d \in Directions, NEW t, Read(d, t)
  PROVE  TypeOK' /\ Conversation'
<1>. DEFINE u == used[d]
<1>1. /\ stage = "relay" /\ (kind = "plain" => d # "up")
      /\ u \in Nat /\ taken[d] \in Nat /\ sent[d] \in Nat
      /\ count[d] \in Nat /\ count[d] <= u /\ u <= taken[d] /\ taken[d] <= sent[d]
      /\ SomeRelayed(d) /\ Starts(d) \subseteq Nat
  BY PumpRuns DEF Read
<1>2. t \in Nat /\ u < t /\ taken[d] <= t /\ t <= sent[d]
  BY <1>1 DEF Read
<1>3. /\ taken' = [taken EXCEPT ![d] = t] /\ used' = [used EXCEPT ![d] = t]
      /\ held' = [held EXCEPT ![d] = Items(u, t)] /\ at' = [at EXCEPT ![d] = "write"]
      /\ UNCHANGED <<kind, node, peer, reads, stage, sent, out, count, closed, ahead>>
  BY DEF Read
<1>4. Items(u, t) \in Seq(Nat) /\ Len(Items(u, t)) = t - u
  <2>1. u \in Nat /\ u <= t
    BY <1>1, <1>2
  <2>. QED
    BY <1>2, <2>1, ItemsType
<1>5. TypeOK'
  BY <1>1, <1>2, <1>3, <1>4 DEF IInv, TypeOK
<1>6. PICK from \in Starts(d) : \E n \in from..u : Relayed(d, from, n)
  BY <1>1 DEF SomeRelayed
<1>7. PICK n \in from..u : Relayed(d, from, n)
  BY <1>6
<1>8. /\ n = u /\ out[d] = Before(d) \o Items(from, n) /\ held[d] = << >>
      /\ IF kind = "plain" THEN count[d] = 0 ELSE count[d] = n - from
  BY <1>7 DEF Relayed, Read
<1>9. /\ at'[d] = "write" /\ out'[d] = out[d] /\ held'[d] = Items(n, used'[d])
      /\ Before(d)' = Before(d) /\ count'[d] = count[d] /\ Len(held'[d]) = t - u
  BY <1>3, <1>4, <1>8 DEF Before, Told, Said, IInv, TypeOK
<1>10. Relayed(d, from, n)'
  <2>. from \in Nat
    BY <1>1, <1>6
  <2>. QED
    BY <1>1, <1>2, <1>3, <1>8, <1>9 DEF Relayed, Items
<1>11. n \in from..used'[d]
  BY <1>1, <1>2, <1>3, <1>7, <1>8 DEF IInv, TypeOK
<1>12. from \in Starts(d)'
  BY <1>1, <1>3, <1>6, StartsGrow DEF IInv
<1>13. Pumps(d)
  BY <1>1, <1>3 DEF Pumps, Rests, IInv, TypeOK
<1>. QED
  BY <1>1, <1>5, <1>10, <1>11, <1>12, <1>13, PumpKeeps DEF SomeRelayed, Read

LEMMA ReadEndsStep ==
  ASSUME IInv, AheadIsSent', NEW d \in Directions, ReadEnds(d)
  PROVE  TypeOK' /\ Conversation'
<1>1. /\ stage = "relay" /\ (kind = "plain" => d # "up")
      /\ used[d] \in Nat /\ sent[d] \in Nat /\ count[d] \in Nat
      /\ SomeRelayed(d) /\ Starts(d) \subseteq Nat
  BY PumpRuns DEF ReadEnds
<1>2. /\ at' = [at EXCEPT ![d] = "break"]
      /\ UNCHANGED <<kind, node, peer, reads, stage, sent, taken, used, held, out, count, closed, ahead>>
  BY DEF ReadEnds, traffic
<1>3. TypeOK'
  BY <1>2 DEF IInv, TypeOK
<1>4. PICK from \in Starts(d) : \E n \in from..used[d] : Relayed(d, from, n)
  BY <1>1 DEF SomeRelayed
<1>5. PICK n \in from..used[d] : Relayed(d, from, n)
  BY <1>4
<1>6. at[d] = "read" /\ at'[d] = "break" /\ Before(d)' = Before(d)
  BY <1>2 DEF ReadEnds, Before, Told, Said, IInv, TypeOK
<1>7. Relayed(d, from, n)'
  BY <1>2, <1>5, <1>6 DEF Relayed, Items
<1>8. from \in Starts(d)'
  BY <1>1, <1>2, <1>4, StartsGrow DEF IInv
<1>9. Pumps(d)
  BY <1>1, <1>2 DEF Pumps, Rests, IInv, TypeOK
<1>. QED
  BY <1>1, <1>2, <1>3, <1>5, <1>6, <1>7, <1>8, <1>9, PumpKeeps DEF SomeRelayed

\* A write goes on from what has been written, to what has been used.
LEMMA WriteStep ==
  ASSUME IInv, AheadIsSent', NEW d \in Directions, Write(d)
  PROVE  TypeOK' /\ Conversation'
<1>0. PICK u \in Nat : u = used[d]
  BY PumpRuns DEF Write
<1>1. /\ stage = "relay" /\ (kind = "plain" => d # "up")
      /\ sent[d] \in Nat /\ count[d] \in Nat
      /\ SomeRelayed(d) /\ Starts(d) \subseteq Nat
  BY PumpRuns DEF Write
<1>2. /\ out' = [out EXCEPT ![d] = @ \o held[d]] /\ at' = [at EXCEPT ![d] = "count"]
      /\ UNCHANGED <<kind, node, peer, reads, stage, sent, taken, used, held, count, closed, ahead>>
  BY DEF Write
<1>3. PICK from \in Starts(d) : \E n \in from..u : Relayed(d, from, n)
  BY <1>0, <1>1 DEF SomeRelayed
<1>4. PICK n \in from..u : Relayed(d, from, n)
  BY <1>3
<1>5. /\ out[d] = Before(d) \o Items(from, n) /\ held[d] = Items(n, u)
      /\ IF kind = "plain" THEN count[d] = 0 ELSE count[d] = n - from
  BY <1>0, <1>4 DEF Relayed, Write
<1>6. from \in Nat /\ n \in Nat /\ from <= n /\ n <= u
  BY <1>1, <1>3, <1>4
<1>7. Before(d) \in Seq(Int) /\ Before(d)' = Before(d)
  BY <1>2, ReplyTypes DEF Before, Told, Said, IInv, TypeOK
<1>8. out[d] \o held[d] = Before(d) \o Items(from, u)
  <2>1. (Before(d) \o Items(from, n)) \o Items(n, u) = Before(d) \o Items(from, u)
    BY <1>6, <1>7, OutGoesOn
  <2>. QED
    BY <1>5, <2>1
<1>9. /\ out'[d] = Before(d) \o Items(from, u) /\ at'[d] = "count"
      /\ held'[d] = held[d] /\ Len(held[d]) = u - n /\ used'[d] = u
  BY <1>0, <1>2, <1>5, <1>6, <1>8, ItemsType DEF IInv, TypeOK
<1>10. TypeOK'
  <2>1. out[d] \o held[d] \in Seq(Int)
    BY ConcatProperties, SeqMonotonic, Nat \subseteq Int DEF IInv, TypeOK
  <2>. QED
    BY <1>2, <2>1 DEF IInv, TypeOK
<1>11. Relayed(d, from, u)'
  <2>1. out'[d] = Before(d)' \o Items(from, u)
    BY <1>7, <1>9
  <2>2. kind' = kind /\ count'[d] = count[d] /\ Len(held'[d]) = u - n
    BY <1>2, <1>9
  <2>3. IF kind' = "plain" THEN count'[d] = 0
        ELSE /\ count'[d] + Len(held'[d]) = u - from
             /\ count'[d] <= u - from /\ u - from <= count'[d] + Len(held'[d])
    BY <1>1, <1>5, <1>6, <2>2
  <2>. QED
    BY <1>9, <2>1, <2>3 DEF Relayed
<1>12. u \in from..used'[d]
  BY <1>1, <1>6, <1>9
<1>13. from \in Starts(d)'
  BY <1>1, <1>2, <1>3, StartsGrow DEF IInv
<1>14. Pumps(d)
  BY <1>1, <1>2 DEF Pumps, Rests, IInv, TypeOK
<1>. QED
  BY <1>1, <1>10, <1>11, <1>12, <1>13, <1>14, PumpKeeps DEF SomeRelayed, Write

\* A write that fails has sent the first of what it was to send.
LEMMA WriteFailsStep ==
  ASSUME IInv, AheadIsSent', NEW d \in Directions, WriteFails(d)
  PROVE  TypeOK' /\ Conversation'
<1>0. PICK u \in Nat : u = used[d]
  BY PumpRuns DEF WriteFails
<1>1. /\ stage = "relay" /\ (kind = "plain" => d # "up")
      /\ sent[d] \in Nat /\ count[d] \in Nat
      /\ SomeRelayed(d) /\ Starts(d) \subseteq Nat
  BY PumpRuns DEF WriteFails
<1>2. /\ at' = [at EXCEPT ![d] = "break"]
      /\ UNCHANGED <<kind, node, peer, reads, stage, sent, taken, used, held, count, closed, ahead>>
  BY DEF WriteFails
<1>3. PICK k \in 0..(Len(held[d]) - 1) : out' = [out EXCEPT ![d] = @ \o SubSeq(held[d], 1, k)]
  BY DEF WriteFails
<1>4. PICK from \in Starts(d) : \E n \in from..u : Relayed(d, from, n)
  BY <1>0, <1>1 DEF SomeRelayed
<1>5. PICK n \in from..u : Relayed(d, from, n)
  BY <1>4
<1>6. /\ out[d] = Before(d) \o Items(from, n) /\ held[d] = Items(n, u)
      /\ IF kind = "plain" THEN count[d] = 0 ELSE count[d] = n - from
  BY <1>0, <1>5 DEF Relayed, WriteFails
<1>7. from \in Nat /\ n \in Nat /\ from <= n /\ n <= u
  BY <1>1, <1>4, <1>5
<1>8. Len(held[d]) = u - n
  BY <1>6, <1>7, ItemsType
<1>9. k \in Nat /\ k \in 0..(u - n) /\ n + k \in Nat /\ n <= n + k /\ n + k <= u
  BY <1>3, <1>7, <1>8
<1>10. Before(d) \in Seq(Int) /\ Before(d)' = Before(d)
  BY <1>2, ReplyTypes DEF Before, Told, Said, IInv, TypeOK
<1>11. SubSeq(held[d], 1, k) = Items(n, n + k)
  <2>1. SubSeq(Items(n, u), 1, k) = Items(n, n + k)
    BY <1>7, <1>9, ItemsPart
  <2>. QED
    BY <1>6, <2>1
<1>12. out[d] \o Items(n, n + k) = Before(d) \o Items(from, n + k)
  <2>1. (Before(d) \o Items(from, n)) \o Items(n, n + k) = Before(d) \o Items(from, n + k)
    BY <1>7, <1>9, <1>10, OutGoesOn
  <2>. QED
    BY <1>6, <2>1
<1>13. TypeOK'
  <2>1. Items(n, n + k) \in Seq(Int)
    BY <1>7, <1>9, ItemsType, SeqMonotonic, Nat \subseteq Int
  <2>2. out[d] \o Items(n, n + k) \in Seq(Int)
    BY <2>1, ConcatProperties DEF IInv, TypeOK
  <2>. QED
    BY <1>2, <1>3, <1>11, <2>2 DEF IInv, TypeOK
<1>14. Relayed(d, from, n + k)'
  <2>1. at'[d] = "break" /\ out'[d] = Before(d)' \o Items(from, n + k)
    BY <1>2, <1>3, <1>10, <1>11, <1>12 DEF IInv, TypeOK
  <2>2. IF kind' = "plain" THEN count'[d] = 0
        ELSE count'[d] <= (n + k) - from /\ (n + k) - from <= count'[d] + Len(held'[d])
    BY <1>2, <1>6, <1>7, <1>8, <1>9
  <2>. QED
    BY <2>1, <2>2 DEF Relayed
<1>15. n + k \in from..used'[d]
  BY <1>0, <1>2, <1>7, <1>9
<1>16. from \in Starts(d)'
  BY <1>1, <1>2, <1>4, StartsGrow DEF IInv
<1>17. Pumps(d)
  BY <1>1, <1>2, <1>3 DEF Pumps, Rests, IInv, TypeOK
<1>. QED
  BY <1>1, <1>13, <1>14, <1>15, <1>16, <1>17, PumpKeeps DEF SomeRelayed, WriteFails

\* All that is written has been counted.
LEMMA CountStep ==
  ASSUME IInv, AheadIsSent', NEW d \in Directions, Count(d)
  PROVE  TypeOK' /\ Conversation'
<1>0. PICK u \in Nat : u = used[d]
  BY PumpRuns DEF Count
<1>1. /\ stage = "relay" /\ (kind = "plain" => d # "up")
      /\ sent[d] \in Nat /\ count[d] \in Nat
      /\ SomeRelayed(d) /\ Starts(d) \subseteq Nat
  BY PumpRuns DEF Count
<1>2. /\ count' = IF kind = "plain" THEN count ELSE [count EXCEPT ![d] = @ + Len(held[d])]
      /\ held' = [held EXCEPT ![d] = << >>]
      /\ at' = [at EXCEPT ![d] = "read"]
      /\ UNCHANGED <<kind, node, peer, reads, stage, sent, taken, used, out, closed, ahead>>
  BY DEF Count
<1>3. PICK from \in Starts(d) : \E n \in from..u : Relayed(d, from, n)
  BY <1>0, <1>1 DEF SomeRelayed
<1>4. PICK n \in from..u : Relayed(d, from, n)
  BY <1>3
<1>5. /\ out[d] = Before(d) \o Items(from, n) /\ n = u
      /\ IF kind = "plain" THEN count[d] = 0 ELSE count[d] + Len(held[d]) = n - from
  BY <1>0, <1>4 DEF Relayed, Count
<1>6. from \in Nat /\ n \in Nat /\ from <= n
  BY <1>1, <1>3, <1>4
<1>7. IF kind = "plain" THEN count' = count ELSE count' = [count EXCEPT ![d] = n - from]
  BY <1>2, <1>5
<1>8. TypeOK'
  <2>1. n - from \in Nat /\ n - from <= u
    BY <1>5, <1>6
  <2>2. << >> \in Seq(Nat)
    OBVIOUS
  <2>3. CASE kind = "plain"
    BY <1>2, <1>7, <2>2, <2>3 DEF IInv, TypeOK
  <2>4. CASE kind # "plain"
    BY <1>0, <1>2, <1>7, <2>1, <2>2, <2>4 DEF IInv, TypeOK
  <2>. QED
    BY <2>3, <2>4
<1>9. Relayed(d, from, n)'
  <2>1. /\ at'[d] = "read" /\ held'[d] = << >> /\ n = used'[d]
        /\ out'[d] = Before(d)' \o Items(from, n)
    BY <1>0, <1>2, <1>5 DEF Before, Told, Said, IInv, TypeOK
  <2>2. IF kind' = "plain" THEN count'[d] = 0
        ELSE /\ count'[d] = n - from
             /\ count'[d] <= n - from /\ n - from <= count'[d] + Len(held'[d])
    BY <1>2, <1>5, <1>6, <1>7, <2>1, EmptySeq DEF IInv, TypeOK
  <2>. QED
    BY <2>1, <2>2 DEF Relayed
<1>10. n \in from..used'[d]
  BY <1>0, <1>2, <1>5, <1>6
<1>11. from \in Starts(d)'
  BY <1>1, <1>2, <1>3, StartsGrow DEF IInv
<1>12. Pumps(d)
  BY <1>1, <1>2, <1>7 DEF Pumps, Rests, IInv, TypeOK
<1>. QED
  BY <1>1, <1>8, <1>9, <1>10, <1>11, <1>12, PumpKeeps DEF SomeRelayed, Count

LEMMA CloseBothStep ==
  ASSUME IInv, AheadIsSent', NEW d \in Directions, CloseBoth(d)
  PROVE  TypeOK' /\ Conversation'
<1>1. /\ stage = "relay" /\ (kind = "plain" => d # "up")
      /\ used[d] \in Nat /\ sent[d] \in Nat /\ count[d] \in Nat
      /\ SomeRelayed(d) /\ Starts(d) \subseteq Nat
  BY PumpRuns DEF CloseBoth
<1>2. /\ at' = [at EXCEPT ![d] = "done"] /\ closed' = TRUE
      /\ UNCHANGED <<kind, node, peer, reads, stage, sent, taken, used, held, out, count, ahead>>
  BY DEF CloseBoth, traffic
<1>3. TypeOK'
  BY <1>2 DEF IInv, TypeOK
<1>4. PICK from \in Starts(d) : \E n \in from..used[d] : Relayed(d, from, n)
  BY <1>1 DEF SomeRelayed
<1>5. PICK n \in from..used[d] : Relayed(d, from, n)
  BY <1>4
<1>6. at[d] = "break" /\ at'[d] = "done" /\ Before(d)' = Before(d)
  BY <1>2 DEF CloseBoth, Before, Told, Said, IInv, TypeOK
<1>7. Relayed(d, from, n)'
  BY <1>2, <1>5, <1>6 DEF Relayed, Items
<1>8. from \in Starts(d)'
  BY <1>1, <1>2, <1>4, StartsGrow DEF IInv
<1>9. Pumps(d)
  BY <1>1, <1>2 DEF Pumps, Rests, IInv, TypeOK
<1>. QED
  BY <1>1, <1>2, <1>3, <1>5, <1>6, <1>7, <1>8, <1>9, PumpKeeps DEF SomeRelayed

-----------------------------------------------------------------------------
(* The steps of the ends and of the handler.                               *)

\* Steps that leave both directions alone, in a stage that goes on.
LEMMA RestsStep ==
  ASSUME IInv, AheadIsSent', \A d \in Directions : Rests(d),
         \/ stage' = stage
         \/ stage = "dial" /\ stage' = "answered"
         \/ stage = "relay" /\ stage' = "over" /\ \A d \in Directions : at[d] = "done"
  PROVE  Conversation'
<1>1. ASSUME NEW d \in Directions, SomeRelayed(d)
      PROVE  SomeRelayed(d)'
  BY <1>1, RestKeeps DEF IInv
<1>2. ASSUME NoneRelayed, stage # "relay"
      PROVE  NoneRelayed'
  BY <1>2 DEF NoneRelayed, Idle, Rests, Said, Directions
<1>3. /\ kind' = kind /\ out'["up"] = out["up"] /\ at'["up"] = at["up"]
      /\ \A d \in Directions : at'[d] = at[d]
  BY DEF Rests, Directions
<1>4. CASE stage \notin {"relay", "over"}
  BY <1>2, <1>4 DEF IInv, Conversation
<1>5. CASE stage = "relay"
  <2>1. \A d \in Directions : SomeRelayed(d)'
    BY <1>1, <1>5 DEF IInv, Conversation
  <2>. QED
    BY <1>3, <1>5, <2>1 DEF IInv, Conversation
<1>6. CASE stage = "over"
  <2>1. CASE NoneRelayed
    BY <1>2, <1>6, <2>1 DEF Conversation
  <2>2. CASE /\ \A d \in Directions : SomeRelayed(d) /\ at[d] = "done"
             /\ kind = "plain" => out["up"] = << >>
    BY <1>1, <1>3, <1>6, <2>2 DEF Conversation
  <2>. QED
    BY <1>6, <2>1, <2>2 DEF IInv, Conversation
<1>. QED
  BY <1>4, <1>5, <1>6

LEMMA EndsStep ==
  ASSUME IInv, AheadIsSent',
         \/ \E d \in Directions : Send(d)
         \/ \E e \in {"client", "remote"} : Leave(e) \/ StopOrRead(e)
         \/ Connected
  PROVE  TypeOK' /\ Conversation'
<1>1. CASE \E d \in Directions : Send(d)
  <2>1. TypeOK'
    BY <1>1 DEF Send, IInv, TypeOK, Source, Directions
  <2>2. \A d \in Directions : Rests(d)
    BY <1>1 DEF Send, Rests, IInv, TypeOK, Directions
  <2>. QED
    BY <1>1, <2>1, <2>2, RestsStep DEF Send
<1>2. CASE \E e \in {"client", "remote"} : Leave(e) \/ StopOrRead(e)
  <2>1. TypeOK'
    BY <1>2 DEF Leave, StopOrRead, IInv, TypeOK, traffic
  <2>2. \A d \in Directions : Rests(d)
    BY <1>2 DEF Leave, StopOrRead, Rests, IInv, TypeOK, traffic
  <2>. QED
    BY <1>2, <2>1, <2>2, RestsStep DEF Leave, StopOrRead
<1>3. CASE Connected
  <2>1. TypeOK'
    BY <1>3 DEF Connected, IInv, TypeOK, traffic
  <2>2. \A d \in Directions : Rests(d)
    BY <1>3 DEF Connected, Rests, IInv, TypeOK, traffic
  <2>. QED
    BY <1>3, <2>1, <2>2, RestsStep DEF Connected
<1>. QED
  BY <1>1, <1>2, <1>3

\* What the handler has of the client, after it has taken a message.
LEMMA TakeMessageType ==
  ASSUME IInv, NEW t \in 0..sent["up"], TakeMessage(t), stage \in {"greet", "request"}
  PROVE  /\ taken' \in [Directions -> Nat] /\ used' \in [Directions -> Nat]
         /\ \A d \in Directions : count[d] <= used'[d] /\ used'[d] <= taken'[d] /\ taken'[d] <= sent[d]
BY DEF TakeMessage, IInv, TypeOK, Directions

\* The replies of the handler.
LEMMA AnswerType ==
  ASSUME IInv, NEW reply \in Int, Answer(reply)
  PROVE  /\ out' \in [Directions -> Seq(Int)]
         /\ out'["up"] = out["up"] /\ out'["down"] = Append(out["down"], reply)
BY AppendProperties DEF Answer, IInv, TypeOK, Directions

LEMMA GreetStep ==
  ASSUME IInv, NEW t \in 0..sent["up"], Greet(t)
  PROVE  TypeOK' /\ Conversation'
<1>1. /\ out' \in [Directions -> Seq(Int)]
      /\ out'["up"] = << >> /\ out'["down"] = Append(<< >>, Method)
  BY AnswerType DEF Greet, Method, IInv, Conversation, NoneRelayed
<1>2. kind = "socks5"
  BY DEF IInv, HandshakeUses, Greet
<1>3. Said' = Append(<< >>, Method)
  BY <1>2 DEF Said, Greet
<1>4. TypeOK'
  BY <1>1, TakeMessageType DEF Greet, IInv, TypeOK
<1>5. NoneRelayed'
  BY <1>1, <1>3 DEF Greet, IInv, Conversation, NoneRelayed, Idle
<1>. QED
  BY <1>4, <1>5 DEF Conversation, Greet

LEMMA AcceptRequestStep ==
  ASSUME IInv, NEW t \in 0..sent["up"], AcceptRequest(t)
  PROVE  TypeOK' /\ Conversation'
<1>1. TypeOK'
  BY TakeMessageType DEF AcceptRequest, IInv, TypeOK
<1>2. NoneRelayed'
  BY DEF AcceptRequest, IInv, Conversation, NoneRelayed, Idle, Said
<1>. QED
  BY <1>1, <1>2 DEF Conversation, AcceptRequest

LEMMA RejectMessageStep ==
  ASSUME IInv, NEW t \in 0..sent["up"], RejectMessage(t)
  PROVE  TypeOK' /\ Conversation'
<1>1. CASE kind = "socks5" /\ stage = "request"
  <2>1. /\ out' \in [Directions -> Seq(Int)]
        /\ out'["up"] = << >> /\ out'["down"] = Append(Said, Refused)
    BY <1>1, AnswerType DEF RejectMessage, Refused, IInv, Conversation, NoneRelayed
  <2>2. TypeOK'
    BY <2>1, TakeMessageType DEF RejectMessage, Over, IInv, TypeOK
  <2>3. NoneRelayed'
    BY <2>1 DEF RejectMessage, Over, IInv, Conversation, NoneRelayed, Idle, Said
  <2>. QED
    BY <2>2, <2>3 DEF Conversation, RejectMessage, Over
<1>2. CASE ~(kind = "socks5" /\ stage = "request")
  <2>1. TypeOK'
    BY <1>2, TakeMessageType DEF RejectMessage, Over, IInv, TypeOK
  <2>2. NoneRelayed'
    BY <1>2 DEF RejectMessage, Over, IInv, Conversation, NoneRelayed, Idle, Said
  <2>. QED
    BY <2>1, <2>2 DEF Conversation, RejectMessage, Over
<1>. QED
  BY <1>1, <1>2

LEMMA HandshakeEndsStep ==
  ASSUME IInv, HandshakeEnds
  PROVE  TypeOK' /\ Conversation'
<1>1. TypeOK'
  BY DEF HandshakeEnds, Over, traffic, IInv, TypeOK
<1>2. NoneRelayed'
  BY DEF HandshakeEnds, Over, traffic, IInv, Conversation, NoneRelayed, Idle, Said
<1>. QED
  BY <1>1, <1>2 DEF Conversation, HandshakeEnds, Over

LEMMA DialFailsStep ==
  ASSUME IInv, DialFails
  PROVE  TypeOK' /\ Conversation'
<1>1. /\ out' \in [Directions -> Seq(Int)]
      /\ out'["up"] = << >> /\ out'["down"] = Append(Said, Refused)
  BY AnswerType DEF DialFails, Refused, IInv, Conversation, NoneRelayed
<1>2. TypeOK'
  BY <1>1 DEF DialFails, Over, IInv, TypeOK
<1>3. NoneRelayed'
  BY <1>1 DEF DialFails, Over, IInv, Conversation, NoneRelayed, Idle, Said
<1>. QED
  BY <1>2, <1>3 DEF Conversation, DialFails, Over

LEMMA DialReturnsStep ==
  ASSUME IInv, DialReturns
  PROVE  TypeOK' /\ Conversation'
<1>0. sent["down"] \in Nat
  BY DEF IInv, TypeOK, Directions
<1>1. PICK t \in 0..sent["down"] :
         taken' = [taken EXCEPT !["down"] = t] /\ used' = [used EXCEPT !["down"] = t]
  <2>1. (IF node = "http" THEN 0..sent["down"] ELSE {0}) \subseteq 0..sent["down"]
    BY <1>0
  <2>. QED
    BY <2>1 DEF DialReturns
<1>2. count["down"] = 0
  BY DEF DialReturns, IInv, Conversation, NoneRelayed, Idle, Directions
<1>3. TypeOK'
  BY <1>1, <1>2 DEF DialReturns, IInv, TypeOK, Directions
<1>4. NoneRelayed'
  BY DEF DialReturns, IInv, Conversation, NoneRelayed, Idle, Said
<1>. QED
  BY <1>3, <1>4 DEF Conversation, DialReturns

\* A direction begins with what the handler is done with: that is nothing but
\* the client's messages, where no item has been dropped.
LEMMA DirectionBegins ==
  ASSUME IInv, stage = "reply", UNCHANGED <<kind, node, sent, held, count, ahead>>,
         NEW d \in Directions, NEW n \in used[d]..sent[d],
         n # used[d] => d = "up" /\ kind = "socks5",
         used'[d] = n, out'[d] = Before(d), at'[d] \in {"read", "done"}
  PROVE  SomeRelayed(d)'
<1>1. /\ First(d)' = First(d) /\ First(d) \in Nat
      /\ used[d] \in Nat /\ sent[d] \in Nat /\ First(d) <= used[d]
  BY FirstType DEF First, Messages, IInv, TypeOK, HandshakeUses, Directions
<1>2. n \in Nat /\ used[d] <= n /\ n <= sent[d]
  BY <1>1
<1>3. n \in Starts(d)'
  <2>1. CASE n = First(d)
    BY <1>1, <1>2, <2>1 DEF Starts, MayLose
  <2>2. CASE n # First(d)
    <3>1. sent[d] > First(d)
      BY <1>1, <1>2, <2>2
    <3>2. Source(d) \in ahead
      BY <3>1 DEF IInv, AheadIsSent
    <3>3. IF d = "up" THEN kind = "socks5" ELSE node = "http"
      BY <2>2 DEF IInv, HandshakeUses, TypeOK, First, Directions
    <3>4. MayLose(d)'
      BY <3>2, <3>3 DEF MayLose, Source
    <3>. QED
      BY <1>1, <1>2, <3>4 DEF Starts
  <2>. QED
    BY <2>1, <2>2
<1>4. Before(d) \in Seq(Int) /\ Before(d)' = Before(d)
  BY ReplyTypes DEF Before, Told, Said, IInv, TypeOK
<1>5. out'[d] = Before(d)' \o Items(n, n)
  BY <1>2, <1>4, NoItems, ConcatEmptySeq, Z3
<1>6. held'[d] = << >> /\ count'[d] = 0 /\ n - n = 0 /\ Len(held'[d]) = 0
  BY <1>2, EmptySeq DEF IInv, Conversation, NoneRelayed, Idle
<1>7. Relayed(d, n, n)'
  BY <1>5, <1>6 DEF Relayed
<1>. QED
  BY <1>2, <1>3, <1>7 DEF SomeRelayed

LEMMA BeginRelayStep ==
  ASSUME IInv, BeginRelay
  PROVE  TypeOK' /\ Conversation'
<1>1. /\ stage = "reply" /\ kind # "plain" /\ stage' = "relay"
      /\ used' = IF kind = "connect" THEN used ELSE [used EXCEPT !["up"] = taken["up"]]
      /\ at' = [d \in Directions |-> "read"]
      /\ UNCHANGED <<kind, node, peer, reads, sent, taken, held, count, closed, ahead>>
  BY DEF BeginRelay
<1>2. /\ out' \in [Directions -> Seq(Int)]
      /\ out'["up"] = << >> /\ out'["down"] = Told
  BY <1>1, AnswerType DEF BeginRelay, Established, IInv, Conversation, NoneRelayed, Told
<1>3. \A d \in Directions :
        /\ used[d] \in Nat /\ taken[d] \in Nat /\ sent[d] \in Nat
        /\ count[d] <= used[d] /\ used[d] <= taken[d] /\ taken[d] <= sent[d]
  BY DEF IInv, TypeOK
<1>4. /\ used' \in [Directions -> Nat]
      /\ \A d \in Directions : used[d] <= used'[d] /\ used'[d] <= taken[d]
      /\ \A d \in Directions : used'[d] # used[d] => d = "up" /\ kind = "socks5"
  BY <1>1, <1>3 DEF IInv, TypeOK, Directions
<1>5. TypeOK'
  <2>1. \A d \in Directions : count[d] <= used'[d]
    BY <1>3, <1>4 DEF IInv, TypeOK
  <2>. QED
    BY <1>1, <1>2, <1>4, <2>1 DEF IInv, TypeOK
<1>6. ASSUME NEW d \in Directions
      PROVE  SomeRelayed(d)'
  <2>1. PICK n \in used[d]..sent[d] : n = used'[d]
    BY <1>3, <1>4
  <2>2. out'[d] = Before(d)
    BY <1>2 DEF Before, Directions
  <2>3. at'[d] = "read"
    BY <1>1
  <2>4. n # used[d] => d = "up" /\ kind = "socks5"
    BY <1>4, <2>1
  <2>. QED
    BY <1>1, <2>1, <2>2, <2>3, <2>4, DirectionBegins
<1>. QED
  BY <1>1, <1>5, <1>6 DEF Conversation

LEMMA RoundTripStep ==
  ASSUME IInv, RoundTrip
  PROVE  TypeOK' /\ Conversation'
<1>1. /\ stage = "reply" /\ kind = "plain"
      /\ UNCHANGED <<kind, node, peer, reads, sent, taken, used, held, count, ahead>>
  BY DEF RoundTrip
<1>2. CASE /\ at' = [up |-> "done", down |-> "read"]
           /\ stage' = "relay"
           /\ UNCHANGED <<out, closed>>
  <2>1. TypeOK'
    BY <1>1, <1>2 DEF IInv, TypeOK, Directions
  <2>2. out["up"] = << >> /\ out["down"] = << >> /\ Told = << >>
    BY <1>1 DEF IInv, Conversation, NoneRelayed, Said, Told
  <2>3. ASSUME NEW d \in Directions
        PROVE  SomeRelayed(d)'
    <3>1. PICK n \in used[d]..sent[d] : n = used[d]
      BY DEF IInv, TypeOK
    <3>2. out'[d] = Before(d)
      BY <1>2, <2>2 DEF Before, Directions
    <3>3. at'[d] \in {"read", "done"} /\ used'[d] = n
      BY <1>1, <1>2, <3>1 DEF Directions
    <3>. QED
      BY <1>1, <3>1, <3>2, <3>3, DirectionBegins
  <2>. QED
    BY <1>1, <1>2, <2>1, <2>2, <2>3 DEF Conversation
<1>3. CASE Answer(Refused) /\ Over /\ UNCHANGED at
  <2>1. /\ out' \in [Directions -> Seq(Int)]
        /\ out'["up"] = << >> /\ out'["down"] = Append(Said, Refused)
    BY <1>1, <1>3, AnswerType DEF Refused, IInv, Conversation, NoneRelayed
  <2>2. TypeOK'
    BY <1>1, <1>3, <2>1 DEF Over, IInv, TypeOK
  <2>3. NoneRelayed'
    BY <1>1, <1>3, <2>1 DEF Over, IInv, Conversation, NoneRelayed, Idle, Said
  <2>. QED
    BY <1>3, <2>2, <2>3 DEF Conversation, Over
<1>. QED
  BY <1>2, <1>3 DEF RoundTrip

LEMMA HandlerReturnsStep ==
  ASSUME IInv, AheadIsSent', HandlerReturns
  PROVE  TypeOK' /\ Conversation'
<1>1. TypeOK'
  BY DEF HandlerReturns, Over, traffic, IInv, TypeOK
<1>2. \A d \in Directions : Rests(d)
  BY DEF HandlerReturns, Over, traffic, Rests, IInv, TypeOK
<1>. QED
  BY <1>1, <1>2, RestsStep DEF HandlerReturns, Over

-----------------------------------------------------------------------------
LEMMA NextIInv ==
  ASSUME IInv, [Next]_vars
  PROVE  IInv'
<1>1. AheadIsSent'
  BY AheadStep
<1>2. HandshakeUses'
  BY UsesStep
<1>3. TypeOK' /\ Conversation'
  <2>1. CASE Handler
    <3>1. ASSUME NEW t \in 0..sent["up"], Greet(t) \/ AcceptRequest(t) \/ RejectMessage(t)
          PROVE  TypeOK' /\ Conversation'
      BY <3>1, GreetStep, AcceptRequestStep, RejectMessageStep
    <3>2. CASE HandshakeEnds \/ DialReturns \/ BeginRelay \/ RoundTrip \/ HandlerReturns \/ DialFails
      BY <1>1, <3>2, HandshakeEndsStep, DialReturnsStep, BeginRelayStep, RoundTripStep,
         HandlerReturnsStep, DialFailsStep
    <3>. QED
      BY <2>1, <3>1, <3>2 DEF Handler
  <2>2. CASE Ends
    BY <1>1, <2>2, EndsStep, DialFailsStep DEF Ends
  <2>3. ASSUME NEW d \in Directions, Pump(d)
        PROVE  TypeOK' /\ Conversation'
    BY <1>1, <2>3, ReadStep, ReadEndsStep, WriteStep, WriteFailsStep, CountStep, CloseBothStep
       DEF Pump
  <2>4. CASE UNCHANGED vars
    <3>1. TypeOK' /\ \A d \in Directions : Rests(d)
      BY <2>4 DEF vars, traffic, Rests, IInv, TypeOK
    <3>2. stage' = stage
      BY <2>4 DEF vars
    <3>. QED
      BY <1>1, <3>1, <3>2, RestsStep
  <2>. QED
    BY <2>1, <2>2, <2>3, <2>4 DEF Next
<1>. QED
  BY <1>1, <1>2, <1>3 DEF IInv

LEMMA Invariance == Spec => []IInv
BY InitIInv, NextIInv, PTL DEF Spec

-----------------------------------------------------------------------------
(* The properties.                                                         *)

\* The types of the variables, and that no direction is done with more than it
\* has read, or has counted more than it is done with.
THEOREM TypeCorrect == Spec => []TypeOK
BY Invariance, PTL DEF IInv

\* The payload of what an end gets is what comes after the replies.
LEMMA PayloadFollows ==
  ASSUME NEW d, NEW b \in Seq(Int), NEW p \in Seq(Int), out[d] = b \o p,
         \A i \in 1..Len(b) : b[i] <= 0, \A i \in 1..Len(p) : p[i] > 0
  PROVE  Payload(d) = p
<1>. DEFINE s == b \o p
            R == {i \in DOMAIN s : s[i] <= 0}
<1>1. Len(b) \in Nat /\ Len(p) \in Nat
  BY LenProperties
<1>2. /\ s \in Seq(Int) /\ Len(s) = Len(b) + Len(p) /\ DOMAIN s = 1..(Len(b) + Len(p))
      /\ \A i \in 1..(Len(b) + Len(p)) : s[i] = IF i <= Len(b) THEN b[i] ELSE p[i - Len(b)]
  BY ConcatProperties, LenProperties
<1>. HIDE DEF s
<1>3. R = 1..Len(b)
  <2>1. ASSUME NEW i \in 1..Len(b)
        PROVE  i \in R
    <3>1. i \in 1..(Len(b) + Len(p)) /\ i <= Len(b)
      BY <1>1, <2>1
    <3>2. s[i] = b[i] /\ b[i] <= 0
      BY <1>2, <2>1, <3>1
    <3>. QED
      BY <1>2, <3>1, <3>2
  <2>2. ASSUME NEW i \in R
        PROVE  i \in 1..Len(b)
    <3>1. i \in 1..(Len(b) + Len(p)) /\ s[i] <= 0
      BY <1>2
    <3>2. CASE i > Len(b)
      <4>1. i - Len(b) \in 1..Len(p)
        BY <1>1, <3>1, <3>2
      <4>2. p[i - Len(b)] > 0 /\ p[i - Len(b)] \in Int
        BY <4>1, ElementOfSeq
      <4>. QED
        BY <1>1, <1>2, <3>1, <3>2, <4>2
    <3>. QED
      BY <1>1, <3>1, <3>2
  <2>. QED
    BY <2>1, <2>2
<1>4. Cardinality(R) = Len(b)
  <2>. HIDE DEF R
  <2>1. \A m \in Nat : Cardinality(1..m) = m
    BY FS_Interval
  <2>. QED
    BY <1>1, <1>3, <2>1
<1>5. SubSeq(s, Len(b) + 1, Len(s)) = p
  <2>1. CASE Len(p) = 0
    BY <1>1, <1>2, <2>1, SubSeqEmpty, EmptySeq
  <2>2. CASE Len(p) > 0
    <3>1. Len(b) + 1 \in Int /\ Len(s) \in Int
      BY <1>1, <1>2
    <3>2. \A i \in (Len(b) + 1)..Len(s) : s[i] \in Int
      BY <1>1, <1>2, ElementOfSeq
    <3>3. /\ SubSeq(s, Len(b) + 1, Len(s)) \in Seq(Int)
          /\ Len(SubSeq(s, Len(b) + 1, Len(s))) = Len(p)
          /\ \A i \in 1..Len(p) : SubSeq(s, Len(b) + 1, Len(s))[i] = s[Len(b) + i]
      BY <1>1, <1>2, <2>2, <3>1, <3>2, SubSeqProperties
    <3>4. ASSUME NEW i \in 1..Len(p)
          PROVE  s[Len(b) + i] = p[i]
      <4>1. Len(b) + i \in 1..(Len(b) + Len(p)) /\ ~(Len(b) + i <= Len(b))
        BY <1>1
      <4>2. (Len(b) + i) - Len(b) = i
        BY <1>1
      <4>. QED
        BY <1>2, <4>1, <4>2
    <3>. QED
      BY <3>3, <3>4, SeqEqual
  <2>. QED
    BY <1>1, <2>1, <2>2
<1>6. Replies(d) = Len(b) /\ out[d] = s
  BY <1>4 DEF Replies, s
<1>. QED
  BY <1>5, <1>6 DEF Payload

\* What a client can be told: one reply or two, the last of them an error or not.
Openings == {<< >>, <<Method>>, <<Established>>, <<Refused>>,
             <<Method, Established>>, <<Method, Refused>>}

LEMMA OpeningType ==
  ASSUME NEW b \in Openings
  PROVE  /\ b \in Seq(Int) /\ Len(b) \in 0..2
         /\ \A i \in 1..Len(b) : b[i] <= 0 /\ (i < Len(b) => b[i] < 0)
<1>1. /\ Method \in Int /\ Established \in Int /\ Refused \in Int
      /\ Method < 0 /\ Established < 0 /\ Refused <= 0
  BY DEF Method, Established, Refused
<1>2. ASSUME NEW x \in Int, x <= 0, b = <<x>>
      PROVE  /\ b \in Seq(Int) /\ Len(b) = 1
             /\ \A i \in 1..1 : b[i] <= 0
  BY <1>2
<1>3. ASSUME NEW x \in Int, NEW y \in Int, x < 0, y <= 0, b = <<x, y>>
      PROVE  /\ b \in Seq(Int) /\ Len(b) = 2
             /\ \A i \in 1..2 : b[i] <= 0 /\ (i < 2 => b[i] < 0)
  BY <1>3
<1>4. CASE b = << >>
  BY <1>4, EmptySeq
<1>5. CASE b \in {<<Method>>, <<Established>>, <<Refused>>}
  <2>1. PICK x \in {Method, Established, Refused} : b = <<x>>
    BY <1>5
  <2>2. /\ b \in Seq(Int) /\ Len(b) = 1
        /\ \A i \in 1..1 : b[i] <= 0
    BY <1>1, <1>2, <2>1
  <2>. QED
    BY <2>2
<1>6. CASE b \in {<<Method, Established>>, <<Method, Refused>>}
  <2>1. PICK y \in {Established, Refused} : b = <<Method, y>>
    BY <1>6
  <2>2. /\ b \in Seq(Int) /\ Len(b) = 2
        /\ \A i \in 1..2 : b[i] <= 0 /\ (i < 2 => b[i] < 0)
    BY <1>1, <1>3, <2>1
  <2>. QED
    BY <2>2
<1>. QED
  BY <1>4, <1>5, <1>6 DEF Openings

LEMMA ToldIsOpening ==
  ASSUME IInv, NEW d \in Directions
  PROVE  /\ Before(d) \in Openings
         /\ NoneRelayed => out[d] \in Openings
<1>1. Append(<< >>, Refused) = <<Refused>>
  BY DEF Refused
<1>2. Append(<<Method>>, Refused) = <<Method, Refused>>
  <2>. DEFINE s == Append(<<Method>>, Refused)
  <2>1. Method \in Int /\ Refused \in Int
    BY DEF Method, Refused
  <2>2. <<Method>> \in Seq(Int) /\ Len(<<Method>>) = 1
    BY <2>1
  <2>3. s \in Seq(Int) /\ Len(s) = 2 /\ s[1] = Method /\ s[2] = Refused
    BY <2>1, <2>2, AppendProperties
  <2>. HIDE DEF s
  <2>4. s = <<Method, Refused>>
    BY <2>3
  <2>. QED
    BY <2>4 DEF s
<1>3. kind \in {"socks5", "connect", "plain"}
  BY DEF IInv, TypeOK
<1>4. Said \in {<< >>, <<Method>>} /\ Told \in Openings
  BY <1>3, ReplyTypes DEF Openings
<1>5. NoneRelayed => out["up"] = << >> /\ out["down"] \in {<< >>, Said, Append(Said, Refused)}
  BY DEF NoneRelayed
<1>. QED
  BY <1>1, <1>2, <1>4, <1>5 DEF Before, Openings, Directions

LEMMA PayloadOfRelayed ==
  ASSUME IInv, NEW d \in Directions, NEW from \in Nat, NEW n \in Nat, from <= n,
         out[d] = Before(d) \o Items(from, n)
  PROVE  Payload(d) = Items(from, n)
<1>. DEFINE p == Items(from, n)
<1>1. /\ p \in Seq(Nat) /\ Len(p) = n - from
      /\ \A i \in 1..(n - from) : p[i] = from + i
  BY ItemsType
<1>. HIDE DEF p
<1>2. p \in Seq(Int) /\ \A i \in 1..Len(p) : p[i] > 0
  BY <1>1, SeqMonotonic, Nat \subseteq Int
<1>3. /\ Before(d) \in Seq(Int)
      /\ \A i \in 1..Len(Before(d)) : Before(d)[i] <= 0
  BY ToldIsOpening, OpeningType
<1>4. out[d] = Before(d) \o p
  BY DEF p
<1>5. Payload(d) = p
  BY <1>2, <1>3, <1>4, PayloadFollows
<1>. QED
  BY <1>5 DEF p

\* Before the relay there is none.
LEMMA PayloadOfNone ==
  ASSUME IInv, NoneRelayed, NEW d \in Directions
  PROVE  Payload(d) = << >>
<1>1. out[d] \in Seq(Int) /\ \A i \in 1..Len(out[d]) : out[d][i] <= 0
  BY ToldIsOpening, OpeningType
<1>2. out[d] = out[d] \o << >> /\ << >> \in Seq(Int)
  BY <1>1, ConcatEmptySeq, Z3
<1>3. \A i \in 1..Len(<< >>) : (<< >>)[i] > 0
  BY EmptySeq
<1>. QED
  BY <1>1, <1>2, <1>3, PayloadFollows

\* Every conversation has relayed nothing, or some of what was used, in both
\* directions.
LEMMA NoneOrSome ==
  ASSUME IInv
  PROVE  \/ NoneRelayed
         \/ /\ \A d \in Directions : SomeRelayed(d)
            /\ kind = "plain" => out["up"] = << >>
BY DEF IInv, Conversation, TypeOK

LEMMA CountsFollow == IInv => CountsWritten
<1>. SUFFICES ASSUME IInv, kind # "plain", NEW d \in Directions
              PROVE  LET written == Len(Payload(d))
                     IN  /\ count[d] <= written /\ written <= count[d] + Len(held[d])
                         /\ at[d] = "read" => count[d] = written
  BY DEF CountsWritten
<1>1. CASE NoneRelayed
  BY <1>1, PayloadOfNone, EmptySeq DEF NoneRelayed, Idle
<1>2. CASE SomeRelayed(d)
  <2>1. Starts(d) \subseteq Nat /\ used[d] \in Nat
    BY FirstType DEF Starts, IInv, TypeOK
  <2>2. PICK from \in Starts(d) : \E n \in from..used[d] : Relayed(d, from, n)
    BY <1>2 DEF SomeRelayed
  <2>3. PICK n \in from..used[d] : Relayed(d, from, n)
    BY <2>2
  <2>4. from \in Nat /\ n \in Nat /\ from <= n
    BY <2>1, <2>2, <2>3
  <2>5. Len(Payload(d)) = n - from
    BY <2>3, <2>4, PayloadOfRelayed, ItemsType DEF Relayed
  <2>. QED
    BY <2>3, <2>5 DEF Relayed
<1>. QED
  BY <1>1, <1>2, NoneOrSome

\* However the ends send, leave and stop reading, what is counted of a relay is
\* what has been written, but for a write that is about to be counted or failed.
THEOREM CountsCorrect == Spec => []CountsWritten
BY Invariance, CountsFollow, PTL

LEMMA StreamsFollow == IInv => StreamsInOrder
<1>. SUFFICES ASSUME IInv, NEW d \in Directions
              PROVE  \E from \in Starts(d) : Payload(d) = Items(from, from + Len(Payload(d)))
  BY DEF StreamsInOrder
<1>1. First(d) \in Nat /\ used[d] \in Nat /\ sent[d] \in Nat /\ Starts(d) \subseteq Nat
  BY FirstType DEF Starts, IInv, TypeOK
<1>2. CASE NoneRelayed
  <2>1. First(d) \in Starts(d)
    BY <1>1 DEF Starts, MayLose, IInv, AheadIsSent
  <2>2. Payload(d) = << >> /\ Len(Payload(d)) = 0
    BY <1>2, PayloadOfNone, EmptySeq
  <2>3. Payload(d) = Items(First(d), First(d) + Len(Payload(d)))
    BY <1>1, <2>2, NoItems
  <2>. QED
    BY <2>1, <2>3
<1>3. CASE SomeRelayed(d)
  <2>1. PICK from \in Starts(d) : \E n \in from..used[d] : Relayed(d, from, n)
    BY <1>3 DEF SomeRelayed
  <2>2. PICK n \in from..used[d] : Relayed(d, from, n)
    BY <2>1
  <2>3. from \in Nat /\ n \in Nat /\ from <= n
    BY <1>1, <2>1, <2>2
  <2>4. Payload(d) = Items(from, n)
    BY <2>2, <2>3, PayloadOfRelayed DEF Relayed
  <2>5. from + Len(Payload(d)) = n
    <3>1. Len(Items(from, n)) = n - from
      BY <2>3, ItemsType
    <3>. QED
      BY <2>3, <2>4, <3>1
  <2>. QED
    BY <2>1, <2>4, <2>5
<1>. QED
  BY <1>2, <1>3, NoneOrSome

\* A client whose relay begins has been told so, and of no error.
LEMMA ToldSucceeds ==
  ASSUME IInv
  PROVE  /\ Told \in Seq(Int)
         /\ \A i \in 1..Len(Told) : Told[i] < 0
         /\ kind # "plain" => \E i \in 1..Len(Told) : Told[i] = Established
<1>1. Method \in Int /\ Method < 0 /\ Established \in Int /\ Established < 0
  BY DEF Method, Established
<1>2. CASE kind = "socks5"
  <2>1. PICK b \in Seq(Int) : b = Told /\ Len(b) = 2 /\ b[1] = Method /\ b[2] = Established
    BY <1>1, <1>2, ReplyTypes
  <2>2. \A i \in 1..2 : b[i] < 0
    BY <1>1, <2>1
  <2>. QED
    BY <2>1, <2>2
<1>3. CASE kind = "connect"
  <2>1. PICK b \in Seq(Int) : b = Told /\ Len(b) = 1 /\ b[1] = Established
    BY <1>1, <1>3, ReplyTypes
  <2>2. \A i \in 1..1 : b[i] < 0
    BY <1>1, <2>1
  <2>. QED
    BY <2>1, <2>2
<1>4. CASE kind = "plain"
  BY <1>4, ReplyTypes, EmptySeq
<1>. QED
  BY <1>2, <1>3, <1>4 DEF IInv, TypeOK

LEMMA RepliesFollow == IInv => RepliesFirst
<1>. SUFFICES ASSUME IInv
              PROVE  RepliesFirst
  OBVIOUS
<1>1. "up" \in Directions /\ "down" \in Directions
  BY DEF Directions
<1>2. CASE NoneRelayed
  <2>1. PICK b \in Openings : b = out["down"]
    BY <1>1, <1>2, ToldIsOpening
  <2>2. /\ b \in Seq(Int) /\ Len(b) \in 0..2 /\ DOMAIN b = 1..Len(b)
        /\ \A i \in 1..Len(b) : b[i] <= 0 /\ (i < Len(b) => b[i] < 0)
    BY OpeningType, LenProperties
  <2>3. out["up"] = << >>
    BY <1>2 DEF NoneRelayed
  <2>4. \A i \in 1..Len(b) : b[i] = Refused => i = Len(b)
    <3>1. ASSUME NEW i \in 1..Len(b), b[i] = Refused
          PROVE  i = Len(b)
      <4>1. ~(b[i] < 0)
        BY <3>1 DEF Refused
      <4>2. i \in Int /\ Len(b) \in Int /\ i <= Len(b) /\ ~(i < Len(b))
        BY <2>2, <4>1
      <4>. QED
        BY <4>2
    <3>. QED
      BY <3>1
  <2>. QED
    BY <2>1, <2>2, <2>3, <2>4 DEF RepliesFirst
<1>3. CASE (\A d \in Directions : SomeRelayed(d)) /\ (kind = "plain" => out["up"] = << >>)
  <2>1. PICK from \in Starts("down") : \E n \in from..used["down"] : Relayed("down", from, n)
    BY <1>1, <1>3 DEF SomeRelayed
  <2>2. PICK n \in from..used["down"] : Relayed("down", from, n)
    BY <2>1
  <2>3. from \in Nat /\ n \in Nat /\ from <= n
    BY <1>1, <2>1, <2>2, FirstType DEF Starts, IInv, TypeOK
  <2>4. PICK p \in Seq(Nat) : p = Items(from, n) /\ \A i \in 1..Len(p) : p[i] > 0
    <3>. DEFINE p == Items(from, n)
    <3>1. /\ p \in Seq(Nat) /\ Len(p) = n - from
          /\ \A i \in 1..(n - from) : p[i] = from + i
      BY <2>3, ItemsType
    <3>. HIDE DEF p
    <3>2. \A i \in 1..Len(p) : p[i] > 0
      BY <2>3, <3>1
    <3>. QED
      BY <3>1, <3>2 DEF p
  <2>5. PICK b \in Seq(Int) :
          /\ b = Told /\ Len(b) \in Nat
          /\ \A i \in 1..Len(b) : b[i] < 0
          /\ kind # "plain" => \E i \in 1..Len(b) : b[i] = Established
    BY ToldSucceeds, LenProperties
  <2>6. /\ p \in Seq(Int) /\ Len(p) \in Nat /\ out["down"] = b \o p
    BY <2>2, <2>4, <2>5, SeqMonotonic, LenProperties, Nat \subseteq Int DEF Relayed, Before
  <2>7. /\ DOMAIN out["down"] = 1..(Len(b) + Len(p))
        /\ \A i \in 1..(Len(b) + Len(p)) :
             out["down"][i] = IF i <= Len(b) THEN b[i] ELSE p[i - Len(b)]
    BY <2>6, ConcatProperties, LenProperties
  <2>8. ASSUME NEW i \in DOMAIN out["down"]
        PROVE  IF i <= Len(b) THEN out["down"][i] < 0 ELSE out["down"][i] > 0
    <3>1. i \in 1..(Len(b) + Len(p))
      BY <2>7
    <3>2. CASE i <= Len(b)
      BY <2>5, <2>7, <3>1, <3>2
    <3>3. CASE ~(i <= Len(b))
      <4>1. i - Len(b) \in 1..Len(p)
        BY <2>5, <2>6, <3>1, <3>3
      <4>. QED
        BY <2>4, <2>7, <3>1, <3>3, <4>1
    <3>. QED
      BY <3>2, <3>3
  <2>9. ASSUME NEW i \in DOMAIN out["down"], NEW j \in DOMAIN out["down"],
               i < j, out["down"][j] <= 0
        PROVE  out["down"][i] < 0
    <3>1. i \in Int /\ j \in Int /\ out["down"][j] \in Int
      <4>1. out["down"] \in Seq(Int)
        BY <1>1 DEF IInv, TypeOK
      <4>2. i \in Int /\ j \in Int
        BY <2>5, <2>6, <2>7
      <4>. QED
        BY <4>1, <4>2, LenProperties
    <3>2. j <= Len(b)
      BY <2>8, <2>9, <3>1
    <3>. QED
      BY <2>5, <2>8, <2>9, <3>1, <3>2
  <2>10. \A i \in DOMAIN out["down"] : out["down"][i] # Refused
    BY <2>8 DEF Refused
  <2>11. out["up"] # << >> => \E i \in DOMAIN out["down"] : out["down"][i] = Established
    <3>. SUFFICES ASSUME kind # "plain"
                  PROVE  \E i \in DOMAIN out["down"] : out["down"][i] = Established
      BY <1>3
    <3>1. PICK i \in 1..Len(b) : b[i] = Established
      BY <2>5
    <3>2. i \in 1..(Len(b) + Len(p)) /\ i <= Len(b)
      BY <2>5, <2>6
    <3>. QED
      BY <2>7, <3>1, <3>2
  <2>. QED
    BY <2>9, <2>10, <2>11 DEF RepliesFirst
<1>. QED
  BY <1>2, <1>3, NoneOrSome

\* What either end sees of a conversation, for any number of items sent and any
\* cutting of them into reads: the replies, then the other's bytes in order.
THEOREM ConversationCorrect == Spec => []ConversationInOrder
BY Invariance, StreamsFollow, RepliesFollow, PTL DEF ConversationInOrder

-----------------------------------------------------------------------------
(* TunnelRouting: how the tunnel chooses, for any nodes, any order of the  *)
(* list and any results of tests.                                          *)

LEMMA Remainder ==
  ASSUME NEW L \in Nat \ {0}, NEW r \in Nat
  PROVE  r % L \in 0..(L - 1)
OBVIOUS

LEMMA Quotient ==
  ASSUME NEW L \in Nat \ {0}, NEW r \in Nat
  PROVE  r \div L \in Int /\ r = L * (r \div L) + (r % L)
OBVIOUS

LEMMA OneRemainder ==
  ASSUME NEW L \in Nat \ {0}, NEW d \in Int, NEW e \in 0..(L - 1),
         NEW g \in Int, NEW f \in 0..(L - 1), L * d + e = L * g + f
  PROVE  e = f
OBVIOUS

LEMMA SmallRemainder ==
  ASSUME NEW L \in Nat \ {0}, NEW r \in 0..(L - 1)
  PROVE  r % L = r /\ L % L = 0
OBVIOUS

\* The next number has the next remainder.
LEMMA NextRemainder ==
  ASSUME NEW L \in Nat \ {0}, NEW r \in Nat
  PROVE  (r + 1) % L = IF r % L = L - 1 THEN 0 ELSE (r % L) + 1
<1>. DEFINE e == r % L
            d == r \div L
            f == (r + 1) % L
            g == (r + 1) \div L
<1>1. e \in 0..(L - 1) /\ d \in Int /\ r = L * d + e
  BY Remainder, Quotient
<1>2. f \in 0..(L - 1) /\ g \in Int /\ r + 1 = L * g + f
  BY Remainder, Quotient
<1>3. CASE e = L - 1
  <2>1. r + 1 = L * (d + 1) + 0
    BY <1>1, <1>3
  <2>2. d + 1 \in Int /\ 0 \in 0..(L - 1)
    BY <1>1
  <2>. HIDE DEF e, d, f, g
  <2>. QED
    BY <1>2, <1>3, <2>1, <2>2, OneRemainder
<1>4. CASE e # L - 1
  <2>1. e + 1 \in 0..(L - 1) /\ r + 1 = L * d + (e + 1)
    BY <1>1, <1>4
  <2>. HIDE DEF e, d, f, g
  <2>. QED
    BY <1>1, <1>2, <1>4, <2>1, OneRemainder
<1>. QED
  BY <1>3, <1>4

\* Induction over a set: the least number left out has no predecessor.
LEMMA Induction ==
  ASSUME NEW S \in SUBSET Nat, 0 \in S, \A n \in S : n + 1 \in S
  PROVE  \A n \in Nat : n \in S
<1>. SUFFICES ASSUME NEW n \in Nat, n \notin S PROVE FALSE
  OBVIOUS
<1>. DEFINE Upto(m) == 0..m
            missing == {m \in 0..n : m \notin S}
            T == {Upto(m) : m \in missing}
<1>1. IsWellFoundedOn(StrictSubsetOrdering(0..n), FiniteSubsetsOf(0..n))
  BY FS_StrictSubsetOrderingWellFounded, FS_Interval
<1>2. T \subseteq FiniteSubsetsOf(0..n) /\ T # {}
  <2>1. ASSUME NEW m \in missing PROVE Upto(m) \subseteq 0..n /\ IsFiniteSet(Upto(m))
    BY FS_Interval
  <2>2. n \in missing
    OBVIOUS
  <2>. QED
    BY <2>1, <2>2 DEF FiniteSubsetsOf
<1>3. PICK x \in T : \A y \in T : ~ (<<y, x>> \in StrictSubsetOrdering(0..n))
  BY <1>1, <1>2, WFMin
<1>4. PICK m \in missing : x = Upto(m)
  BY <1>3
<1>5. m \in Nat /\ m # 0 /\ m <= n /\ m \notin S
  BY <1>4
<1>6. m - 1 \in missing
  <2>1. m - 1 \in Nat /\ (m - 1) + 1 = m
    BY <1>5
  <2>2. m - 1 \notin S
    BY <1>5, <2>1
  <2>. QED
    BY <1>5, <2>1, <2>2
<1>7. <<Upto(m - 1), Upto(m)>> \in StrictSubsetOrdering(0..n)
  <2>1. Upto(m - 1) \subseteq Upto(m) /\ m \in Upto(m) /\ m \notin Upto(m - 1)
    BY <1>5
  <2>2. Upto(m) \subseteq 0..n
    BY <1>5
  <2>. QED
    BY <2>1, <2>2 DEF StrictSubsetOrdering
<1>. QED
  BY <1>3, <1>4, <1>6, <1>7

-----------------------------------------------------------------------------
(* The loop for the least latency.                                         *)

\* The list is an order of the running nodes, and finite.
Listed ==
  /\ IsFiniteSet(DOMAIN copied)
  /\ activeNodes \in [1..Cardinality(DOMAIN copied) -> DOMAIN copied]
  /\ \A i, j \in DOMAIN activeNodes : activeNodes[i] = activeNodes[j] => i = j

\* A list in some order has every running node once.
LEMMA ListedIsOrder ==
  ASSUME Listed
  PROVE  /\ activeNodes \in Seq(DOMAIN copied) /\ Len(activeNodes) = Cardinality(DOMAIN copied)
         /\ Len(activeNodes) \in Nat /\ DOMAIN activeNodes = 1..Len(activeNodes)
         /\ \A n \in DOMAIN copied : \E i \in 1..Len(activeNodes) : activeNodes[i] = n
<1>. DEFINE k == Cardinality(DOMAIN copied)
<1>1. k \in Nat
  BY FS_CardinalityType DEF Listed
<1>2. activeNodes \in [1..k -> DOMAIN copied]
  BY DEF Listed
<1>3. activeNodes \in Seq(DOMAIN copied)
  BY <1>1, <1>2, SeqDef
<1>4. Len(activeNodes) = k /\ Len(activeNodes) \in Nat /\ DOMAIN activeNodes = 1..Len(activeNodes)
  <2>1. DOMAIN activeNodes = 1..k /\ DOMAIN activeNodes = 1..Len(activeNodes) /\ Len(activeNodes) \in Nat
    BY <1>2, <1>3, LenProperties
  <2>. QED
    BY <1>1, <2>1
<1>5. \A n \in DOMAIN copied : \E i \in 1..k : activeNodes[i] = n
  <2>1. IsFiniteSet(1..k) /\ Cardinality(1..k) = k
    BY <1>1, FS_Interval
  <2>2. activeNodes \in Injection(1..k, DOMAIN copied)
    BY <1>2 DEF Listed, Injection, IsInjective
  <2>3. activeNodes \in Surjection(1..k, DOMAIN copied)
    BY <2>1, <2>2, FS_Injection DEF Listed
  <2>. QED
    BY <2>3 DEF Surjection
<1>. QED
  BY <1>3, <1>4, <1>5

Prefers(i, b) == IF Better(i, b) THEN i ELSE b

LoopStep(f, i) == f[i] = Prefers(i, f[i - 1])

\* The loop is defined after any number of entries.
LEMMA LoopExists ==
  ASSUME NEW L \in Nat
  PROVE  \E f : DOMAIN f = 0..L /\ f[0] = 0 /\ \A i \in 1..L : LoopStep(f, i)
<1>. DEFINE Runs(f, m) == DOMAIN f = 0..m /\ f[0] = 0 /\ \A i \in 1..m : LoopStep(f, i)
            S == {m \in Nat : \E f : Runs(f, m)}
<1>1. 0 \in S
  <2>1. Runs([i \in 0..0 |-> 0], 0)
    OBVIOUS
  <2>. QED
    BY <2>1
<1>2. ASSUME NEW m \in S PROVE m + 1 \in S
  <2>1. PICK f : Runs(f, m)
    BY <1>2
  <2>. DEFINE g == [i \in 0..(m + 1) |-> IF i = m + 1 THEN Prefers(m + 1, f[m]) ELSE f[i]]
  <2>2. DOMAIN g = 0..(m + 1)
    OBVIOUS
  <2>3. g[0] = 0 /\ g[m + 1] = Prefers(m + 1, f[m]) /\ \A i \in 0..m : g[i] = f[i]
    BY <2>1
  <2>. HIDE DEF g
  <2>4. ASSUME NEW i \in 1..(m + 1) PROVE LoopStep(g, i)
    <3>1. CASE i = m + 1
      <4>1. i - 1 = m /\ m \in 0..m
        BY <3>1
      <4>. QED
        BY <2>3, <3>1, <4>1 DEF LoopStep
    <3>2. CASE i # m + 1
      <4>1. i \in 1..m /\ i \in 0..m /\ i - 1 \in 0..m
        BY <3>2
      <4>. QED
        BY <2>1, <2>3, <4>1 DEF LoopStep
    <3>. QED
      BY <3>1, <3>2
  <2>. QED
    BY <2>2, <2>3, <2>4
<1>. HIDE DEF S
<1>3. S \in SUBSET Nat
  BY DEF S
<1>4. L \in S
  BY <1>1, <1>2, <1>3, Induction
<1>. QED
  BY <1>4 DEF S

LEMMA LoopSteps ==
  ASSUME Len(activeNodes) \in Nat
  PROVE  Loop[0] = 0 /\ \A i \in 1..Len(activeNodes) : LoopStep(Loop, i)
<1>. DEFINE L == Len(activeNodes)
            Is(f) == f = [i \in 0..L |-> IF i = 0 THEN 0
                                         ELSE IF Better(i, f[i - 1]) THEN i ELSE f[i - 1]]
<1>1. PICK f : DOMAIN f = 0..L /\ f[0] = 0 /\ \A i \in 1..L : LoopStep(f, i)
  BY LoopExists
<1>. DEFINE g == [i \in 0..L |-> f[i]]
<1>2. Is(g)
  <2>1. ASSUME NEW i \in 0..L
        PROVE  g[i] = IF i = 0 THEN 0 ELSE IF Better(i, g[i - 1]) THEN i ELSE g[i - 1]
    <3>1. CASE i = 0
      BY <1>1, <3>1
    <3>2. CASE i # 0
      <4>1. i \in 1..L /\ i - 1 \in 0..L
        BY <3>2
      <4>2. g[i] = f[i] /\ g[i - 1] = f[i - 1]
        BY <4>1
      <4>. QED
        BY <1>1, <3>2, <4>1, <4>2 DEF LoopStep, Prefers
    <3>. QED
      BY <3>1, <3>2
  <2>. QED
    BY <2>1
<1>3. Loop = CHOOSE h : Is(h)
  BY DEF Loop
<1>4. Is(Loop)
  <2>. HIDE DEF Is
  <2>. QED
    BY <1>2, <1>3
<1>. DEFINE h == Loop
<1>5. Is(h)
  BY <1>4
<1>. HIDE DEF h
<1>6. h[0] = 0 /\ \A i \in 1..L : h[i] = IF Better(i, h[i - 1]) THEN i ELSE h[i - 1]
  <2>1. 0 \in 0..L /\ \A i \in 1..L : i \in 0..L /\ i # 0
    OBVIOUS
  <2>. QED
    BY <1>5, <2>1
<1>. QED
  BY <1>6 DEF h, LoopStep, Prefers

\* After i entries, the best is 0 if none has a usable latency, and otherwise one
\* that no other of them beats.
BestOf(i, best) ==
  \/ best = 0 /\ \A j \in 1..i : ~Usable(copied, activeNodes[j])
  \/ /\ best \in 1..i /\ Usable(copied, activeNodes[best])
     /\ \A j \in 1..i : Usable(copied, activeNodes[j]) => copied[activeNodes[best]] <= copied[activeNodes[j]]

LEMMA LoopFindsBest ==
  ASSUME MaxLatency \in Nat, Len(activeNodes) \in Nat,
         \A i \in 1..Len(activeNodes) : copied[activeNodes[i]] \in Int
  PROVE  BestOf(Len(activeNodes), Loop[Len(activeNodes)])
<1>. DEFINE L == Len(activeNodes)
            lat == [i \in 1..L |-> copied[activeNodes[i]]]
            S == {m \in Nat : m <= L => BestOf(m, Loop[m])}
<1>1. 0 \in S
  BY LoopSteps DEF BestOf
<1>2. ASSUME NEW m \in S PROVE m + 1 \in S
  <2>. SUFFICES ASSUME m + 1 <= L PROVE BestOf(m + 1, Loop[m + 1])
    BY <1>2
  <2>. DEFINE b == Loop[m]
              c == Loop[m + 1]
  <2>1. m \in Nat /\ BestOf(m, b) /\ m + 1 \in 1..L /\ (m + 1) - 1 = m
    BY <1>2
  <2>2. c = IF Better(m + 1, b) THEN m + 1 ELSE b
    <3>1. LoopStep(Loop, m + 1)
      BY <2>1, LoopSteps
    <3>. QED
      BY <2>1, <3>1 DEF LoopStep, Prefers
  <2>. HIDE DEF b, c
  <2>3. \A j \in 1..(m + 1) : copied[activeNodes[j]] \in Int
    BY <2>1
  <2>4. \A j \in 1..(m + 1) : j \in 1..m \/ j = m + 1
    BY <2>1
  <2>5. Better(m + 1, b) <=>
          copied[activeNodes[m + 1]] > 0 /\ copied[activeNodes[m + 1]] < (IF b = 0 THEN MaxLatency ELSE copied[activeNodes[b]])
    BY DEF Better, Latency
  <2>6. CASE Better(m + 1, b)
    <3>1. c = m + 1 /\ m + 1 \in 1..(m + 1)
      BY <2>1, <2>2, <2>6
    <3>2. CASE b = 0
      <4>1. \A j \in 1..m : ~Usable(copied, activeNodes[j])
        BY <2>1, <3>2 DEF BestOf
      <4>2. Usable(copied, activeNodes[m + 1])
        BY <2>5, <2>6, <3>2 DEF Usable
      <4>3. \A j \in 1..(m + 1) : Usable(copied, activeNodes[j]) => copied[activeNodes[m + 1]] <= copied[activeNodes[j]]
        BY <2>1, <2>3, <2>4, <4>1
      <4>. QED
        BY <3>1, <4>2, <4>3 DEF BestOf, c
    <3>3. CASE b # 0
      <4>1. /\ b \in 1..m /\ Usable(copied, activeNodes[b])
            /\ \A j \in 1..m : Usable(copied, activeNodes[j]) => copied[activeNodes[b]] <= copied[activeNodes[j]]
        BY <2>1, <3>3 DEF BestOf
      <4>2. copied[activeNodes[m + 1]] > 0 /\ copied[activeNodes[m + 1]] < copied[activeNodes[b]]
        BY <2>5, <2>6, <3>3
      <4>3. b \in 1..(m + 1) /\ m + 1 \in 1..(m + 1)
        BY <2>1, <4>1
      <4>4. Usable(copied, activeNodes[m + 1])
        BY <2>3, <4>1, <4>2, <4>3 DEF Usable
      <4>5. \A j \in 1..(m + 1) : Usable(copied, activeNodes[j]) => copied[activeNodes[m + 1]] <= copied[activeNodes[j]]
        BY <2>1, <2>3, <2>4, <4>1, <4>2, <4>3
      <4>. QED
        BY <3>1, <4>4, <4>5 DEF BestOf, c
    <3>. QED
      BY <3>2, <3>3
  <2>7. CASE ~Better(m + 1, b)
    <3>1. c = b
      BY <2>2, <2>7
    <3>2. CASE b = 0
      <4>1. \A j \in 1..m : ~Usable(copied, activeNodes[j])
        BY <2>1, <3>2 DEF BestOf
      <4>2. ~Usable(copied, activeNodes[m + 1])
        BY <2>5, <2>7, <3>2 DEF Usable
      <4>3. \A j \in 1..(m + 1) : ~Usable(copied, activeNodes[j])
        BY <2>4, <4>1, <4>2
      <4>. QED
        BY <3>1, <3>2, <4>3 DEF BestOf, c
    <3>3. CASE b # 0
      <4>1. /\ b \in 1..m /\ Usable(copied, activeNodes[b])
            /\ \A j \in 1..m : Usable(copied, activeNodes[j]) => copied[activeNodes[b]] <= copied[activeNodes[j]]
        BY <2>1, <3>3 DEF BestOf
      <4>2. b \in 1..(m + 1) /\ m + 1 \in 1..(m + 1)
        BY <2>1, <4>1
      <4>3. Usable(copied, activeNodes[m + 1]) => copied[activeNodes[b]] <= copied[activeNodes[m + 1]]
        BY <2>3, <2>5, <2>7, <3>3, <4>2 DEF Usable
      <4>4. \A j \in 1..(m + 1) : Usable(copied, activeNodes[j]) => copied[activeNodes[b]] <= copied[activeNodes[j]]
        BY <2>4, <4>1, <4>3
      <4>. QED
        BY <3>1, <4>1, <4>2, <4>4 DEF BestOf, c
    <3>. QED
      BY <3>2, <3>3
  <2>. QED
    BY <2>6, <2>7
<1>. HIDE DEF S
<1>3. S \in SUBSET Nat
  BY DEF S
<1>4. L \in S
  BY <1>1, <1>2, <1>3, Induction
<1>. QED
  BY <1>4 DEF S

-----------------------------------------------------------------------------
(* The turns.                                                              *)

\* The entries from a to p, counting on from the first after the last.
Arc(a, p, i) == IF a <= p THEN a <= i /\ i <= p ELSE a <= i \/ i <= p

\* Since the list was rebuilt, or the index wrapped, the turns have gone round q
\* times and on from entry a to the last one picked (entries from 0, as in Go).
TurnsGoRound(q, a) ==
  \A i \in 0..(Len(activeNodes) - 1) :
    turns[activeNodes[i + 1]] = IF Arc(a, rrIndex % Len(activeNodes), i) THEN q + 1 ELSE q

RoundsOK ==
  activeNodes # << >> =>
    \E q \in Int : \E a \in 0..(Len(activeNodes) - 1) : TurnsGoRound(q, a)

RTyped ==
  /\ stored \in [Nodes -> Latencies \cup {0}]
  /\ DOMAIN copied \subseteq Nodes
  /\ copied \in [DOMAIN copied -> Latencies \cup {0}]
  /\ strategy \in Strategies
  /\ rrIndex \in 0..(IndexMod - 1)
  /\ turns \in [Nodes -> Nat] /\ \A n \in Nodes : turns[n] <= rrIndex + 1
  /\ last \in Nodes \cup {NoOne}

\* The copy of a running node is out of date only if it is listed as such.
CopiesFit ==
  /\ outdated \subseteq DOMAIN copied
  /\ \A n \in DOMAIN copied \ outdated : copied[n] = stored[n]

RInv == RTyped /\ Listed /\ RoundsOK /\ CopiesFit

LEMMA OrderListed ==
  ASSUME IsFiniteSet(DOMAIN copied), activeNodes \in SetToSeqs(DOMAIN copied)
  PROVE  Listed
<1>1. activeNodes \in [1..Cardinality(DOMAIN copied) -> DOMAIN copied]
      /\ \A i, j \in 1..Cardinality(DOMAIN copied) : i # j => activeNodes[i] # activeNodes[j]
  BY DEF SetToSeqs
<1>. QED
  BY <1>1 DEF Listed

LEMMA ListedOrder ==
  ASSUME Listed
  PROVE  activeNodes \in SetToSeqs(DOMAIN copied)
<1>1. DOMAIN activeNodes = 1..Cardinality(DOMAIN copied)
  BY DEF Listed
<1>. QED
  BY <1>1 DEF SetToSeqs, Listed

\* A list without turns: they have gone round -1 times, and on over all entries.
LEMMA NoTurnsGoRound ==
  ASSUME Listed, rrIndex \in Nat, \A n \in DOMAIN copied : turns[n] = 0
  PROVE  RoundsOK
<1>. SUFFICES ASSUME activeNodes # << >>
              PROVE  \E q \in Int : \E a \in 0..(Len(activeNodes) - 1) : TurnsGoRound(q, a)
  BY DEF RoundsOK
<1>. DEFINE L == Len(activeNodes)
            p == rrIndex % L
            a == IF p = L - 1 THEN 0 ELSE p + 1
<1>1. /\ activeNodes \in Seq(DOMAIN copied) /\ L \in Nat
      /\ \A i \in 1..L : activeNodes[i] \in DOMAIN copied
  BY ListedIsOrder
<1>2. L \in Nat \ {0}
  BY <1>1, EmptySeq
<1>3. p \in 0..(L - 1)
  BY <1>2, Remainder
<1>. HIDE DEF L, p
<1>4. a \in 0..(L - 1)
  BY <1>2, <1>3
<1>5. \A i \in 0..(L - 1) : Arc(a, p, i)
  BY <1>2, <1>3 DEF Arc
<1>6. \A i \in 0..(L - 1) : i + 1 \in 1..L
  BY <1>2
<1>7. TurnsGoRound(-1, a)
  BY <1>1, <1>5, <1>6 DEF TurnsGoRound, L, p
<1>. QED
  BY <1>4, <1>7 DEF L

LEMMA InitRouting ==
  ASSUME RoutingInit
  PROVE  RInv
<1>. USE RoutingAssumption DEF RoutingInit
<1>1. DOMAIN copied = {}
  OBVIOUS
<1>2. RTyped
  BY <1>1 DEF RTyped
<1>3. Listed
  <2>1. IsFiniteSet({}) /\ Cardinality({}) = 0
    BY FS_EmptySet
  <2>2. activeNodes \in [1..0 -> {}] /\ DOMAIN activeNodes = {}
    OBVIOUS
  <2>. QED
    BY <1>1, <2>1, <2>2 DEF Listed
<1>4. RoundsOK
  BY DEF RoundsOK
<1>5. CopiesFit
  BY <1>1 DEF CopiesFit
<1>. QED
  BY <1>2, <1>3, <1>4, <1>5 DEF RInv

LEMMA RebuildRouting ==
  ASSUME RInv, Rebuild, CopiesFit', IsFiniteSet(DOMAIN copied'),
         DOMAIN copied' \subseteq Nodes, copied' \in [DOMAIN copied' -> Latencies \cup {0}]
  PROVE  RInv'
<1>. USE DEF Rebuild
<1>1. RTyped'
  BY RoutingAssumption DEF RInv, RTyped
<1>2. Listed'
  <2>1. (IsFiniteSet(DOMAIN copied) /\ activeNodes \in SetToSeqs(DOMAIN copied) => Listed)'
    BY OrderListed, PTL
  <2>. QED
    BY <2>1
<1>3. RoundsOK'
  <2>1. (Listed /\ rrIndex \in Nat /\ (\A n \in DOMAIN copied : turns[n] = 0) => RoundsOK)'
    BY NoTurnsGoRound, PTL
  <2>2. rrIndex' \in Nat
    BY RoutingAssumption DEF RInv, RTyped
  <2>3. \A n \in DOMAIN copied' : turns'[n] = 0
    OBVIOUS
  <2>. QED
    BY <1>2, <2>1, <2>2, <2>3
<1>. QED
  BY <1>1, <1>2, <1>3 DEF RInv

LEMMA StartRouting ==
  ASSUME RInv, NEW n \in Nodes, StartNode(n)
  PROVE  RInv'
<1>1. /\ DOMAIN copied' = DOMAIN copied \cup {n}
      /\ copied' \in [DOMAIN copied \cup {n} -> Latencies \cup {0}]
  BY DEF StartNode, RInv, RTyped
<1>2. IsFiniteSet(DOMAIN copied')
  BY <1>1, FS_AddElement DEF RInv, Listed
<1>3. DOMAIN copied' \subseteq Nodes
  BY <1>1 DEF RInv, RTyped
<1>4. Rebuild
  BY DEF StartNode
<1>5. copied' \in [DOMAIN copied' -> Latencies \cup {0}]
  BY <1>1
<1>6. CopiesFit'
  BY DEF StartNode, Rebuild, RInv, CopiesFit
<1>. QED
  BY <1>2, <1>3, <1>4, <1>5, <1>6, RebuildRouting

LEMMA StopRouting ==
  ASSUME RInv, NEW n \in Nodes, StopNode(n)
  PROVE  RInv'
<1>1. /\ DOMAIN copied' = DOMAIN copied \ {n}
      /\ copied' \in [DOMAIN copied \ {n} -> Latencies \cup {0}]
  BY DEF StopNode, RInv, RTyped
<1>2. IsFiniteSet(DOMAIN copied')
  BY <1>1, FS_Subset DEF RInv, Listed
<1>3. DOMAIN copied' \subseteq Nodes
  BY <1>1 DEF RInv, RTyped
<1>4. Rebuild
  BY DEF StopNode
<1>5. copied' \in [DOMAIN copied' -> Latencies \cup {0}]
  BY <1>1
<1>6. CopiesFit'
  BY DEF StopNode, Rebuild, RInv, CopiesFit
<1>. QED
  BY <1>2, <1>3, <1>4, <1>5, <1>6, RebuildRouting

\* What has nothing to do with the list and the turns.
LEMMA RestRouting ==
  ASSUME RInv, UNCHANGED <<copied, activeNodes, rrIndex, turns>>, RTyped', CopiesFit'
  PROVE  RInv'
BY DEF RInv, Listed, RoundsOK, TurnsGoRound

-----------------------------------------------------------------------------
LEMMA TurnIndex ==
  ASSUME RInv, activeNodes # << >>, TakeTurn
  PROVE  /\ rrIndex \in Nat /\ rrIndex' \in 0..(IndexMod - 1)
         /\ Len(activeNodes) \in Nat \ {0}
         /\ rrIndex' = IF rrIndex + 1 < IndexMod THEN rrIndex + 1 ELSE 0
         /\ rrIndex' % Len(activeNodes) \in 0..(Len(activeNodes) - 1)
         /\ last' = activeNodes[(rrIndex' % Len(activeNodes)) + 1] /\ last' \in DOMAIN copied
         /\ turns' = IF rrIndex' = 0 THEN [m \in Nodes |-> IF m = last' THEN 1 ELSE 0]
                                     ELSE [turns EXCEPT ![last'] = @ + 1]
<1>. DEFINE L == Len(activeNodes)
<1>1. activeNodes \in Seq(DOMAIN copied) /\ L \in Nat \ {0}
      /\ \A i \in 1..L : activeNodes[i] \in DOMAIN copied
  BY ListedIsOrder, EmptySeq DEF RInv
<1>2. IndexMod \in Nat \ {0} /\ rrIndex \in 0..(IndexMod - 1) /\ rrIndex \in Nat
  BY RoutingAssumption DEF RInv, RTyped
<1>3. rrIndex' = (rrIndex + 1) % IndexMod
  BY DEF TakeTurn
<1>4. rrIndex' = IF rrIndex + 1 < IndexMod THEN rrIndex + 1 ELSE 0
  <2>1. CASE rrIndex + 1 < IndexMod
    <3>1. rrIndex + 1 \in 0..(IndexMod - 1)
      BY <1>2, <2>1
    <3>. QED
      BY <1>2, <1>3, <2>1, <3>1, SmallRemainder
  <2>2. CASE ~(rrIndex + 1 < IndexMod)
    <3>1. rrIndex + 1 = IndexMod
      BY <1>2, <2>2
    <3>2. IndexMod % IndexMod = 0
      BY <1>2, SmallRemainder
    <3>. QED
      BY <1>3, <2>2, <3>1, <3>2
  <2>. QED
    BY <2>1, <2>2
<1>5. rrIndex' \in 0..(IndexMod - 1) /\ rrIndex' \in Nat
  BY <1>2, <1>4
<1>6. rrIndex' % L \in 0..(L - 1)
  BY <1>1, <1>5, Remainder
<1>7. last' = activeNodes[(rrIndex' % L) + 1]
      /\ turns' = IF rrIndex' = 0 THEN [m \in Nodes |-> IF m = last' THEN 1 ELSE 0]
                                  ELSE [turns EXCEPT ![last'] = @ + 1]
  BY DEF TakeTurn
<1>8. (rrIndex' % L) + 1 \in 1..L
  BY <1>1, <1>6
<1>. QED
  BY <1>1, <1>2, <1>4, <1>5, <1>6, <1>7, <1>8

LEMMA TurnTyped ==
  ASSUME RInv, activeNodes # << >>, TakeTurn,
         UNCHANGED <<stored, copied, strategy>>
  PROVE  RTyped'
<1>1. turns \in [Nodes -> Nat] /\ \A n \in Nodes : turns[n] <= rrIndex + 1
  BY DEF RInv, RTyped
<1>2. last' \in Nodes
  BY TurnIndex DEF RInv, RTyped
<1>3. CASE rrIndex' = 0
  <2>1. turns' = [m \in Nodes |-> IF m = last' THEN 1 ELSE 0]
    BY <1>3, TurnIndex
  <2>2. turns' \in [Nodes -> Nat] /\ \A n \in Nodes : turns'[n] <= rrIndex' + 1
    BY <1>3, <2>1
  <2>. QED
    BY <1>2, <2>2, TurnIndex DEF RInv, RTyped
<1>4. CASE rrIndex' # 0
  <2>1. turns' = [turns EXCEPT ![last'] = @ + 1] /\ rrIndex' = rrIndex + 1 /\ rrIndex \in Nat
    BY <1>4, TurnIndex
  <2>2. turns' \in [Nodes -> Nat]
    BY <1>1, <1>2, <2>1
  <2>3. \A n \in Nodes : turns'[n] = IF n = last' THEN turns[n] + 1 ELSE turns[n]
    BY <1>1, <1>2, <2>1
  <2>4. \A n \in Nodes : turns'[n] <= rrIndex' + 1
    BY <1>1, <2>1, <2>3
  <2>. QED
    BY <1>2, <2>2, <2>4, TurnIndex DEF RInv, RTyped
<1>. QED
  BY <1>3, <1>4

\* A turn goes to the next entry, so the turns go on round the list; with the
\* index back at 0 they begin again at its first entry.
LEMMA TurnGoesRound ==
  ASSUME RInv, activeNodes # << >>, TakeTurn,
         UNCHANGED <<copied, activeNodes>>
  PROVE  RoundsOK'
<1>. DEFINE L == Len(activeNodes)
            p == rrIndex % L
            r == rrIndex' % L
<1>1. /\ L \in Nat \ {0} /\ rrIndex \in Nat /\ r \in 0..(L - 1)
      /\ last' = activeNodes[r + 1] /\ last' \in DOMAIN copied
      /\ rrIndex' = IF rrIndex + 1 < IndexMod THEN rrIndex + 1 ELSE 0
      /\ turns' = IF rrIndex' = 0 THEN [m \in Nodes |-> IF m = last' THEN 1 ELSE 0]
                                  ELSE [turns EXCEPT ![last'] = @ + 1]
  BY TurnIndex
<1>2. p \in 0..(L - 1)
  BY <1>1, Remainder
<1>3. \A i \in 0..(L - 1) : i + 1 \in 1..L /\ activeNodes[i + 1] \in Nodes
                            /\ (activeNodes[i + 1] = last' <=> i = r)
  <2>1. /\ \A i \in 1..L : activeNodes[i] \in DOMAIN copied
        /\ DOMAIN activeNodes = 1..L
        /\ DOMAIN copied \subseteq Nodes
        /\ \A i, j \in 1..L : activeNodes[i] = activeNodes[j] => i = j
    BY ListedIsOrder DEF RInv, RTyped, Listed
  <2>2. \A i \in 0..(L - 1) : i + 1 \in 1..L
    BY <1>1
  <2>3. \A i \in 0..(L - 1) : i + 1 = r + 1 => i = r
    BY <1>1
  <2>. QED
    BY <1>1, <2>1, <2>2, <2>3
<1>. SUFFICES \E q \in Int : \E a \in 0..(L - 1) :
                \A i \in 0..(L - 1) :
                  turns'[activeNodes[i + 1]] = IF Arc(a, r, i) THEN q + 1 ELSE q
  BY DEF RoundsOK, TurnsGoRound
<1>4. CASE rrIndex' = 0
  <2>1. r = 0 /\ 0 \in 0..(L - 1)
    BY <1>1, <1>4, SmallRemainder
  <2>2. \A i \in 0..(L - 1) : Arc(0, r, i) <=> i = r
    BY <2>1 DEF Arc
  <2>3. \A i \in 0..(L - 1) : turns'[activeNodes[i + 1]] = IF Arc(0, r, i) THEN 0 + 1 ELSE 0
    BY <1>1, <1>3, <1>4, <2>2
  <2>. QED
    BY <2>1, <2>3
<1>5. CASE rrIndex' # 0
  <2>1. rrIndex' = rrIndex + 1 /\ turns' = [turns EXCEPT ![last'] = @ + 1]
    BY <1>1, <1>5
  <2>2. r = IF p = L - 1 THEN 0 ELSE p + 1
    BY <1>1, <2>1, NextRemainder
  <2>3. PICK q \in Int, a \in 0..(L - 1) :
          \A i \in 0..(L - 1) : turns[activeNodes[i + 1]] = IF Arc(a, p, i) THEN q + 1 ELSE q
    BY DEF RInv, RoundsOK, TurnsGoRound
  <2>4. \A i \in 0..(L - 1) :
          turns'[activeNodes[i + 1]] = IF i = r THEN turns[activeNodes[i + 1]] + 1 ELSE turns[activeNodes[i + 1]]
    BY <1>3, <2>1 DEF RInv, RTyped
  <2>. HIDE DEF L, p, r
  <2>5. CASE a = r
    <3>1. \A i \in 0..(L - 1) : Arc(a, p, i)
      BY <1>1, <1>2, <2>2, <2>5 DEF Arc
    <3>2. \A i \in 0..(L - 1) : Arc(r, r, i) <=> i = r
      BY <1>1 DEF Arc
    <3>3. q + 1 \in Int /\ \A i \in 0..(L - 1) :
            turns'[activeNodes[i + 1]] = IF Arc(r, r, i) THEN (q + 1) + 1 ELSE q + 1
      BY <2>3, <2>4, <3>1, <3>2
    <3>. QED
      BY <1>1, <3>3
  <2>6. CASE a # r
    <3>1. \A i \in 0..(L - 1) : Arc(a, r, i) <=> Arc(a, p, i) \/ i = r
      BY <1>1, <1>2, <2>2, <2>6 DEF Arc
    <3>2. ~Arc(a, p, r)
      BY <1>1, <1>2, <2>2, <2>6 DEF Arc
    <3>3. \A i \in 0..(L - 1) :
            turns'[activeNodes[i + 1]] = IF Arc(a, r, i) THEN q + 1 ELSE q
      BY <2>3, <2>4, <3>1, <3>2
    <3>. QED
      BY <3>3
  <2>. QED
    BY <2>5, <2>6
<1>. QED
  BY <1>4, <1>5

LEMMA TurnRouting ==
  ASSUME RInv, activeNodes # << >>, TakeTurn,
         UNCHANGED <<stored, copied, activeNodes, strategy, outdated>>
  PROVE  RInv'
<1>1. Listed' /\ CopiesFit'
  BY DEF RInv, Listed, CopiesFit
<1>. QED
  BY <1>1, TurnTyped, TurnGoesRound DEF RInv

-----------------------------------------------------------------------------
LEMMA LatencyType ==
  ASSUME RInv
  PROVE  \A n \in DOMAIN copied : copied[n] \in Int
<1>1. Latencies \cup {0} \subseteq Int
  BY RoutingAssumption
<1>2. copied \in [DOMAIN copied -> Latencies \cup {0}]
  BY DEF RInv, RTyped
<1>. QED
  BY <1>1, <1>2

\* In a list with a usable latency, the loop finds one that no other beats.
LEMMA BestIsUsable ==
  ASSUME RInv, NEW n \in DOMAIN copied, Usable(copied, n)
  PROVE  /\ BestEntry \in 1..Len(activeNodes) /\ Usable(copied, activeNodes[BestEntry])
         /\ \A m \in DOMAIN copied :
              Usable(copied, m) => copied[activeNodes[BestEntry]] <= copied[m]
<1>. DEFINE L == Len(activeNodes)
<1>1. /\ L \in Nat /\ \A i \in 1..L : activeNodes[i] \in DOMAIN copied
      /\ \A m \in DOMAIN copied : \E i \in 1..L : activeNodes[i] = m
  BY ListedIsOrder DEF RInv
<1>2. \A i \in 1..L : copied[activeNodes[i]] \in Int
  BY <1>1, LatencyType
<1>3. BestOf(L, Loop[L])
  BY <1>1, <1>2, LoopFindsBest, RoutingAssumption
<1>4. PICK i \in 1..L : activeNodes[i] = n
  BY <1>1
<1>5. BestEntry = Loop[L]
  BY DEF BestEntry
<1>. QED
  BY <1>1, <1>3, <1>4, <1>5 DEF BestOf

\* The loop's result is an entry or none, whatever the latencies.
LEMMA BestIsEntry ==
  ASSUME RInv
  PROVE  BestEntry \in 0..Len(activeNodes)
<1>. DEFINE L == Len(activeNodes)
<1>1. L \in Nat /\ \A i \in 1..L : copied[activeNodes[i]] \in Int
  BY ListedIsOrder, LatencyType DEF RInv
<1>2. BestOf(L, Loop[L])
  BY <1>1, LoopFindsBest, RoutingAssumption
<1>. QED
  BY <1>1, <1>2 DEF BestOf, BestEntry

LEMMA PickRouting ==
  ASSUME RInv, NEW i \in 1..Len(activeNodes), PickNode(activeNodes[i]),
         UNCHANGED <<stored, copied, activeNodes, strategy, outdated>>
  PROVE  RInv'
<1>1. activeNodes[i] \in Nodes
  BY ListedIsOrder DEF RInv, RTyped
<1>2. RTyped' /\ CopiesFit' /\ UNCHANGED <<rrIndex, turns>>
  BY <1>1 DEF RInv, RTyped, PickNode, CopiesFit
<1>. QED
  BY <1>2, RestRouting

LEMMA GetDialerRouting ==
  ASSUME RInv, GetDialer
  PROVE  RInv'
<1>1. activeNodes # << >> /\ UNCHANGED <<stored, copied, activeNodes, strategy, outdated>>
  BY DEF GetDialer
<1>2. TakeTurn \/ \E i \in 1..Len(activeNodes) : PickNode(activeNodes[i])
  <2>1. DOMAIN activeNodes = 1..Len(activeNodes)
    BY ListedIsOrder DEF RInv
  <2>2. BestEntry # 0 => BestEntry \in 1..Len(activeNodes)
    BY BestIsEntry, ListedIsOrder DEF RInv
  <2>. QED
    BY <2>1, <2>2 DEF GetDialer
<1>. QED
  BY <1>1, <1>2, TurnRouting, PickRouting

LEMMA NextRouting ==
  ASSUME RInv, [RoutingNext]_routingVars
  PROVE  RInv'
<1>1. ASSUME NEW n \in Nodes, NEW l \in Latencies \cup {0}, Record(n, l) PROVE RInv'
  <2>1. RTyped' /\ UNCHANGED <<copied, activeNodes, rrIndex, turns>>
    BY <1>1 DEF Record, RInv, RTyped
  <2>2. CopiesFit'
    BY <1>1 DEF Record, RInv, RTyped, CopiesFit
  <2>. QED
    BY <2>1, <2>2, RestRouting
<1>2. ASSUME NEW s \in Strategies, SetStrategy(s) PROVE RInv'
  <2>1. RTyped' /\ CopiesFit' /\ UNCHANGED <<copied, activeNodes, rrIndex, turns>>
    BY <1>2 DEF SetStrategy, RInv, RTyped, CopiesFit
  <2>. QED
    BY <2>1, RestRouting
<1>3. CASE UNCHANGED routingVars
  <2>1. RTyped' /\ CopiesFit' /\ UNCHANGED <<copied, activeNodes, rrIndex, turns>>
    BY <1>3 DEF routingVars, RInv, RTyped, CopiesFit
  <2>. QED
    BY <2>1, RestRouting
<1>. QED
  BY <1>1, <1>2, <1>3, StartRouting, StopRouting, GetDialerRouting
  DEF RoutingNext, TestNode, RefreshNode

LEMMA RoutingInvariance == RoutingSpec => []RInv
<1>1. RoutingInit => RInv
  BY InitRouting
<1>2. RInv /\ [RoutingNext]_routingVars => RInv'
  BY NextRouting
<1>. QED
  BY <1>1, <1>2, PTL DEF RoutingSpec

\* The choice of a node keeps its types, with any lists and results of tests,
\* and no node has more turns than the index has gone on (tunnel.go:62-89).
THEOREM RoutingTypeCorrect == RoutingSpec => []RoutingTypeOK
<1>1. RInv => RoutingTypeOK
  <2>. SUFFICES ASSUME RInv PROVE RoutingTypeOK
    OBVIOUS
  <2>1. turns \in [Nodes -> 0..IndexMod]
    BY RoutingAssumption DEF RInv, RTyped
  <2>. QED
    BY <2>1, ListedOrder DEF RInv, RTyped, CopiesFit, RoutingTypeOK
<1>. QED
  BY <1>1, RoutingInvariance, PTL

LEMMA EvenTurns ==
  ASSUME RInv
  PROVE  RoundRobinEven
<1>. SUFFICES ASSUME NEW m \in DOMAIN copied, NEW n \in DOMAIN copied
              PROVE  turns[m] - turns[n] <= 1
  BY DEF RoundRobinEven, Active
<1>. DEFINE L == Len(activeNodes)
<1>1. L \in Nat /\ \E i \in 1..L : activeNodes[i] = m
  BY ListedIsOrder DEF RInv
<1>2. PICK i \in 0..(L - 1), j \in 0..(L - 1) : activeNodes[i + 1] = m /\ activeNodes[j + 1] = n
  <2>1. PICK i \in 1..L, j \in 1..L : activeNodes[i] = m /\ activeNodes[j] = n
    BY ListedIsOrder DEF RInv
  <2>2. i - 1 \in 0..(L - 1) /\ j - 1 \in 0..(L - 1) /\ (i - 1) + 1 = i /\ (j - 1) + 1 = j
    BY <1>1
  <2>. QED
    BY <2>1, <2>2
<1>3. activeNodes # << >>
  BY <1>1, ListedIsOrder, EmptySeq DEF RInv
<1>4. PICK q \in Int, a \in 0..(L - 1) : TurnsGoRound(q, a)
  BY <1>3 DEF RInv, RoundsOK
<1>5. turns[m] \in {q, q + 1} /\ turns[n] \in {q, q + 1}
  BY <1>2, <1>4 DEF TurnsGoRound
<1>. QED
  BY <1>5

\* However nodes start, stop, are tested and refreshed, the turns over a list of
\* any length are even until it is rebuilt or the index wraps, and least-latency
\* finds a node that no other running one beats by the copies, nor by the store
\* unless one of the two has a copy out of date (tunnel.go:62-89).
THEOREM PicksCorrect == RoutingSpec => PicksAsPromised
<1>1. RInv /\ RoutingNext => LeastLatencyPick
  <2>. SUFFICES ASSUME RInv, GetDialer, strategy = "least-latency",
                       NEW n \in DOMAIN copied, Usable(copied, n)
                PROVE  /\ Usable(copied, last')
                       /\ \A m \in DOMAIN copied :
                            Usable(copied, m) => copied[last'] <= copied[m]
    BY DEF LeastLatencyPick, Active
  <2>1. BestEntry # 0 /\ Len(activeNodes) \in Nat
    BY BestIsUsable, ListedIsOrder DEF RInv
  <2>2. PickNode(activeNodes[BestEntry])
    BY <2>1 DEF GetDialer
  <2>3. last' = activeNodes[BestEntry]
    BY <2>2 DEF PickNode
  <2>. QED
    BY <2>3, BestIsUsable
<1>2. RInv /\ RoutingNext => LatestLatencyPick
  <2>. SUFFICES ASSUME RInv, RoutingNext, GetDialer, strategy = "least-latency",
                       NEW n \in DOMAIN copied \ outdated, Beats(stored, n, last'),
                       last' \notin outdated
                PROVE  FALSE
    BY DEF LatestLatencyPick, Active
  <2>1. copied[n] = stored[n] /\ Usable(copied, n)
    BY DEF Beats, Usable, RInv, CopiesFit
  <2>2. Usable(copied, last') /\ copied[last'] <= copied[n]
    BY <1>1, <2>1 DEF LeastLatencyPick, Active
  <2>3. last' \in DOMAIN copied
    <3>1. BestEntry \in 1..Len(activeNodes) /\ BestEntry # 0 /\ Len(activeNodes) \in Nat
      BY <2>1, BestIsUsable, ListedIsOrder DEF RInv
    <3>2. last' = activeNodes[BestEntry]
      BY <3>1 DEF GetDialer, PickNode
    <3>. QED
      BY <3>1, <3>2, ListedIsOrder DEF RInv
  <2>4. copied[last'] = stored[last']
    BY <2>3 DEF RInv, CopiesFit
  <2>5. Usable(stored, last') /\ stored[last'] <= stored[n]
    BY <2>1, <2>2, <2>4 DEF Usable
  <2>6. stored[n] < stored[last']
    BY <2>5 DEF Beats
  <2>7. copied[n] \in Int /\ copied[last'] \in Int
    BY <2>3, LatencyType
  <2>. QED
    BY <2>1, <2>4, <2>5, <2>6, <2>7
<1>3. RInv' => RoundRobinEven'
  BY EvenTurns, PTL
<1>4. RInv /\ RInv' /\ [RoutingNext]_routingVars
        => [RoundRobinEven' /\ LeastLatencyPick /\ LatestLatencyPick]_routingVars
  BY <1>1, <1>2, <1>3
<1>. QED
  BY <1>4, RoutingInvariance, PTL DEF RoutingSpec, PicksAsPromised
=============================================================================
