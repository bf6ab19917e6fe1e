------------------------------- MODULE Relay -------------------------------
(***************************************************************************)
(* pkg/proxy/inbound.go: what a handler does with one connection once it   *)
(* has a dialer: the SOCKS5 or HTTP handshake through a buffered reader,   *)
(* the dial, and the two goroutines of pipeBidirectional.                  *)
(*                                                                         *)
(* What an end sends is numbered from 1.  The client begins with its       *)
(* handshake messages, which the handler takes; a read takes any part of   *)
(* what has arrived.  Replies of the proxy have the numbers below 1.       *)
(***************************************************************************)
EXTENDS Integers, FiniteSets, Sequences

CONSTANTS Limit  \* per direction: the items an end sends besides a handshake

ASSUME RelayAssumption == Limit \in [{"up", "down"} -> Nat]

VARIABLES kind,   \* of the client's request
          node,   \* of the outbound: "http" is dialer.HTTPDialer, or another
          peer,   \* per end: its side of the connection
          reads,  \* the ends that have room for what is sent to them
          stage,  \* of the handler
          sent,   \* per direction: by the end it comes from
          taken,  \* per direction: read from that end's connection
          used,   \* per direction: what the handler is done with; the rest is buffered
          at,     \* per direction: the goroutine of pipeBidirectional
          held,   \* per direction: its buffer
          out,    \* per direction: written to the other end
          count,  \* per direction: UploadBytes and DownloadBytes
          closed, \* the handler is done with both connections and has closed
                  \* them, but the transport of a plain request may keep the
                  \* target's idle (inbound.go:281); nobody uses it again
          ahead   \* history: the ends that sent before the relay began

traffic == <<sent, taken, used, held, out, count>>
vars == <<kind, node, peer, reads, stage, traffic, at, closed, ahead>>

Directions == {"up", "down"}
Source(d) == IF d = "up" THEN "client" ELSE "remote"
Sink(d) == IF d = "up" THEN "remote" ELSE "client"

Method == -2       \* 0x05 0x00
Established == -1  \* success, or 200
Refused == 0       \* any error reply

\* The messages of a handshake: a greeting and a request, or a request.
Messages == IF kind = "socks5" THEN 2 ELSE 1
First(d) == IF d = "up" THEN Messages ELSE 0
Items(m, n) == [i \in 1..(n - m) |-> m + i]

TypeOK ==
  /\ kind \in {"socks5", "connect", "plain"}
  /\ node \in {"http", "other"}
  /\ peer \in [{"client", "remote"} -> {"none", "open", "done", "gone"}]
  /\ reads \subseteq {"client", "remote"}
  /\ stage \in {"greet", "request", "dial", "answered", "reply", "relay", "over"}
  /\ \A f \in {sent, taken, used, count} : f \in [Directions -> Nat]
  /\ \A d \in Directions : count[d] <= used[d] /\ used[d] <= taken[d] /\ taken[d] <= sent[d]
  /\ at \in [Directions -> {"none", "read", "write", "count", "break", "done"}]
  /\ held \in [Directions -> Seq(Nat)]
  /\ out \in [Directions -> Seq(Int)]
  /\ closed \in BOOLEAN
  /\ ahead \subseteq {"client", "remote"}

Init ==
  /\ kind \in {"socks5", "connect", "plain"}
  /\ node \in {"http", "other"}
  /\ peer = [client |-> "open", remote |-> "none"]
  /\ reads = {"client", "remote"}
  /\ stage = IF kind = "socks5" THEN "greet" ELSE "request"
  /\ sent = [d \in Directions |-> 0]
  /\ taken = sent
  /\ used = sent
  /\ count = sent
  /\ at = [d \in Directions |-> "none"]
  /\ held = [d \in Directions |-> << >>]
  /\ out = held
  /\ closed = FALSE
  /\ ahead = {}

-----------------------------------------------------------------------------
(* The ends.                                                               *)

\* A plain request goes with its body; its answer comes after it.
Send(d) ==
  /\ peer[Source(d)] = "open"
  /\ ~closed
  /\ sent[d] < First(d) + (IF kind = "plain" /\ d = "up" THEN 0 ELSE Limit[d])
  /\ kind = "plain" /\ d = "down" => stage \in {"reply", "relay"}
  /\ sent' = [sent EXCEPT ![d] = @ + 1]
  /\ ahead' = IF sent[d] >= First(d) /\ stage # "relay" THEN ahead \cup {Source(d)} ELSE ahead
  /\ UNCHANGED <<kind, node, peer, reads, stage, taken, used, held, out, count, at, closed>>

\* An end sends no more, or its connection breaks.
Leave(e) ==
  /\ ~closed
  /\ \/ peer[e] = "open" /\ peer' = [peer EXCEPT ![e] = "done"]
     \/ peer[e] \in {"open", "done"} /\ peer' = [peer EXCEPT ![e] = "gone"]
  /\ UNCHANGED <<kind, node, reads, stage, traffic, at, closed, ahead>>

\* An end stops reading, or goes on.
StopOrRead(e) ==
  /\ stage = "relay" /\ ~closed /\ peer[e] # "gone"
  /\ reads' = IF e \in reads THEN reads \ {e} ELSE reads \cup {e}
  /\ UNCHANGED <<kind, node, peer, stage, traffic, at, closed, ahead>>

\* The target is reached; an HTTP node has answered 200.
Connected ==
  /\ stage = "dial"
  /\ stage' = "answered"
  /\ peer' = [peer EXCEPT !["remote"] = "open"]
  /\ UNCHANGED <<kind, node, reads, traffic, at, closed, ahead>>

-----------------------------------------------------------------------------
(* handleConn, handleSocks5 and handleHTTP                                 *)

\* A read of the client through the buffered reader.
TakeMessage(t) ==
  /\ IF used["up"] < taken["up"] THEN t = taken["up"] ELSE t \in (taken["up"] + 1)..sent["up"]
  /\ taken' = [taken EXCEPT !["up"] = t]
  /\ used' = [used EXCEPT !["up"] = @ + 1]

\* A source that is at its end, once what came from it has been taken.
Ended(d) ==
  /\ used[d] = taken[d]
  /\ \/ peer[Source(d)] = "gone"
     \/ peer[Source(d)] = "done" /\ taken[d] = sent[d]

Over == stage' = "over" /\ closed' = TRUE

Answer(reply) == out' = [out EXCEPT !["down"] = Append(@, reply)]

Greet(t) ==
  /\ stage = "greet"
  /\ TakeMessage(t)
  /\ Answer(Method)
  /\ stage' = "request"
  /\ UNCHANGED <<kind, node, peer, reads, sent, held, count, at, closed, ahead>>

AcceptRequest(t) ==
  /\ stage = "request"
  /\ TakeMessage(t)
  /\ stage' = "dial"
  /\ UNCHANGED <<kind, node, peer, reads, sent, held, out, count, at, closed, ahead>>

\* No proper message: only a SOCKS5 request is answered.
RejectMessage(t) ==
  /\ stage \in {"greet", "request"}
  /\ TakeMessage(t)
  /\ IF kind = "socks5" /\ stage = "request" THEN Answer(Refused) ELSE UNCHANGED out
  /\ Over
  /\ UNCHANGED <<kind, node, peer, reads, sent, held, count, at, ahead>>

\* The client leaves, or a reply cannot be written.
HandshakeEnds ==
  /\ \/ stage \in {"greet", "request"} /\ Ended("up")
     \/ /\ stage = "greet" \/ (stage = "reply" /\ kind # "plain")
        /\ peer["client"] = "gone"
  /\ Over
  /\ UNCHANGED <<kind, node, peer, reads, traffic, at, ahead>>

\* No connection, or the 15 seconds are over.
DialFails ==
  /\ stage \in {"dial", "answered"}
  /\ Answer(Refused)
  /\ Over
  /\ UNCHANGED <<kind, node, peer, reads, sent, taken, used, held, count, at, ahead>>

\* HTTPDialer reads the answer through a buffered reader and drops the reader.
DialReturns ==
  /\ stage = "answered"
  /\ \E t \in IF node = "http" THEN 0..sent["down"] ELSE {0} :
       /\ taken' = [taken EXCEPT !["down"] = t]
       /\ used' = [used EXCEPT !["down"] = t]
  /\ stage' = "reply"
  /\ UNCHANGED <<kind, node, peer, reads, sent, held, out, count, at, closed, ahead>>

\* Mutant: the buffered bytes of a CONNECT are dropped too.
BeginRelayUnbuffered ==
  /\ stage = "reply"
  /\ kind # "plain"
  /\ Answer(Established)
  /\ used' = [used EXCEPT !["up"] = taken["up"]]
  /\ at' = [d \in Directions |-> "read"]
  /\ stage' = "relay"
  /\ UNCHANGED <<kind, node, peer, reads, sent, taken, held, count, closed, ahead>>

\* CONNECT goes on with what the reader has buffered, SOCKS5 drops it.
BeginRelay ==
  /\ stage = "reply"
  /\ kind # "plain"
  /\ Answer(Established)
  /\ used' = IF kind = "connect" THEN used ELSE [used EXCEPT !["up"] = taken["up"]]
  /\ at' = [d \in Directions |-> "read"]
  /\ stage' = "relay"
  /\ UNCHANGED <<kind, node, peer, reads, sent, taken, held, count, closed, ahead>>

\* RoundTrip: the response begins, or its connection ends before.
RoundTrip ==
  /\ stage = "reply"
  /\ kind = "plain"
  /\ \/ /\ taken["down"] < sent["down"]
        /\ at' = [up |-> "done", down |-> "read"]
        /\ stage' = "relay"
        /\ UNCHANGED <<out, closed>>
     \/ /\ Ended("down")
        /\ Answer(Refused)
        /\ Over
        /\ UNCHANGED at
  /\ UNCHANGED <<kind, node, peer, reads, sent, taken, used, held, count, ahead>>

\* wg.Wait, and the deferred calls.
HandlerReturns ==
  /\ stage = "relay"
  /\ \A d \in Directions : at[d] = "done"
  /\ Over
  /\ UNCHANGED <<kind, node, peer, reads, traffic, at, ahead>>

-----------------------------------------------------------------------------
(* pipeBidirectional; the response of a plain request is copied likewise.  *)

\* Mutant: only what is buffered is read, and no more from the connection.
ReadBufferedOnly(d, t) ==
  /\ at[d] = "read"
  /\ used[d] < taken[d] /\ t = taken[d]
  /\ held' = [held EXCEPT ![d] = Items(used[d], t)]
  /\ used' = [used EXCEPT ![d] = t]
  /\ at' = [at EXCEPT ![d] = "write"]
  /\ UNCHANGED <<kind, node, peer, reads, stage, sent, taken, out, count, closed, ahead>>

Read(d, t) ==
  /\ at[d] = "read"
  /\ \/ used[d] < taken[d] /\ t = taken[d]
     \/ ~closed /\ used[d] = taken[d] /\ t \in (taken[d] + 1)..sent[d]
  /\ held' = [held EXCEPT ![d] = Items(used[d], t)]
  /\ taken' = [taken EXCEPT ![d] = t]
  /\ used' = [used EXCEPT ![d] = t]
  /\ at' = [at EXCEPT ![d] = "write"]
  /\ UNCHANGED <<kind, node, peer, reads, stage, sent, out, count, closed, ahead>>

ReadEnds(d) ==
  /\ at[d] = "read"
  /\ Ended(d) \/ (closed /\ used[d] = taken[d])
  /\ at' = [at EXCEPT ![d] = "break"]
  /\ UNCHANGED <<kind, node, peer, reads, stage, traffic, closed, ahead>>

Write(d) ==
  /\ at[d] = "write"
  /\ ~closed
  /\ peer[Sink(d)] = "gone" \/ Sink(d) \in reads
  /\ out' = [out EXCEPT ![d] = @ \o held[d]]
  /\ at' = [at EXCEPT ![d] = "count"]
  /\ UNCHANGED <<kind, node, peer, reads, stage, sent, taken, used, held, count, closed, ahead>>

\* Mutant: a write is counted whether it fails or not.
WriteFailsCounted(d) ==
  /\ at[d] = "write"
  /\ closed \/ peer[Sink(d)] = "gone"
  /\ \E k \in 0..(Len(held[d]) - 1) : out' = [out EXCEPT ![d] = @ \o SubSeq(held[d], 1, k)]
  /\ count' = [count EXCEPT ![d] = @ + Len(held[d])]
  /\ at' = [at EXCEPT ![d] = "break"]
  /\ UNCHANGED <<kind, node, peer, reads, stage, sent, taken, used, held, closed, ahead>>

\* After some of the buffer.
WriteFails(d) ==
  /\ at[d] = "write"
  /\ closed \/ peer[Sink(d)] = "gone"
  /\ \E k \in 0..(Len(held[d]) - 1) : out' = [out EXCEPT ![d] = @ \o SubSeq(held[d], 1, k)]
  /\ at' = [at EXCEPT ![d] = "break"]
  /\ UNCHANGED <<kind, node, peer, reads, stage, sent, taken, used, held, count, closed, ahead>>

\* Mutant: the size of the buffer is counted.
CountBufferSize(d) ==
  /\ at[d] = "count"
  /\ count' = IF kind = "plain" THEN count ELSE [count EXCEPT ![d] = @ + Limit[d]]
  /\ held' = [held EXCEPT ![d] = << >>]
  /\ at' = [at EXCEPT ![d] = "read"]
  /\ UNCHANGED <<kind, node, peer, reads, stage, sent, taken, used, out, closed, ahead>>

Count(d) ==
  /\ at[d] = "count"
  /\ count' = IF kind = "plain" THEN count ELSE [count EXCEPT ![d] = @ + Len(held[d])]
  /\ held' = [held EXCEPT ![d] = << >>]
  /\ at' = [at EXCEPT ![d] = "read"]
  /\ UNCHANGED <<kind, node, peer, reads, stage, sent, taken, used, out, closed, ahead>>

\* Mutant: the direction that ends closes nothing.
CloseNeither(d) ==
  /\ at[d] = "break"
  /\ at' = [at EXCEPT ![d] = "done"]
  /\ UNCHANGED <<kind, node, peer, reads, stage, traffic, closed, ahead>>

CloseBoth(d) ==
  /\ at[d] = "break"
  /\ closed' = TRUE
  /\ at' = [at EXCEPT ![d] = "done"]
  /\ UNCHANGED <<kind, node, peer, reads, stage, traffic, ahead>>

-----------------------------------------------------------------------------
Handler ==
  \/ \E t \in 0..sent["up"] : Greet(t) \/ AcceptRequest(t) \/ RejectMessage(t)
  \/ HandshakeEnds \/ DialReturns \/ BeginRelay \/ RoundTrip \/ HandlerReturns
  \/ DialFails /\ (node = "http" => stage # "dial")

Pump(d) ==
  \/ \E t \in 0..sent[d] : Read(d, t)
  \/ ReadEnds(d) \/ Write(d) \/ WriteFails(d) \/ Count(d) \/ CloseBoth(d)

Ends ==
  \/ \E d \in Directions : Send(d)
  \/ \E e \in {"client", "remote"} : Leave(e) \/ StopOrRead(e)
  \/ Connected
  \/ DialFails

Next == Handler \/ Ends \/ \E d \in Directions : Pump(d)

Spec == Init /\ [][Next]_vars

\* Goroutines run.  HTTPDialer waits for the node's answer without a deadline,
\* so that its dial ends is up to the node.
FairSpec == Spec /\ WF_vars(Handler) /\ \A d \in Directions : WF_vars(Pump(d))

-----------------------------------------------------------------------------
(* Properties.                                                             *)

\* What follows the replies: RepliesFirst is that no reply does.
Replies(d) == Cardinality({i \in DOMAIN out[d] : out[d][i] <= 0})
Payload(d) == SubSeq(out[d], Replies(d) + 1, Len(out[d]))

\* Two ends lose what they sent ahead of the relay: a SOCKS5 client, and a
\* target behind an HTTP node (dialer.go:521-532).
MayLose(d) ==
  /\ Source(d) \in ahead
  /\ IF d = "up" THEN kind = "socks5" ELSE node = "http"

\* So what an end gets starts with the first byte, or after what is lost.
Starts(d) == IF MayLose(d) THEN First(d)..sent[d] ELSE {First(d)}

\* Each end gets what the other has sent from its first byte on, in order and
\* with nothing missing, in spite of the two ways to read the client and of
\* reads that end anywhere (inbound.go:237, 269-278); where the first bytes may
\* be lost, nothing is missing from there on.
StreamsInOrder ==
  \A d \in Directions :
    LET got == Payload(d)
    IN  \E from \in Starts(d) : got = Items(from, from + Len(got))

\* The client has its replies before any data, an error is the last it gets,
\* and nothing goes to the target of a client that has not been told success.
RepliesFirst ==
  /\ \A i, j \in DOMAIN out["down"] : (i < j /\ out["down"][j] <= 0) => out["down"][i] < 0
  /\ \A i \in DOMAIN out["down"] : out["down"][i] = Refused => i = Len(out["down"])
  /\ out["up"] # << >> => \E i \in DOMAIN out["down"] : out["down"][i] = Established

\* What either end sees of a conversation, whatever the other does meanwhile.
ConversationInOrder == StreamsInOrder /\ RepliesFirst

\* Bytes are counted once they are written, all of them unless the write failed
\* or is about to be counted (inbound.go:336-343, 356-363).
CountsWritten ==
  kind # "plain" =>
    \A d \in Directions :
      LET written == Len(Payload(d))
      IN  /\ count[d] <= written /\ written <= count[d] + Len(held[d])
          /\ at[d] = "read" => count[d] = written

\* A handler ends once its client has left, if the target takes what is sent to
\* it: unless it waits for the answer to a plain request, or for an HTTP node,
\* neither of which has a deadline.
EndsOnceClientLeaves ==
  <>[](/\ peer["client"] = "gone"
       /\ peer["remote"] = "gone" \/ "remote" \in reads
       /\ kind # "plain"
       /\ node = "http" => stage # "dial")
    => <>(stage = "over")

\* And once the target has left, if the client takes what is sent to it.
EndsOnceTargetLeaves ==
  <>[](peer["remote"] = "gone" /\ (peer["client"] = "gone" \/ "client" \in reads))
    => <>(stage = "over")

\* While both ends are there and read, nothing stays in the handler.
AllIsRelayed ==
  <>[](stage = "relay" /\ kind # "plain" /\ reads = DOMAIN peer
         /\ \A e \in DOMAIN peer : peer[e] = "open")
    => <>[](\A d \in Directions : used[d] = sent[d] /\ held[d] = << >>)

\* So a handler relays as long as it has both ends, and outlives neither, but for
\* the waits without a deadline (inbound.go:297, 320-366, dialer.go:522).
HandlerProgress == AllIsRelayed /\ EndsOnceClientLeaves /\ EndsOnceTargetLeaves
=============================================================================
