------------------------------ MODULE RtpProofs ------------------------------
(***************************************************************************)
(* Theorems about the protocol of Rtp, for any messages, any size of a     *)
(* packet and any number of lost datagrams.                                *)
(*                                                                         *)
(* InStep says whose turn it is and what may be on its way then, TypeInv   *)
(* what the state is made of, and Transfer what has been sent and what has *)
(* arrived in each turn.                                                   *)
(***************************************************************************)
EXTENDS RtpProperties, SequenceTheorems, WellFoundedInduction, TLAPS

\* A sequence, of whatever its elements are.
IsSeq(s) == s \in Seq({s[k] : k \in DOMAIN s})

\* What a channel holds.
Empty(channel) == channel = <<>>
One(channel) == IsSeq(channel) /\ Len(channel) = 1
Two(channel) == IsSeq(channel) /\ Len(channel) = 2

IsData(p) == p.type \in {"DATA", "LAST_DATA"}

\* The packet at hand is the last one, if it says so.
AtLast == ~ (clientPkt < PacketCount(Len(Messages[clientMsg])))
AtLastReply == ~ (serverPkt < PacketCount(Len(reply)))

IsClientPacket(p) == IsData(p) /\ (p.type = "LAST_DATA" => AtLast)
IsServerPacket(p) == IsData(p) /\ (p.type = "LAST_DATA" => AtLastReply)

\* The client sends packets, and the server answers each.
ClientsTurn ==
  /\ serverPc = "receive"
  /\ \/ clientPc = "send" /\ Empty(toServer) /\ Empty(toClient)
     \/ /\ clientPc = "awaitAck"
        /\ One(toServer) /\ IsClientPacket(toServer[1]) /\ Empty(toClient)
     \/ clientPc = "awaitAck" /\ Empty(toServer) /\ One(toClient)

\* The server has accepted the last packet and goes on to its reply, while
\* its answer is on the way.
TurnToServer ==
  /\ clientPc = "awaitAck" /\ AtLast /\ Empty(toServer)
  /\ \/ serverPc = "reply" /\ One(toClient) /\ toClient[1].type = "ACK"
     \/ /\ serverPc = "awaitAck" /\ Two(toClient)
        /\ toClient[1].type = "ACK" /\ IsServerPacket(toClient[2])

\* The server sends packets, and the client answers each.
ServersTurn ==
  /\ clientPc = "receive"
  /\ \/ serverPc = "reply" /\ Empty(toServer) /\ Empty(toClient)
     \/ /\ serverPc = "awaitAck"
        /\ Empty(toServer) /\ One(toClient) /\ IsServerPacket(toClient[1])
     \/ serverPc = "awaitAck" /\ One(toServer) /\ Empty(toClient)

\* The client has accepted the last packet and goes on to its next message.
TurnToClient ==
  /\ serverPc = "awaitAck" /\ AtLastReply /\ Empty(toClient)
  /\ \/ clientPc \in {"send", "done"} /\ One(toServer) /\ toServer[1].type = "ACK"
     \/ /\ clientPc = "awaitAck" /\ Two(toServer)
        /\ toServer[1].type = "ACK" /\ IsClientPacket(toServer[2])

\* A datagram was lost, or the client is done: no more than one datagram is on
\* its way or about to be sent, and none where a side waits for a packet.
OutOfStep ==
  \/ /\ Empty(toServer) /\ Empty(toClient)
     /\ clientPc # "send" /\ serverPc # "reply"
  \/ /\ Empty(toServer) /\ Empty(toClient)
     /\ \/ clientPc = "send" /\ serverPc \in {"awaitAck", "exited"}
        \/ clientPc \in {"awaitAck", "done"} /\ serverPc = "reply"
  \/ /\ (One(toServer) /\ Empty(toClient)) \/ (Empty(toServer) /\ One(toClient))
     /\ clientPc \in {"awaitAck", "done"} /\ serverPc \in {"awaitAck", "exited"}

\* A packet, with as many characters as it may have.
PacketSet == {p \in [type : PacketTypes, checksum : Nat, payload : Seq(Chars)] :
                Len(p.payload) <= MaxPayload}

\* TypeOK, and what it rests on: the message and the packet at hand exist.
ChannelsType == /\ toServer \in Seq(PacketSet) /\ toClient \in Seq(PacketSet)
                /\ losses \in 0 .. MaxLosses

ClientType ==
  /\ clientPc \in {"send", "awaitAck", "receive", "done"}
  /\ clientMsg \in 1 .. Len(Messages) + 1
  /\ clientPc # "done" => clientMsg \in 1 .. Len(Messages)
  /\ clientPkt \in Nat \ {0}
  /\ clientPc \in {"send", "awaitAck"} => clientPkt \in 1 .. Packets(clientMsg)
  /\ clientPc \in {"receive", "done"} => clientPkt = 1
  /\ buffer \in Seq(Chars) /\ Len(buffer) <= capacity
  /\ capacity = MaxPayload \/ capacity < 2 * Len(buffer)
  /\ \E j \in 0 .. Len(buffer) : capacity = Room[j]
  /\ printed \in Seq(Seq(Chars)) /\ Len(printed) = clientMsg - 1

ServerType ==
  /\ serverPc \in {"receive", "reply", "awaitAck", "exited"}
  /\ text \in Seq(Chars) /\ reply \in Seq(Chars)
  /\ serverPkt \in Nat \ {0}
  /\ serverPc \in {"reply", "awaitAck"} => serverPkt \in 1 .. PacketCount(Len(reply))
  /\ serverPc = "receive" => serverPkt = 1

TypeInv == ChannelsType /\ ClientType /\ ServerType

Sent == ClientPacket(Messages[clientMsg], clientPkt)

\* The client's turn: the packet at hand is not in the server's message, or it
\* is and the server's answer says so.
ClientsText ==
  ClientsTurn =>
    \/ /\ text = Pieces[clientMsg][clientPkt - 1]
       /\ One(toServer) => toServer[1] = Sent
       /\ One(toClient) => toClient[1].type = "NACK"
    \/ /\ text = Pieces[clientMsg][clientPkt] /\ ~ AtLast
       /\ Empty(toServer) /\ One(toClient) /\ toClient[1].type = "ACK"

\* The turn passes to the server, with the reply to the client's message.
ServersReply ==
  TurnToServer =>
    /\ reply = Reply[clientMsg] /\ serverPkt = 1
    /\ Two(toClient) => /\ toClient[2].type = TypeOf(reply, 1)
                        /\ toClient[2].payload = Chunk(reply, 1)

\* The first n packets of the server's reply.
Prefix(chars, n) == SubSeq(chars, 1, Min({n * MaxPayload, Len(chars)}))

\* The server's turn: the client has the packets before the one at hand, or that
\* one too and its answer says so.
ServersBuffer ==
  ServersTurn =>
    /\ reply = Reply[clientMsg]
    /\ \/ /\ buffer = Prefix(reply, serverPkt - 1)
          /\ One(toClient) => /\ toClient[1].type = TypeOf(reply, serverPkt)
                              /\ toClient[1].payload = Chunk(reply, serverPkt)
          /\ One(toServer) => toServer[1].type = "NACK"
       \/ /\ buffer = Prefix(reply, serverPkt) /\ ~ AtLastReply
          /\ One(toServer) /\ toServer[1].type = "ACK"

\* The turn passes to the client, which begins with the first packet of its next
\* message; that it has done so is known even if its packet has been lost.
ClientsPacket ==
  /\ TurnToClient =>
       /\ clientPc # "done" => clientPkt = 1
       /\ Two(toServer) => toServer[2] = Sent
  /\ serverPc = "awaitAck" /\ clientPc = "awaitAck" /\ One(toServer)
       /\ toServer[1].type = "ACK" => clientPkt = 1

\* A packet or its answer has been lost, and both sides wait.
LostText ==
  /\ serverPc = "receive" /\ clientPc = "awaitAck"
  /\ Empty(toServer) /\ Empty(toClient)
  => text \in {Pieces[clientMsg][clientPkt - 1], Pieces[clientMsg][clientPkt]}

Transfer == /\ ClientsText /\ ServersReply /\ ServersBuffer
            /\ ClientsPacket /\ LostText

\* Both sides are never about to send, except where TurnToServer and
\* TurnToClient say so.
InStep ==
  /\ clientPkt \in Nat /\ serverPkt \in Nat
  /\ ClientsTurn \/ TurnToServer \/ ServersTurn \/ TurnToClient \/ OutOfStep

-----------------------------------------------------------------------------
(* Numbers, and what is computed from one to the next.                     *)

\* A set of numbers that is not empty has a least one.
LEMMA LeastOf ==
  ASSUME NEW S \in SUBSET Nat, S # {}
  PROVE  Min(S) \in S /\ \A y \in S : Min(S) <= y
<1>1. \E x \in S : \A y \in S : ~ (<<y, x>> \in OpToRel(<, Nat))
  BY NatLessThanWellFounded, WFMin, Zenon
<1>2. \A x, y \in Nat : y < x => <<y, x>> \in OpToRel(<, Nat)
  <2> TAKE x, y \in Nat
  <2> HAVE y < x
  <2>1. <<y, x>> \in Nat \X Nat /\ <<y, x>>[1] < <<y, x>>[2]
    OBVIOUS
  <2>2. OpToRel(<, Nat) = {ss \in Nat \X Nat : ss[1] < ss[2]}
    BY Zenon DEF OpToRel
  <2> QED BY <2>1, <2>2
<1>3. \E x \in S : \A y \in S : x <= y
  <2>1. \A x \in S : x \in Nat
    OBVIOUS
  <2>2. \E x \in S : \A y \in S : ~ (y < x)
    BY <1>1, <1>2, <2>1, Zenon
  <2> QED BY <2>1, <2>2
<1> QED BY <1>3 DEF Min

\* A set of numbers below a bound has a greatest one.
LEMMA GreatestOf ==
  ASSUME NEW N \in Nat, NEW S \in SUBSET (0 .. N), S # {}
  PROVE  Max(S) \in S /\ \A y \in S : y <= Max(S)
<1> DEFINE bounds == {n \in Nat : \A y \in S : y <= n}
           m == Min(bounds)
<1>1. bounds \in SUBSET Nat /\ N \in bounds
  OBVIOUS
<1>2. m \in bounds /\ \A n \in bounds : m <= n
  BY <1>1, LeastOf
<1>3. m \in Nat /\ \A y \in S : y <= m /\ y \in Nat
  BY <1>2
<1>4. m \in S
  <2> SUFFICES ASSUME m \notin S PROVE FALSE
    OBVIOUS
  <2>1. \A y \in S : y <= m - 1
    BY <1>3
  <2>2. m - 1 \in Nat
    <3>1. PICK y \in S : TRUE
      OBVIOUS
    <3>2. y \in Nat /\ y <= m - 1
      BY <1>3, <2>1
    <3> QED BY <1>3, <3>2
  <2>3. m - 1 \in bounds
    BY <2>1, <2>2
  <2> HIDE DEF m, bounds
  <2> QED BY <1>2, <1>3, <2>3
<1> HIDE DEF m, bounds
<1>5. \E x \in S : \A y \in S : x >= y
  BY <1>3, <1>4
<1>6. Max(S) \in S /\ \A y \in S : Max(S) >= y
  BY <1>5 DEF Max
<1> QED BY <1>6

\* Induction, over a set.
LEMMA Induction ==
  ASSUME NEW S \in SUBSET Nat, 0 \in S, \A n \in S : n + 1 \in S
  PROVE  S = Nat
<1> SUFFICES ASSUME Nat \ S # {} PROVE FALSE
  OBVIOUS
<1> DEFINE x == Min(Nat \ S)
<1>1. x \in Nat \ S /\ \A y \in Nat \ S : x <= y
  BY LeastOf
<1> HIDE DEF x
<1>2. x - 1 \in Nat /\ (x - 1) + 1 = x
  BY <1>1
<1>3. x - 1 \in S
  BY <1>1, <1>2
<1> QED BY <1>1, <1>2, <1>3

\* f begins with base, and each step makes the next value of the last one.
Computes(f, base, step) ==
  f[0] = base /\ \A n \in Nat : f[n + 1] = step[n][f[n]]

\* The same, for as many steps as there are.
ComputesTo(N, f, base, step) ==
  f[0] = base /\ \A n \in 1 .. N : f[n] = step[n][f[n - 1]]

\* What is defined from one number to the next exists.
LEMMA Recursion ==
  ASSUME NEW V, NEW base \in V, NEW step \in [Nat -> [V -> V]]
  PROVE  \E f \in [Nat -> V] : Computes(f, base, step)
<1> DEFINE Begins(g, n) == /\ g \in [0 .. n -> V] /\ g[0] = base
                           /\ \A k \in 0 .. n - 1 : g[k + 1] = step[k][g[k]]
           S == {n \in Nat : \E g \in [0 .. n -> V] : Begins(g, n)}
<1>1. 0 \in S
  <2>1. Begins([k \in 0 .. 0 |-> base], 0)
    OBVIOUS
  <2> QED BY <2>1
<1>2. ASSUME NEW n \in S
      PROVE  n + 1 \in S
  <2>1. n \in Nat
    OBVIOUS
  <2>2. PICK g \in [0 .. n -> V] : Begins(g, n)
    OBVIOUS
  <2> DEFINE h == [k \in 0 .. n + 1 |-> IF k = n + 1 THEN step[n][g[n]] ELSE g[k]]
  <2>3. g[n] \in V /\ step[n] \in [V -> V] /\ step[n][g[n]] \in V
    BY <2>1, <2>2
  <2>4. h \in [0 .. n + 1 -> V] /\ h[0] = base
    BY <2>1, <2>2, <2>3
  <2>5. ASSUME NEW k \in 0 .. (n + 1) - 1
        PROVE  h[k + 1] = step[k][h[k]]
    <3>1. k \in 0 .. n /\ k # n + 1 /\ k + 1 \in 0 .. n + 1
      BY <2>1
    <3>2. CASE k = n
      BY <2>1, <3>1, <3>2
    <3>3. CASE k # n
      <4>1. k \in 0 .. n - 1 /\ k + 1 # n + 1 /\ g[k + 1] = step[k][g[k]]
        BY <2>1, <2>2, <3>1, <3>3
      <4> QED BY <3>1, <4>1
    <3> QED BY <3>2, <3>3
  <2> HIDE DEF h
  <2>6. Begins(h, n + 1)
    BY <2>4, <2>5
  <2> HIDE DEF Begins
  <2> QED BY <2>1, <2>4, <2>6
<1>3. S = Nat
  <2> HIDE DEF S
  <2>1. S \in SUBSET Nat
    BY DEF S
  <2> QED BY <1>1, <1>2, <2>1, Induction
<1>4. ASSUME NEW n \in Nat, NEW m \in Nat, n <= m, NEW g, NEW h, Begins(g, n), Begins(h, m)
      PROVE  g[n] = h[n]
  <2> DEFINE T == {k \in Nat : k <= n => g[k] = h[k]}
  <2>1. 0 \in T
    BY <1>4
  <2>2. ASSUME NEW k \in T
        PROVE  k + 1 \in T
    <3>1. k \in Nat
      OBVIOUS
    <3>2. CASE k + 1 <= n
      <4>1. k \in 0 .. n - 1 /\ k \in 0 .. m - 1 /\ k <= n
        BY <1>4, <3>1, <3>2
      <4>2. g[k + 1] = step[k][g[k]] /\ h[k + 1] = step[k][h[k]]
        BY <1>4, <4>1
      <4> QED BY <3>1, <4>1, <4>2
    <3>3. CASE ~ (k + 1 <= n)
      BY <3>1, <3>3
    <3> QED BY <3>2, <3>3
  <2>3. T = Nat
    <3> HIDE DEF T
    <3>1. T \in SUBSET Nat
      BY DEF T
    <3> QED BY <2>1, <2>2, <3>1, Induction
  <2>4. n \in T
    BY <2>3
  <2> QED BY <2>4
<1> DEFINE G(n) == CHOOSE g \in [0 .. n -> V] : Begins(g, n)
           f == [n \in Nat |-> G(n)[n]]
<1>5. ASSUME NEW n \in Nat
      PROVE  G(n) \in [0 .. n -> V] /\ Begins(G(n), n)
  <2>1. \E g \in [0 .. n -> V] : Begins(g, n)
    <3>1. n \in S
      BY <1>3
    <3> QED BY <3>1
  <2> HIDE DEF Begins
  <2> QED BY <2>1, Zenon
<1> HIDE DEF G
<1>6. f \in [Nat -> V]
  <2>1. ASSUME NEW n \in Nat
        PROVE  G(n)[n] \in V
    <3>1. G(n) \in [0 .. n -> V] /\ n \in 0 .. n
      BY <1>5
    <3> QED BY <3>1
  <2> QED BY <2>1
<1>7. f[0] = base
  <2>1. Begins(G(0), 0)
    BY <1>5
  <2> QED BY <2>1
<1>8. ASSUME NEW n \in Nat
      PROVE  f[n + 1] = step[n][f[n]]
  <2>1. n + 1 \in Nat /\ n <= n + 1
    OBVIOUS
  <2>2. Begins(G(n), n) /\ Begins(G(n + 1), n + 1)
    BY <1>5, <2>1
  <2>3. n \in 0 .. (n + 1) - 1
    OBVIOUS
  <2>4. G(n + 1)[n + 1] = step[n][G(n + 1)[n]]
    BY <2>2, <2>3
  <2>5. G(n)[n] = G(n + 1)[n]
    <3> HIDE DEF Begins
    <3> QED BY <1>4, <2>1, <2>2
  <2> QED BY <2>1, <2>4, <2>5
<1> HIDE DEF f
<1>9. Computes(f, base, step)
  BY <1>7, <1>8 DEF Computes
<1> QED BY <1>6, <1>9

LEMMA FiniteRecursion ==
  ASSUME NEW N \in Nat, NEW V, NEW base \in V, NEW step \in [1 .. N -> [V -> V]]
  PROVE  \E f \in [0 .. N -> V] : ComputesTo(N, f, base, step)
<1> DEFINE longer == [n \in Nat |-> IF n + 1 \in 1 .. N THEN step[n + 1]
                                    ELSE [v \in V |-> v]]
<1>1. longer \in [Nat -> [V -> V]]
  OBVIOUS
<1> HIDE DEF longer
<1>2. PICK f \in [Nat -> V] : Computes(f, base, longer)
  BY <1>1, Recursion
<1> DEFINE g == [n \in 0 .. N |-> f[n]]
<1>3. g \in [0 .. N -> V] /\ g[0] = base
  BY <1>2 DEF Computes
<1>4. ASSUME NEW n \in 1 .. N
      PROVE  g[n] = step[n][g[n - 1]]
  <2>1. n - 1 \in Nat /\ (n - 1) + 1 = n /\ n - 1 \in 0 .. N
    OBVIOUS
  <2>2. f[n] = longer[n - 1][f[n - 1]]
    BY <1>2, <2>1 DEF Computes
  <2>3. longer[n - 1] = step[n]
    BY <2>1 DEF longer
  <2> QED BY <2>1, <2>2, <2>3
<1> HIDE DEF g
<1>5. ComputesTo(N, g, base, step)
  BY <1>3, <1>4 DEF ComputesTo
<1> QED BY <1>3, <1>5

LEMMA Throughout ==
  ASSUME NEW N \in Nat, NEW V, NEW f, f[0] \in V,
         \A n \in 1 .. N : f[n - 1] \in V => f[n] \in V
  PROVE  \A n \in 0 .. N : f[n] \in V
<1> DEFINE T == {k \in Nat : k <= N => f[k] \in V}
<1>1. 0 \in T
  OBVIOUS
<1>2. ASSUME NEW k \in T
      PROVE  k + 1 \in T
  <2>1. k + 1 <= N => k + 1 \in 1 .. N /\ (k + 1) - 1 = k
    OBVIOUS
  <2> QED BY <2>1
<1>3. T = Nat
  <2> HIDE DEF T
  <2>1. T \in SUBSET Nat
    BY DEF T
  <2> QED BY <1>1, <1>2, <2>1, Induction
<1> QED BY <1>3

-----------------------------------------------------------------------------
(* Packets.                                                                *)

LEMMA PacketCounts ==
  ASSUME NEW length \in Nat
  PROVE  /\ PacketCount(length) \in Nat
         /\ PacketCount(length) * MaxPayload >= length
         /\ length > 0 => PacketCount(length) > 0
         /\ \A k \in 1 .. PacketCount(length) : (k - 1) * MaxPayload < length
<1> DEFINE a == length + MaxPayload - 1
           q == a \div MaxPayload
<1>1. MaxPayload \in Nat /\ MaxPayload > 0 /\ a \in Nat
  BY MaxPayloadAssumption
<1>2. q \in Nat /\ q * MaxPayload <= a /\ a < q * MaxPayload + MaxPayload
  <2> HIDE DEF a
  <2>1. q \in Nat
    BY <1>1
  <2>2. a = MaxPayload * q + (a % MaxPayload) /\ 0 <= a % MaxPayload /\ a % MaxPayload < MaxPayload
    BY <1>1, SMTT(30)
  <2>3. MaxPayload * q = q * MaxPayload /\ q * MaxPayload \in Nat
    BY <1>1, <2>1
  <2> HIDE DEF q
  <2> QED BY <1>1, <2>1, <2>2, <2>3
<1>3. PacketCount(length) = q
  BY DEF PacketCount
<1> HIDE DEF q
<1>4. q * MaxPayload \in Nat
  BY <1>1, <1>2
<1>5. q * MaxPayload >= length
  BY <1>1, <1>2, <1>4
<1>6. length > 0 => q > 0
  <2>1. q = 0 => q * MaxPayload = 0
    BY <1>1
  <2> QED BY <1>2, <1>5, <2>1
<1>7. ASSUME NEW k \in 1 .. q
      PROVE  (k - 1) * MaxPayload < length
  <2>1. k - 1 \in Nat /\ k <= q
    BY <1>2
  <2>2. k * MaxPayload <= q * MaxPayload
    BY <1>1, <1>2, <2>1, SMTT(30)
  <2>3. (k - 1) * MaxPayload = k * MaxPayload - MaxPayload /\ k * MaxPayload \in Nat
    BY <1>1, <2>1, SMTT(30)
  <2> QED BY <1>1, <1>2, <1>4, <2>2, <2>3
<1> QED BY <1>2, <1>3, <1>5, <1>6, <1>7

LEMMA SmallerOf ==
  ASSUME NEW a \in Nat, NEW b \in Nat
  PROVE  Min({a, b}) = IF a <= b THEN a ELSE b
BY DEF Min

\* The first n packets, the next one and all of them.
LEMMA Chunks ==
  ASSUME NEW chars \in Seq(Chars)
  PROVE  /\ \A n \in Nat : Prefix(chars, n) \in Seq(Chars)
         /\ Prefix(chars, 0) = <<>>
         /\ Prefix(chars, PacketCount(Len(chars))) = chars
         /\ \A k \in 1 .. PacketCount(Len(chars)) :
              /\ Chunk(chars, k) \in Seq(Chars)
              /\ Len(Chunk(chars, k)) \in 1 .. MaxPayload
              /\ Prefix(chars, k - 1) \o Chunk(chars, k) = Prefix(chars, k)
              /\ k = PacketCount(Len(chars)) =>
                   Len(chars) = (k - 1) * MaxPayload + Len(Chunk(chars, k))
<1> DEFINE L == Len(chars)
           to(n) == Min({n * MaxPayload, L})
<1>1. L \in Nat /\ MaxPayload \in Nat /\ MaxPayload > 0
  BY LenProperties, MaxPayloadAssumption
<1>2. \A n \in Nat : n * MaxPayload \in Nat
  BY <1>1
<1>3. \A n \in Nat : to(n) = IF n * MaxPayload <= L THEN n * MaxPayload ELSE L
  BY <1>1, <1>2, SmallerOf
<1>4. \A n \in Nat : Prefix(chars, n) = SubSeq(chars, 1, to(n))
  BY DEF Prefix
<1> HIDE DEF to
<1>5. ASSUME NEW n \in Nat
      PROVE  to(n) \in 0 .. L
  <2>1. n * MaxPayload \in Nat /\ to(n) = IF n * MaxPayload <= L THEN n * MaxPayload ELSE L
    BY <1>2, <1>3
  <2> HIDE DEF L
  <2> QED BY <1>1, <2>1
<1>6. \A i \in 1 .. L : chars[i] \in Chars
  <2>1. chars \in [1 .. L -> Chars]
    BY LenProperties
  <2> HIDE DEF L
  <2> QED BY <2>1
<1>7. ASSUME NEW n \in Nat
      PROVE  Prefix(chars, n) \in Seq(Chars)
  <2>1. \A i \in 1 .. to(n) : chars[i] \in Chars
    BY <1>1, <1>5, <1>6
  <2>2. to(n) \in Int /\ 1 \in Int
    BY <1>1, <1>5
  <2> HIDE DEF L
  <2>3. SubSeq(chars, 1, to(n)) \in Seq(Chars)
    BY <2>1, <2>2, SubSeqProperties
  <2> QED BY <1>4, <2>3
<1>8. Prefix(chars, 0) = <<>>
  <2>1. to(0) = 0
    BY <1>1, <1>3
  <2>2. SubSeq(chars, 1, 0) = <<>>
    BY SubSeqEmpty
  <2> QED BY <1>4, <2>1, <2>2
<1>9. Prefix(chars, PacketCount(L)) = chars
  <2>1. PacketCount(L) \in Nat /\ PacketCount(L) * MaxPayload >= L
    BY <1>1, PacketCounts
  <2>2. to(PacketCount(L)) = L
    <3> HIDE DEF L
    <3> DEFINE n == PacketCount(L)
    <3>1. n \in Nat /\ n * MaxPayload >= L /\ n * MaxPayload \in Nat
      BY <1>1, <2>1
    <3>2. to(n) = IF n * MaxPayload <= L THEN n * MaxPayload ELSE L
      BY <1>3, <3>1
    <3> HIDE DEF n
    <3>3. to(n) = L
      BY <1>1, <3>1, <3>2
    <3> QED BY <3>3 DEF n
  <2>3. SubSeq(chars, 1, L) = chars
    BY SubSeqFull
  <2> QED BY <1>4, <2>1, <2>2, <2>3
<1>10. ASSUME NEW k \in 1 .. PacketCount(L)
       PROVE  /\ Chunk(chars, k) \in Seq(Chars)
              /\ Len(Chunk(chars, k)) \in 1 .. MaxPayload
              /\ Prefix(chars, k - 1) \o Chunk(chars, k) = Prefix(chars, k)
              /\ k = PacketCount(L) => L = (k - 1) * MaxPayload + Len(Chunk(chars, k))
  <2>1. /\ PacketCount(L) \in Nat /\ k \in Nat /\ k - 1 \in Nat
        /\ (k - 1) * MaxPayload < L
        /\ k = PacketCount(L) => k * MaxPayload >= L
    <3> HIDE DEF L
    <3> DEFINE count == PacketCount(L)
    <3>1. count \in Nat /\ count * MaxPayload >= L /\ (k - 1) * MaxPayload < L
      BY <1>1, PacketCounts
    <3> HIDE DEF count
    <3>2. k \in 1 .. count
      BY DEF count
    <3>3. k \in Nat /\ k - 1 \in Nat /\ (k = count => k * MaxPayload >= L)
      BY <3>1, <3>2
    <3> QED BY <3>1, <3>3 DEF count
  <2>2. (k - 1) * MaxPayload \in Nat /\ k * MaxPayload = (k - 1) * MaxPayload + MaxPayload
    BY <1>1, <2>1, SMTT(30)
  <2>3. Chunk(chars, k) = SubSeq(chars, (k - 1) * MaxPayload + 1, to(k))
    BY DEF Chunk, to
  <2>4. to(k - 1) = (k - 1) * MaxPayload
    BY <1>1, <1>3, <2>1, <2>2
  <2> DEFINE from == (k - 1) * MaxPayload
  <2>5. from \in Nat /\ from < L /\ k * MaxPayload = from + MaxPayload
    BY <2>1, <2>2
  <2> HIDE DEF from, L
  <2>6. to(k) = IF from + MaxPayload <= L THEN from + MaxPayload ELSE L
    BY <1>3, <2>1, <2>5
  <2>7. to(k) \in from + 1 .. L /\ to(k) - from \in 1 .. MaxPayload
    BY <1>1, <2>5, <2>6
  <2>8. Chunk(chars, k) = SubSeq(chars, from + 1, to(k))
    BY <2>3 DEF from
  <2>9. \A i \in from + 1 .. to(k) : chars[i] \in Chars
    BY <1>1, <1>6, <2>5, <2>7
  <2>10. from + 1 \in Int /\ to(k) \in Int /\ from + 1 <= to(k)
    BY <1>1, <2>5, <2>7
  <2>11. SubSeq(chars, from + 1, to(k)) \in Seq(Chars)
    BY <2>9, <2>10, SubSeqProperties
  <2>12. Len(SubSeq(chars, from + 1, to(k))) = to(k) - (from + 1) + 1
    BY <2>9, <2>10, SubSeqProperties
  <2>13. SubSeq(chars, 1, from) \o SubSeq(chars, from + 1, to(k)) = SubSeq(chars, 1, to(k))
    <3>1. 1 \in 1 .. Len(chars) + 1 /\ from \in 1 - 1 .. Len(chars) /\ to(k) \in from .. Len(chars)
      BY <1>1, <2>5, <2>7 DEF L
    <3> QED BY <3>1, ConcatAdjacentSubSeq
  <2>14. to(k - 1) = from
    BY <2>4 DEF from
  <2>15. to(k) - (from + 1) + 1 \in 1 .. MaxPayload
    BY <1>1, <2>5, <2>7
  <2>16. k = PacketCount(L) => L = from + Len(Chunk(chars, k))
    <3>1. k = PacketCount(L) => to(k) = L
      BY <1>1, <2>1, <2>5, <2>6
    <3> QED BY <1>1, <2>5, <2>8, <2>12, <3>1
  <2> QED BY <1>4, <2>1, <2>8, <2>11, <2>12, <2>13, <2>14, <2>15, <2>16 DEF from
<1> QED BY <1>7, <1>8, <1>9, <1>10

LEMMA ChecksumType ==
  ASSUME NEW payload \in Seq(Chars)
  PROVE  Checksum(payload) \in Nat
<1> DEFINE N == Len(payload)
           IsTally(f) == f = [n \in 0 .. N |-> IF n = 0 THEN 0 ELSE f[n - 1] + payload[n]]
           tally == CHOOSE f : IsTally(f)
           step == [n \in 1 .. N |-> [t \in Nat |-> t + payload[n]]]
<1>1. N \in Nat /\ \A n \in 1 .. N : payload[n] \in Nat
  <2>1. N \in Nat /\ payload \in [1 .. N -> Chars]
    BY LenProperties
  <2>2. Chars \subseteq Nat
    BY DEF Chars
  <2>3. ASSUME NEW n \in 1 .. N
        PROVE  payload[n] \in Chars
    <3> HIDE DEF N
    <3> QED BY <2>1
  <2> QED BY <2>1, <2>2, <2>3
<1>2. IsTally(tally)
  <2>1. step \in [1 .. N -> [Nat -> Nat]]
    BY <1>1
  <2>2. PICK f \in [0 .. N -> Nat] : ComputesTo(N, f, 0, step)
    <3> HIDE DEF step, N
    <3>1. 0 \in Nat
      OBVIOUS
    <3> QED BY <1>1, <2>1, <3>1, FiniteRecursion
  <2>3. ASSUME NEW n \in 0 .. N
        PROVE  f[n] = IF n = 0 THEN 0 ELSE f[n - 1] + payload[n]
    <3>1. n # 0 => n \in 1 .. N /\ n - 1 \in 0 .. N
      BY <1>1
    <3> QED BY <2>2, <3>1 DEF ComputesTo
  <2>4. IsTally(f)
    <3>1. f = [n \in 0 .. N |-> f[n]]
      BY <2>2
    <3> QED BY <2>3, <3>1
  <2> QED BY <2>4, Zenon
<1> HIDE DEF tally
<1>3. ASSUME NEW n \in 1 .. N, tally[n - 1] \in Nat
      PROVE  tally[n] \in Nat
  <2>1. n \in 0 .. N /\ n # 0
    BY <1>1
  <2>2. tally[n] = tally[n - 1] + payload[n]
    BY <1>2, <2>1
  <2> QED BY <1>1, <1>3, <2>2
<1>4. tally[0] \in Nat /\ N \in 0 .. N
  BY <1>1, <1>2
<1>5. tally[N] \in Nat
  <2> HIDE DEF N
  <2> QED BY <1>1, <1>3, <1>4, Throughout
<1>6. Checksum(payload) = tally[N]
  BY DEF Checksum, tally
<1> QED BY <1>5, <1>6

-----------------------------------------------------------------------------
(* The server's text.                                                      *)

LEMMA PartOf ==
  ASSUME NEW s \in Seq(Chars), NEW a \in 1 .. Len(s) + 1, NEW b \in 0 .. Len(s)
  PROVE  SubSeq(s, a, b) \in Seq(Chars)
<1>1. s \in [1 .. Len(s) -> Chars] /\ Len(s) \in Nat
  BY LenProperties
<1>2. \A i \in a .. b : s[i] \in Chars
  BY <1>1
<1>3. a \in Int /\ b \in Int
  BY <1>1
<1> QED BY <1>2, <1>3, SubSeqProperties

LEMMA StripType ==
  ASSUME NEW s \in Seq(Chars), NEW chars
  PROVE  Strip(s, chars) \in Seq(Chars)
<1> DEFINE kept == {i \in DOMAIN s : s[i] \notin chars}
<1>1. Len(s) \in Nat /\ DOMAIN s = 1 .. Len(s) /\ kept \subseteq 1 .. Len(s)
  BY LenProperties
<1>2. Strip(s, chars) = IF kept = {} THEN <<>> ELSE SubSeq(s, Min(kept), Max(kept))
  BY DEF Strip
<1>3. <<>> \in Seq(Chars)
  BY EmptySeq
<1> HIDE DEF kept
<1>4. CASE kept # {}
  <2>1. kept \in SUBSET Nat /\ kept \in SUBSET (0 .. Len(s))
    BY <1>1
  <2>2. Min(kept) \in kept /\ Max(kept) \in kept
    BY <1>1, <1>4, <2>1, LeastOf, GreatestOf
  <2>3. Min(kept) \in 1 .. Len(s) /\ Max(kept) \in 1 .. Len(s)
    BY <1>1, <2>2, Zenon
  <2>4. Min(kept) \in 1 .. Len(s) + 1 /\ Max(kept) \in 0 .. Len(s)
    BY <1>1, <2>3
  <2> QED BY <1>2, <1>4, <2>4, PartOf
<1> QED BY <1>2, <1>3, <1>4

LEMMA MakePigLatinType ==
  ASSUME NEW word \in Seq(Chars)
  PROVE  MakePigLatin(word) \in Seq(Chars)
<1> DEFINE vowels == {i \in DOMAIN word : word[i] \in Vowels}
           all == vowels \cup {Len(word) + 1}
           m == Min(all)
<1>1. Len(word) \in Nat /\ DOMAIN word = 1 .. Len(word)
  BY LenProperties
<1>2. m \in 1 .. Len(word) + 1
  <2>1. all \in SUBSET Nat /\ all # {} /\ all \subseteq 1 .. Len(word) + 1
    BY <1>1
  <2> HIDE DEF all
  <2>2. m \in all
    BY <2>1, LeastOf
  <2> QED BY <2>1, <2>2
<1>3. MakePigLatin(word) = IF Len(word) < 3 \/ word = The THEN word
                           ELSE IF m = 1 THEN word \o Way
                           ELSE SubSeq(word, m, Len(word)) \o SubSeq(word, 1, m - 1) \o Ay
  BY DEF MakePigLatin
<1> HIDE DEF m
<1>4. Way \in Seq(Chars) /\ Ay \in Seq(Chars)
  BY DEF Way, Ay, Chars
<1>5. SubSeq(word, m, Len(word)) \in Seq(Chars) /\ SubSeq(word, 1, m - 1) \in Seq(Chars)
  <2>1. Len(word) \in 0 .. Len(word) /\ 1 \in 1 .. Len(word) + 1 /\ m - 1 \in 0 .. Len(word)
    BY <1>1, <1>2
  <2> QED BY <1>2, <2>1, PartOf
<1>6. word \o Way \in Seq(Chars)
  BY <1>4, ConcatProperties
<1>7. SubSeq(word, m, Len(word)) \o SubSeq(word, 1, m - 1) \o Ay \in Seq(Chars)
  BY <1>4, <1>5, ConcatProperties
<1> QED BY <1>3, <1>6, <1>7

LEMMA AddWordType ==
  ASSUME NEW s \in Seq(Chars), NEW word \in Seq(Chars)
  PROVE  AddWord(s, word) \in Seq(Chars)
<1>1. <<Space>> \in Seq(Chars)
  BY DEF Space, Chars
<1>2. s \o <<Space>> \in Seq(Chars)
  BY <1>1, ConcatProperties
<1>3. MakePigLatin(word) \in Seq(Chars)
  BY MakePigLatinType
<1>4. (s \o <<Space>>) \o MakePigLatin(word) \in Seq(Chars)
  BY <1>2, <1>3, ConcatProperties
<1> QED BY <1>4 DEF AddWord

LEMMA AddCharType ==
  ASSUME NEW latin \in [done : Seq(Chars), word : Seq(Chars)], NEW char \in Chars
  PROVE  AddChar(latin, char) \in [done : Seq(Chars), word : Seq(Chars)]
<1>1. latin.done \in Seq(Chars) /\ latin.word \in Seq(Chars)
  OBVIOUS
<1>2. CASE char = Space
  <2>1. AddWord(latin.done, latin.word) \in Seq(Chars) /\ <<>> \in Seq(Chars)
    BY <1>1, AddWordType, EmptySeq
  <2>2. AddChar(latin, char) = [done |-> AddWord(latin.done, latin.word), word |-> <<>>]
    BY <1>2 DEF AddChar
  <2> QED BY <2>1, <2>2
<1>3. CASE char # Space
  <2>1. Append(latin.word, char) \in Seq(Chars)
    BY <1>1, AppendProperties
  <2>2. AddChar(latin, char) = [latin EXCEPT !.word = Append(latin.word, char)]
    BY <1>3 DEF AddChar
  <2> QED BY <2>1, <2>2
<1> QED BY <1>2, <1>3

LEMMA PiglatinizeType ==
  ASSUME NEW message \in Seq(Chars)
  PROVE  Piglatinize(message) \in Seq(Chars) /\ Piglatinize(message) # <<>>
<1> DEFINE V == [done : Seq(Chars), word : Seq(Chars)]
           chars == Append(Strip(message, {Dot}), Space)
           N == Len(chars)
           none == [done |-> <<>>, word |-> <<>>]
           IsLatin(f) == f = [n \in 0 .. N |-> IF n = 0 THEN none
                                               ELSE AddChar(f[n - 1], chars[n])]
           latin == CHOOSE f : IsLatin(f)
           step == [n \in 1 .. N |-> [v \in V |-> AddChar(v, chars[n])]]
<1>1. chars \in Seq(Chars)
  <2>1. Strip(message, {Dot}) \in Seq(Chars) /\ Space \in Chars
    BY StripType DEF Space, Chars
  <2> QED BY <2>1, AppendProperties
<1> HIDE DEF chars
<1>2. N \in Nat /\ chars \in [1 .. N -> Chars]
  BY <1>1, LenProperties
<1> HIDE DEF N
<1>3. none \in V
  BY EmptySeq
<1> HIDE DEF none
<1>4. \A n \in 1 .. N : \A v \in V : AddChar(v, chars[n]) \in V
  BY <1>2, AddCharType
<1> HIDE DEF V
<1>5. IsLatin(latin)
  <2>1. step \in [1 .. N -> [V -> V]]
    BY <1>4
  <2>2. PICK f \in [0 .. N -> V] : ComputesTo(N, f, none, step)
    <3> HIDE DEF step
    <3> QED BY <1>2, <1>3, <2>1, FiniteRecursion
  <2>3. ASSUME NEW n \in 0 .. N
        PROVE  f[n] = IF n = 0 THEN none ELSE AddChar(f[n - 1], chars[n])
    <3>1. n # 0 => n \in 1 .. N /\ n - 1 \in 0 .. N
      BY <1>2
    <3>2. n # 0 => step[n][f[n - 1]] = AddChar(f[n - 1], chars[n])
      BY <3>1
    <3> HIDE DEF step
    <3> QED BY <2>2, <3>1, <3>2 DEF ComputesTo
  <2>4. IsLatin(f)
    <3>1. f = [n \in 0 .. N |-> f[n]]
      BY <2>2
    <3> QED BY <2>3, <3>1
  <2> QED BY <2>4, Zenon
<1> HIDE DEF latin
<1>6. ASSUME NEW n \in 1 .. N, latin[n - 1] \in V
      PROVE  latin[n] \in V
  <2>1. n \in 0 .. N /\ n # 0
    BY <1>2
  <2>2. latin[n] = AddChar(latin[n - 1], chars[n])
    BY <1>5, <2>1
  <2> QED BY <1>4, <1>6, <2>2
<1>7. latin[0] \in V /\ N \in 0 .. N
  BY <1>2, <1>3, <1>5
<1>8. latin[N] \in V
  BY <1>2, <1>6, <1>7, Throughout
<1>9. latin[N].done \in Seq(Chars)
  BY <1>8 DEF V
<1>10. Strip(latin[N].done, {Space}) \in Seq(Chars) /\ Dot \in Chars
  BY <1>9, StripType DEF Dot, Chars
<1>11. Piglatinize(message) = Append(Strip(latin[N].done, {Space}), Dot)
  BY DEF Piglatinize, latin, N, chars, none
<1> HIDE DEF latin, N
<1>12. /\ Append(Strip(latin[N].done, {Space}), Dot) \in Seq(Chars)
       /\ Append(Strip(latin[N].done, {Space}), Dot) # <<>>
  BY <1>10, AppendProperties, ZenonT(60)
<1> QED BY <1>11, <1>12

-----------------------------------------------------------------------------
(* What the client sends.                                                  *)

LEMMA MessageType ==
  ASSUME NEW m \in 1 .. Len(Messages)
  PROVE  /\ m \in DOMAIN Messages
         /\ Messages[m] \in Seq(Chars) /\ Len(Messages[m]) \in Nat \ {0}
         /\ Packets(m) \in Nat \ {0}
<1>1. Messages \in Seq(Seq(Chars) \ {<<>>})
  BY MessagesAssumption
<1>2. m \in DOMAIN Messages /\ Messages[m] \in Seq(Chars) \ {<<>>}
  BY <1>1, LenProperties, ElementOfSeq
<1>3. Len(Messages[m]) \in Nat \ {0}
  BY <1>2, EmptySeq
<1>4. Packets(m) \in Nat \ {0}
  <2>1. Len(Messages[m]) \in Nat /\ Len(Messages[m]) > 0
    BY <1>3
  <2>2. PacketCount(Len(Messages[m])) \in Nat /\ PacketCount(Len(Messages[m])) > 0
    BY <2>1, PacketCounts
  <2>3. Packets(m) = PacketCount(Len(Messages[m]))
    BY DEF Packets
  <2> QED BY <2>2, <2>3
<1> QED BY <1>2, <1>3, <1>4

LEMMA ClientPayloadType ==
  ASSUME NEW chars \in Seq(Chars), NEW k \in 1 .. PacketCount(Len(chars))
  PROVE  /\ ClientPayload(chars, k) \in Seq(Chars)
         /\ Len(ClientPayload(chars, k)) <= MaxPayload
<1> DEFINE L == Len(chars)
           rest == L % MaxPayload
           longer == Append(Chunk(chars, k), NUL)
           last == SubSeq(longer, 1, rest + 1)
<1>1. Chunk(chars, k) \in Seq(Chars) /\ Len(Chunk(chars, k)) \in 1 .. MaxPayload
  BY Chunks
<1>2. MaxPayload \in Nat /\ MaxPayload > 0 /\ L \in Nat /\ k \in Nat /\ k >= 1
  BY MaxPayloadAssumption, LenProperties, PacketCounts
<1>3. rest \in 0 .. MaxPayload - 1
  <2> HIDE DEF L
  <2> QED BY <1>2, SMTT(30)
<1>4. longer \in Seq(Chars) /\ Len(longer) = Len(Chunk(chars, k)) + 1
  <2>1. NUL \in Chars
    BY DEF NUL, Chars
  <2> QED BY <1>1, <2>1, AppendProperties
<1>5. k = PacketCount(L) => L = (k - 1) * MaxPayload + Len(Chunk(chars, k))
  BY Chunks
<1>6. ClientPayload(chars, k) = IF k = PacketCount(L) THEN last ELSE Chunk(chars, k)
  BY DEF ClientPayload, TypeOf
<1> HIDE DEF longer
<1>7. CASE k = PacketCount(L)
  <2> DEFINE q == L \div MaxPayload
             c == Len(Chunk(chars, k))
             f == (k - 1) * MaxPayload
  <2>1. c \in 1 .. MaxPayload /\ L = f + c
    BY <1>1, <1>5, <1>7
  <2> HIDE DEF L, c
  <2>2. q \in Nat /\ L = MaxPayload * q + rest
    BY <1>2, SMTT(30)
  <2>3. f \in Nat /\ MaxPayload * q \in Nat
    BY <1>2, <2>2
  <2>4. q >= k - 1
    <3> SUFFICES ASSUME q + 1 <= k - 1 PROVE FALSE
      BY <1>2, <2>2
    <3> HIDE DEF q
    <3>1. (q + 1) * MaxPayload <= (k - 1) * MaxPayload
      BY <1>2, <2>2, SMTT(30)
    <3>2. (q + 1) * MaxPayload = MaxPayload * q + MaxPayload
      BY <1>2, <2>2, SMTT(30)
    <3> QED BY <1>2, <1>3, <2>1, <2>2, <2>3, <3>1, <3>2
  <2>5. MaxPayload * q >= f
    <3> HIDE DEF q
    <3> QED BY <1>2, <2>2, <2>4, SMTT(30)
  <2>6. rest <= c
    <3> HIDE DEF q, f, rest
    <3> QED BY <1>2, <1>3, <2>1, <2>2, <2>3, <2>5
  <2>7. rest + 1 \in 0 .. Len(longer) /\ 1 \in 1 .. Len(longer) + 1 /\ rest + 1 <= MaxPayload
    <3> HIDE DEF rest
    <3> QED BY <1>2, <1>3, <1>4, <2>1, <2>6 DEF c
  <2> HIDE DEF rest
  <2>8. last \in Seq(Chars)
    BY <1>4, <2>7, PartOf
  <2>9. Len(last) = rest + 1
    <3>1. longer \in [1 .. Len(longer) -> Chars]
      BY <1>4, LenProperties
    <3>2. \A i \in 1 .. rest + 1 : longer[i] \in Chars
      BY <2>7, <3>1
    <3>3. 1 \in Int /\ rest + 1 \in Int
      BY <1>3
    <3>4. Len(last) = IF 1 <= rest + 1 THEN (rest + 1) - 1 + 1 ELSE 0
      BY <3>2, <3>3, SubSeqProperties
    <3> HIDE DEF last
    <3> QED BY <1>3, <3>4
  <2> QED BY <1>6, <1>7, <2>7, <2>8, <2>9
<1>8. CASE k # PacketCount(L)
  <2> HIDE DEF L
  <2> QED BY <1>1, <1>2, <1>6, <1>8
<1> QED BY <1>7, <1>8

LEMMA PacketType ==
  ASSUME NEW type \in PacketTypes, NEW payload \in Seq(Chars), Len(payload) <= MaxPayload
  PROVE  Packet(type, payload) \in PacketSet
<1>1. Checksum(payload) \in Nat
  BY ChecksumType
<1> QED BY <1>1 DEF Packet, PacketSet

LEMMA ResponseType ==
  ASSUME NEW ok \in BOOLEAN
  PROVE  Response(ok) \in PacketSet
<1>1. <<>> \in Seq(Chars) /\ Len(<<>>) <= MaxPayload
  BY EmptySeq, MaxPayloadAssumption
<1>2. (IF ok THEN "ACK" ELSE "NACK") \in PacketTypes
  BY DEF PacketTypes
<1> QED BY <1>1, <1>2, PacketType DEF Response

LEMMA CorruptType ==
  ASSUME NEW p \in PacketSet, NEW corrupt \in BOOLEAN
  PROVE  /\ Corrupt(p, corrupt) \in PacketSet
         /\ Corrupt(p, corrupt).type = p.type /\ Corrupt(p, corrupt).payload = p.payload
BY DEF Corrupt, PacketSet

LEMMA ClientPacketType ==
  ASSUME NEW m \in 1 .. Len(Messages), NEW k \in 1 .. Packets(m)
  PROVE  ClientPacket(Messages[m], k) \in PacketSet
<1>1. Messages[m] \in Seq(Chars)
  BY MessageType
<1>2. k \in 1 .. PacketCount(Len(Messages[m]))
  BY DEF Packets
<1>3. /\ ClientPayload(Messages[m], k) \in Seq(Chars)
      /\ Len(ClientPayload(Messages[m], k)) <= MaxPayload
  BY <1>1, <1>2, ClientPayloadType
<1>4. TypeOf(Messages[m], k) \in PacketTypes
  BY DEF TypeOf, PacketTypes
<1> QED BY <1>3, <1>4, PacketType DEF ClientPacket

LEMMA ServerPacketType ==
  ASSUME NEW chars \in Seq(Chars), NEW k \in 1 .. PacketCount(Len(chars))
  PROVE  ServerPacket(chars, k) \in PacketSet
<1>1. Chunk(chars, k) \in Seq(Chars) /\ Len(Chunk(chars, k)) \in 1 .. MaxPayload
  BY Chunks
<1>2. Len(Chunk(chars, k)) <= MaxPayload
  BY <1>1
<1>3. TypeOf(chars, k) \in PacketTypes
  BY DEF TypeOf, PacketTypes
<1> QED BY <1>1, <1>2, <1>3, PacketType DEF ServerPacket

-----------------------------------------------------------------------------
(* The room for a response, and what the server keeps of a message.        *)

LEMMA Rooms ==
  /\ Room[0] = MaxPayload
  /\ \A j \in Nat : /\ Room[j] \in Nat /\ Room[j] >= MaxPayload
                     /\ Room[j + 1] = 2 * Room[j]
<1> DEFINE IsRoom(f) == f = [j \in Nat |-> IF j = 0 THEN MaxPayload ELSE 2 * f[j - 1]]
           step == [n \in Nat |-> [v \in Nat |-> 2 * v]]
<1>1. MaxPayload \in Nat /\ MaxPayload # 0
  BY MaxPayloadAssumption
<1>2. IsRoom(Room)
  <2>1. step \in [Nat -> [Nat -> Nat]]
    OBVIOUS
  <2>2. PICK f \in [Nat -> Nat] : Computes(f, MaxPayload, step)
    <3> HIDE DEF step
    <3> QED BY <1>1, <2>1, Recursion
  <2>3. ASSUME NEW j \in Nat
        PROVE  f[j] = IF j = 0 THEN MaxPayload ELSE 2 * f[j - 1]
    <3>1. j # 0 => j - 1 \in Nat /\ (j - 1) + 1 = j
      OBVIOUS
    <3>2. j # 0 => f[(j - 1) + 1] = step[j - 1][f[j - 1]]
      BY <2>2, <3>1 DEF Computes
    <3>3. j # 0 => step[j - 1][f[j - 1]] = 2 * f[j - 1]
      BY <3>1
    <3> HIDE DEF step
    <3> QED BY <2>2, <3>1, <3>2, <3>3 DEF Computes
  <2>4. IsRoom(f)
    <3>1. f = [j \in Nat |-> f[j]]
      BY <2>2
    <3> QED BY <2>3, <3>1
  <2> HIDE DEF IsRoom
  <2>5. IsRoom(CHOOSE g : IsRoom(g))
    BY <2>4, Zenon
  <2>6. Room = CHOOSE g : IsRoom(g)
    BY DEF Room, IsRoom
  <2> QED BY <2>5, <2>6
<1>3. Room[0] = MaxPayload
  BY <1>2
<1>4. ASSUME NEW j \in Nat
      PROVE  Room[j + 1] = 2 * Room[j]
  <2>1. j + 1 \in Nat /\ j + 1 # 0 /\ (j + 1) - 1 = j
    OBVIOUS
  <2> QED BY <1>2, <2>1
<1> DEFINE T == {j \in Nat : Room[j] \in Nat /\ Room[j] >= MaxPayload}
<1>5. 0 \in T
  BY <1>1, <1>3
<1>6. ASSUME NEW j \in T
      PROVE  j + 1 \in T
  BY <1>1, <1>4
<1>7. T = Nat
  <2> HIDE DEF T
  <2>1. T \in SUBSET Nat
    BY DEF T
  <2> QED BY <1>5, <1>6, <2>1, Induction
<1> QED BY <1>3, <1>4, <1>7

LEMMA PiecesOf ==
  ASSUME NEW m \in 1 .. Len(Messages)
  PROVE  /\ Pieces[m][0] = <<>>
         /\ \A n \in 1 .. Packets(m) :
              Pieces[m][n] = Pieces[m][n - 1] \o Strip(ClientPayload(Messages[m], n), Padding)
         /\ \A n \in 0 .. Packets(m) : Pieces[m][n] \in Seq(Chars)
<1> DEFINE N == Packets(m)
           piece(n) == Strip(ClientPayload(Messages[m], n), Padding)
           IsPieces(f) == f = [n \in 0 .. N |-> IF n = 0 THEN <<>> ELSE f[n - 1] \o piece(n)]
           pieces == CHOOSE f : IsPieces(f)
           step == [n \in 1 .. N |-> [s \in Seq(Chars) |-> s \o piece(n)]]
<1>1. N \in Nat /\ m \in DOMAIN Messages
  BY MessageType
<1>2. ASSUME NEW n \in 1 .. N
      PROVE  piece(n) \in Seq(Chars)
  <2>1. Messages[m] \in Seq(Chars)
    BY MessageType
  <2>2. n \in 1 .. PacketCount(Len(Messages[m]))
    BY DEF Packets
  <2>3. ClientPayload(Messages[m], n) \in Seq(Chars)
    BY <2>1, <2>2, ClientPayloadType
  <2> QED BY <2>3, StripType
<1>3. Pieces[m] = pieces
  <2>1. Pieces = [k \in DOMAIN Messages |->
                    CHOOSE f : f = [n \in 0 .. Packets(k) |->
                       IF n = 0 THEN <<>>
                       ELSE f[n - 1] \o Strip(ClientPayload(Messages[k], n), Padding)]]
    BY DEF Pieces
  <2> QED BY <1>1, <2>1, Zenon
<1> HIDE DEF piece, N
<1>4. <<>> \in Seq(Chars)
  BY EmptySeq
<1>5. \A n \in 1 .. N : \A s \in Seq(Chars) : s \o piece(n) \in Seq(Chars)
  BY <1>2, ConcatProperties
<1>6. IsPieces(pieces)
  <2>1. step \in [1 .. N -> [Seq(Chars) -> Seq(Chars)]]
    BY <1>5
  <2>2. PICK f \in [0 .. N -> Seq(Chars)] : ComputesTo(N, f, <<>>, step)
    <3> HIDE DEF step
    <3> QED BY <1>1, <1>4, <2>1, FiniteRecursion
  <2>3. ASSUME NEW n \in 0 .. N
        PROVE  f[n] = IF n = 0 THEN <<>> ELSE f[n - 1] \o piece(n)
    <3>1. n # 0 => n \in 1 .. N /\ n - 1 \in 0 .. N
      BY <1>1
    <3>2. n # 0 => step[n][f[n - 1]] = f[n - 1] \o piece(n)
      BY <3>1
    <3> HIDE DEF step
    <3> QED BY <2>2, <3>1, <3>2 DEF ComputesTo
  <2>4. IsPieces(f)
    <3>1. f = [n \in 0 .. N |-> f[n]]
      BY <2>2
    <3> QED BY <2>3, <3>1
  <2> QED BY <2>4, Zenon
<1> HIDE DEF pieces
<1>7. ASSUME NEW n \in 1 .. N
      PROVE  pieces[n] = pieces[n - 1] \o piece(n)
  <2>1. n \in 0 .. N /\ n # 0
    BY <1>1
  <2> QED BY <1>6, <2>1
<1>8. pieces[0] = <<>>
  BY <1>1, <1>6
<1>9. ASSUME NEW n \in 1 .. N, pieces[n - 1] \in Seq(Chars)
      PROVE  pieces[n] \in Seq(Chars)
  BY <1>5, <1>7, <1>9
<1>10. pieces[0] \in Seq(Chars)
  BY <1>4, <1>8
<1>11. \A n \in 0 .. N : pieces[n] \in Seq(Chars)
  BY <1>1, <1>9, <1>10, Throughout
<1> QED BY <1>3, <1>7, <1>8, <1>11 DEF N, piece

LEMMA ReplyOf ==
  ASSUME NEW m \in 1 .. Len(Messages)
  PROVE  /\ Reply[m] = Piglatinize(Pieces[m][Packets(m)])
         /\ Reply[m] \in Seq(Chars) /\ Reply[m] # <<>>
<1>1. m \in DOMAIN Messages /\ Packets(m) \in Nat
  BY MessageType
<1>2. Packets(m) \in 0 .. Packets(m)
  BY <1>1
<1>3. Pieces[m][Packets(m)] \in Seq(Chars)
  BY <1>2, PiecesOf
<1>4. Reply[m] = Piglatinize(Pieces[m][Packets(m)])
  BY <1>1 DEF Reply
<1> QED BY <1>3, <1>4, PiglatinizeType

-----------------------------------------------------------------------------
(* Channels of at most two datagrams.                                      *)

LEMMA SeqIsSeq ==
  ASSUME NEW S, NEW s \in Seq(S)
  PROVE  IsSeq(s)
<1>1. Len(s) \in Nat /\ s \in [1 .. Len(s) -> S] /\ DOMAIN s = 1 .. Len(s)
  BY LenProperties
<1>2. s = [k \in 1 .. Len(s) |-> s[k]]
  BY <1>1
<1>3. \A k \in 1 .. Len(s) : s[k] \in {s[i] : i \in DOMAIN s}
  BY <1>1
<1> DEFINE T == {s[k] : k \in DOMAIN s}
<1>4. s \in [1 .. Len(s) -> T]
  BY <1>2, <1>3
<1> HIDE DEF T
<1>5. s \in Seq(T)
  BY <1>1, <1>4, SeqDef
<1> QED BY <1>5 DEF IsSeq, T

LEMMA EmptyIsSeq ==
  ASSUME NEW s, IsSeq(s)
  PROVE  Len(s) \in Nat /\ (Len(s) = 0 => Empty(s))
  BY LenProperties, EmptySeq DEF IsSeq, Empty

LEMMA EmptyOrOne ==
  ASSUME NEW channel
  PROVE  ~ (Empty(channel) /\ One(channel))
  BY DEF Empty, One

LEMMA Sending ==
  ASSUME NEW channel, NEW p
  PROVE  /\ Empty(channel) => One(Append(channel, p)) /\ Append(channel, p)[1] = p
         /\ One(channel) => /\ Two(Append(channel, p))
                            /\ Append(channel, p)[1] = channel[1]
                            /\ Append(channel, p)[2] = p
<1> DEFINE S == {channel[k] : k \in DOMAIN channel} \cup {p}
           longer == Append(channel, p)
<1>1. ASSUME channel \in Seq(S)
      PROVE  /\ IsSeq(longer) /\ Len(longer) = Len(channel) + 1
             /\ \A i \in 1 .. Len(channel) : longer[i] = channel[i]
             /\ longer[Len(channel) + 1] = p
  <2>1. p \in S
    OBVIOUS
  <2> HIDE DEF S
  <2>2. longer \in Seq(S)
    BY <1>1, <2>1, AppendProperties
  <2>3. IsSeq(longer)
    BY <2>2, SeqIsSeq
  <2>4. /\ Len(longer) = Len(channel) + 1
        /\ \A i \in 1 .. Len(channel) : longer[i] = channel[i]
        /\ longer[Len(channel) + 1] = p
    BY <1>1, <2>1, AppendProperties
  <2> QED BY <2>3, <2>4
<1>2. Empty(channel) => channel \in Seq(S) /\ Len(channel) = 0
  BY EmptySeq DEF Empty
<1>3. One(channel) => channel \in Seq(S) /\ Len(channel) = 1
  BY DEF One, IsSeq
<1> HIDE DEF S, longer
<1>4. Empty(channel) => One(longer) /\ longer[1] = p
  BY <1>1, <1>2 DEF One
<1>5. One(channel) => Two(longer) /\ longer[1] = channel[1] /\ longer[2] = p
  <2>1. One(channel) => /\ IsSeq(longer) /\ Len(longer) = 1 + 1
                        /\ \A i \in 1 .. 1 : longer[i] = channel[i]
                        /\ longer[1 + 1] = p
    BY <1>1, <1>3
  <2> QED BY <2>1 DEF Two
<1> QED BY <1>4, <1>5 DEF longer

LEMMA Receiving ==
  ASSUME NEW channel
  PROVE  /\ One(channel) => Head(channel) = channel[1] /\ Empty(Tail(channel))
         /\ Two(channel) => /\ Head(channel) = channel[1]
                            /\ One(Tail(channel)) /\ Tail(channel)[1] = channel[2]
<1> DEFINE S == {channel[k] : k \in DOMAIN channel}
<1>1. ASSUME One(channel) \/ Two(channel)
      PROVE  /\ Head(channel) = channel[1]
             /\ IsSeq(Tail(channel)) /\ Len(Tail(channel)) = Len(channel) - 1
             /\ \A i \in 1 .. Len(Tail(channel)) : Tail(channel)[i] = channel[i + 1]
  <2>0. channel \in Seq(S) /\ Len(channel) \in {1, 2}
    BY <1>1 DEF One, Two, IsSeq
  <2> HIDE DEF S
  <2>1. channel \in Seq(S) /\ channel # <<>>
    BY <2>0
  <2>2. Tail(channel) \in Seq(S)
    BY <2>1, HeadTailProperties
  <2>3. IsSeq(Tail(channel))
    BY <2>2, SeqIsSeq
  <2>4. /\ Len(Tail(channel)) = Len(channel) - 1
        /\ \A i \in 1 .. Len(Tail(channel)) : Tail(channel)[i] = channel[i + 1]
    BY <2>1, HeadTailProperties
  <2>5. Head(channel) = channel[1]
    BY <2>1
  <2> QED BY <2>3, <2>4, <2>5
<1> HIDE DEF S
<1>2. One(channel) => Empty(Tail(channel))
  <2>1. One(channel) => IsSeq(Tail(channel)) /\ Len(Tail(channel)) = 0
    BY <1>1 DEF One
  <2> QED BY <2>1, EmptyIsSeq
<1>3. Two(channel) => One(Tail(channel)) /\ Tail(channel)[1] = channel[2]
  BY <1>1 DEF One, Two
<1> QED BY <1>1, <1>2, <1>3

LEMMA Losing ==
  ASSUME NEW channel, NEW i \in DOMAIN channel
  PROVE  /\ ~ Empty(channel)
         /\ One(channel) => Empty(RemoveAt(channel, i))
         /\ Two(channel) => One(RemoveAt(channel, i))
<1> DEFINE S == {channel[k] : k \in DOMAIN channel}
           fewer == RemoveAt(channel, i)
<1>1. ~ Empty(channel)
  BY DEF Empty
<1>2. ASSUME One(channel) \/ Two(channel)
      PROVE  IsSeq(fewer) /\ Len(fewer) = Len(channel) - 1
  <2>1. channel \in Seq(S) /\ Len(channel) \in Nat
    BY <1>2, LenProperties DEF One, Two, IsSeq
  <2> HIDE DEF S
  <2>2. i \in 1 .. Len(channel) /\ \A k \in 1 .. Len(channel) : channel[k] \in S
    BY <2>1, LenProperties
  <2> DEFINE before == SubSeq(channel, 1, i - 1)
             behind == SubSeq(channel, i + 1, Len(channel))
  <2>3. before \in Seq(S) /\ Len(before) = i - 1
    BY <2>1, <2>2, SubSeqProperties
  <2>4. behind \in Seq(S) /\ Len(behind) = Len(channel) - i
    BY <2>1, <2>2, SubSeqProperties
  <2>5. fewer = before \o behind
    BY DEF RemoveAt
  <2> HIDE DEF before, behind, fewer
  <2>6. fewer \in Seq(S) /\ Len(fewer) = Len(before) + Len(behind)
    BY <2>3, <2>4, <2>5, ConcatProperties
  <2> QED BY <2>1, <2>2, <2>3, <2>4, <2>6, SeqIsSeq
<1> HIDE DEF S, fewer
<1>3. One(channel) => Empty(fewer)
  BY <1>2, EmptyIsSeq DEF One
<1>4. Two(channel) => One(fewer)
  BY <1>2 DEF One, Two
<1> QED BY <1>1, <1>3, <1>4 DEF fewer

-----------------------------------------------------------------------------
(* Types.                                                                  *)

LEMMA SendType ==
  ASSUME NEW channel \in Seq(PacketSet), NEW p \in PacketSet
  PROVE  Append(channel, p) \in Seq(PacketSet)
BY AppendProperties

LEMMA ReceiveType ==
  ASSUME NEW channel \in Seq(PacketSet), channel # <<>>
  PROVE  Head(channel) \in PacketSet /\ Tail(channel) \in Seq(PacketSet)
BY HeadTailProperties

LEMMA RemoveType ==
  ASSUME NEW channel \in Seq(PacketSet), NEW i \in DOMAIN channel
  PROVE  RemoveAt(channel, i) \in Seq(PacketSet)
<1>1. Len(channel) \in Nat /\ i \in 1 .. Len(channel) /\ channel \in [1 .. Len(channel) -> PacketSet]
  BY LenProperties
<1>2. /\ \A k \in 1 .. i - 1 : channel[k] \in PacketSet
      /\ \A k \in i + 1 .. Len(channel) : channel[k] \in PacketSet
  BY <1>1
<1>3. 1 \in Int /\ i - 1 \in Int /\ i + 1 \in Int /\ Len(channel) \in Int
  BY <1>1
<1>4. SubSeq(channel, 1, i - 1) \in Seq(PacketSet)
  BY <1>2, <1>3, SubSeqProperties
<1>5. SubSeq(channel, i + 1, Len(channel)) \in Seq(PacketSet)
  BY <1>2, <1>3, SubSeqProperties
<1>6. SubSeq(channel, 1, i - 1) \o SubSeq(channel, i + 1, Len(channel)) \in Seq(PacketSet)
  BY <1>4, <1>5, ConcatProperties
<1> QED BY <1>6 DEF RemoveAt

LEMMA InitType == Init => TypeInv
<1> SUFFICES ASSUME Init PROVE TypeInv
  OBVIOUS
<1>1. Len(Messages) \in Nat /\ (Messages # <<>> => Len(Messages) \in Nat \ {0})
  BY MessagesAssumption, EmptySeq, LenProperties
<1>2. /\ <<>> \in Seq(PacketSet) /\ <<>> \in Seq(Chars) /\ <<>> \in Seq(Seq(Chars))
      /\ Len(<<>>) = 0
  BY EmptySeq
<1>3. ChannelsType
  BY <1>2, MaxLossesAssumption DEF Init, ChannelsType
<1>4. ClientType
  <2>1. clientMsg \in 1 .. Len(Messages) + 1 /\ (clientPc # "done" => clientMsg \in 1 .. Len(Messages))
    BY <1>1 DEF Init
  <2>2. clientPc # "done" => clientPkt \in 1 .. Packets(clientMsg)
    <3>1. clientPc # "done" => Packets(clientMsg) \in Nat \ {0}
      BY <2>1, MessageType
    <3> QED BY <3>1 DEF Init
  <2>3. Len(buffer) <= capacity /\ \E j \in 0 .. Len(buffer) : capacity = Room[j]
    BY <1>2, Rooms, MaxPayloadAssumption DEF Init
  <2> QED BY <1>2, <2>1, <2>2, <2>3 DEF Init, ClientType
<1>5. ServerType
  BY <1>2 DEF Init, ServerType
<1> QED BY <1>3, <1>4, <1>5 DEF TypeInv

LEMMA ClientSendType ==
  ASSUME TypeInv, ClientSend
  PROVE  TypeInv'
<1>1. ClientPacket(Messages[clientMsg], clientPkt) \in PacketSet
  BY ClientPacketType DEF TypeInv, ClientType, ClientSend
<1>2. ChannelsType'
  BY <1>1, SendType DEF TypeInv, ChannelsType, ClientSend
<1>3. ClientType'
  BY DEF TypeInv, ClientType, ClientSend
<1>4. ServerType'
  BY DEF TypeInv, ServerType, ClientSend, serverVars
<1> QED BY <1>2, <1>3, <1>4 DEF TypeInv

LEMMA ClientResponseType ==
  ASSUME TypeInv, ClientResponse
  PROVE  TypeInv'
<1>1. ChannelsType'
  BY ReceiveType DEF TypeInv, ChannelsType, ClientResponse
<1>2. ClientType'
  <2>1. /\ clientPc = "awaitAck"
        /\ clientMsg' = clientMsg /\ printed' = printed
        /\ \/ clientPc' = "send" /\ clientPkt' = clientPkt /\ UNCHANGED <<buffer, capacity>>
           \/ /\ clientPkt < Packets(clientMsg) /\ UNCHANGED <<buffer, capacity>>
              /\ clientPc' = "send" /\ clientPkt' = clientPkt + 1
           \/ /\ clientPc' = "receive" /\ clientPkt' = 1
              /\ buffer' = <<>> /\ capacity' = MaxPayload
    BY DEF ClientResponse, Packets
  <2>2. clientMsg \in 1 .. Len(Messages) /\ clientPkt \in 1 .. Packets(clientMsg)
    BY <2>1 DEF TypeInv, ClientType
  <2>3. Packets(clientMsg) \in Nat \ {0}
    BY <2>2, MessageType
  <2>4. CASE clientPc' = "send"
    <3>1. UNCHANGED <<buffer, capacity>> /\ clientPkt' \in 1 .. Packets(clientMsg)
      BY <2>1, <2>2, <2>3, <2>4
    <3> QED BY <2>1, <2>2, <2>4, <3>1 DEF TypeInv, ClientType
  <2>5. CASE clientPc' = "receive"
    <3>1. <<>> \in Seq(Chars) /\ Len(<<>>) = 0
      BY EmptySeq
    <3>2. buffer' = <<>> /\ capacity' = MaxPayload /\ clientPkt' = 1
      BY <2>1, <2>5
    <3>3. \E j \in 0 .. Len(buffer') : capacity' = Room[j]
      BY <3>1, <3>2, Rooms
    <3>4. buffer' \in Seq(Chars) /\ Len(buffer') <= capacity'
      BY <3>1, <3>2, MaxPayloadAssumption
    <3> QED BY <2>1, <2>2, <2>5, <3>2, <3>3, <3>4 DEF TypeInv, ClientType
  <2> QED BY <2>1, <2>4, <2>5
<1>3. ServerType'
  BY DEF TypeInv, ServerType, ClientResponse, serverVars
<1> QED BY <1>1, <1>2, <1>3 DEF TypeInv

\* The buffer doubles once, and that is enough.
LEMMA TakeType ==
  ASSUME TypeInv, NEW p \in PacketSet, Take(p), clientPc = "receive", clientPkt' = clientPkt
  PROVE  ClientType'
<1>1. p.payload \in Seq(Chars) /\ Len(p.payload) \in Nat /\ Len(p.payload) <= MaxPayload
  <2>1. p.payload \in Seq(Chars) /\ Len(p.payload) <= MaxPayload
    BY DEF PacketSet
  <2> QED BY <2>1, LenProperties
<1>2. /\ buffer \in Seq(Chars) /\ Len(buffer) \in Nat /\ Len(buffer) <= capacity
      /\ capacity = MaxPayload \/ capacity < 2 * Len(buffer)
      /\ clientMsg \in 1 .. Len(Messages) /\ clientPkt = 1
      /\ printed \in Seq(Seq(Chars)) /\ Len(printed) = clientMsg - 1
  <2>1. clientPc # "done"
    OBVIOUS
  <2> QED BY <2>1, LenProperties DEF TypeInv, ClientType
<1>3. PICK j \in 0 .. Len(buffer) : capacity = Room[j]
  BY DEF TypeInv, ClientType
<1>4. capacity \in Nat /\ capacity >= MaxPayload
  BY <1>2, <1>3, Rooms
<1>5. buffer' \in Seq(Chars) /\ Len(buffer') = Len(buffer) + Len(p.payload)
  BY <1>1, <1>2, ConcatProperties DEF Take
<1>6. capacity' = IF Len(buffer') > capacity THEN 2 * capacity ELSE capacity
  BY DEF Take, Grown
<1>7. MaxPayload \in Nat
  BY MaxPayloadAssumption
<1>8. /\ Len(buffer') <= capacity'
      /\ capacity' = MaxPayload \/ capacity' < 2 * Len(buffer')
  BY <1>1, <1>2, <1>4, <1>5, <1>6, <1>7
<1>9. \E i \in 0 .. Len(buffer') : capacity' = Room[i]
  <2>1. CASE Len(buffer') > capacity
    <3>1. capacity' = Room[j + 1]
      BY <1>2, <1>3, <1>6, <2>1, Rooms
    <3>2. j + 1 \in 0 .. Len(buffer')
      BY <1>1, <1>2, <1>3, <1>4, <1>5, <2>1
    <3> QED BY <3>1, <3>2
  <2>2. CASE ~ (Len(buffer') > capacity)
    <3>1. j \in 0 .. Len(buffer')
      BY <1>1, <1>2, <1>3, <1>5
    <3> QED BY <1>3, <1>6, <2>2, <3>1
  <2> QED BY <2>1, <2>2
<1>10. CASE p.type = "DATA"
  <2>1. UNCHANGED <<clientPc, clientMsg, printed>>
    BY <1>10 DEF Take
  <2> QED BY <1>2, <1>5, <1>8, <1>9, <2>1 DEF TypeInv, ClientType
<1>11. CASE p.type # "DATA"
  <2>1. PICK line \in PrintedTexts(buffer', capacity') : printed' = Append(printed, line)
    BY <1>11 DEF Take
  <2>2. /\ clientMsg' = clientMsg + 1
        /\ clientPc' = IF clientMsg < Len(Messages) THEN "send" ELSE "done"
    BY <1>11 DEF Take
  <2>3. line \in Seq(Chars)
    <3>1. 127 \in Chars
      BY DEF Chars
    <3>2. Append(buffer', 127) \in Seq(Chars)
      BY <1>5, <3>1, AppendProperties
    <3> QED BY <1>5, <2>1, <3>2 DEF PrintedTexts
  <2>4. printed' \in Seq(Seq(Chars)) /\ Len(printed') = Len(printed) + 1
    BY <1>2, <2>1, <2>3, AppendProperties
  <2>5. Len(Messages) \in Nat
    BY MessagesAssumption, LenProperties
  <2>6. /\ clientMsg' \in 1 .. Len(Messages) + 1 /\ Len(printed') = clientMsg' - 1
        /\ clientPc' # "done" => clientMsg' \in 1 .. Len(Messages)
        /\ clientPc' \in {"send", "done"}
    BY <1>2, <2>2, <2>4, <2>5
  <2>7. clientPc' = "send" => clientPkt' \in 1 .. Packets(clientMsg')
    <3>1. clientPc' = "send" => Packets(clientMsg') \in Nat \ {0}
      BY <2>6, MessageType
    <3> QED BY <1>2, <3>1
  <2>8. clientPkt' = 1 /\ clientPc' \in {"send", "awaitAck", "receive", "done"}
    BY <1>2, <2>6
  <2> QED BY <1>5, <1>8, <1>9, <2>4, <2>6, <2>7, <2>8 DEF ClientType
<1> QED BY <1>10, <1>11

LEMMA ClientReceiveType ==
  ASSUME TypeInv, ClientReceive
  PROVE  TypeInv'
<1>1. /\ clientPc = "receive" /\ clientPkt' = clientPkt /\ losses' = losses
      /\ toClient' = Tail(toClient) /\ toClient # <<>>
      /\ UNCHANGED serverVars
  BY DEF ClientReceive
<1> DEFINE p == Head(toClient)
<1>2. p \in PacketSet /\ toClient' \in Seq(PacketSet) /\ toServer \in Seq(PacketSet)
  BY <1>1, ReceiveType DEF TypeInv, ChannelsType
<1>3. \/ Take(p)
      \/ Refuse
      \/ UNCHANGED <<toServer, buffer, capacity, clientPc, clientMsg, printed>>
  BY DEF ClientReceive
<1> HIDE DEF p
<1>4. ClientType'
  <2>1. CASE Take(p)
    BY <1>1, <1>2, <2>1, TakeType
  <2>2. CASE UNCHANGED <<buffer, capacity, clientPc, clientMsg, printed>>
    BY <1>1, <2>2 DEF TypeInv, ClientType
  <2> QED BY <1>3, <2>1, <2>2 DEF Refuse
<1>5. ChannelsType'
  <2>1. Response(TRUE) \in PacketSet /\ Response(FALSE) \in PacketSet
    BY ResponseType
  <2>2. toServer' \in {Append(toServer, Response(TRUE)), Append(toServer, Response(FALSE)), toServer}
    BY <1>3 DEF Take, Refuse
  <2>3. toServer' \in Seq(PacketSet)
    BY <1>2, <2>1, <2>2, SendType
  <2> QED BY <1>1, <1>2, <2>3 DEF TypeInv, ChannelsType
<1>6. ServerType'
  BY <1>1 DEF TypeInv, ServerType, serverVars
<1> QED BY <1>4, <1>5, <1>6 DEF TypeInv

LEMMA ServerReceiveType ==
  ASSUME TypeInv, NEW corrupt \in BOOLEAN, ServerReceive(corrupt)
  PROVE  TypeInv'
<1> DEFINE p == Corrupt(Head(toServer), corrupt)
           ok == p.checksum = Checksum(p.payload)
<1>1. /\ serverPc = "receive" /\ toServer # <<>> /\ toServer' = Tail(toServer)
      /\ losses' = losses /\ UNCHANGED clientVars /\ serverPkt' = serverPkt
  BY DEF ServerReceive
<1>2. p \in PacketSet /\ toServer' \in Seq(PacketSet) /\ toClient \in Seq(PacketSet)
  BY <1>1, ReceiveType, CorruptType DEF TypeInv, ChannelsType
<1>3. \/ ServerTake(p, ok)
      \/ serverPc' = "exited" /\ UNCHANGED <<text, reply, toClient>>
  BY DEF ServerReceive
<1>4. ok \in BOOLEAN
  OBVIOUS
<1> HIDE DEF p, ok
<1>5. ChannelsType'
  <2>1. Response(ok) \in PacketSet
    BY <1>4, ResponseType
  <2>2. toClient' \in {Append(toClient, Response(ok)), toClient}
    BY <1>3 DEF ServerTake
  <2>3. toClient' \in Seq(PacketSet)
    BY <1>2, <2>1, <2>2, SendType
  <2> QED BY <1>1, <1>2, <2>3 DEF TypeInv, ChannelsType
<1>6. ServerType'
  <2>1. /\ text \in Seq(Chars) /\ reply \in Seq(Chars) /\ serverPkt = 1
    BY <1>1 DEF TypeInv, ServerType
  <2>2. CASE ServerTake(p, ok)
    <3>1. text \o Kept(p, ok) \in Seq(Chars)
      <4>1. p.payload \in Seq(Chars)
        BY <1>2 DEF PacketSet
      <4>2. Strip(p.payload, Padding) \in Seq(Chars) /\ <<>> \in Seq(Chars)
        BY <4>1, StripType, EmptySeq
      <4>3. Kept(p, ok) \in Seq(Chars)
        BY <4>2 DEF Kept
      <4> QED BY <2>1, <4>3, ConcatProperties
    <3>2. /\ text' = text \o Kept(p, ok)
          /\ \/ serverPc' = "reply" /\ reply' = Piglatinize(text')
             \/ serverPc' = serverPc /\ reply' = reply
      BY <2>2 DEF ServerTake
    <3>3. text' \in Seq(Chars)
      BY <3>1, <3>2
    <3>4. CASE serverPc' = "reply" /\ reply' = Piglatinize(text')
      <4>1. reply' \in Seq(Chars) /\ reply' # <<>>
        BY <3>3, <3>4, PiglatinizeType
      <4>2. Len(reply') \in Nat /\ Len(reply') > 0
        <5>1. Len(reply') \in Nat \ {0}
          BY <4>1, EmptySeq
        <5> QED BY <5>1
      <4>3. PacketCount(Len(reply')) \in Nat /\ PacketCount(Len(reply')) > 0
        BY <4>2, PacketCounts
      <4>4. serverPkt' \in 1 .. PacketCount(Len(reply'))
        BY <1>1, <2>1, <4>3
      <4> QED BY <1>1, <2>1, <3>3, <3>4, <4>1, <4>4 DEF ServerType, PacketCount
    <3>5. CASE serverPc' = serverPc /\ reply' = reply
      BY <1>1, <2>1, <3>3, <3>5 DEF ServerType
    <3> QED BY <3>2, <3>4, <3>5
  <2>3. CASE serverPc' = "exited" /\ UNCHANGED <<text, reply, toClient>>
    BY <1>1, <2>1, <2>3 DEF ServerType
  <2> QED BY <1>3, <2>2, <2>3
<1>7. ClientType'
  BY <1>1 DEF TypeInv, ClientType, clientVars
<1> QED BY <1>5, <1>6, <1>7 DEF TypeInv

LEMMA ServerReplyType ==
  ASSUME TypeInv, NEW corrupt \in BOOLEAN, ServerReply(corrupt)
  PROVE  TypeInv'
<1>1. ServerPacket(reply, serverPkt) \in PacketSet
  BY ServerPacketType DEF TypeInv, ServerType, ServerReply
<1>2. Corrupt(ServerPacket(reply, serverPkt), corrupt) \in PacketSet
  BY <1>1, CorruptType
<1>3. ChannelsType'
  BY <1>2, SendType DEF TypeInv, ChannelsType, ServerReply
<1>4. ServerType'
  BY DEF TypeInv, ServerType, ServerReply
<1>5. ClientType'
  BY DEF TypeInv, ClientType, ServerReply, clientVars
<1> QED BY <1>3, <1>4, <1>5 DEF TypeInv

LEMMA ServerResponseType ==
  ASSUME TypeInv, ServerResponse
  PROVE  TypeInv'
<1>1. ChannelsType'
  BY ReceiveType DEF TypeInv, ChannelsType, ServerResponse
<1>2. ClientType'
  BY DEF TypeInv, ClientType, ServerResponse, clientVars
<1>3. ServerType'
  <2>1. /\ text \in Seq(Chars) /\ reply \in Seq(Chars) /\ serverPkt \in Nat \ {0}
        /\ serverPkt \in 1 .. PacketCount(Len(reply)) /\ Len(reply) \in Nat
    BY LenProperties DEF TypeInv, ServerType, ServerResponse
  <2>2. \/ /\ serverPc' \in {"exited", "reply"} /\ UNCHANGED <<text, reply, serverPkt>>
        \/ /\ serverPc' = "reply" /\ UNCHANGED <<text, reply>>
           /\ serverPkt' = serverPkt + 1 /\ serverPkt < PacketCount(Len(reply))
        \/ NextMessage
    BY DEF ServerResponse
  <2>3. CASE NextMessage
    <3>1. <<>> \in Seq(Chars)
      BY EmptySeq
    <3> QED BY <2>3, <3>1 DEF NextMessage, ServerType
  <2>4. CASE UNCHANGED <<text, reply>> /\ serverPc' \in {"exited", "reply"}
    <3>1. PacketCount(Len(reply)) \in Nat
      BY <2>1, PacketCounts
    <3>2. serverPc' # "receive"
      BY <2>4
    <3>3. serverPkt' \in 1 .. PacketCount(Len(reply')) /\ serverPkt' \in Nat \ {0}
      BY <2>1, <2>2, <2>4, <3>1, <3>2 DEF NextMessage
    <3> QED BY <2>1, <2>4, <3>2, <3>3 DEF ServerType, PacketCount
  <2> QED BY <2>2, <2>3, <2>4
<1> QED BY <1>1, <1>2, <1>3 DEF TypeInv

LEMMA LoseType ==
  ASSUME TypeInv, Lose
  PROVE  TypeInv'
<1>1. losses' \in 0 .. MaxLosses
  BY MaxLossesAssumption DEF TypeInv, ChannelsType, Lose
<1>2. toServer' \in Seq(PacketSet) /\ toClient' \in Seq(PacketSet)
  BY RemoveType DEF TypeInv, ChannelsType, Lose
<1>3. ChannelsType'
  BY <1>1, <1>2 DEF ChannelsType
<1>4. ClientType'
  BY DEF TypeInv, ClientType, Lose, clientVars
<1>5. ServerType'
  BY DEF TypeInv, ServerType, Lose, serverVars
<1> QED BY <1>3, <1>4, <1>5 DEF TypeInv

LEMMA TypeInvHolds == Spec => []TypeInv
<1>1. TypeInv /\ [Next]_vars => TypeInv'
  <2> SUFFICES ASSUME TypeInv, [Next]_vars PROVE TypeInv'
    OBVIOUS
  <2>1. CASE Client
    BY <2>1, ClientSendType, ClientResponseType, ClientReceiveType DEF Client
  <2>2. CASE Server
    BY <2>2, ServerReceiveType, ServerReplyType, ServerResponseType DEF Server
  <2>3. CASE Lose
    BY <2>3, LoseType
  <2>4. CASE UNCHANGED vars
    BY <2>4 DEF vars, clientVars, serverVars, TypeInv, ChannelsType, ClientType, ServerType
  <2> QED BY <2>1, <2>2, <2>3, <2>4 DEF Next
<1> QED BY InitType, <1>1, PTL DEF Spec

\* Packets carry characters, and no more than MAX_PAYLOAD_LENGTH of them, the
\* response has room in its buffer after the one doubling for each packet, and
\* neither side sends a packet that its message does not have
\* (rtp.c:28-44, rtp.c:181-213, prj7-server.py:44-54).
THEOREM Typed == Spec => []TypeOK
<1>1. TypeInv => TypeOK
  <2> SUFFICES ASSUME TypeInv PROVE TypeOK
    OBVIOUS
  <2>1. \A p \in PacketSet : IsPacket(p)
    BY DEF PacketSet, IsPacket
  <2>2. /\ \A i \in DOMAIN toServer : toServer[i] \in PacketSet
        /\ \A i \in DOMAIN toClient : toClient[i] \in PacketSet
    BY LenProperties DEF TypeInv, ChannelsType
  <2>3. Len(reply) \in Nat /\ PacketCount(Len(reply)) \in Nat
    BY LenProperties, PacketCounts DEF TypeInv, ServerType
  <2>4. serverPc \in {"reply", "awaitAck"} => serverPkt <= PacketCount(Len(reply))
    BY <2>3 DEF TypeInv, ServerType
  <2> QED BY <2>1, <2>2, <2>4 DEF TypeOK, TypeInv, ChannelsType, ClientType, ServerType
<1> QED BY TypeInvHolds, <1>1, PTL

-----------------------------------------------------------------------------
(* Steps.                                                                  *)

LEMMA InitInStep == Init => InStep
<1> SUFFICES ASSUME Init PROVE InStep
  OBVIOUS
<1>1. CASE Messages = <<>>
  BY <1>1 DEF Init, InStep, OutOfStep, Empty
<1>2. CASE Messages # <<>>
  BY <1>2 DEF Init, InStep, ClientsTurn, Empty
<1> QED BY <1>1, <1>2

LEMMA ClientSendInStep ==
  ASSUME InStep, ClientSend
  PROVE  InStep'
<1> DEFINE p == ClientPacket(Messages[clientMsg], clientPkt)
<1>1. /\ clientPc = "send" /\ clientPc' = "awaitAck"
      /\ toServer' = Append(toServer, p) /\ toClient' = toClient
      /\ serverPc' = serverPc
      /\ clientPkt' = clientPkt /\ clientMsg' = clientMsg
      /\ serverPkt' = serverPkt /\ reply' = reply
  BY DEF ClientSend, serverVars
<1>2. IsClientPacket(p)
  BY DEF InStep, IsClientPacket, IsData, AtLast, ClientPacket, Packet, TypeOf
<1>3. AtLast' = AtLast /\ AtLastReply' = AtLastReply /\ IsClientPacket(p)' = IsClientPacket(p)
  BY <1>1 DEF AtLast, AtLastReply, IsClientPacket
<1> HIDE DEF p
<1>4. CASE ClientsTurn
  BY <1>1, <1>2, <1>3, <1>4, Sending DEF ClientsTurn, InStep, IsClientPacket
<1>5. CASE TurnToClient
  BY <1>1, <1>2, <1>3, <1>5, Sending DEF TurnToClient, InStep, IsClientPacket
<1>6. CASE OutOfStep
  BY <1>1, <1>6, Sending, EmptyOrOne DEF OutOfStep, InStep
<1> QED BY <1>1, <1>4, <1>5, <1>6 DEF InStep, TurnToServer, ServersTurn

\* The client goes on to its next packet, or, after the last one, to the
\* reply.
LEMMA ClientResponseInStep ==
  ASSUME InStep, ClientResponse
  PROVE  InStep'
<1>1. /\ clientPc = "awaitAck" /\ toClient # <<>>
      /\ toClient' = Tail(toClient) /\ toServer' = toServer
      /\ serverPc' = serverPc /\ clientMsg' = clientMsg
      /\ serverPkt' = serverPkt /\ reply' = reply
  BY DEF ClientResponse, serverVars
<1>2. \/ clientPc' = "send" /\ clientPkt' \in {clientPkt, clientPkt + 1}
      \/ clientPc' = "receive" /\ clientPkt' = 1
  BY DEF ClientResponse
<1>3. toClient[1].type = "ACK" /\ Head(toClient) = toClient[1] /\ AtLast
        => clientPc' = "receive"
  BY DEF ClientResponse, Resends, AtLast
<1>4. clientPkt' \in Nat /\ serverPkt' \in Nat
  BY <1>1, <1>2 DEF InStep
<1>5. ~ Empty(toClient)
  BY <1>1 DEF Empty
<1>6. AtLastReply' = AtLastReply
  BY <1>1 DEF AtLastReply
<1>7. CASE ClientsTurn
  BY <1>1, <1>2, <1>4, <1>5, <1>7, Receiving DEF ClientsTurn, OutOfStep, InStep, Empty
<1>8. CASE TurnToServer
  BY <1>1, <1>2, <1>3, <1>4, <1>6, <1>8, Receiving
     DEF TurnToServer, ServersTurn, InStep, Empty, IsServerPacket
<1>9. CASE OutOfStep
  BY <1>1, <1>2, <1>4, <1>5, <1>9, Receiving DEF OutOfStep, InStep, Empty
<1> QED BY <1>1, <1>5, <1>7, <1>8, <1>9 DEF InStep, ServersTurn, TurnToClient

\* The client answers a packet, and after the last one takes its turn.
LEMMA ClientReceiveInStep ==
  ASSUME InStep, ClientReceive
  PROVE  InStep'
<1>1. /\ clientPc = "receive" /\ toClient # <<>>
      /\ toClient' = Tail(toClient)
      /\ serverPc' = serverPc /\ clientPkt' = clientPkt
      /\ serverPkt' = serverPkt /\ reply' = reply
  BY DEF ClientReceive, serverVars
<1>2. ~ Empty(toClient) /\ AtLastReply' = AtLastReply
  BY <1>1 DEF Empty, AtLastReply
<1>3. /\ serverPc = "awaitAck" /\ Empty(toServer)
      /\ One(toClient) /\ IsServerPacket(toClient[1])
  BY <1>1, <1>2, EmptyOrOne
     DEF InStep, ClientsTurn, TurnToServer, ServersTurn, TurnToClient, OutOfStep
<1>4. Empty(toClient') /\ Head(toClient) = toClient[1]
  BY <1>1, <1>3, Receiving
<1>5. PICK p : toServer' = Append(toServer, p) /\ p.type \in {"ACK", "NACK"}
               /\ (clientPc' = "receive"
                   \/ (clientPc' \in {"send", "done"} /\ p.type = "ACK"
                       /\ toClient[1].type # "DATA"))
  <2>1. /\ Response(TRUE).type = "ACK" /\ Response(FALSE).type = "NACK"
    BY DEF Response, Packet
  <2>2. CASE Take(toClient[1])
    BY <1>1, <2>1, <2>2 DEF Take
  <2>3. CASE Refuse
    BY <1>1, <2>1, <2>3 DEF Refuse
  <2> QED BY <1>3, <1>4, <2>2, <2>3 DEF ClientReceive, IsServerPacket, IsData
<1>6. One(toServer') /\ toServer'[1] = p
  BY <1>3, <1>5, Sending
<1>7. CASE clientPc' = "receive"
  BY <1>1, <1>3, <1>4, <1>6, <1>7 DEF InStep, ServersTurn
<1>8. CASE clientPc' # "receive"
  BY <1>1, <1>2, <1>3, <1>4, <1>5, <1>6, <1>8
     DEF InStep, TurnToClient, IsServerPacket, IsData
<1> QED BY <1>7, <1>8

\* The server answers a packet, and after the last one takes its turn.
LEMMA ServerReceiveInStep ==
  ASSUME InStep, NEW corrupt \in BOOLEAN, ServerReceive(corrupt)
  PROVE  InStep'
<1> DEFINE q == Corrupt(Head(toServer), corrupt)
<1>1. /\ serverPc = "receive" /\ toServer # <<>>
      /\ toServer' = Tail(toServer)
      /\ clientPc' = clientPc /\ clientPkt' = clientPkt /\ clientMsg' = clientMsg
      /\ serverPkt' = serverPkt
  BY DEF ServerReceive, clientVars
<1>2. ~ Empty(toServer) /\ AtLast' = AtLast
  BY <1>1 DEF Empty, AtLast
<1>3. /\ clientPc = "awaitAck" /\ Empty(toClient)
      /\ One(toServer) /\ IsClientPacket(toServer[1])
  BY <1>1, <1>2, EmptyOrOne
     DEF InStep, ClientsTurn, TurnToServer, ServersTurn, TurnToClient, OutOfStep
<1>4. Empty(toServer') /\ Head(toServer) = toServer[1]
  BY <1>1, <1>3, Receiving
<1>5. q.type = toServer[1].type
  BY <1>4 DEF Corrupt
<1>6. ServerTake(q, q.checksum = Checksum(q.payload))
  BY <1>3, <1>5 DEF ServerReceive, IsClientPacket, IsData
<1>7. PICK p : toClient' = Append(toClient, p)
               /\ (serverPc' = "receive"
                   \/ (serverPc' = "reply" /\ p.type = "ACK"
                       /\ toServer[1].type = "LAST_DATA"))
  <2> HIDE DEF q
  <2>1. Response(TRUE).type = "ACK"
    BY DEF Response, Packet
  <2>2. PICK ok \in BOOLEAN : ServerTake(q, ok)
    BY <1>6
  <2> QED BY <1>1, <1>5, <2>1, <2>2 DEF ServerTake
<1>8. One(toClient') /\ toClient'[1] = p
  BY <1>3, <1>7, Sending
<1>9. CASE serverPc' = "receive"
  BY <1>1, <1>3, <1>4, <1>8, <1>9 DEF InStep, ClientsTurn
<1>10. CASE serverPc' # "receive"
  BY <1>1, <1>2, <1>3, <1>4, <1>7, <1>8, <1>10 DEF InStep, TurnToServer, IsClientPacket
<1> QED BY <1>9, <1>10

LEMMA ServerReplyInStep ==
  ASSUME InStep, NEW corrupt \in BOOLEAN, ServerReply(corrupt)
  PROVE  InStep'
<1> DEFINE p == Corrupt(ServerPacket(reply, serverPkt), corrupt)
<1>1. /\ serverPc = "reply" /\ serverPc' = "awaitAck"
      /\ toClient' = Append(toClient, p) /\ toServer' = toServer
      /\ clientPc' = clientPc
      /\ clientPkt' = clientPkt /\ clientMsg' = clientMsg
      /\ serverPkt' = serverPkt /\ reply' = reply
  BY DEF ServerReply, clientVars
<1>2. IsServerPacket(p)
  BY DEF InStep, IsServerPacket, IsData, AtLastReply, ServerPacket, Packet, TypeOf, Corrupt
<1>3. AtLast' = AtLast /\ AtLastReply' = AtLastReply
  BY <1>1 DEF AtLast, AtLastReply
<1> HIDE DEF p
<1>4. CASE ServersTurn
  BY <1>1, <1>2, <1>3, <1>4, Sending DEF ServersTurn, InStep, IsServerPacket
<1>5. CASE TurnToServer
  BY <1>1, <1>2, <1>3, <1>5, Sending DEF TurnToServer, InStep, IsServerPacket
<1>6. CASE OutOfStep
  BY <1>1, <1>6, Sending, EmptyOrOne DEF OutOfStep, InStep
<1> QED BY <1>1, <1>4, <1>5, <1>6 DEF InStep, TurnToClient, ClientsTurn

\* The server goes on to its next packet, or, after the last one, to the next
\* message.
LEMMA ServerResponseInStep ==
  ASSUME InStep, ServerResponse
  PROVE  InStep'
<1>1. /\ serverPc = "awaitAck" /\ toServer # <<>>
      /\ toServer' = Tail(toServer) /\ toClient' = toClient
      /\ clientPc' = clientPc /\ clientPkt' = clientPkt /\ clientMsg' = clientMsg
  BY DEF ServerResponse, clientVars
<1>2. \/ serverPc' = "reply" /\ serverPkt' \in {serverPkt, serverPkt + 1}
      \/ serverPc' = "receive" /\ serverPkt' = 1
      \/ serverPc' = "exited" /\ serverPkt' = serverPkt
  BY DEF ServerResponse, NextMessage
<1>3. toServer[1].type = "ACK" /\ Head(toServer) = toServer[1] /\ AtLastReply
        => serverPc' = "receive"
  BY DEF ServerResponse, NextMessage, AtLastReply
<1>4. clientPkt' \in Nat /\ serverPkt' \in Nat
  BY <1>1, <1>2 DEF InStep
<1>5. ~ Empty(toServer)
  BY <1>1 DEF Empty
<1>6. AtLast' = AtLast
  BY <1>1 DEF AtLast
<1>7. CASE ServersTurn
  BY <1>1, <1>2, <1>4, <1>5, <1>7, Receiving DEF ServersTurn, OutOfStep, InStep, Empty
<1>8. CASE TurnToClient
  BY <1>1, <1>2, <1>3, <1>4, <1>6, <1>8, Receiving
     DEF TurnToClient, ClientsTurn, OutOfStep, InStep, Empty, IsClientPacket
<1>9. CASE OutOfStep
  BY <1>1, <1>2, <1>4, <1>5, <1>9, Receiving DEF OutOfStep, InStep, Empty
<1> QED BY <1>1, <1>5, <1>7, <1>8, <1>9 DEF InStep, ClientsTurn, TurnToServer

\* Whatever is lost, neither side sends before it has received.
LEMMA LoseInStep ==
  ASSUME InStep, Lose
  PROVE  InStep'
<1>1. /\ clientPc' = clientPc /\ clientPkt' = clientPkt /\ clientMsg' = clientMsg
      /\ serverPc' = serverPc /\ serverPkt' = serverPkt /\ reply' = reply
  BY DEF Lose, clientVars, serverVars
<1>2. \/ /\ toClient' = toClient
         /\ ~ Empty(toServer)
         /\ One(toServer) => Empty(toServer')
         /\ Two(toServer) => One(toServer')
      \/ /\ toServer' = toServer
         /\ ~ Empty(toClient)
         /\ One(toClient) => Empty(toClient')
         /\ Two(toClient) => One(toClient')
  BY Losing DEF Lose
<1>3. CASE ClientsTurn
  BY <1>1, <1>2, <1>3 DEF ClientsTurn, OutOfStep, InStep
<1>4. CASE TurnToServer
  BY <1>1, <1>2, <1>4 DEF TurnToServer, OutOfStep, InStep
<1>5. CASE ServersTurn
  BY <1>1, <1>2, <1>5 DEF ServersTurn, OutOfStep, InStep
<1>6. CASE TurnToClient
  BY <1>1, <1>2, <1>6 DEF TurnToClient, OutOfStep, InStep
<1>7. CASE OutOfStep
  BY <1>1, <1>2, <1>7, EmptyOrOne DEF OutOfStep, InStep
<1> QED BY <1>3, <1>4, <1>5, <1>6, <1>7 DEF InStep

LEMMA InStepHolds == Spec => []InStep
<1>1. InStep /\ [Next]_vars => InStep'
  <2> SUFFICES ASSUME InStep, [Next]_vars PROVE InStep'
    OBVIOUS
  <2>1. CASE Client
    BY <2>1, ClientSendInStep, ClientResponseInStep, ClientReceiveInStep DEF Client
  <2>2. CASE Server
    BY <2>2, ServerReceiveInStep, ServerReplyInStep, ServerResponseInStep DEF Server
  <2>3. CASE Lose
    BY <2>3, LoseInStep
  <2>4. CASE UNCHANGED vars
    BY <2>4 DEF vars, clientVars, serverVars, InStep, ClientsTurn, TurnToServer,
                ServersTurn, TurnToClient, OutOfStep, IsClientPacket,
                IsServerPacket, AtLast, AtLastReply
  <2> QED BY <2>1, <2>2, <2>3, <2>4 DEF Next
<1> QED BY InitInStep, <1>1, PTL DEF Spec

\* However datagrams are corrupted and lost, the two sides never have more
\* than two on their way (rtp.c:135-222, prj7-server.py:57-114).
THEOREM StopsAndWaits == Spec => []StopAndWait
<1>1. InStep => StopAndWait
  <2> SUFFICES ASSUME InStep PROVE StopAndWait
    OBVIOUS
  <2>1. \A channel : /\ Empty(channel) => Len(channel) = 0
                     /\ One(channel) => Len(channel) = 1
                     /\ Two(channel) => Len(channel) = 2
    BY DEF Empty, One, Two
  <2>2. /\ Len(toServer) + Len(toClient) <= 2
        /\ Len(toServer) = 2 => Two(toServer)
        /\ Len(toClient) = 2 => Two(toClient)
    <3>1. \/ Empty(toServer) /\ (Empty(toClient) \/ One(toClient) \/ Two(toClient))
          \/ (One(toServer) \/ Two(toServer)) /\ Empty(toClient)
      BY DEF InStep, ClientsTurn, TurnToServer, ServersTurn, TurnToClient, OutOfStep
    <3>2. \/ Len(toServer) = 0 /\ Len(toClient) \in {0, 1}
          \/ Len(toServer) = 0 /\ Len(toClient) = 2 /\ Two(toClient)
          \/ Len(toServer) = 1 /\ Len(toClient) = 0
          \/ Len(toServer) = 2 /\ Len(toClient) = 0 /\ Two(toServer)
      BY <2>1, <3>1
    <3> QED BY <3>2
  <2>3. Two(toServer) => toServer[1].type = "ACK" /\ IsData(toServer[2])
    BY <2>1 DEF InStep, ClientsTurn, TurnToServer, ServersTurn, TurnToClient,
                OutOfStep, IsClientPacket
  <2>4. Two(toClient) => toClient[1].type = "ACK" /\ IsData(toClient[2])
    BY <2>1 DEF InStep, ClientsTurn, TurnToServer, ServersTurn, TurnToClient,
                OutOfStep, IsServerPacket
  <2> QED BY <2>2, <2>3, <2>4 DEF StopAndWait, IsData
<1> QED BY InStepHolds, <1>1, PTL

-----------------------------------------------------------------------------
(* What has been sent, and what has arrived.                               *)

LEMMA HowMany ==
  ASSUME NEW channel
  PROVE  /\ ~ (Empty(channel) /\ One(channel)) /\ ~ (Empty(channel) /\ Two(channel))
         /\ ~ (One(channel) /\ Two(channel))
BY DEF Empty, One, Two

LEMMA InitTransfer == Init => Transfer
<1> SUFFICES ASSUME Init PROVE Transfer
  OBVIOUS
<1>1. /\ serverPc = "receive" /\ Empty(toServer) /\ Empty(toClient)
      /\ clientPc # "awaitAck" /\ clientPc # "receive"
      /\ text = <<>> /\ clientPkt = 1 /\ clientMsg = 1
      /\ clientPc = "send" => Messages # <<>>
  BY DEF Init, Empty
<1>2. clientPc = "send" => text = Pieces[clientMsg][clientPkt - 1]
  <2> SUFFICES ASSUME clientPc = "send" PROVE text = Pieces[1][0]
    BY <1>1
  <2>1. Len(Messages) \in Nat \ {0}
    BY <1>1, MessagesAssumption, EmptySeq
  <2>2. 1 \in 1 .. Len(Messages)
    BY <2>1
  <2> QED BY <1>1, <2>2, PiecesOf
<1>3. ClientsText
  BY <1>1, <1>2, HowMany DEF ClientsText, ClientsTurn
<1>4. ~ TurnToServer /\ ~ ServersTurn /\ ~ TurnToClient
  BY <1>1 DEF TurnToServer, ServersTurn, TurnToClient
<1> QED BY <1>1, <1>3, <1>4 DEF Transfer, ServersReply, ServersBuffer, ClientsPacket, LostText

LEMMA ClientSendTransfer ==
  ASSUME InStep, Transfer, ClientSend
  PROVE  Transfer'
<1>1. /\ clientPc = "send" /\ clientPc' = "awaitAck"
      /\ toServer' = Append(toServer, Sent) /\ toClient' = toClient
      /\ serverPc' = serverPc /\ text' = text
      /\ clientPkt' = clientPkt /\ clientMsg' = clientMsg
  BY DEF ClientSend, serverVars, Sent
<1>2. Sent.type # "ACK" /\ Sent' = Sent
  BY <1>1 DEF Sent, ClientPacket, Packet, TypeOf
<1> USE DEF Transfer, ServersReply, ServersBuffer, ClientsPacket, LostText, ClientsText,
            ClientsTurn, TurnToServer, ServersTurn, TurnToClient
<1>3. CASE ClientsTurn
  <2>1. /\ serverPc = "receive" /\ Empty(toServer) /\ Empty(toClient)
        /\ text = Pieces[clientMsg][clientPkt - 1]
    BY <1>1, <1>3, HowMany
  <2>2. One(toServer') /\ toServer'[1] = Sent
    BY <1>1, <2>1, Sending
  <2> QED BY <1>1, <1>2, <2>1, <2>2, HowMany
<1>4. CASE TurnToClient
  <2>1. serverPc = "awaitAck" /\ One(toServer) /\ Empty(toClient) /\ clientPkt = 1
    BY <1>1, <1>4
  <2>2. Two(toServer') /\ toServer'[2] = Sent
    BY <1>1, <2>1, Sending
  <2> QED BY <1>1, <1>2, <2>1, <2>2, HowMany
<1>5. CASE OutOfStep
  <2>1. serverPc \in {"awaitAck", "exited"} /\ Empty(toServer) /\ Empty(toClient)
    BY <1>1, <1>5 DEF OutOfStep
  <2>2. One(toServer') /\ toServer'[1] = Sent
    BY <1>1, <2>1, Sending
  <2> QED BY <1>1, <1>2, <2>1, <2>2, HowMany
<1> QED BY <1>1, <1>3, <1>4, <1>5 DEF InStep

LEMMA ClientResponseTransfer ==
  ASSUME TypeInv, InStep, Transfer, ClientResponse
  PROVE  Transfer'
<1>1. /\ clientPc = "awaitAck" /\ toClient' = Tail(toClient) /\ toServer' = toServer
      /\ serverPc' = serverPc /\ text' = text /\ clientMsg' = clientMsg
      /\ serverPkt' = serverPkt /\ reply' = reply
      /\ ~ Empty(toClient) /\ clientPkt \in Nat
  BY DEF ClientResponse, serverVars, Empty, TypeInv, ClientType
<1>2. \/ Head(toClient).type = "NACK" /\ clientPc' = "send" /\ clientPkt' = clientPkt
      \/ /\ Head(toClient).type # "NACK" /\ ~ AtLast
         /\ clientPc' = "send" /\ clientPkt' = clientPkt + 1
      \/ /\ Head(toClient).type # "NACK" /\ AtLast
         /\ clientPc' = "receive" /\ clientPkt' = 1 /\ buffer' = <<>>
  BY DEF ClientResponse, Resends, AtLast
<1>3. AtLastReply' = AtLastReply
  BY <1>1 DEF AtLastReply
<1> USE DEF Transfer, ServersReply, ServersBuffer, ClientsPacket, LostText, ClientsText,
            ClientsTurn, TurnToServer, ServersTurn, TurnToClient
<1>4. CASE ClientsTurn
  <2>1. serverPc = "receive" /\ Empty(toServer) /\ One(toClient)
    BY <1>1, <1>4
  <2>2. Head(toClient) = toClient[1] /\ Empty(toClient')
    BY <1>1, <2>1, Receiving
  <2>3. clientPc' = "send" /\ text = Pieces[clientMsg][clientPkt' - 1]
    BY <1>1, <1>2, <1>4, <2>1, <2>2
  <2> QED BY <1>1, <2>1, <2>2, <2>3, HowMany
<1>5. CASE TurnToServer
  <2>1. /\ serverPc \in {"reply", "awaitAck"} /\ Empty(toServer) /\ AtLast
        /\ toClient[1].type = "ACK" /\ reply = Reply[clientMsg] /\ serverPkt = 1
        /\ One(toClient) \/ Two(toClient)
        /\ serverPc = "reply" => One(toClient)
        /\ Two(toClient) => /\ toClient[2].type = TypeOf(reply, 1)
                            /\ toClient[2].payload = Chunk(reply, 1)
    BY <1>5
  <2>2. /\ Head(toClient) = toClient[1]
        /\ One(toClient) => Empty(toClient')
        /\ Two(toClient) => One(toClient') /\ toClient'[1] = toClient[2]
    BY <1>1, <2>1, Receiving
  <2>3. clientPc' = "receive" /\ buffer' = <<>>
    BY <1>2, <2>1, <2>2
  <2>4. Prefix(reply, serverPkt - 1) = <<>>
    <3>1. reply \in Seq(Chars)
      BY DEF TypeInv, ServerType
    <3> QED BY <2>1, <3>1, Chunks
  <2> QED BY <1>1, <2>1, <2>2, <2>3, <2>4, HowMany
<1>6. CASE OutOfStep
  <2>1. serverPc \in {"awaitAck", "exited"} /\ Empty(toServer) /\ One(toClient)
    BY <1>1, <1>6 DEF OutOfStep
  <2>2. Empty(toClient')
    BY <1>1, <2>1, Receiving
  <2> QED BY <1>1, <1>2, <2>1, <2>2, HowMany
<1> QED BY <1>1, <1>4, <1>5, <1>6 DEF InStep

LEMMA ServersPacketIs ==
  ASSUME TypeInv, InStep, Transfer, clientPc = "receive", ~ Empty(toClient)
  PROVE  /\ serverPc = "awaitAck" /\ Empty(toServer) /\ One(toClient)
         /\ reply = Reply[clientMsg] /\ buffer = Prefix(reply, serverPkt - 1)
         /\ toClient[1].type = TypeOf(reply, serverPkt)
         /\ toClient[1].payload = Chunk(reply, serverPkt)
         /\ Prefix(reply, serverPkt - 1) \o Chunk(reply, serverPkt) = Prefix(reply, serverPkt)
         /\ TypeOf(reply, serverPkt) = "DATA" <=> ~ AtLastReply
         /\ AtLastReply => Prefix(reply, serverPkt) = reply
<1>1. /\ serverPc = "awaitAck" /\ Empty(toServer) /\ One(toClient) /\ ServersTurn
  BY EmptyOrOne DEF InStep, ClientsTurn, TurnToServer, ServersTurn, TurnToClient, OutOfStep
<1>2. /\ reply = Reply[clientMsg] /\ buffer = Prefix(reply, serverPkt - 1)
      /\ toClient[1].type = TypeOf(reply, serverPkt)
      /\ toClient[1].payload = Chunk(reply, serverPkt)
  BY <1>1, HowMany DEF Transfer, ServersBuffer
<1>3. /\ reply \in Seq(Chars) /\ Len(reply) \in Nat
      /\ serverPkt \in 1 .. PacketCount(Len(reply)) /\ PacketCount(Len(reply)) \in Nat
  BY <1>1, LenProperties, PacketCounts DEF TypeInv, ServerType
<1>4. Prefix(reply, serverPkt - 1) \o Chunk(reply, serverPkt) = Prefix(reply, serverPkt)
  BY <1>3, Chunks
<1>5. AtLastReply <=> serverPkt = PacketCount(Len(reply))
  BY <1>3 DEF AtLastReply
<1>6. AtLastReply => Prefix(reply, serverPkt) = reply
  BY <1>3, <1>5, Chunks
<1>7. TypeOf(reply, serverPkt) = "DATA" <=> ~ AtLastReply
  BY <1>5 DEF TypeOf
<1> QED BY <1>1, <1>2, <1>4, <1>6, <1>7

LEMMA ClientReceiveTransfer ==
  ASSUME TypeInv, InStep, Transfer, ClientReceive
  PROVE  Transfer'
<1>1. /\ clientPc = "receive" /\ toClient' = Tail(toClient) /\ ~ Empty(toClient)
      /\ serverPc' = serverPc /\ clientPkt' = clientPkt /\ clientPkt = 1
      /\ serverPkt' = serverPkt /\ reply' = reply
  BY DEF ClientReceive, serverVars, Empty, TypeInv, ClientType
<1>2. /\ serverPc = "awaitAck" /\ Empty(toServer) /\ One(toClient)
      /\ reply = Reply[clientMsg] /\ buffer = Prefix(reply, serverPkt - 1)
      /\ toClient[1].type = TypeOf(reply, serverPkt)
      /\ Prefix(reply, serverPkt - 1) \o toClient[1].payload = Prefix(reply, serverPkt)
      /\ TypeOf(reply, serverPkt) = "DATA" <=> ~ AtLastReply
  BY <1>1, ServersPacketIs
<1>3. Empty(toClient') /\ Head(toClient) = toClient[1] /\ AtLastReply' = AtLastReply
  BY <1>1, <1>2, Receiving DEF AtLastReply
<1>4. Response(TRUE).type = "ACK" /\ Response(FALSE).type = "NACK"
  BY DEF Response, Packet
<1>5. Take(toClient[1]) \/ Refuse
  BY <1>2, <1>3 DEF ClientReceive, TypeOf
<1> USE DEF Transfer, ServersReply, ServersBuffer, ClientsPacket, LostText, ClientsText,
            ClientsTurn, TurnToServer, ServersTurn, TurnToClient
<1>6. CASE Take(toClient[1])
  <2>1. /\ toServer' = Append(toServer, Response(TRUE))
        /\ buffer' = Prefix(reply, serverPkt)
        /\ \/ clientPc' = "receive" /\ clientMsg' = clientMsg /\ ~ AtLastReply
           \/ clientPc' \in {"send", "done"}
    BY <1>1, <1>2, <1>6 DEF Take
  <2>2. One(toServer') /\ toServer'[1].type = "ACK"
    <3>1. Empty(toServer) /\ toServer' = Append(toServer, Response(TRUE))
      BY <1>2, <2>1
    <3>2. One(toServer') /\ toServer'[1] = Response(TRUE)
      BY <3>1, Sending, Zenon
    <3> QED BY <1>4, <3>2
  <2> QED BY <1>1, <1>2, <1>3, <2>1, <2>2, HowMany
<1>7. CASE Refuse
  <2>1. /\ toServer' = Append(toServer, Response(FALSE))
        /\ UNCHANGED <<buffer, clientPc, clientMsg>>
    BY <1>7 DEF Refuse
  <2>2. One(toServer') /\ toServer'[1].type = "NACK"
    <3>1. Empty(toServer) /\ toServer' = Append(toServer, Response(FALSE))
      BY <1>2, <2>1
    <3>2. One(toServer') /\ toServer'[1] = Response(FALSE)
      BY <3>1, Sending, Zenon
    <3> QED BY <1>4, <3>2
  <2> QED BY <1>1, <1>2, <1>3, <2>1, <2>2, HowMany
<1> QED BY <1>5, <1>6, <1>7

LEMMA CorruptIsSeen ==
  ASSUME NEW type, NEW payload \in Seq(Chars), NEW corrupt \in BOOLEAN
  PROVE  LET p == Corrupt(Packet(type, payload), corrupt) IN
         p.type = type /\ p.payload = payload /\ (p.checksum = Checksum(p.payload) <=> ~ corrupt)
<1>1. Checksum(payload) \in Nat
  BY ChecksumType
<1>2. Checksum(payload) + 13 # Checksum(payload)
  BY <1>1
<1> QED BY <1>2 DEF Corrupt, Packet

LEMMA ClientsPacketIs ==
  ASSUME TypeInv, InStep, Transfer, serverPc = "receive", ~ Empty(toServer)
  PROVE  /\ clientPc = "awaitAck" /\ Empty(toClient)
         /\ One(toServer) /\ toServer[1] = Sent
         /\ text = Pieces[clientMsg][clientPkt - 1]
         /\ clientMsg \in 1 .. Len(Messages) /\ clientPkt \in 1 .. Packets(clientMsg)
         /\ TypeOf(Messages[clientMsg], clientPkt) = "DATA" <=> ~ AtLast
         /\ AtLast => clientPkt = Packets(clientMsg)
<1>1. /\ clientPc = "awaitAck" /\ Empty(toClient) /\ One(toServer) /\ ClientsTurn
  BY EmptyOrOne DEF InStep, ClientsTurn, TurnToServer, ServersTurn, TurnToClient, OutOfStep
<1>2. toServer[1] = Sent /\ text = Pieces[clientMsg][clientPkt - 1]
  BY <1>1, HowMany DEF Transfer, ClientsText
<1>3. clientMsg \in 1 .. Len(Messages) /\ clientPkt \in 1 .. Packets(clientMsg)
  BY <1>1 DEF TypeInv, ClientType
<1>4. Packets(clientMsg) \in Nat /\ Packets(clientMsg) = PacketCount(Len(Messages[clientMsg]))
  BY <1>3, MessageType DEF Packets
<1>5. AtLast <=> clientPkt = PacketCount(Len(Messages[clientMsg]))
  BY <1>3, <1>4 DEF AtLast
<1> QED BY <1>1, <1>2, <1>3, <1>4, <1>5 DEF TypeOf

LEMMA ServerReceiveTransfer ==
  ASSUME TypeInv, InStep, Transfer, NEW corrupt \in BOOLEAN, ServerReceive(corrupt)
  PROVE  Transfer'
<1> DEFINE q == Corrupt(Sent, corrupt)
           payload == ClientPayload(Messages[clientMsg], clientPkt)
<1>1. /\ serverPc = "receive" /\ toServer' = Tail(toServer) /\ ~ Empty(toServer)
      /\ clientPc' = clientPc /\ clientMsg' = clientMsg /\ clientPkt' = clientPkt
      /\ serverPkt' = serverPkt /\ serverPkt = 1
  BY DEF ServerReceive, clientVars, Empty, TypeInv, ServerType
<1>2. /\ clientPc = "awaitAck" /\ Empty(toClient)
      /\ One(toServer) /\ toServer[1] = Sent
      /\ text = Pieces[clientMsg][clientPkt - 1]
      /\ clientMsg \in 1 .. Len(Messages) /\ clientPkt \in 1 .. Packets(clientMsg)
      /\ TypeOf(Messages[clientMsg], clientPkt) = "DATA" <=> ~ AtLast
      /\ AtLast => clientPkt = Packets(clientMsg)
  BY <1>1, ClientsPacketIs
<1>3. Empty(toServer') /\ Head(toServer) = Sent /\ AtLast' = AtLast
  BY <1>1, <1>2, Receiving DEF AtLast
<1>4. /\ q.type = TypeOf(Messages[clientMsg], clientPkt) /\ q.payload = payload
      /\ q.checksum = Checksum(q.payload) <=> ~ corrupt
  <2>1. Messages[clientMsg] \in Seq(Chars)
    BY <1>2, MessageType
  <2>2. clientPkt \in 1 .. PacketCount(Len(Messages[clientMsg]))
    BY <1>2 DEF Packets
  <2>3. payload \in Seq(Chars)
    BY <2>1, <2>2, ClientPayloadType
  <2>4. Sent = Packet(TypeOf(Messages[clientMsg], clientPkt), payload)
    BY DEF Sent, ClientPacket
  <2> QED BY <2>3, <2>4, CorruptIsSeen
<1>5. ServerTake(q, ~ corrupt)
  <2>1. q.type \in {"DATA", "LAST_DATA"}
    BY <1>4 DEF TypeOf
  <2>2. ServerTake(q, q.checksum = Checksum(q.payload))
    BY <1>3, <2>1 DEF ServerReceive
  <2>3. (q.checksum = Checksum(q.payload)) = ~ corrupt
    BY <1>4
  <2> QED BY <2>2, <2>3
<1>6. Pieces[clientMsg][clientPkt] = Pieces[clientMsg][clientPkt - 1] \o Strip(payload, Padding)
  BY <1>2, PiecesOf
<1> HIDE DEF q, payload
<1> USE DEF Transfer, ServersReply, ServersBuffer, ClientsPacket, LostText, ClientsText,
            ClientsTurn, TurnToServer, ServersTurn, TurnToClient
<1>7. CASE corrupt
  <2>1. /\ toClient' = Append(toClient, Response(FALSE)) /\ serverPc' = serverPc
        /\ text' = text \o <<>>
    BY <1>5, <1>7 DEF ServerTake, Kept
  <2>2. text' = text
    BY <2>1, ConcatEmptySeq DEF TypeInv, ServerType
  <2>3. One(toClient') /\ toClient'[1].type = "NACK"
    <3>1. Empty(toClient) /\ toClient' = Append(toClient, Response(FALSE))
      BY <1>2, <2>1
    <3>2. One(toClient') /\ toClient'[1] = Response(FALSE)
      BY <3>1, Sending, Zenon
    <3> QED BY <3>2 DEF Response, Packet
  <2> QED BY <1>1, <1>2, <1>3, <2>1, <2>2, <2>3, HowMany
<1>8. CASE ~ corrupt
  <2>1. /\ toClient' = Append(toClient, Response(TRUE))
        /\ text' = Pieces[clientMsg][clientPkt]
        /\ IF q.type = "LAST_DATA" THEN serverPc' = "reply" /\ reply' = Piglatinize(text')
           ELSE serverPc' = serverPc
    BY <1>2, <1>4, <1>5, <1>6, <1>8 DEF ServerTake, Kept
  <2>2. One(toClient') /\ toClient'[1].type = "ACK"
    <3>1. Empty(toClient) /\ toClient' = Append(toClient, Response(TRUE))
      BY <1>2, <2>1
    <3>2. One(toClient') /\ toClient'[1] = Response(TRUE)
      BY <3>1, Sending, Zenon
    <3> QED BY <3>2 DEF Response, Packet
  <2>3. CASE AtLast
    <3>1. serverPc' = "reply" /\ reply' = Piglatinize(text')
      BY <1>2, <1>4, <2>1, <2>3 DEF TypeOf
    <3>2. reply' = Reply[clientMsg]
      BY <1>2, <2>1, <2>3, <3>1, ReplyOf
    <3> QED BY <1>1, <1>2, <1>3, <2>2, <3>1, <3>2, HowMany
  <2>4. CASE ~ AtLast
    <3>1. serverPc' = "receive"
      BY <1>1, <1>2, <1>4, <2>1, <2>4
    <3> QED BY <1>1, <1>2, <1>3, <2>1, <2>2, <2>4, <3>1, HowMany
  <2> QED BY <2>3, <2>4
<1> QED BY <1>7, <1>8

LEMMA ServerReplyTransfer ==
  ASSUME TypeInv, InStep, Transfer, NEW corrupt \in BOOLEAN, ServerReply(corrupt)
  PROVE  Transfer'
<1> DEFINE p == Corrupt(ServerPacket(reply, serverPkt), corrupt)
<1>1. /\ serverPc = "reply" /\ serverPc' = "awaitAck"
      /\ toClient' = Append(toClient, p) /\ toServer' = toServer
      /\ clientPc' = clientPc /\ clientMsg' = clientMsg /\ clientPkt' = clientPkt
      /\ buffer' = buffer
      /\ serverPkt' = serverPkt /\ reply' = reply
  BY DEF ServerReply, clientVars
<1>2. p.type = TypeOf(reply, serverPkt) /\ p.payload = Chunk(reply, serverPkt)
  BY DEF Corrupt, ServerPacket, Packet
<1> HIDE DEF p
<1> USE DEF Transfer, ServersReply, ServersBuffer, ClientsPacket, LostText, ClientsText,
            ClientsTurn, TurnToServer, ServersTurn, TurnToClient
<1>3. CASE ServersTurn
  <2>1. /\ clientPc = "receive" /\ Empty(toServer) /\ Empty(toClient)
        /\ reply = Reply[clientMsg] /\ buffer = Prefix(reply, serverPkt - 1)
    BY <1>1, <1>3, HowMany
  <2>2. One(toClient') /\ toClient'[1] = p
    BY <1>1, <2>1, Sending
  <2> QED BY <1>1, <1>2, <2>1, <2>2, HowMany
<1>4. CASE TurnToServer
  <2>1. /\ clientPc = "awaitAck" /\ Empty(toServer) /\ One(toClient)
        /\ reply = Reply[clientMsg] /\ serverPkt = 1
    BY <1>1, <1>4
  <2>2. Two(toClient') /\ toClient'[2] = p
    BY <1>1, <2>1, Sending
  <2> QED BY <1>1, <1>2, <2>1, <2>2, HowMany
<1>5. CASE OutOfStep
  <2>1. clientPc \in {"awaitAck", "done"} /\ Empty(toServer) /\ Empty(toClient)
    BY <1>1, <1>5 DEF OutOfStep
  <2>2. One(toClient')
    BY <1>1, <2>1, Sending
  <2> QED BY <1>1, <2>1, <2>2, HowMany
<1> QED BY <1>1, <1>3, <1>4, <1>5 DEF InStep

LEMMA ServerResponseTransfer ==
  ASSUME TypeInv, InStep, Transfer, ServerResponse
  PROVE  Transfer'
<1>1. /\ serverPc = "awaitAck" /\ toServer' = Tail(toServer) /\ toClient' = toClient
      /\ clientPc' = clientPc /\ clientMsg' = clientMsg /\ clientPkt' = clientPkt
      /\ buffer' = buffer /\ ~ Empty(toServer) /\ serverPkt \in Nat
  BY DEF ServerResponse, clientVars, Empty, TypeInv, ServerType
<1>2. /\ Head(toServer).type = "NACK" => /\ serverPc' = "reply"
                                         /\ serverPkt' = serverPkt /\ reply' = reply
      /\ Head(toServer).type = "ACK" /\ ~ AtLastReply =>
           serverPc' = "reply" /\ serverPkt' = serverPkt + 1 /\ reply' = reply
      /\ Head(toServer).type = "ACK" /\ AtLastReply => serverPc' = "receive"
      /\ serverPc' \in {"exited", "reply", "receive"}
      /\ serverPc' = "receive" => text' = <<>> /\ Head(toServer).type = "ACK"
  BY DEF ServerResponse, NextMessage, AtLastReply
<1>3. Sent' = Sent
  BY <1>1 DEF Sent
<1>4. clientPc # "done" => Pieces[clientMsg][0] = <<>>
  BY PiecesOf DEF TypeInv, ClientType
<1> USE DEF Transfer, ServersReply, ServersBuffer, ClientsPacket, LostText, ClientsText,
            ClientsTurn, TurnToServer, ServersTurn, TurnToClient
<1>5. CASE ServersTurn
  <2>1. clientPc = "receive" /\ One(toServer) /\ Empty(toClient) /\ reply = Reply[clientMsg]
    BY <1>1, <1>5, HowMany
  <2>2. Head(toServer) = toServer[1] /\ Empty(toServer')
    BY <1>1, <2>1, Receiving
  <2>3. serverPc' = "reply" /\ reply' = reply /\ buffer = Prefix(reply, serverPkt' - 1)
    BY <1>1, <1>2, <1>5, <2>1, <2>2
  <2> QED BY <1>1, <2>1, <2>2, <2>3, HowMany
<1>6. CASE TurnToClient
  <2>1. /\ AtLastReply /\ Empty(toClient) /\ toServer[1].type = "ACK"
        /\ \/ clientPc \in {"send", "done"} /\ One(toServer)
           \/ clientPc = "awaitAck" /\ Two(toServer) /\ toServer[2] = Sent
        /\ clientPc # "done" => clientPkt = 1
    BY <1>1, <1>6
  <2>2. /\ Head(toServer) = toServer[1]
        /\ One(toServer) => Empty(toServer')
        /\ Two(toServer) => One(toServer') /\ toServer'[1] = toServer[2]
    BY <1>1, <2>1, Receiving
  <2>3. serverPc' = "receive" /\ text' = <<>>
    BY <1>2, <2>1, <2>2
  <2>4. clientPc # "done" => text' = Pieces[clientMsg][clientPkt - 1]
    BY <1>4, <2>1, <2>3
  <2> QED BY <1>1, <1>3, <2>1, <2>2, <2>3, <2>4, HowMany
<1>7. CASE OutOfStep
  <2>1. clientPc \in {"awaitAck", "done"} /\ One(toServer) /\ Empty(toClient)
    BY <1>1, <1>7 DEF OutOfStep
  <2>2. Head(toServer) = toServer[1] /\ Empty(toServer')
    BY <1>1, <2>1, Receiving
  <2>3. serverPc' = "receive" /\ clientPc = "awaitAck" => text' = Pieces[clientMsg][clientPkt - 1]
    BY <1>1, <1>2, <1>4, <2>1, <2>2
  <2> QED BY <1>1, <1>2, <2>1, <2>2, <2>3, HowMany
<1> QED BY <1>1, <1>5, <1>6, <1>7 DEF InStep

LEMMA LoseTransfer ==
  ASSUME InStep, Transfer, Lose
  PROVE  Transfer'
<1>1. /\ clientPc' = clientPc /\ clientMsg' = clientMsg /\ clientPkt' = clientPkt
      /\ serverPc' = serverPc /\ text' = text
  BY DEF Lose, clientVars, serverVars
<1>2. \/ /\ toClient' = toClient
         /\ ~ Empty(toServer)
         /\ One(toServer) => Empty(toServer')
         /\ Two(toServer) => One(toServer')
      \/ /\ toServer' = toServer
         /\ ~ Empty(toClient)
         /\ One(toClient) => Empty(toClient')
         /\ Two(toClient) => One(toClient')
  BY Losing DEF Lose
<1> USE DEF Transfer, ServersReply, ServersBuffer, ClientsPacket, LostText, ClientsText,
            ClientsTurn, TurnToServer, ServersTurn, TurnToClient
<1>3. CASE ClientsTurn
  <2>1. clientPc = "awaitAck" /\ serverPc = "receive" /\ Empty(toServer') /\ Empty(toClient')
    BY <1>1, <1>2, <1>3, HowMany
  <2>2. text \in {Pieces[clientMsg][clientPkt - 1], Pieces[clientMsg][clientPkt]}
    BY <1>3
  <2> QED BY <1>1, <2>1, <2>2, HowMany
<1>4. CASE TurnToServer
  <2>1. /\ clientPc = "awaitAck" /\ Empty(toServer')
        /\ \/ serverPc = "reply" /\ Empty(toClient')
           \/ serverPc = "awaitAck" /\ One(toClient')
    BY <1>1, <1>2, <1>4, HowMany
  <2> QED BY <1>1, <2>1, HowMany
<1>5. CASE ServersTurn
  <2>1. /\ clientPc = "receive" /\ serverPc = "awaitAck" /\ Empty(toServer') /\ Empty(toClient')
    BY <1>1, <1>2, <1>5, HowMany
  <2> QED BY <1>1, <2>1, HowMany
<1>6. CASE TurnToClient
  <2>1. /\ serverPc = "awaitAck" /\ Empty(toClient')
        /\ \/ clientPc \in {"send", "done"} /\ Empty(toServer')
           \/ clientPc = "awaitAck" /\ One(toServer') /\ clientPkt = 1
    BY <1>1, <1>2, <1>6, HowMany
  <2> QED BY <1>1, <2>1, HowMany
<1>7. CASE OutOfStep
  <2>1. /\ Empty(toServer') /\ Empty(toClient')
        /\ clientPc \in {"awaitAck", "done"} /\ serverPc \in {"awaitAck", "exited"}
    BY <1>1, <1>2, <1>7, HowMany DEF OutOfStep
  <2> QED BY <1>1, <2>1, HowMany
<1> QED BY <1>3, <1>4, <1>5, <1>6, <1>7 DEF InStep

LEMMA TransferHolds == Spec => []Transfer
<1>1. TypeInv /\ InStep /\ Transfer /\ [Next]_vars => Transfer'
  <2> SUFFICES ASSUME TypeInv, InStep, Transfer, [Next]_vars PROVE Transfer'
    OBVIOUS
  <2>1. CASE Client
    BY <2>1, ClientSendTransfer, ClientResponseTransfer, ClientReceiveTransfer DEF Client
  <2>2. CASE Server
    BY <2>2, ServerReceiveTransfer, ServerReplyTransfer, ServerResponseTransfer DEF Server
  <2>3. CASE Lose
    BY <2>3, LoseTransfer
  <2>4. CASE UNCHANGED vars
    BY <2>4 DEF vars, clientVars, serverVars, Transfer, ServersReply, ServersBuffer,
                ClientsPacket, LostText, ClientsText, ClientsTurn, TurnToServer,
                ServersTurn, TurnToClient, Sent, AtLast, AtLastReply, IsClientPacket, IsServerPacket
  <2> QED BY <2>1, <2>2, <2>3, <2>4 DEF Next
<1> QED BY InitTransfer, TypeInvHolds, InStepHolds, <1>1, PTL DEF Spec

\* However often a packet is corrupted, refused and sent again, the server adds
\* it to its message once and in order, whatever the messages and the size of a
\* packet are, and also after a datagram has been lost
\* (rtp.c:132-176, prj7-server.py:57-87).
THEOREM StoresOnce == Spec => []StoredOnce
<1>1. InStep /\ Transfer => StoredOnce
  <2> SUFFICES ASSUME InStep, Transfer, serverPc = "receive", clientPc \in {"send", "awaitAck"}
               PROVE  \/ text = Pieces[clientMsg][clientPkt - 1] /\ ~ Acknowledged
                      \/ text = Pieces[clientMsg][clientPkt] /\ clientPc = "awaitAck"
    BY DEF StoredOnce
  <2>1. Empty(toClient) => ~ Acknowledged
    BY DEF Empty, Acknowledged
  <2>2. One(toClient) /\ toClient[1].type = "NACK" => ~ Acknowledged
    <3> SUFFICES ASSUME One(toClient), toClient[1].type = "NACK" PROVE ~ Acknowledged
      OBVIOUS
    <3>1. DOMAIN toClient = 1 .. 1
      BY LenProperties DEF One, IsSeq
    <3> QED BY <3>1 DEF Acknowledged
  <2>3. CASE ClientsTurn
    BY <2>1, <2>2, <2>3, HowMany DEF Transfer, ClientsText, ClientsTurn
  <2>4. CASE OutOfStep
    <3>1. clientPc = "awaitAck" /\ Empty(toServer) /\ Empty(toClient)
      BY <2>4 DEF OutOfStep
    <3> QED BY <2>1, <3>1 DEF Transfer, LostText
  <2> QED BY <2>3, <2>4 DEF InStep, TurnToServer, ServersTurn, TurnToClient
<1> QED BY InStepHolds, TransferHolds, <1>1, PTL
-----------------------------------------------------------------------------
(* What is printed.                                                        *)

LEMMA PrefixOfItself ==
  ASSUME NEW s \in Seq(Chars), NEW char \in Chars
  PROVE  IsPrefix(s, s) /\ IsPrefix(s, Append(s, char))
<1>1. Len(s) \in Nat
  BY LenProperties
<1>2. /\ Append(s, char) \in Seq(Chars) /\ Len(Append(s, char)) = Len(s) + 1
      /\ \A i \in 1 .. Len(s) : Append(s, char)[i] = s[i]
  BY AppendProperties
<1>3. Append(s, char) = s \o <<char>> /\ <<char>> \in Seq(Chars)
  BY AppendIsConcat
<1>4. SubSeq(Append(s, char), 1, Len(s)) = SubSeq(s, 1, Len(s))
  <2>1. CASE Len(s) = 0
    <3>1. Len(s) \in Int /\ 1 \in Int /\ Len(s) < 1
      BY <1>1, <2>1
    <3> QED BY <3>1, SubSeqEmpty
  <2>2. CASE Len(s) # 0
    <3>1. 1 \in 1 .. Len(s) /\ Len(s) \in 1 .. Len(s)
      BY <1>1, <2>2
    <3> QED BY <1>3, <3>1, SubSeqOfConcat1
  <2> QED BY <2>1, <2>2
<1> QED BY <1>1, <1>2, <1>4 DEF IsPrefix

LEMMA TakeInOrder ==
  ASSUME TypeInv, InStep, Transfer, RepliesInOrder, ClientReceive, Take(toClient[1])
  PROVE  RepliesInOrder'
<1>1. clientPc = "receive" /\ ~ Empty(toClient) /\ clientPkt' = clientPkt
  BY DEF ClientReceive, Empty
<1>2. /\ reply = Reply[clientMsg]
      /\ buffer \o toClient[1].payload = Prefix(reply, serverPkt)
      /\ TypeOf(reply, serverPkt) = "DATA" <=> ~ AtLastReply
      /\ AtLastReply => Prefix(reply, serverPkt) = reply
      /\ toClient[1].type = TypeOf(reply, serverPkt)
      /\ One(toClient)
  BY <1>1, ServersPacketIs
<1>3. CASE toClient[1].type = "DATA"
  BY <1>3 DEF Take, RepliesInOrder
<1>4. CASE toClient[1].type # "DATA"
  <2>1. buffer' = Reply[clientMsg]
    BY <1>2, <1>4 DEF Take
  <2>2. PICK line \in PrintedTexts(buffer', capacity') : printed' = Append(printed, line)
    BY <1>4 DEF Take
  <2>3. ClientType'
    <3>1. toClient[1] \in PacketSet
      <4>1. toClient # <<>> /\ Head(toClient) = toClient[1]
        BY <1>1, <1>2, Receiving DEF Empty
      <4> QED BY <4>1, ReceiveType DEF TypeInv, ChannelsType
    <3> QED BY <1>1, <3>1, TakeType
  <2>4. /\ buffer' \in Seq(Chars) /\ Len(buffer') \in Nat /\ Len(buffer') <= capacity'
        /\ \E j \in 0 .. Len(buffer') : capacity' = Room[j]
    BY <2>3, LenProperties DEF ClientType
  <2>5. 127 \in Chars
    BY DEF Chars
  <2>6. line \in Seq(Chars) /\ IsPrefix(Reply[clientMsg], line)
    <3>1. line \in {buffer', Append(buffer', 127)}
      BY <2>2 DEF PrintedTexts
    <3>2. Append(buffer', 127) \in Seq(Chars)
      BY <2>4, <2>5, AppendProperties
    <3>3. IsPrefix(buffer', buffer') /\ IsPrefix(buffer', Append(buffer', 127))
      BY <2>4, <2>5, PrefixOfItself
    <3> QED BY <2>1, <2>4, <3>1, <3>2, <3>3
  <2>7. \/ line = Reply[clientMsg]
        \/ \E j \in 0 .. Len(Reply[clientMsg]) : Len(Reply[clientMsg]) = Room[j]
    <3>1. CASE Len(buffer') < capacity'
      BY <2>1, <2>2, <3>1 DEF PrintedTexts
    <3>2. CASE ~ (Len(buffer') < capacity')
      <4>1. PICK j \in 0 .. Len(buffer') : capacity' = Room[j]
        BY <2>4
      <4>2. Room[j] \in Nat
        <5>1. j \in Nat
          BY <2>4
        <5> QED BY <5>1, Rooms
      <4>3. Len(buffer') = Room[j]
        BY <2>4, <3>2, <4>1, <4>2
      <4> QED BY <2>1, <4>1, <4>3
    <3> QED BY <3>1, <3>2
  <2>8. printed \in Seq(Seq(Chars)) /\ Len(printed) = clientMsg - 1 /\ Len(printed) \in Nat
    BY LenProperties DEF TypeInv, ClientType
  <2>9. clientMsg \in Int
    BY DEF TypeInv, ClientType
  <2>10. /\ printed' \in Seq(Seq(Chars)) /\ Len(printed') = Len(printed) + 1
         /\ \A k \in 1 .. Len(printed) : printed'[k] = printed[k]
         /\ printed'[Len(printed) + 1] = line
    BY <2>2, <2>6, <2>8, AppendProperties
  <2>11. DOMAIN printed' = 1 .. Len(printed') /\ DOMAIN printed = 1 .. Len(printed)
    BY <2>8, <2>10, LenProperties
  <2>12. printed'[clientMsg] = line
    BY <2>8, <2>9, <2>10
  <2>13. ASSUME NEW k \in DOMAIN printed'
         PROVE  /\ IsPrefix(Reply[k], printed'[k])
                /\ \/ printed'[k] = Reply[k]
                   \/ \E j \in 0 .. Len(Reply[k]) : Len(Reply[k]) = Room[j]
    <3>1. k \in DOMAIN printed \/ k = clientMsg
      BY <2>8, <2>9, <2>10, <2>11
    <3>2. CASE k = clientMsg
      BY <2>6, <2>7, <2>12, <3>2
    <3>3. CASE k \in DOMAIN printed
      <4>1. printed'[k] = printed[k]
        BY <2>10, <2>11, <3>3
      <4> QED BY <3>3, <4>1 DEF RepliesInOrder
    <3> QED BY <3>1, <3>2, <3>3
  <2> QED BY <2>13 DEF RepliesInOrder
<1> QED BY <1>3, <1>4

\* Whatever is corrupted and lost, the client prints the reply to its k-th
\* message as its k-th line, and whole; garbage is behind it at most when the
\* reply fills the buffer, that is when it is as long as some doubling of
\* MAX_PAYLOAD_LENGTH (rtp.c:181-222, client.c:58-66, prj7-server.py:89-114).
THEOREM PrintsRepliesInOrder == Spec => []RepliesInOrder
<1>1. Init => RepliesInOrder
  <2>1. DOMAIN <<>> = {}
    OBVIOUS
  <2> QED BY <2>1 DEF Init, RepliesInOrder
<1>2. TypeInv /\ InStep /\ Transfer /\ RepliesInOrder /\ [Next]_vars => RepliesInOrder'
  <2> SUFFICES ASSUME TypeInv, InStep, Transfer, RepliesInOrder, [Next]_vars
               PROVE  RepliesInOrder'
    OBVIOUS
  <2>1. CASE ClientReceive
    <3>1. /\ clientPc = "receive" /\ ~ Empty(toClient)
          /\ \/ Take(Head(toClient))
             \/ printed' = printed
      BY <2>1 DEF ClientReceive, Refuse, Empty
    <3>2. Head(toClient) = toClient[1]
      BY <3>1, ServersPacketIs, Receiving
    <3>3. CASE Take(toClient[1])
      BY <2>1, <3>3, TakeInOrder
    <3>4. CASE printed' = printed
      BY <3>4 DEF RepliesInOrder
    <3> QED BY <3>1, <3>2, <3>3, <3>4
  <2>2. CASE printed' = printed
    BY <2>2 DEF RepliesInOrder
  <2>3. [Next]_vars => ClientReceive \/ printed' = printed
    BY DEF Next, Client, Server, ClientSend, ClientResponse, ServerReceive, ServerReply,
           ServerResponse, Lose, vars, clientVars
  <2> QED BY <2>1, <2>2, <2>3
<1> QED BY TypeInvHolds, InStepHolds, TransferHolds, <1>1, <1>2, PTL DEF Spec
=============================================================================
