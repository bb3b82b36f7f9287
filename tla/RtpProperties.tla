--------------------------- MODULE RtpProperties ----------------------------
(***************************************************************************)
(* What the transport protocol of Rtp must do.                             *)
(***************************************************************************)
EXTENDS Rtp

PacketTypes == {"DATA", "LAST_DATA", "ACK", "NACK"}

IsPacket(p) == /\ p.type \in PacketTypes
               /\ p.checksum \in Nat
               /\ p.payload \in Seq(Chars)
               /\ Len(p.payload) <= MaxPayload

\* The type invariant; a response has room in its buffer, which is never more
\* than twice as large as it has to be.
TypeOK ==
  /\ \A i \in DOMAIN toServer : IsPacket(toServer[i])
  /\ \A i \in DOMAIN toClient : IsPacket(toClient[i])
  /\ losses \in 0 .. MaxLosses
  /\ clientPc \in {"send", "awaitAck", "receive", "done"}
  /\ clientMsg \in 1 .. Len(Messages) + 1
  /\ clientPkt \in Nat \ {0}
  /\ buffer \in Seq(Chars) /\ Len(buffer) <= capacity
  /\ capacity = MaxPayload \/ capacity < 2 * Len(buffer)
  /\ printed \in Seq(Seq(Chars))
  /\ serverPc \in {"receive", "reply", "awaitAck", "exited"}
  /\ text \in Seq(Chars) /\ reply \in Seq(Chars)
  /\ serverPkt \in Nat \ {0}
  /\ serverPc \in {"reply", "awaitAck"} => serverPkt <= PacketCount(Len(reply))

Packets(m) == PacketCount(Len(Messages[m]))

\* What the server keeps of the first n packets of message m.
Pieces ==
  [m \in DOMAIN Messages |->
    LET pieces[n \in 0 .. Packets(m)] ==
          IF n = 0 THEN << >>
          ELSE pieces[n - 1] \o Strip(ClientPayload(Messages[m], n), Padding)
    IN  pieces]

\* The server's reply to the m-th message.
Reply == [m \in DOMAIN Messages |-> Piglatinize(Pieces[m][Packets(m)])]

Acknowledged == \E i \in DOMAIN toClient : toClient[i].type = "ACK"

\* Every packet that the client sends is added to the server's message once
\* and in order, however often it is refused and sent again: the message is
\* what the client knows to be there, and the packet at hand if it has been
\* accepted and the client has not heard of it.
StoredOnce ==
  serverPc = "receive" /\ clientPc \in {"send", "awaitAck"} =>
    \/ text = Pieces[clientMsg][clientPkt - 1] /\ ~Acknowledged
    \/ text = Pieces[clientMsg][clientPkt] /\ clientPc = "awaitAck"

\* The room for a response: MAX_PAYLOAD_LENGTH, doubled j times.
Room[j \in Nat] == IF j = 0 THEN MaxPayload ELSE 2 * Room[j - 1]

\* The client prints the reply to its k-th message as its k-th line, with
\* garbage behind it only when the reply fills the buffer to the last byte:
\* the buffer is a power of two times MAX_PAYLOAD_LENGTH characters long and
\* has no room for a NUL then.
RepliesInOrder ==
  \A k \in DOMAIN printed :
    /\ IsPrefix(Reply[k], printed[k])
    /\ \/ printed[k] = Reply[k]
       \/ \E j \in 0 .. Len(Reply[k]) : Len(Reply[k]) = Room[j]

\* The protocol stops and waits: at most two datagrams are on their way, and
\* two in one direction only where one side ends its turn with an answer
\* and begins another with a packet.
StopAndWait ==
  /\ Len(toServer) + Len(toClient) <= 2
  /\ \A channel \in {toServer, toClient} :
       Len(channel) = 2 => /\ channel[1].type = "ACK"
                           /\ channel[2].type \in {"DATA", "LAST_DATA"}

\* Whatever the corruption, all responses arrive if no datagram is lost;
\* nothing repairs a loss, as neither side waits with a timeout.
Completes == <>(clientPc = "done" \/ losses > 0)

\* rtp_send_message() has to "send a message" (rtp.c:132): when the server
\* replies, it has every character of the message but the NUL at its end.
MessageArrives ==
  serverPc = "reply" =>
    LET m == Messages[clientMsg] IN text = SubSeq(m, 1, Len(m) - 1)
=============================================================================
