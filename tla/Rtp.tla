--------------------------------- MODULE Rtp --------------------------------
(***************************************************************************)
(* The reliable transport protocol of project 7: client.c and rtp.c send   *)
(* messages to prj7-server.py, one packet at a time, and print the text    *)
(* the server makes of each.  The server is the one that corrupts packets: *)
(* it adds 13 to a checksum, of what it receives or of what it sends, with *)
(* the probability given on its command line.                              *)
(*                                                                         *)
(* A character is its ASCII code, a payload the characters that            *)
(* payload_length covers.  Nothing in the protocol waits with a timeout.   *)
(***************************************************************************)
EXTENDS Integers, Sequences, SequencesExt, FiniteSetsExt

CONSTANTS
  MaxPayload,           \* MAX_PAYLOAD_LENGTH: 10
  Messages,             \* messages[] of client.c, each with its final NUL
  MaxLosses             \* how many datagrams the network may lose

Chars == 0 .. 127
NUL   == 0
Space == 32
Dot   == 46

ASSUME MaxPayloadAssumption == MaxPayload \in Nat \ {0}
ASSUME MaxLossesAssumption  == MaxLosses \in Nat
ASSUME MessagesAssumption   == Messages \in Seq(Seq(Chars) \ {<< >>})

VARIABLES
  toServer, toClient,   \* the datagrams on their way
  losses,
  clientPc,
  clientMsg, clientPkt, \* the message and the packet being sent
  buffer, capacity,     \* the response: its characters, and the room for them
  printed,              \* what client.c printed as the responses
  serverPc,
  text, reply,          \* the server's message, and what it makes of it
  serverPkt             \* the packet of the reply being sent

clientVars == <<clientPc, clientMsg, clientPkt, buffer, capacity, printed>>
serverVars == <<serverPc, text, reply, serverPkt>>
vars == <<toServer, toClient, losses, clientVars, serverVars>>

-----------------------------------------------------------------------------
(* Packets.                                                                *)

\* checksum(): the sum of the characters.
Checksum(payload) ==
  LET tally[n \in 0 .. Len(payload)] ==
        IF n = 0 THEN 0 ELSE tally[n - 1] + payload[n]
  IN  tally[Len(payload)]

Packet(type, payload) ==
  [type |-> type, checksum |-> Checksum(payload), payload |-> payload]

Response(ok) == Packet(IF ok THEN "ACK" ELSE "NACK", << >>)

PacketCount(length) == (length + MaxPayload - 1) \div MaxPayload

Chunk(chars, k) == SubSeq(chars, (k - 1) * MaxPayload + 1,
                          Min({k * MaxPayload, Len(chars)}))

TypeOf(chars, k) == IF k = PacketCount(Len(chars)) THEN "LAST_DATA" ELSE "DATA"

\* packetize() of rtp.c: the last packet has a payload_length of the rest + 1,
\* a NUL from calloc() or, after a rest of 0, the first of its characters.
ClientPayload(chars, k) ==
  IF TypeOf(chars, k) = "DATA" THEN Chunk(chars, k)
  ELSE SubSeq(Append(Chunk(chars, k), NUL), 1, (Len(chars) % MaxPayload) + 1)

ClientPacket(chars, k) == Packet(TypeOf(chars, k), ClientPayload(chars, k))

\* packetize() of the server.
ServerPacket(chars, k) == Packet(TypeOf(chars, k), Chunk(chars, k))

-----------------------------------------------------------------------------
(* The server's text.                                                      *)

\* str.strip(): what is left between the first and the last character that is
\* not one of chars.
Strip(s, chars) ==
  LET kept == {i \in DOMAIN s : s[i] \notin chars} IN
  IF kept = {} THEN << >> ELSE SubSeq(s, Min(kept), Max(kept))

\* The characters of the Python literal '\0x00': a NUL, an x and a 0.
Padding == {NUL, 120, 48}

Vowels == {97, 101, 105, 111, 117, 121}
The    == <<116, 104, 101>>
Ay     == <<97, 121>>
Way    == <<119, 97, 121>>

MakePigLatin(word) ==
  LET vowels == {i \in DOMAIN word : word[i] \in Vowels}
      m      == Min(vowels \cup {Len(word) + 1})
  IN  IF Len(word) < 3 \/ word = The THEN word
      ELSE IF m = 1 THEN word \o Way
      ELSE SubSeq(word, m, Len(word)) \o SubSeq(word, 1, m - 1) \o Ay

AddWord(s, word) == s \o <<Space>> \o MakePigLatin(word)

\* What has been made of the words so far, and the word at hand.
AddChar(latin, char) ==
  IF char = Space THEN [done |-> AddWord(latin.done, latin.word), word |-> << >>]
  ELSE [latin EXCEPT !.word = Append(@, char)]

\* The words that str.split(' ') finds, each piglatinized, one behind the
\* other: a word ends at every space and at the end.
Piglatinize(message) ==
  LET chars == Append(Strip(message, {Dot}), Space)
      latin[n \in 0 .. Len(chars)] ==
        IF n = 0 THEN [done |-> << >>, word |-> << >>]
        ELSE AddChar(latin[n - 1], chars[n])
  IN  Append(Strip(latin[Len(chars)].done, {Space}), Dot)

-----------------------------------------------------------------------------
(* The client: main(), rtp_send_message() and rtp_receive_message().       *)

Init ==
  /\ toServer = << >> /\ toClient = << >> /\ losses = 0
  /\ clientPc = IF Messages = << >> THEN "done" ELSE "send"
  /\ clientMsg = 1 /\ clientPkt = 1
  /\ buffer = << >> /\ capacity = MaxPayload
  /\ printed = << >>
  /\ serverPc = "receive" /\ text = << >> /\ reply = << >> /\ serverPkt = 1

ClientSend ==
  /\ clientPc = "send"
  /\ toServer' = Append(toServer, ClientPacket(Messages[clientMsg], clientPkt))
  /\ clientPc' = "awaitAck"
  /\ UNCHANGED <<toClient, losses, clientMsg, clientPkt, buffer, capacity,
                 printed, serverVars>>

\* Mistake: a NACK is taken for an ACK.
ResendsNever(type) == FALSE

\* Any other response, even a DATA packet, moves the client on.
Resends(type) == type = "NACK"

ClientResponse ==
  /\ clientPc = "awaitAck" /\ toClient # << >>
  /\ toClient' = Tail(toClient)
  /\ IF Resends(Head(toClient).type)
     THEN clientPc' = "send" /\ UNCHANGED <<clientPkt, buffer, capacity>>
     ELSE IF clientPkt < PacketCount(Len(Messages[clientMsg]))
     THEN /\ clientPc' = "send" /\ clientPkt' = clientPkt + 1
          /\ UNCHANGED <<buffer, capacity>>
     ELSE /\ clientPc' = "receive" /\ clientPkt' = 1
          /\ buffer' = << >> /\ capacity' = MaxPayload
  /\ UNCHANGED <<toServer, losses, clientMsg, printed, serverVars>>

\* Mistake: the buffer never grows, so that it is full after one packet.
GrownNever(length) == capacity

\* resize_buffer(), for the one doubling that a packet can cause.
Grown(length) == IF length > capacity THEN 2 * capacity ELSE capacity

\* printf("%s") of a buffer with no room for a NUL goes on into the memory
\* behind it; 127 stands for whatever is found there.
PrintedTexts(chars, room) ==
  IF Len(chars) < room THEN {chars} ELSE {chars, Append(chars, 127)}

\* A packet is refused, or kept; the last one ends the message.
Take(p) ==
  /\ buffer' = buffer \o p.payload
  /\ capacity' = Grown(Len(buffer'))
  /\ toServer' = Append(toServer, Response(TRUE))
  /\ IF p.type = "DATA"
     THEN UNCHANGED <<clientPc, clientMsg, printed>>
     ELSE /\ \E line \in PrintedTexts(buffer', capacity') :
               printed' = Append(printed, line)
          /\ clientMsg' = clientMsg + 1
          /\ clientPc' = IF clientMsg < Len(Messages) THEN "send" ELSE "done"

Refuse == /\ toServer' = Append(toServer, Response(FALSE))
          /\ UNCHANGED <<buffer, capacity, clientPc, clientMsg, printed>>

ClientReceive ==
  /\ clientPc = "receive" /\ toClient # << >>
  /\ toClient' = Tail(toClient)
  /\ LET p == Head(toClient) IN
     IF p.type \notin {"DATA", "LAST_DATA"}
     THEN UNCHANGED <<toServer, buffer, capacity, clientPc, clientMsg, printed>>
     ELSE IF p.checksum = Checksum(p.payload) THEN Take(p) ELSE Refuse
  /\ UNCHANGED <<losses, clientPkt, serverVars>>

-----------------------------------------------------------------------------
(* The server: runServer().                                                *)

Corrupt(p, corrupt) == IF corrupt THEN [p EXCEPT !.checksum = @ + 13] ELSE p

\* Mistake: the payload of a refused packet is kept.
KeptAlways(p, ok) == Strip(p.payload, Padding)

Kept(p, ok) == IF ok THEN Strip(p.payload, Padding) ELSE << >>

\* A packet is answered by an ACK or a NACK; the last one ends the message.
ServerTake(p, ok) ==
  /\ toClient' = Append(toClient, Response(ok))
  /\ \E message \in {text \o Kept(p, ok)} :
       /\ text' = message
       /\ IF p.type = "LAST_DATA" /\ ok
          THEN serverPc' = "reply" /\ reply' = Piglatinize(message)
          ELSE UNCHANGED <<serverPc, reply>>

ServerReceive(corrupt) ==
  /\ serverPc = "receive" /\ toServer # << >>
  /\ toServer' = Tail(toServer)
  /\ \E p \in {Corrupt(Head(toServer), corrupt)} :
       IF p.type \in {"DATA", "LAST_DATA"}
       THEN ServerTake(p, p.checksum = Checksum(p.payload))
       ELSE serverPc' = "exited" /\ UNCHANGED <<text, reply, toClient>>
  /\ UNCHANGED <<losses, clientVars, serverPkt>>

\* The server is done with a message and waits for the next one.
NextMessage == /\ serverPc' = "receive" /\ serverPkt' = 1
               /\ text' = << >> /\ reply' = << >>

\* Mistake: the server sends its packets without waiting for an answer.
ServerReplyNoWait(corrupt) ==
  /\ serverPc = "reply"
  /\ toClient' = Append(toClient,
                        Corrupt(ServerPacket(reply, serverPkt), corrupt))
  /\ IF serverPkt < PacketCount(Len(reply))
     THEN serverPkt' = serverPkt + 1 /\ UNCHANGED <<serverPc, text, reply>>
     ELSE NextMessage
  /\ UNCHANGED <<toServer, losses, clientVars>>

ServerReply(corrupt) ==
  /\ serverPc = "reply"
  /\ toClient' = Append(toClient,
                        Corrupt(ServerPacket(reply, serverPkt), corrupt))
  /\ serverPc' = "awaitAck"
  /\ UNCHANGED <<toServer, losses, clientVars, text, reply, serverPkt>>

ServerResponse ==
  /\ serverPc = "awaitAck" /\ toServer # << >>
  /\ toServer' = Tail(toServer)
  /\ LET type == Head(toServer).type IN
     IF type \notin {"ACK", "NACK"}
     THEN serverPc' = "exited" /\ UNCHANGED <<text, reply, serverPkt>>
     ELSE IF type = "NACK"
     THEN serverPc' = "reply" /\ UNCHANGED <<text, reply, serverPkt>>
     ELSE IF serverPkt < PacketCount(Len(reply))
     THEN serverPc' = "reply" /\ serverPkt' = serverPkt + 1
          /\ UNCHANGED <<text, reply>>
     ELSE NextMessage
  /\ UNCHANGED <<toClient, losses, clientVars>>

-----------------------------------------------------------------------------
\* The network loses a datagram.
Lose ==
  /\ losses < MaxLosses
  /\ losses' = losses + 1
  /\ \/ /\ \E i \in DOMAIN toServer : toServer' = RemoveAt(toServer, i)
        /\ UNCHANGED toClient
     \/ /\ \E i \in DOMAIN toClient : toClient' = RemoveAt(toClient, i)
        /\ UNCHANGED toServer
  /\ UNCHANGED <<clientVars, serverVars>>

Client == ClientSend \/ ClientResponse \/ ClientReceive

Server == \/ \E corrupt \in BOOLEAN : \/ ServerReceive(corrupt)
                                      \/ ServerReply(corrupt)
          \/ ServerResponse

Next == Client \/ Server \/ Lose

Spec == Init /\ [][Next]_vars

\* Both programs go on when they can, and a packet that is sent again and
\* again is not corrupted every time: each one is with a probability below 1.
Fairness == /\ WF_vars(Client) /\ WF_vars(Server)
            /\ SF_vars(ServerReceive(FALSE)) /\ SF_vars(ServerReply(FALSE))

FairSpec == Spec /\ Fairness
=============================================================================
