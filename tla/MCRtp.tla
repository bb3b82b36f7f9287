------------------------------- MODULE MCRtp --------------------------------
(***************************************************************************)
(* Small instances of Rtp for TLC.                                         *)
(***************************************************************************)
EXTENDS RtpProperties

\* "at x0" arrives as "at ": its NUL makes it fill two packets, so that only
\* the x of the second one is sent, which strip() takes away; the reply "at."
\* fills one packet and the buffer.  "tip." leaves a rest of 2, and the reply
\* "iptay." fills two packets and the buffer.  "to the" leaves a rest of 1, and
\* the reply "to the." fills neither.
MCMessages ==
  << << 97, 116, 32, 120, 48, 0 >>,
     << 116, 105, 112, 46, 0 >>,
     << 116, 111, 32, 116, 104, 101, 0 >> >>

\* A message that fills its last packet: "up", with its NUL.
MCFullPacket == << << 117, 112, 0 >> >>
=============================================================================
