----------------------------- MODULE PacketLink -----------------------------
(***************************************************************************)
(* What the transport of libssh2 promises to the layers above: a link that *)
(* hands over the packets of the peer whole, once and in order, takes the  *)
(* packets of the library whole, once and one at a time, and may stop for  *)
(* good.                                                                   *)
(***************************************************************************)
EXTENDS Naturals, Sequences

CONSTANTS Inbound,   \* packets the peer can send
          Outbound   \* packets the library can send

VARIABLES sent,      \* packets the peer has sent
          received,  \* number of them the library has been given
          written    \* packets the library has put on the wire

linkVars == <<sent, received, written>>

LinkInit == sent = <<>> /\ received = 0 /\ written = <<>>

\* The peer sends a packet.
PeerSend(m) == sent' = Append(sent, m) /\ UNCHANGED <<received, written>>

\* The library is given the next packet of the peer; it may answer it at once.
Receive ==
    /\ received < Len(sent)
    /\ received' = received + 1
    /\ \/ UNCHANGED written
       \/ \E m \in Outbound : written' = Append(written, m)
    /\ UNCHANGED sent

\* A packet of the library is on the wire to its last byte.
Write(m) == written' = Append(written, m) /\ UNCHANGED <<sent, received>>

LinkNext ==
    \/ \E m \in Inbound : PeerSend(m)
    \/ Receive
    \/ \E m \in Outbound : Write(m)

LinkSpec == LinkInit /\ [][LinkNext]_linkVars
=============================================================================
