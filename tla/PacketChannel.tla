---------------------------- MODULE PacketChannel ----------------------------
(***************************************************************************)
(* What a connection promises to those who call sendPacket at one end and  *)
(* receivePacket at the other, and what the other modules take a           *)
(* connection for: the packets that were begun arrive as a whole and in    *)
(* order, and none after the receiver has found that the connection is at  *)
(* its end, which it does not before the sender has closed it.  Only if    *)
(* several threads send may packets be mixed, and then anything arrives.   *)
(***************************************************************************)
EXTENDS Naturals, Sequences

CONSTANTS Payloads, Shared   \* Shared: several threads send

VARIABLES
  sent,      \* the packets begun
  received,  \* the packets that receivePacket has returned
  mixed,     \* bytes of two packets were mixed
  state      \* "open", "closed", or "ended" for the receiver

channelVars == <<sent, received, mixed, state>>

ChannelInit ==
  /\ sent = << >> /\ received = << >>
  /\ mixed = FALSE
  /\ state = "open"

MayMix == mixed' \in {mixed, mixed \/ Shared}

Begin(p) ==
  /\ state = "open"
  /\ sent' = Append(sent, p)
  /\ MayMix
  /\ UNCHANGED <<received, state>>

GoOn ==
  /\ state = "open"
  /\ MayMix
  /\ UNCHANGED <<sent, received, state>>

Deliver ==
  /\ state # "ended" /\ ~mixed
  /\ Len(received) < Len(sent)
  /\ received' = Append(received, sent[Len(received) + 1])
  /\ UNCHANGED <<sent, mixed, state>>

DeliverMixed ==
  /\ state # "ended" /\ mixed
  /\ Len(received') = Len(received) + 1
  /\ received' = Append(received, received'[Len(received) + 1])
  /\ UNCHANGED <<sent, mixed, state>>

Close ==
  /\ state = "open" /\ state' = "closed"
  /\ UNCHANGED <<sent, received, mixed>>

End ==
  /\ state = "closed" /\ state' = "ended"
  /\ UNCHANGED <<sent, received, mixed>>

ChannelNext ==
  \/ \E p \in Payloads : Begin(p)
  \/ GoOn \/ Deliver \/ DeliverMixed \/ Close \/ End

ChannelSpec == ChannelInit /\ [][ChannelNext]_channelVars
=============================================================================
