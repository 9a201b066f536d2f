----------------------------- MODULE MCPacketIO -----------------------------
\* Two flows that come in on different Rx queues, and one EM queue for both.
EXTENDS PacketIO, TLC

MCRxOf == [f \in Flows |-> IF f = "web" THEN "rx0" ELSE "rx1"]
=============================================================================
