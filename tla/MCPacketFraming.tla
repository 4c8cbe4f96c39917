-------------------------- MODULE MCPacketFraming --------------------------
(* The instance of PacketFraming for TLC.                                  *)
EXTENDS PacketFraming

\* Too long, too short, no multiple of any block, empty payloads of both
\* alignments, and padding that is 0 or longer than the packet.
Headers == { <<1048592, 4>>, <<4, 4>>, <<21, 4>>, <<12, 11>>, <<16, 15>>,
             <<28, 0>>, <<32, 200>> }
=============================================================================
