---------------------------- MODULE WholePackets ----------------------------
(***************************************************************************)
(* What a reader of packets promises: every packet is treated as if it had *)
(* arrived in one piece.  The packets are handled in order, each by itself,*)
(* and the first unacceptable one ends the reading.                        *)
(***************************************************************************)
EXTENDS Integers, Sequences

CONSTANTS
  Judge(_),     \* "open" for an acceptable packet, else the reason to refuse it
  Payload(_)    \* what an acceptable packet carries

VARIABLES
  sent,         \* the packets the peer has sent
  handled,      \* payloads handled
  verdict       \* "open", or why the reading has ended

WholeInit == sent = << >> /\ handled = << >> /\ verdict = "open"

Send == /\ Len(sent') = Len(sent) + 1
        /\ \A i \in 1..Len(sent) : sent'[i] = sent[i]
        /\ UNCHANGED <<handled, verdict>>

Handle ==
  /\ verdict = "open" /\ Len(handled) < Len(sent)
  /\ LET p == sent[Len(handled) + 1]
     IN /\ verdict' = Judge(p)
        /\ handled' = IF Judge(p) = "open" THEN Append(handled, Payload(p))
                      ELSE handled
  /\ UNCHANGED sent

WholeSpec == WholeInit /\ [][Send \/ Handle]_<<sent, handled, verdict>>
=============================================================================
