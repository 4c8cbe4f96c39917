----------------------------- MODULE GatedOutput ----------------------------
(***************************************************************************)
(* What HoneyPotSSHTransport promises those who call sendPacket with a     *)
(* message that may not be sent during a key exchange: a gate, open or     *)
(* closed, behind which messages wait.  A message is known by the position *)
(* in which it was submitted.  Nothing passes while the gate is closed,    *)
(* opening it lets everything out, and nothing is lost or sent twice.      *)
(***************************************************************************)
EXTENDS Naturals

VARIABLES open,        \* no key exchange is under way
          submitted,   \* messages submitted so far
          waiting,     \* those held back
          delivered    \* those written

gateVars == <<open, submitted, waiting, delivered>>

GateInit ==
  /\ open = TRUE /\ submitted = 0 /\ waiting = {} /\ delivered = {}

Submit ==
  /\ submitted' = submitted + 1
  /\ IF open
     THEN delivered' = delivered \cup {submitted'} /\ UNCHANGED waiting
     ELSE waiting' = waiting \cup {submitted'} /\ UNCHANGED delivered
  /\ UNCHANGED open

Close ==
  /\ open /\ open' = FALSE
  /\ UNCHANGED <<submitted, waiting, delivered>>

Open ==
  /\ ~open /\ open' = TRUE
  /\ delivered' = delivered \cup waiting /\ waiting' = {}
  /\ UNCHANGED submitted

GateNext == Submit \/ Close \/ Open

GateSpec == GateInit /\ [][GateNext]_gateVars

\* Every submitted message either waits or was delivered, never both; those
\* that wait came after those delivered; none waits before an open gate.
GateInv ==
  /\ submitted \in Nat
  /\ delivered \cup waiting = 1..submitted
  /\ \A d \in delivered, w \in waiting : d < w
  /\ open => waiting = {}
=============================================================================
