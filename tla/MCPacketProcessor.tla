-------------------------- MODULE MCPacketProcessor --------------------------
(* Instances of PacketProcessor for TLC.                                   *)
EXTENDS PacketProcessor, TLC

CONSTANTS main, feeder, p1, p2, p3

MCClients == {main, feeder}
TwoPackets == {p1, p2}
ThreePackets == {p1, p2, p3}
OneMalformed == {p2}

\* Under FlowPinned all packets belong to one flow, at the first worker.
MCHash == [p \in Packets |-> 0]

\* One thread owns the processor, another one only feeds it, and the handler
\* may submit packets of its own.
OwnerOps == [c \in Callers |->
    CASE c = main   -> OpNames
      [] c = feeder -> {"submit"}
      [] OTHER      -> {"submit"}]

\* The owner shares the control of the processor: another thread may stop or
\* flush it at any time, and the handler may stop or flush it from a worker thread.
SharedOps == [c \in Callers |->
    CASE c = main   -> OpNames \ {"flush"}
      [] c = feeder -> {"stop", "flush"}
      [] OTHER      -> {"stop", "flush"}]

\* The well-formed packets are interchangeable.
Symmetry == Permutations(Packets \ Malformed)
=============================================================================
