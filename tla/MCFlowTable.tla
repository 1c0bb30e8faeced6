----------------------------- MODULE MCFlowTable -----------------------------
(* Instances of FlowTable for TLC: both directions of a conversation between *)
(* two hosts, of one of a host with itself, and of the same ends over UDP.   *)
EXTENDS FlowTable

Id(src, srcPort, dst, dstPort, protocol) ==
    [srcIp |-> src, dstIp |-> dst, srcPort |-> srcPort, dstPort |-> dstPort,
     protocol |-> protocol]

MCFlowIds == {Id(1, 9, 2, 8, 6), Id(2, 8, 1, 9, 6),
              Id(1, 8, 1, 9, 6), Id(1, 9, 1, 8, 6),
              Id(1, 9, 2, 8, 17), Id(2, 8, 1, 9, 17)}

\* The two directions of one of them.
MCBothWays == {Id(1, 9, 2, 8, 6), Id(2, 8, 1, 9, 6)}

MCTimes == 0..3
==============================================================================
