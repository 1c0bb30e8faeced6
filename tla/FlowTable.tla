------------------------------ MODULE FlowTable ------------------------------
(***************************************************************************)
(* The table of conversations (src/src/flow_table.cpp): update() counts a  *)
(* packet of either direction in one entry and evicts when the table is    *)
(* full, cleanupExpired() drops idle entries. Every operation holds the    *)
(* table's mutex, so each is one step.                                     *)
(*                                                                         *)
(* byteCount goes the way of packetCount and is left out, as is            *)
(* detectedProtocol, which nothing sets.                                   *)
(***************************************************************************)
EXTENDS Integers, Sequences, FiniteSets

CONSTANTS
    FlowIds,      \* the flow ids packets carry; an address is a number, in the
                  \* order of operator<
    MaxFlows,     \* FlowTableConfig::maxFlows
    FlowTimeout,  \* FlowTableConfig::flowTimeout
    Timestamps,   \* the timestamps packets carry, and the times of a cleanup
    InOrder,      \* TRUE if no packet or cleanup is older than one before it
    MaxPackets    \* bound on the packets of a behaviour

FlowId == [srcIp : Nat, dstIp : Nat, srcPort : Nat, dstPort : Nat, protocol : Nat]

\* A table that may hold nothing evicts from an empty map, which has no meaning in C++.
ASSUME FlowTableAssumption ==
    /\ FlowIds \subseteq FlowId
    /\ Timestamps \subseteq Nat
    /\ MaxFlows \in Nat \ {0}
    /\ FlowTimeout \in Nat
    /\ InOrder \in BOOLEAN
    /\ MaxPackets \in Nat

FlowMetadata == [firstSeen : Timestamps, lastSeen : Timestamps, packetCount : Nat]

\* The conversation a flow id belongs to, whichever its direction.
Conversation(id) ==
    [ends |-> {<<id.srcIp, id.srcPort>>, <<id.dstIp, id.dstPort>>}, protocol |-> id.protocol]

Conversations == {Conversation(id) : id \in FlowIds}

VARIABLES
    mFlows,   \* FlowTable::mFlows, a function from the ids in the table
    arrived,  \* history: the timestamps of each conversation's packets
    clock,    \* history: the newest time any call was made with
    packets,  \* history: how many packets there were
    latest    \* history: the flow id of the latest packet, if there was one: a set

vars == <<mFlows, arrived, clock, packets, latest>>

Init ==
    /\ mFlows = <<>>
    /\ arrived = [c \in Conversations |-> <<>>]
    /\ clock = 0
    /\ packets = 0
    /\ latest = {}

-----------------------------------------------------------------------------

Reverse(id) == [id EXCEPT !.srcIp = id.dstIp, !.dstIp = id.srcIp,
                          !.srcPort = id.dstPort, !.dstPort = id.srcPort]

\* Mutant of ShouldSwap: the ports do not break the tie of equal addresses.
ShouldSwapByIp(id) == id.srcIp > id.dstIp

ShouldSwap(id) ==
    \/ id.srcIp > id.dstIp
    \/ id.srcIp = id.dstIp /\ id.srcPort > id.dstPort

\* Mutant of Normalize: each direction keeps its own flow id.
NormalizeNothing(id) == id

Normalize(id) == IF ShouldSwap(id) THEN Reverse(id) ELSE id

\* Mutant of Oldest: the flow that began first, rather than the idlest one.
OldestByBirth == {id \in DOMAIN mFlows :
                     \A other \in DOMAIN mFlows : mFlows[id].firstSeen <= mFlows[other].firstSeen}

\* The entries the eviction may pick: the first of the idlest ones in the order
\* of the hash table's iteration, which is any of them.
Oldest == {id \in DOMAIN mFlows :
              \A other \in DOMAIN mFlows : mFlows[id].lastSeen <= mFlows[other].lastSeen}

Without(ids) == [id \in DOMAIN mFlows \ ids |-> mFlows[id]]

With(table, id, meta) == [i \in DOMAIN table \cup {id} |-> IF i = id THEN meta ELSE table[i]]

Created(ts) == [firstSeen |-> ts, lastSeen |-> ts, packetCount |-> 1]

\* Mutant of Updated: the count is that of the packets before this one.
UpdatedUncounted(meta, ts) == [meta EXCEPT !.lastSeen = ts]

Updated(meta, ts) == [firstSeen |-> meta.firstSeen, lastSeen |-> ts,
                      packetCount |-> meta.packetCount + 1]

\* Mutant of Full: room for one more than maxFlows.
FullBeyond == Cardinality(DOMAIN mFlows) > MaxFlows

Full == Cardinality(DOMAIN mFlows) >= MaxFlows

Insert(id, ts) ==
    \E evicted \in IF Full THEN {{o} : o \in Oldest} ELSE {{}} :
        mFlows' = With(Without(evicted), id, Created(ts))

\* Time as the caller sees it.
Tick(ts) ==
    /\ InOrder => ts >= clock
    /\ clock' = IF ts > clock THEN ts ELSE clock

update(packetId, ts) ==
    /\ packets < MaxPackets
    /\ packets' = packets + 1
    /\ latest' = {packetId}
    /\ Tick(ts)
    /\ LET id == Normalize(packetId)
       IN  IF id \in DOMAIN mFlows
           THEN mFlows' = [mFlows EXCEPT ![id] = Updated(@, ts)]
           ELSE Insert(id, ts)
    /\ arrived' = [arrived EXCEPT ![Conversation(packetId)] = Append(@, ts)]

\* Mutant of Expired: an entry expires one unit early.
ExpiredEarly(id, now) ==
    /\ now > mFlows[id].lastSeen
    /\ now - mFlows[id].lastSeen >= FlowTimeout

Expired(id, now) ==
    /\ now > mFlows[id].lastSeen
    /\ now - mFlows[id].lastSeen > FlowTimeout

cleanupExpired(now) ==
    /\ Tick(now)
    /\ mFlows' = Without({id \in DOMAIN mFlows : Expired(id, now)})
    /\ UNCHANGED <<arrived, packets, latest>>

\* lookup() finds exactly the ids in the table; it does not normalize its argument.
lookup(id) == id \in DOMAIN mFlows

Next ==
    \/ \E id \in FlowIds, ts \in Timestamps : update(id, ts)
    \/ \E now \in Timestamps : cleanupExpired(now)

Spec == Init /\ [][Next]_vars

-----------------------------------------------------------------------------

\* Every variable has its type.
TypeOK ==
    \* every entry is kept under the normal form of its conversation's flow ids
    /\ mFlows \in [DOMAIN mFlows -> FlowMetadata]
    /\ \A id \in DOMAIN mFlows :
         id \in FlowId /\ ~ShouldSwap(id) /\ Conversation(id) \in Conversations
    /\ arrived \in [Conversations -> Seq(Timestamps)]
    /\ clock \in Nat
    /\ packets \in 0..MaxPackets
    /\ latest \subseteq FlowIds

Tracked == {Conversation(id) : id \in DOMAIN mFlows}

\* The two directions of a conversation share one entry, whatever the order of
\* their addresses and ports, and an entry describes its conversation's latest
\* packets: as many as it counts, from the first it saw to the last.
DescribesConversation ==
    /\ \A id, other \in DOMAIN mFlows : Conversation(id) = Conversation(other) => id = other
    /\ \A id \in DOMAIN mFlows :
         LET meta == mFlows[id]
             all == arrived[Conversation(id)]
         IN  /\ meta.packetCount \in 1..Len(all)
             /\ meta.lastSeen = all[Len(all)]
             /\ meta.firstSeen = all[Len(all) - meta.packetCount + 1]

\* The table never holds more than maxFlows conversations.
WithinCapacity == Cardinality(DOMAIN mFlows) <= MaxFlows

\* When a conversation last had a packet.
LastActive(c) == arrived[c][Len(arrived[c])]

\* With timestamps in order, an update never drops a conversation that had a packet
\* more recently than one it keeps, nor the conversation of its own packet; and a
\* cleanup drops exactly those that had no packet for longer than flowTimeout.
KeepsTheActive ==
    [][/\ arrived' # arrived =>
            \A gone \in Tracked \ Tracked', kept \in Tracked' :
                /\ arrived'[gone] = arrived[gone]
                /\ LastActive(gone) <= LastActive(kept)'
       /\ arrived' = arrived =>
            \A c \in Tracked : c \in Tracked' <=> clock' - LastActive(c) <= FlowTimeout]_vars

\* The latest packet's own flow id finds the entry it was counted in, right after the
\* update and as long as its conversation is tracked.
FindsOwnFlow == \A id \in latest : Conversation(id) \in Tracked => lookup(id)
==============================================================================
