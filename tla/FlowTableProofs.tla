--------------------------- MODULE FlowTableProofs ---------------------------
(***************************************************************************)
(* What holds of FlowTable for every set of flow ids, every capacity and   *)
(* every timeout.                                                          *)
(***************************************************************************)
EXTENDS FlowTable, TLAPS, FiniteSetTheorems

\* Flow ids in normal form tell conversations apart.
LEMMA NormalFormsDiffer ==
    ASSUME NEW i \in FlowId, NEW j \in FlowId,
           ~ShouldSwap(i), ~ShouldSwap(j), Conversation(i) = Conversation(j)
    PROVE  i = j
<1>1. /\ {<<i.srcIp, i.srcPort>>, <<i.dstIp, i.dstPort>>}
             = {<<j.srcIp, j.srcPort>>, <<j.dstIp, j.dstPort>>}
      /\ i.protocol = j.protocol
  BY DEF Conversation
<1>2. CASE <<i.srcIp, i.srcPort>> = <<j.srcIp, j.srcPort>>
           /\ <<i.dstIp, i.dstPort>> = <<j.dstIp, j.dstPort>>
  BY <1>1, <1>2 DEF FlowId
<1>3. CASE <<i.srcIp, i.srcPort>> = <<j.dstIp, j.dstPort>>
           /\ <<i.dstIp, i.dstPort>> = <<j.srcIp, j.srcPort>>
  <2>1. /\ i.srcIp = j.dstIp /\ i.srcPort = j.dstPort
        /\ i.dstIp = j.srcIp /\ i.dstPort = j.srcPort
    BY <1>3
  <2>2. i.srcIp = i.dstIp /\ i.srcPort = i.dstPort
    BY <2>1 DEF ShouldSwap, FlowId
  <2>3. /\ i.srcIp = j.srcIp /\ i.srcPort = j.srcPort
        /\ i.dstIp = j.dstIp /\ i.dstPort = j.dstPort
    BY <2>1, <2>2
  <2> QED
    BY <1>1, <2>3 DEF FlowId
<1> QED
  BY <1>1, <1>2, <1>3, Zenon

\* normalize() answers a flow id in normal form, of the same conversation.
LEMMA NormalizeIsNormal ==
    ASSUME NEW id \in FlowId
    PROVE  /\ Normalize(id) \in FlowId
           /\ ~ShouldSwap(Normalize(id))
           /\ Conversation(Normalize(id)) = Conversation(id)
<1>1. CASE ShouldSwap(id)
  <2>1. Normalize(id) = [srcIp |-> id.dstIp, dstIp |-> id.srcIp, srcPort |-> id.dstPort,
                         dstPort |-> id.srcPort, protocol |-> id.protocol]
    BY <1>1 DEF Normalize, Reverse, FlowId
  <2>2. Normalize(id) \in FlowId
    BY <2>1 DEF FlowId
  <2>3. ~ShouldSwap(Normalize(id))
    BY <1>1, <2>1 DEF ShouldSwap, FlowId
  <2>4. Conversation(Normalize(id)) = Conversation(id)
    BY <2>1 DEF Conversation
  <2> QED
    BY <2>2, <2>3, <2>4
<1>2. CASE ~ShouldSwap(id)
  BY <1>2 DEF Normalize
<1> QED
  BY <1>1, <1>2

-----------------------------------------------------------------------------

\* The steps of update, for a packet of an entry that exists and for another one.
LEMMA UpdateCases ==
    ASSUME NEW packetId, NEW ts, update(packetId, ts)
    PROVE  \/ /\ Normalize(packetId) \in DOMAIN mFlows
              /\ mFlows' = [mFlows EXCEPT ![Normalize(packetId)] = Updated(@, ts)]
           \/ /\ Normalize(packetId) \notin DOMAIN mFlows
              /\ \E evicted \in SUBSET DOMAIN mFlows :
                   /\ Full => \E o \in DOMAIN mFlows : evicted = {o}
                   /\ mFlows' = With(Without(evicted), Normalize(packetId), Created(ts))
  BY DEF update, Insert, Oldest

\* The table is finite, as far as its capacity: what keeps it from growing.
Finite == IsFiniteSet(DOMAIN mFlows) /\ Cardinality(DOMAIN mFlows) <= MaxFlows

\* The table never holds more than maxFlows conversations, for every maxFlows.
THEOREM CapacityCorrect == Spec => []WithinCapacity
<1>1. Init => Finite
  BY FS_EmptySet, FlowTableAssumption DEF Init, Finite
<1>2. Finite /\ [Next]_vars => Finite'
  <2> SUFFICES ASSUME Finite, [Next]_vars PROVE Finite'
    OBVIOUS
  <2>1. ASSUME NEW packetId \in FlowIds, NEW ts \in Timestamps, update(packetId, ts)
        PROVE  Finite'
    <3> DEFINE id == Normalize(packetId)
    <3>1. CASE id \in DOMAIN mFlows /\ mFlows' = [mFlows EXCEPT ![id] = Updated(@, ts)]
      BY <3>1 DEF Finite
    <3>2. CASE /\ id \notin DOMAIN mFlows
               /\ \E evicted \in SUBSET DOMAIN mFlows :
                    /\ Full => \E o \in DOMAIN mFlows : evicted = {o}
                    /\ mFlows' = With(Without(evicted), id, Created(ts))
      <4>1. PICK evicted \in SUBSET DOMAIN mFlows :
                /\ Full => \E o \in DOMAIN mFlows : evicted = {o}
                /\ mFlows' = With(Without(evicted), id, Created(ts))
        BY <3>2
      <4> DEFINE rest == DOMAIN mFlows \ evicted
      <4>2. DOMAIN mFlows' = rest \cup {id}
        BY <4>1 DEF With, Without
      <4>3. IsFiniteSet(rest) /\ Cardinality(rest) <= Cardinality(DOMAIN mFlows)
        BY FS_Subset DEF Finite
      <4>4. Cardinality(rest) < MaxFlows
        <5>1. CASE Full
          <6>1. PICK o \in DOMAIN mFlows : evicted = {o}
            BY <4>1, <5>1
          <6>2. Cardinality(rest) = Cardinality(DOMAIN mFlows) - 1
            BY <6>1, FS_RemoveElement DEF Finite
          <6> QED
            BY <6>2, FS_CardinalityType, FlowTableAssumption DEF Finite
        <5>2. CASE ~Full
          BY <4>3, <5>2, FS_CardinalityType, FlowTableAssumption DEF Full, Finite
        <5> QED
          BY <5>1, <5>2
      <4>5. IsFiniteSet(rest \cup {id}) /\ Cardinality(rest \cup {id}) = Cardinality(rest) + 1
        BY <3>2, <4>3, FS_AddElement
      <4> QED
        BY <4>2, <4>3, <4>4, <4>5, FS_CardinalityType, FlowTableAssumption DEF Finite
    <3> QED
      BY <2>1, <3>1, <3>2, UpdateCases
  <2>2. ASSUME NEW now \in Timestamps, cleanupExpired(now)
        PROVE  Finite'
    <3>1. DOMAIN mFlows' \subseteq DOMAIN mFlows
      BY <2>2 DEF cleanupExpired, Without
    <3> QED
      BY <3>1, FS_Subset, FS_CardinalityType, FlowTableAssumption DEF Finite
  <2>3. CASE UNCHANGED vars
    BY <2>3 DEF vars, Finite
  <2> QED
    BY <2>1, <2>2, <2>3 DEF Next
<1>3. Finite => WithinCapacity
  BY DEF Finite, WithinCapacity
<1> QED
  BY <1>1, <1>2, <1>3, PTL DEF Spec

-----------------------------------------------------------------------------

\* What update makes of the table, entry by entry: its own entry counts one packet
\* more or begins with it, the others stay or go.
LEMMA UpdateEntries ==
    ASSUME NEW packetId \in FlowIds, NEW ts \in Timestamps, TypeOK, update(packetId, ts)
    PROVE  LET id == Normalize(packetId)
           IN  /\ mFlows' \in [DOMAIN mFlows' -> FlowMetadata]
               /\ DOMAIN mFlows' \subseteq DOMAIN mFlows \cup {id}
               /\ \A i \in DOMAIN mFlows' \ {id} : mFlows'[i] = mFlows[i]
               /\ id \in DOMAIN mFlows => mFlows'[id] = Updated(mFlows[id], ts)
               /\ id \notin DOMAIN mFlows => mFlows'[id] = Created(ts)
<1> DEFINE id == Normalize(packetId)
<1>1. CASE id \in DOMAIN mFlows /\ mFlows' = [mFlows EXCEPT ![id] = Updated(@, ts)]
  <2>1. mFlows[id] \in FlowMetadata
    BY <1>1 DEF TypeOK
  <2>2. Updated(mFlows[id], ts) \in FlowMetadata
    BY <2>1 DEF Updated, FlowMetadata
  <2>3. mFlows' \in [DOMAIN mFlows -> FlowMetadata]
    BY <1>1, <2>2 DEF TypeOK
  <2> QED
    BY <1>1, <2>3 DEF TypeOK
<1>2. CASE /\ id \notin DOMAIN mFlows
           /\ \E evicted \in SUBSET DOMAIN mFlows :
                /\ Full => \E o \in DOMAIN mFlows : evicted = {o}
                /\ mFlows' = With(Without(evicted), id, Created(ts))
  <2>1. PICK evicted \in SUBSET DOMAIN mFlows : mFlows' = With(Without(evicted), id, Created(ts))
    BY <1>2
  <2>2. mFlows' = [i \in (DOMAIN mFlows \ evicted) \cup {id} |->
                      IF i = id THEN Created(ts) ELSE mFlows[i]]
    BY <1>2, <2>1 DEF With, Without
  <2>3. Created(ts) \in FlowMetadata
    BY DEF Created, FlowMetadata
  <2> QED
    BY <1>2, <2>2, <2>3 DEF TypeOK
<1> QED
  BY <1>1, <1>2, UpdateCases

\* A cleanup changes no entry that stays.
LEMMA CleanupEntries ==
    ASSUME NEW now \in Timestamps, TypeOK, cleanupExpired(now)
    PROVE  /\ mFlows' \in [DOMAIN mFlows' -> FlowMetadata]
           /\ DOMAIN mFlows' \subseteq DOMAIN mFlows
           /\ \A i \in DOMAIN mFlows' : mFlows'[i] = mFlows[i]
  BY DEF cleanupExpired, Without, TypeOK

\* The type invariant holds initially, and every step keeps it.
LEMMA TypeInvariant == (Init => TypeOK) /\ (TypeOK /\ [Next]_vars => TypeOK')
<1>1. Init => TypeOK
  BY FlowTableAssumption DEF Init, TypeOK
<1>2. ASSUME TypeOK, NEW packetId \in FlowIds, NEW ts \in Timestamps, update(packetId, ts)
      PROVE  TypeOK'
  <2>1. packetId \in FlowId /\ ts \in Nat
    BY FlowTableAssumption
  <2>2. Conversation(packetId) \in Conversations
    BY DEF Conversations
  <2>3. Conversation(Normalize(packetId)) \in Conversations
    BY <2>1, <2>2, NormalizeIsNormal
  <2>4. (mFlows \in [DOMAIN mFlows -> FlowMetadata])'
    BY <1>2, UpdateEntries
  <2>5. \A i \in DOMAIN mFlows' : i \in FlowId /\ ~ShouldSwap(i) /\ Conversation(i) \in Conversations
    BY <1>2, <2>1, <2>3, UpdateEntries, NormalizeIsNormal DEF TypeOK
  <2>6. (arrived \in [Conversations -> Seq(Timestamps)])'
    BY <1>2, <2>2 DEF TypeOK, update
  <2>7. clock' \in Nat /\ packets' \in 0..MaxPackets /\ latest' \subseteq FlowIds
    BY <1>2, <2>1, FlowTableAssumption DEF TypeOK, update, Tick
  <2> QED
    BY <2>4, <2>5, <2>6, <2>7 DEF TypeOK
<1>3. ASSUME TypeOK, NEW now \in Timestamps, cleanupExpired(now)
      PROVE  TypeOK'
  <2>1. \A i \in DOMAIN mFlows' : i \in FlowId /\ ~ShouldSwap(i) /\ Conversation(i) \in Conversations
    BY <1>3, CleanupEntries DEF TypeOK
  <2>2. (mFlows \in [DOMAIN mFlows -> FlowMetadata])'
    BY <1>3, CleanupEntries
  <2>3. clock' \in Nat /\ UNCHANGED <<arrived, packets, latest>>
    BY <1>3, FlowTableAssumption DEF TypeOK, cleanupExpired, Tick
  <2> QED
    BY <1>3, <2>1, <2>2, <2>3 DEF TypeOK
<1>4. ASSUME TypeOK, UNCHANGED vars
      PROVE  TypeOK'
  BY <1>4 DEF TypeOK, vars
<1> QED
  BY <1>1, <1>2, <1>3, <1>4 DEF Next

\* Every variable keeps its type, and every entry is kept under a flow id in normal form.
THEOREM TypeCorrect == Spec => []TypeOK
  BY TypeInvariant, PTL DEF Spec

\* The two directions of a conversation share one entry, and an entry describes its
\* conversation's latest packets, whatever was evicted or expired before.
THEOREM ConversationCorrect == Spec => []DescribesConversation
<1> DEFINE Describes(id) ==
              LET all == arrived[Conversation(id)]
              IN  /\ mFlows[id].packetCount \in 1..Len(all)
                  /\ mFlows[id].lastSeen = all[Len(all)]
                  /\ mFlows[id].firstSeen = all[Len(all) - mFlows[id].packetCount + 1]
<1> DEFINE Described == \A id \in DOMAIN mFlows : Describes(id)
<1>1. Init => Described
  BY DEF Init
<1>2. TypeOK /\ TypeOK' /\ Described /\ [Next]_vars => Described'
  <2> SUFFICES ASSUME TypeOK, TypeOK', Described, [Next]_vars PROVE Described'
    OBVIOUS
  <2>1. ASSUME NEW packetId \in FlowIds, NEW ts \in Timestamps, update(packetId, ts)
        PROVE  Described'
    <3> SUFFICES ASSUME NEW i \in DOMAIN mFlows' PROVE Describes(i)'
      OBVIOUS
    <3> DEFINE id == Normalize(packetId)
    <3> DEFINE before == arrived[Conversation(i)]
    <3>1. packetId \in FlowId /\ id \in FlowId /\ ~ShouldSwap(id)
          /\ Conversation(id) = Conversation(packetId)
      BY NormalizeIsNormal, FlowTableAssumption
    <3>2. i \in FlowId /\ ~ShouldSwap(i) /\ Conversation(i) \in Conversations
      BY DEF TypeOK
    <3>3. before \in Seq(Timestamps)
      BY <3>2 DEF TypeOK
    <3>4. CASE i = id
      <4>1. arrived'[Conversation(i)] = Append(before, ts)
        BY <2>1, <3>1, <3>2, <3>4 DEF update, TypeOK
      <4>2. CASE id \in DOMAIN mFlows
        <5>1. mFlows[i] \in FlowMetadata /\ Describes(i)
          BY <3>4, <4>2 DEF TypeOK
        <5>2. mFlows'[i] = [firstSeen |-> mFlows[i].firstSeen, lastSeen |-> ts,
                            packetCount |-> mFlows[i].packetCount + 1]
          BY <2>1, <3>4, <4>2, UpdateEntries DEF Updated
        <5>3. /\ mFlows'[i].lastSeen = ts
              /\ mFlows'[i].firstSeen = mFlows[i].firstSeen
              /\ mFlows'[i].packetCount = mFlows[i].packetCount + 1
          BY <5>1, <5>2 DEF FlowMetadata
        <5>4. /\ mFlows[i].packetCount \in 1..Len(before) /\ Len(before) \in Nat
              /\ mFlows[i].firstSeen = before[Len(before) - mFlows[i].packetCount + 1]
          BY <3>3, <5>1
        <5>5. /\ Len(Append(before, ts)) = Len(before) + 1
              /\ Append(before, ts)[Len(before) + 1] = ts
              /\ \A k \in 1..Len(before) : Append(before, ts)[k] = before[k]
          BY <3>3
        <5>6. /\ Len(before) - mFlows[i].packetCount + 1 \in 1..Len(before)
              /\ mFlows[i].packetCount + 1 \in 1..(Len(before) + 1)
          BY <5>4
        <5>7. mFlows[i].firstSeen = Append(before, ts)[Len(before) - mFlows[i].packetCount + 1]
          BY <5>4, <5>5, <5>6
        <5> DEFINE all == arrived'[Conversation(i)]
        <5>8. Len(all) = Len(before) + 1 /\ all[Len(before) + 1] = ts
              /\ all[Len(before) - mFlows[i].packetCount + 1] = mFlows[i].firstSeen
          BY <4>1, <5>5, <5>7
        <5> HIDE DEF all, before
        <5>9. mFlows'[i].packetCount \in 1..Len(all) /\ mFlows'[i].lastSeen = all[Len(all)]
          BY <5>3, <5>6, <5>8
        <5>10. Len(all) - mFlows'[i].packetCount + 1 = Len(before) - mFlows[i].packetCount + 1
          BY <5>3, <5>4, <5>8, SMTT(20)
        <5>11. mFlows'[i].firstSeen = all[Len(all) - mFlows'[i].packetCount + 1]
          BY <5>3, <5>8, <5>10
        <5> QED
          BY <5>9, <5>11 DEF all
      <4>3. CASE id \notin DOMAIN mFlows
        <5>1. mFlows'[i] = [firstSeen |-> ts, lastSeen |-> ts, packetCount |-> 1]
          BY <2>1, <3>4, <4>3, UpdateEntries DEF Created
        <5> QED
          BY <3>3, <4>1, <5>1
      <4> QED
        BY <4>2, <4>3
    <3>5. CASE i # id
      <4>1. Conversation(i) # Conversation(packetId)
        BY <3>1, <3>2, <3>5, NormalFormsDiffer
      <4>2. arrived'[Conversation(i)] = before
        BY <2>1, <3>2, <4>1 DEF update, TypeOK
      <4>3. i \in DOMAIN mFlows /\ mFlows'[i] = mFlows[i]
        BY <2>1, <3>5, UpdateEntries
      <4> QED
        BY <4>2, <4>3
    <3> QED
      BY <3>4, <3>5
  <2>2. ASSUME NEW now \in Timestamps, cleanupExpired(now)
        PROVE  Described'
    <3> SUFFICES ASSUME NEW i \in DOMAIN mFlows' PROVE Describes(i)'
      OBVIOUS
    <3>1. i \in DOMAIN mFlows /\ mFlows'[i] = mFlows[i]
      BY <2>2, CleanupEntries
    <3>2. arrived' = arrived
      BY <2>2 DEF cleanupExpired
    <3> QED
      BY <3>1, <3>2
  <2>3. CASE UNCHANGED vars
    BY <2>3 DEF vars
  <2> QED
    BY <2>1, <2>2, <2>3 DEF Next
<1>3. TypeOK /\ Described => DescribesConversation
  BY NormalFormsDiffer DEF TypeOK, DescribesConversation
<1> HIDE DEF Described
<1> QED
  BY <1>1, <1>2, <1>3, TypeInvariant, PTL DEF Spec

-----------------------------------------------------------------------------
(* What an eviction and a cleanup drop.                                    *)

\* No entry is newer than the newest call.
Timed == \A id \in DOMAIN mFlows : mFlows[id].lastSeen <= clock

\* It holds initially, and every step keeps it.
LEMMA TimedInvariant == (Init => Timed) /\ (TypeOK /\ Timed /\ [Next]_vars => Timed')
<1>1. Init => Timed
  BY DEF Init, Timed
<1>2. ASSUME TypeOK, Timed, NEW packetId \in FlowIds, NEW ts \in Timestamps, update(packetId, ts)
      PROVE  Timed'
  <2> SUFFICES ASSUME NEW i \in DOMAIN mFlows'
               PROVE  mFlows'[i].lastSeen <= clock'
    BY DEF Timed
  <2>1. ts \in Nat /\ clock \in Nat /\ clock' >= ts /\ clock' >= clock /\ clock' \in Nat
    BY <1>2, FlowTableAssumption DEF update, Tick, TypeOK
  <2>2. CASE i = Normalize(packetId)
    <3>1. mFlows'[i].lastSeen = ts
      <4>1. CASE i \in DOMAIN mFlows
        <5>1. mFlows'[i] = Updated(mFlows[i], ts)
          BY <1>2, <2>2, <4>1, UpdateEntries
        <5> QED
          BY <5>1 DEF Updated
      <4>2. CASE i \notin DOMAIN mFlows
        <5>1. mFlows'[i] = Created(ts)
          BY <1>2, <2>2, <4>2, UpdateEntries
        <5> QED
          BY <5>1 DEF Created
      <4> QED
        BY <4>1, <4>2
    <3> QED
      BY <2>1, <3>1
  <2>3. CASE i # Normalize(packetId)
    <3>1. i \in DOMAIN mFlows /\ mFlows'[i] = mFlows[i]
      BY <1>2, <2>3, UpdateEntries
    <3>2. mFlows[i].lastSeen \in Nat /\ mFlows[i].lastSeen <= clock
      BY <1>2, <3>1, FlowTableAssumption DEF Timed, TypeOK, FlowMetadata
    <3> QED
      BY <2>1, <3>1, <3>2
  <2> QED
    BY <2>2, <2>3
<1>3. ASSUME TypeOK, Timed, NEW now \in Timestamps, cleanupExpired(now)
      PROVE  Timed'
  <2> SUFFICES ASSUME NEW i \in DOMAIN mFlows'
               PROVE  mFlows'[i].lastSeen <= clock'
    BY DEF Timed
  <2>1. clock \in Nat /\ clock' >= clock /\ clock' \in Nat
    BY <1>3, FlowTableAssumption DEF cleanupExpired, Tick, TypeOK
  <2>2. i \in DOMAIN mFlows /\ mFlows'[i] = mFlows[i]
    BY <1>3, CleanupEntries
  <2>3. mFlows[i].lastSeen \in Nat /\ mFlows[i].lastSeen <= clock
    BY <1>3, <2>2, FlowTableAssumption DEF Timed, TypeOK, FlowMetadata
  <2> QED
    BY <2>1, <2>2, <2>3
<1>4. ASSUME Timed, UNCHANGED vars
      PROVE  Timed'
  BY <1>4 DEF Timed, vars
<1> QED
  BY <1>1, <1>2, <1>3, <1>4 DEF Next

\* An entry was last seen when its conversation had its latest packet.
LEMMA LastSeenIsLatest ==
    ASSUME TypeOK, DescribesConversation, NEW id \in DOMAIN mFlows
    PROVE  /\ LastActive(Conversation(id)) = mFlows[id].lastSeen
           /\ mFlows[id].lastSeen \in Nat
BY FlowTableAssumption DEF DescribesConversation, LastActive, TypeOK, FlowMetadata

\* What an update drops was idle for longer than what it keeps.
LEMMA UpdateKeepsTheActive ==
    ASSUME TypeOK, TypeOK', DescribesConversation, DescribesConversation', Timed, InOrder,
           NEW packetId \in FlowIds, NEW ts \in Timestamps, update(packetId, ts),
           NEW gone \in Tracked \ Tracked', NEW kept \in Tracked'
    PROVE  arrived'[gone] = arrived[gone] /\ LastActive(gone) <= LastActive(kept)'
<1> DEFINE id == Normalize(packetId)
<1>1. /\ packetId \in FlowId /\ id \in FlowId /\ Conversation(id) = Conversation(packetId)
      /\ Conversation(packetId) \in Conversations
  BY FlowTableAssumption, NormalizeIsNormal DEF Conversations
<1>2. PICK o \in DOMAIN mFlows : gone = Conversation(o)
  BY DEF Tracked
<1>3. o \notin DOMAIN mFlows'
  BY <1>2 DEF Tracked
<1>4. PICK evicted : /\ evicted \in IF Full THEN {{e} : e \in Oldest} ELSE {{}}
                     /\ mFlows' = With(Without(evicted), id, Created(ts))
                     /\ id \notin DOMAIN mFlows
  <2>1. CASE id \in DOMAIN mFlows
    BY <1>3, <2>1 DEF update
  <2>2. CASE id \notin DOMAIN mFlows
    BY <2>2 DEF update, Insert
  <2> QED
    BY <2>1, <2>2
<1>5. /\ DOMAIN mFlows' = (DOMAIN mFlows \ evicted) \cup {id}
      /\ \A i \in DOMAIN mFlows \ evicted : i # id /\ mFlows'[i] = mFlows[i]
      /\ mFlows'[id] = Created(ts)
  BY <1>4 DEF With, Without
<1>6. o \in Oldest
  BY <1>3, <1>4, <1>5
<1>7. arrived' = [arrived EXCEPT ![Conversation(packetId)] = Append(@, ts)]
  BY DEF update
<1>8. arrived'[gone] = arrived[gone]
  <2>1. gone # Conversation(packetId)
    <3>1. id \in DOMAIN mFlows'
      BY <1>5
    <3> QED
      BY <1>1, <3>1 DEF Tracked
  <2> QED
    BY <1>1, <1>2, <1>7, <2>1 DEF TypeOK
<1>9. PICK i \in DOMAIN mFlows' : kept = Conversation(i)
  BY DEF Tracked
<1>10. LastActive(kept)' = mFlows'[i].lastSeen /\ mFlows'[i].lastSeen \in Nat
  BY <1>9, FlowTableAssumption DEF DescribesConversation, LastActive, TypeOK, FlowMetadata
<1>11. LastActive(gone) = mFlows[o].lastSeen /\ mFlows[o].lastSeen \in Nat
  BY <1>2, LastSeenIsLatest
<1>12. mFlows[o].lastSeen <= mFlows'[i].lastSeen
  <2>1. CASE i = id
    <3>1. mFlows'[i].lastSeen = ts
      <4>1. mFlows'[i] = Created(ts)
        BY <1>5, <2>1
      <4> QED
        BY <4>1 DEF Created
    <3>2. mFlows[o].lastSeen <= clock /\ clock \in Nat
      BY DEF Timed, TypeOK
    <3>3. clock <= ts /\ ts \in Nat
      BY <3>2, FlowTableAssumption DEF update, Tick
    <3> QED
      BY <1>11, <3>1, <3>2, <3>3
  <2>2. CASE i # id
    <3>1. i \in DOMAIN mFlows /\ mFlows'[i] = mFlows[i]
      BY <1>5, <2>2
    <3> QED
      BY <1>6, <3>1 DEF Oldest
  <2> QED
    BY <2>1, <2>2
<1> QED
  BY <1>8, <1>10, <1>11, <1>12

\* A cleanup drops those that were idle for too long and no other.
LEMMA CleanupKeepsTheActive ==
    ASSUME TypeOK, DescribesConversation, InOrder,
           NEW now \in Timestamps, cleanupExpired(now), NEW c \in Tracked
    PROVE  c \in Tracked' <=> clock' - LastActive(c) <= FlowTimeout
<1>1. PICK id \in DOMAIN mFlows : c = Conversation(id)
  BY DEF Tracked
<1>2. LastActive(c) = mFlows[id].lastSeen /\ mFlows[id].lastSeen \in Nat
  BY <1>1, LastSeenIsLatest
<1>3. clock' = now /\ now \in Nat /\ FlowTimeout \in Nat
  BY FlowTableAssumption DEF cleanupExpired, Tick, TypeOK
<1>4. DOMAIN mFlows' = {i \in DOMAIN mFlows : ~Expired(i, now)}
  BY DEF cleanupExpired, Without
<1>5. c \in Tracked' <=> ~Expired(id, now)
  <2>1. ASSUME NEW i \in DOMAIN mFlows, c = Conversation(i)
        PROVE  i = id
    BY <1>1, <2>1 DEF DescribesConversation
  <2> QED
    BY <1>1, <1>4, <2>1 DEF Tracked
<1>6. Expired(id, now) <=> now - mFlows[id].lastSeen > FlowTimeout
  BY <1>2, <1>3 DEF Expired
<1> QED
  BY <1>2, <1>3, <1>5, <1>6

\* With timestamps in order, for every capacity and every timeout: an eviction drops a
\* conversation that was idle for at least as long as all that stay, and a cleanup
\* exactly those that were idle for longer than flowTimeout.
THEOREM EvictionCorrect ==
    ASSUME InOrder
    PROVE  Spec => KeepsTheActive
<1> DEFINE Step == /\ arrived' # arrived =>
                        \A gone \in Tracked \ Tracked', kept \in Tracked' :
                            /\ arrived'[gone] = arrived[gone]
                            /\ LastActive(gone) <= LastActive(kept)'
                   /\ arrived' = arrived =>
                        \A c \in Tracked : c \in Tracked' <=> clock' - LastActive(c) <= FlowTimeout
           Inv == TypeOK /\ DescribesConversation /\ Timed
<1>1. Spec => []Inv
  BY TypeCorrect, ConversationCorrect, TypeInvariant, TimedInvariant, PTL DEF Spec
<1>2. Inv /\ Inv' /\ [Next]_vars => [Step]_vars
  <2> SUFFICES ASSUME Inv, Inv', [Next]_vars
               PROVE  [Step]_vars
    OBVIOUS
  <2>1. ASSUME NEW packetId \in FlowIds, NEW ts \in Timestamps, update(packetId, ts)
        PROVE  Step
    <3>1. arrived' # arrived
      <4>1. Conversation(packetId) \in Conversations
        BY DEF Conversations
      <4>2. arrived[Conversation(packetId)] \in Seq(Timestamps)
        BY <4>1 DEF TypeOK
      <4>3. arrived'[Conversation(packetId)] = Append(arrived[Conversation(packetId)], ts)
        BY <2>1, <4>1 DEF update, TypeOK
      <4>4. Len(Append(arrived[Conversation(packetId)], ts)) # Len(arrived[Conversation(packetId)])
        BY <4>2
      <4> QED
        BY <4>3, <4>4
    <3> QED
      BY <2>1, <3>1, UpdateKeepsTheActive
  <2>2. ASSUME NEW now \in Timestamps, cleanupExpired(now)
        PROVE  Step
    <3>1. arrived' = arrived
      BY <2>2 DEF cleanupExpired
    <3> QED
      BY <2>2, <3>1, CleanupKeepsTheActive
  <2>3. CASE UNCHANGED vars
    BY <2>3
  <2> HIDE DEF Step
  <2> QED
    BY <2>1, <2>2, <2>3 DEF Next
<1> QED
  BY <1>1, <1>2, PTL DEF Spec, KeepsTheActive
==============================================================================
