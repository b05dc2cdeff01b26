-------------------------- MODULE EventStreamProofs --------------------------
(* Theorems about EventStream, for all its constants. *)
EXTENDS EventStream, WellFoundedInduction, TLAPS

-----------------------------------------------------------------------------
(* Least and greatest events *)

Less == {p \in Nat \X Nat : p[1] < p[2]}

LEMMA Least ==
  ASSUME NEW S \in SUBSET Nat, S # {}
  PROVE  Min(S) \in S /\ \A y \in S : Min(S) <= y
<1>1. IsWellFoundedOn(Less, Nat)
  BY NatLessThanWellFounded DEF Less, OpToRel
<1>2. PICK x \in S : \A y \in S : <<y, x>> \notin Less
  BY <1>1, WFMin
<1>3. \A y \in S : x <= y
  <2> SUFFICES ASSUME NEW y \in S, y < x  PROVE FALSE
    OBVIOUS
  <2>1. <<y, x>> \in Nat \X Nat /\ <<y, x>>[1] < <<y, x>>[2]
    OBVIOUS
  <2> QED  BY <1>2, <2>1 DEF Less
<1> QED  BY <1>3 DEF Min

LEMMA Greatest ==
  ASSUME NEW S \in SUBSET Nat, S # {}, NEW n \in Nat, \A x \in S : x <= n
  PROVE  Max(S) \in S /\ \A y \in S : y <= Max(S)
<1> DEFINE R == {m \in Nat : \E x \in S : m = n - x}
<1>1. R \in SUBSET Nat /\ R # {}
  <2>1. PICK x \in S : TRUE
    OBVIOUS
  <2>2. n - x \in Nat
    OBVIOUS
  <2> QED  BY <2>2
<1>2. PICK m \in R : \A k \in R : m <= k
  BY <1>1, Least
<1>3. PICK x \in S : m = n - x
  BY <1>2
<1>4. \A y \in S : y <= x
  <2> SUFFICES ASSUME NEW y \in S  PROVE y <= x
    OBVIOUS
  <2>1. n - y \in Nat
    OBVIOUS
  <2>2. n - y \in R
    BY <2>1
  <2> QED  BY <1>2, <1>3, <2>2
<1> QED  BY <1>4 DEF Max

-----------------------------------------------------------------------------
(* Sequences of events *)

LEMMA ToSetFacts ==
  ASSUME NEW S, NEW s \in Seq(S)
  PROVE  /\ ToSet(s) \subseteq S
         /\ \A x : x \in ToSet(s) <=> \E i \in DOMAIN s : s[i] = x
         /\ \A i \in DOMAIN s : s[i] \in ToSet(s) /\ s[i] \in S
BY DEF ToSet

LEMMA AppendSet ==
  ASSUME NEW S, NEW s \in Seq(S), NEW e \in S
  PROVE  Append(s, e) \in Seq(S) /\ ToSet(Append(s, e)) = ToSet(s) \cup {e}
<1>1. /\ Append(s, e) \in Seq(S) /\ DOMAIN Append(s, e) = 1..(Len(s) + 1)
      /\ DOMAIN s = 1..Len(s)
      /\ \A i \in 1..(Len(s) + 1) : Append(s, e)[i] = IF i <= Len(s) THEN s[i] ELSE e
  OBVIOUS
<1>2. ASSUME NEW x
      PROVE  x \in ToSet(Append(s, e)) <=> x \in ToSet(s) \cup {e}
  BY <1>1 DEF ToSet
<1> QED  BY <1>1, <1>2

LEMMA TailSet ==
  ASSUME NEW S, NEW s \in Seq(S), s # <<>>
  PROVE  /\ Tail(s) \in Seq(S) /\ Head(s) \in S /\ Head(s) = s[1]
         /\ ToSet(s) = {Head(s)} \cup ToSet(Tail(s))
<1>1. /\ Tail(s) \in Seq(S) /\ Head(s) \in S /\ Head(s) = s[1] /\ 1 \in DOMAIN s
      /\ DOMAIN s = 1..Len(s) /\ DOMAIN Tail(s) = 1..(Len(s) - 1) /\ Len(s) \in Nat \ {0}
      /\ \A i \in 1..(Len(s) - 1) : Tail(s)[i] = s[i + 1]
  OBVIOUS
<1>2. ASSUME NEW x \in ToSet(s), x # Head(s)
      PROVE  x \in ToSet(Tail(s))
  <2>1. PICK i \in DOMAIN s : s[i] = x
    BY DEF ToSet
  <2>2. i - 1 \in 1..(Len(s) - 1) /\ Tail(s)[i - 1] = x
    BY <1>1, <1>2, <2>1
  <2> QED  BY <1>1, <2>2 DEF ToSet
<1>3. ASSUME NEW x \in ToSet(Tail(s))
      PROVE  x \in ToSet(s)
  BY <1>1 DEF ToSet
<1>4. Head(s) \in ToSet(s)
  BY <1>1 DEF ToSet
<1> QED  BY <1>1, <1>2, <1>3, <1>4

LEMMA EmptySet == ToSet(<<>>) = {}
BY DEF ToSet

\* The first page ends at a stored event, or with what is stored.
LEMMA PageEnd ==
  ASSUME NEW after \in Nat, stored \in Nat
  PROVE  LastRow(after) \in Nat /\ LastRow(after) <= stored
<1>1. CASE kind = "task"
  <2>1. {stored, after + PageSize} \in SUBSET Nat
    BY BoundsAssumption
  <2> QED  BY <1>1, <2>1, Least DEF LastRow
<1>2. CASE kind # "task"
  BY <1>2 DEF LastRow
<1> QED  BY <1>1, <1>2

\* agent-ws.js asks for what follows the newest event it has.
LEMMA Cursor ==
  ASSUME got \in Strand
  PROVE  /\ After \in 0..MaxEvents
         /\ \A x \in ToSet(got) : x <= After
         /\ After \in {0} \cup ToSet(got)
<1> DEFINE S == {0} \cup ToSet(got)
<1>1. ToSet(got) \subseteq Events
  BY ToSetFacts DEF Strand
<1>2. S \in SUBSET Nat /\ S # {} /\ \A x \in S : x <= MaxEvents
  BY <1>1, BoundsAssumption DEF Events
<1>3. Max(S) \in S /\ \A y \in S : y <= Max(S)
  BY <1>2, BoundsAssumption, Greatest
<1> QED  BY <1>1, <1>2, <1>3, BoundsAssumption DEF After, Events

-----------------------------------------------------------------------------
(* Type correctness *)

LEMMA InitTyped == Init => TypeOK
<1> SUFFICES ASSUME Init  PROVE TypeOK
  OBVIOUS
<1>1. 0 \in 0..MaxEvents /\ 0 \in 0..MaxDrops /\ 0 \in 0..MaxFaults /\ <<>> \in Strand
  BY BoundsAssumption DEF Strand
<1> QED  BY <1>1 DEF Init, TypeOK

LEMMA BroadcastTyped ==
  ASSUME TypeOK, NEW e \in Events, Broadcast(e)
  PROVE  channel' \in Strand /\ ToSet(channel') \subseteq ToSet(channel) \cup {e}
BY AppendSet DEF TypeOK, Broadcast, Strand

LEMMA HandOutTyped ==
  ASSUME TypeOK, NEW e \in Events, HandOut(e)
  PROVE  /\ queue' \in Strand /\ hubbed' \in SUBSET Events /\ exposed' \in SUBSET Events
         /\ ToSet(queue') \subseteq ToSet(queue) \cup {e}
BY AppendSet DEF TypeOK, HandOut, Strand

LEMMA SendTyped ==
  ASSUME TypeOK, NEW e \in Events, Send(e)
  PROVE  wire' \in Strand /\ last' \in 0..MaxEvents /\ ToSet(wire') = ToSet(wire) \cup {e}
<1>1. last' \in 0..MaxEvents
  BY BoundsAssumption DEF Send, Events
<1>2. wire \in Seq(Events) /\ wire' = Append(wire, e)
  BY DEF TypeOK, Send, Strand
<1> QED  BY <1>1, <1>2, AppendSet DEF Strand

LEMMA LastRowTyped ==
  ASSUME TypeOK, NEW after \in 0..MaxEvents
  PROVE  LastRow(after) \in 0..MaxEvents /\ LastRow(after) <= stored
BY PageEnd, BoundsAssumption DEF TypeOK

LEMMA NextTyped == TypeOK /\ [Next]_vars => TypeOK'
<1> SUFFICES ASSUME TypeOK, [Next]_vars  PROVE TypeOK'
  OBVIOUS
<1> USE DEF streamVars, relayVars, socketVars, clientVars, ghostVars
<1>0. stored \in Nat /\ MaxEvents \in Nat /\ Events \subseteq Nat
  BY BoundsAssumption DEF TypeOK, Events
<1>1. ASSUME NEW p \in Processes, Commit(p)
      PROVE  TypeOK'
  <2>1. stored + 1 \in Events /\ stored' = stored + 1 /\ stored' \in 0..MaxEvents
    BY <1>0, <1>1 DEF Commit, TypeOK, Events
  <2>2. emitting' \in [Processes -> 0..MaxEvents] /\ outbox' \in SUBSET Events
    BY <1>0, <1>1, <2>1 DEF Commit, TypeOK
  <2> QED  BY <1>1, <2>1, <2>2 DEF Commit, TypeOK
<1>2. ASSUME NEW p \in Processes, PublishRunEvent(p)
      PROVE  TypeOK'
  <2>1. emitting[p] \in Events /\ emitting' \in [Processes -> 0..MaxEvents]
    BY <1>0, <1>2 DEF PublishRunEvent, TypeOK, Events
  <2>2. channel' \in Strand
    BY <1>2, <2>1, BroadcastTyped DEF PublishRunEvent
  <2> QED  BY <1>2, <2>1, <2>2 DEF PublishRunEvent, TypeOK
<1>3. ASSUME NEW p \in Processes, PublishTaskEvent(p)
      PROVE  TypeOK'
  <2>1. emitting[p] \in Events /\ emitting' \in [Processes -> 0..MaxEvents]
    BY <1>0, <1>3 DEF PublishTaskEvent, TypeOK, Events
  <2>2. queue' \in Strand /\ hubbed' \in SUBSET Events /\ exposed' \in SUBSET Events
    BY <1>3, <2>1, HandOutTyped DEF PublishTaskEvent, TypeOK
  <2> QED  BY <1>3, <2>1, <2>2 DEF PublishTaskEvent, TypeOK
<1>4. ASSUME NEW p \in Publishers, ReadOutbox(p)
      PROVE  TypeOK'
  BY <1>4 DEF ReadOutbox, TypeOK
<1>5. ASSUME NEW p \in Publishers, PublishRow(p)
      PROVE  TypeOK'
  <2> DEFINE e == Min(pass[p])
  <2>1. e \in Events
    BY <1>0, <1>5, Least DEF PublishRow, TypeOK
  <2>2. /\ Broadcast(e) /\ outbox' = outbox \ {e}
        /\ pass' = [pass EXCEPT ![p] = @ \ {e}]
    BY <1>5 DEF PublishRow
  <2> HIDE DEF e
  <2>3. channel' \in Strand /\ outbox' \in SUBSET Events /\ pass' \in [Publishers -> SUBSET Events]
    BY <2>1, <2>2, BroadcastTyped DEF TypeOK
  <2> QED  BY <1>5, <2>3 DEF PublishRow, TypeOK
<1>6. ASSUME NEW p \in Publishers, PassFails(p)
      PROVE  TypeOK'
  <2>1. Min(pass[p]) \in Events
    BY <1>0, <1>6, Least DEF PassFails, TypeOK
  <2>2. channel' \in Strand
    BY <1>6, <2>1, BroadcastTyped DEF PassFails
  <2>3. pass' \in [Publishers -> SUBSET Events] /\ faults' \in 0..MaxFaults
    BY <1>6, BoundsAssumption DEF PassFails, TypeOK
  <2> QED  BY <1>6, <2>2, <2>3 DEF PassFails, TypeOK
<1>7. CASE Relay
  <2>1. Head(channel) \in Events /\ channel' \in Strand
    BY <1>7, TailSet DEF Relay, TypeOK, Strand
  <2>2. queue' \in Strand /\ hubbed' \in SUBSET Events /\ exposed' \in SUBSET Events
    BY <1>7, <2>1, HandOutTyped DEF Relay
  <2> QED  BY <1>7, <2>1, <2>2 DEF Relay, TypeOK
<1>8. CASE RelayFails \/ RelaySubscribes
  <2>1. faults' \in 0..MaxFaults
    BY <1>8, BoundsAssumption DEF RelayFails, RelaySubscribes, TypeOK
  <2>2. <<>> \in Strand /\ channel \in Strand
    BY DEF TypeOK, Strand
  <2>3. channel' = <<>> \/ channel' = channel
    BY <1>8 DEF RelayFails, RelaySubscribes
  <2> QED  BY <1>8, <2>1, <2>2, <2>3 DEF RelayFails, RelaySubscribes, TypeOK
<1>9. CASE Subscribe
  <2>1. After \in 0..MaxEvents
    BY Cursor DEF TypeOK
  <2>2. LastRow(After) \in 0..MaxEvents
    BY <2>1, LastRowTyped
  <2>3. <<>> \in Strand
    BY DEF Strand
  <2>4. exposed' \in SUBSET Events
    BY <1>9 DEF Subscribe, TypeOK
  <2> QED  BY <1>9, <2>1, <2>2, <2>3, <2>4 DEF Subscribe, TypeOK
<1>10. CASE SubscribeAll
  BY <1>10, <1>0 DEF SubscribeAll, TypeOK, Strand
<1>11. CASE SendRow
  <2>1. CASE last < upto
    <3>1. last + 1 \in Events
      BY <2>1, BoundsAssumption DEF TypeOK, Events
    <3>2. wire' \in Strand /\ last' \in 0..MaxEvents
      BY <1>11, <2>1, <3>1, SendTyped DEF SendRow
    <3> QED  BY <1>11, <2>1, <3>2 DEF SendRow, TypeOK
  <2>2. CASE ~(last < upto)
    BY <1>11, <2>2 DEF SendRow, TypeOK
  <2> QED  BY <2>1, <2>2
<1>12. CASE Follow
  <2>1. Head(queue) \in Events /\ queue' \in Strand
    BY <1>12, TailSet DEF Follow, TypeOK, Strand
  <2>2. wire' \in Strand /\ last' \in 0..MaxEvents
    BY <1>12, <2>1, SendTyped DEF Follow, TypeOK
  <2> QED  BY <1>12, <2>1, <2>2 DEF Follow, TypeOK
<1>13. CASE Poll
  <2>1. LastRow(last) \in 0..MaxEvents
    BY LastRowTyped DEF TypeOK
  <2> QED  BY <1>13, <2>1 DEF Poll, TypeOK
<1>14. CASE Drop
  <2>1. drops' \in 0..MaxDrops /\ <<>> \in Strand
    BY <1>14, BoundsAssumption DEF Drop, TypeOK, Strand
  <2> QED  BY <1>14, <2>1 DEF Drop, TypeOK
<1>15. CASE Receive
  <2>1. Head(wire) \in Events /\ wire' \in Strand
    BY <1>15, TailSet DEF Receive, TypeOK, Strand
  <2>2. CASE kind = "all"
    BY <1>15, <2>1, <2>2 DEF Receive, TypeOK
  <2>3. CASE kind # "all"
    <3>1. got' = Append(got, Head(wire)) /\ reload' = reload
      BY <1>15, <2>3 DEF Receive
    <3>2. got' \in Strand
      BY <2>1, <3>1, AppendSet DEF TypeOK, Strand
    <3> QED  BY <1>15, <2>1, <3>1, <3>2 DEF Receive, TypeOK
  <2> QED  BY <2>2, <2>3
<1>16. CASE Reload
  BY <1>16 DEF Reload, TypeOK
<1>17. CASE UNCHANGED vars
  BY <1>17 DEF vars, TypeOK
<1> QED
  BY <1>1, <1>2, <1>3, <1>4, <1>5, <1>6, <1>7, <1>8, <1>9, <1>10, <1>11, <1>12, <1>13, <1>14,
     <1>15, <1>16, <1>17 DEF Next, Finished

\* Every variable keeps its type: cursors, pages and sequences stay within what
\* may be stored.
THEOREM TypeCorrect == Spec => []TypeOK
BY InitTyped, NextTyped, PTL DEF Spec

-----------------------------------------------------------------------------
(* What is stored first *)

\* Whatever waits anywhere was committed before.
Stored ==
  /\ \A p \in Processes : emitting[p] <= stored
  /\ \A e \in outbox : e <= stored
  /\ \A p \in Publishers : \A e \in pass[p] : e <= stored
  /\ \A e \in ToSet(channel) \cup ToSet(queue) \cup hubbed : e <= stored
  /\ \A e \in ToSet(wire) \cup ToSet(got) : e <= stored
  /\ upto <= stored

LEMMA Committed ==
  TypeOK => /\ ToSet(channel) \subseteq Events /\ ToSet(queue) \subseteq Events
            /\ ToSet(wire) \subseteq Events /\ ToSet(got) \subseteq Events
            /\ Events \subseteq Nat /\ stored \in Nat /\ upto \in Nat /\ last \in Nat
<1> SUFFICES ASSUME TypeOK  PROVE
      /\ ToSet(channel) \subseteq Events /\ ToSet(queue) \subseteq Events
      /\ ToSet(wire) \subseteq Events /\ ToSet(got) \subseteq Events
      /\ Events \subseteq Nat /\ stored \in Nat /\ upto \in Nat /\ last \in Nat
  OBVIOUS
<1>1. channel \in Seq(Events) /\ queue \in Seq(Events) /\ wire \in Seq(Events) /\ got \in Seq(Events)
  BY DEF TypeOK, Strand
<1>2. /\ ToSet(channel) \subseteq Events /\ ToSet(queue) \subseteq Events
      /\ ToSet(wire) \subseteq Events /\ ToSet(got) \subseteq Events
  BY <1>1, ToSetFacts
<1>3. Events \subseteq Nat
  BY BoundsAssumption DEF Events
<1>4. stored \in Nat /\ upto \in Nat /\ last \in Nat
  BY BoundsAssumption DEF TypeOK
<1> QED  BY <1>2, <1>3, <1>4

LEMMA StoredInit == Init => Stored
<1> SUFFICES ASSUME Init  PROVE Stored
  OBVIOUS
<1>1. ToSet(channel) = {} /\ ToSet(queue) = {} /\ ToSet(wire) = {} /\ ToSet(got) = {}
  BY EmptySet DEF Init
<1> QED  BY <1>1 DEF Init, Stored

LEMMA HandOutStored ==
  ASSUME TypeOK, Stored, NEW e \in Events, e <= stored, HandOut(e)
  PROVE  \A x \in ToSet(queue') \cup hubbed' : x <= stored
BY HandOutTyped DEF Stored, HandOut

LEMMA StoredStep == TypeOK /\ Stored /\ [Next]_vars => Stored'
<1> SUFFICES ASSUME TypeOK, Stored, [Next]_vars  PROVE Stored'
  OBVIOUS
<1> USE DEF streamVars, relayVars, socketVars, clientVars, ghostVars
<1>0. stored \in Nat /\ Events \subseteq Nat
  BY Committed
<1>1. ASSUME NEW p \in Processes, Commit(p)
      PROVE  Stored'
  <2>1. stored' = stored + 1
    BY <1>1 DEF Commit
  <2>2. \A n \in Nat : n <= stored => n <= stored'
    BY <1>0, <2>1
  <2>3. /\ \A q \in Processes : emitting[q] \in Nat
        /\ \A q \in Processes : emitting'[q] = emitting[q] \/ emitting'[q] = stored + 1
    BY <1>1, BoundsAssumption DEF Commit, TypeOK
  <2>4. outbox' \subseteq outbox \cup {stored + 1} /\ outbox \subseteq Nat
    BY <1>0, <1>1 DEF Commit, TypeOK
  <2>5. /\ \A q \in Publishers : pass[q] \subseteq Nat
        /\ ToSet(channel) \cup ToSet(queue) \cup hubbed \subseteq Nat
        /\ ToSet(wire) \cup ToSet(got) \subseteq Nat /\ upto \in Nat
    BY <1>0, Committed DEF TypeOK
  <2>6. \A q \in Processes : emitting'[q] <= stored'
    BY <1>0, <2>1, <2>2, <2>3 DEF Stored
  <2>7. \A e \in outbox' : e <= stored'
    <3> SUFFICES ASSUME NEW e \in outbox'  PROVE e <= stored'
      OBVIOUS
    <3>1. CASE e \in outbox
      BY <2>2, <2>4, <3>1 DEF Stored
    <3>2. CASE e = stored + 1
      BY <1>0, <2>1, <3>2
    <3> QED  BY <2>4, <3>1, <3>2
  <2> QED  BY <1>1, <2>2, <2>5, <2>6, <2>7 DEF Commit, Stored
<1>2. ASSUME NEW p \in Processes, PublishRunEvent(p)
      PROVE  Stored'
  <2>1. emitting[p] \in Events /\ emitting[p] <= stored
    BY <1>2, BoundsAssumption DEF PublishRunEvent, TypeOK, Events, Stored
  <2>2. \A x \in ToSet(channel') : x <= stored
    BY <1>2, <2>1, BroadcastTyped DEF PublishRunEvent, Stored
  <2>3. \A q \in Processes : emitting'[q] <= stored
    BY <1>0, <1>2 DEF PublishRunEvent, TypeOK, Stored
  <2> QED  BY <1>2, <2>2, <2>3 DEF PublishRunEvent, Stored
<1>3. ASSUME NEW p \in Processes, PublishTaskEvent(p)
      PROVE  Stored'
  <2>1. emitting[p] \in Events /\ emitting[p] <= stored
    BY <1>3, BoundsAssumption DEF PublishTaskEvent, TypeOK, Events, Stored
  <2>2. \A x \in ToSet(queue') \cup hubbed' : x <= stored
    BY <1>3, <2>1, HandOutStored DEF PublishTaskEvent, Stored
  <2>3. \A q \in Processes : emitting'[q] <= stored
    BY <1>0, <1>3 DEF PublishTaskEvent, TypeOK, Stored
  <2> QED  BY <1>3, <2>2, <2>3 DEF PublishTaskEvent, Stored
<1>4. ASSUME NEW p \in Publishers, ReadOutbox(p)
      PROVE  Stored'
  <2>1. \A q \in Publishers : pass'[q] = pass[q] \/ pass'[q] = outbox
    BY <1>4 DEF ReadOutbox, TypeOK
  <2> QED  BY <1>4, <2>1 DEF ReadOutbox, Stored
<1>5. ASSUME NEW p \in Publishers, PublishRow(p) \/ PassFails(p)
      PROVE  Stored'
  <2> DEFINE e == Min(pass[p])
  <2>1. e \in pass[p] /\ e \in Events /\ e <= stored
    BY <1>0, <1>5, Least DEF PublishRow, PassFails, TypeOK, Stored
  <2>2. Broadcast(e)
    BY <1>5 DEF PublishRow, PassFails
  <2>3. outbox' \subseteq outbox /\ \A q \in Publishers : pass'[q] \subseteq pass[q]
    BY <1>5 DEF PublishRow, PassFails, TypeOK
  <2> HIDE DEF e
  <2>4. \A x \in ToSet(channel') : x <= stored
    BY <2>1, <2>2, BroadcastTyped DEF Stored
  <2> QED  BY <1>5, <2>3, <2>4 DEF PublishRow, PassFails, Stored
<1>6. CASE Relay
  <2>1. /\ Head(channel) \in Events /\ Head(channel) <= stored
        /\ ToSet(channel') \subseteq ToSet(channel)
    BY <1>6, TailSet DEF Relay, TypeOK, Strand, Stored
  <2>2. \A x \in ToSet(queue') \cup hubbed' : x <= stored
    BY <1>6, <2>1, HandOutStored DEF Relay
  <2> QED  BY <1>6, <2>1, <2>2 DEF Relay, Stored
<1>7. CASE RelayFails \/ RelaySubscribes
  <2>1. ToSet(channel') \subseteq ToSet(channel)
    BY <1>7, EmptySet DEF RelayFails, RelaySubscribes
  <2> QED  BY <1>7, <2>1 DEF RelayFails, RelaySubscribes, Stored
<1>8. CASE Subscribe
  <2>1. upto' <= stored
    BY <1>8, Cursor, LastRowTyped DEF Subscribe, TypeOK
  <2> QED  BY <1>8, <2>1, EmptySet DEF Subscribe, Stored
<1>9. CASE SubscribeAll
  BY <1>9, EmptySet DEF SubscribeAll, Stored
<1>10. CASE SendRow
  <2>1. CASE last < upto
    <3>1. last + 1 \in Events /\ last + 1 <= stored
      BY <2>1, <1>0, BoundsAssumption DEF TypeOK, Events, Stored
    <3>2. ToSet(wire') = ToSet(wire) \cup {last + 1}
      BY <1>10, <2>1, <3>1, SendTyped DEF SendRow
    <3> QED  BY <1>10, <3>1, <3>2 DEF SendRow, Stored
  <2>2. CASE ~(last < upto)
    BY <1>10, <2>2 DEF SendRow, Stored
  <2> QED  BY <2>1, <2>2
<1>11. CASE Follow
  <2>1. /\ Head(queue) \in Events /\ Head(queue) <= stored
        /\ ToSet(queue') \subseteq ToSet(queue)
    BY <1>11, TailSet DEF Follow, TypeOK, Strand, Stored
  <2>2. ToSet(wire') \subseteq ToSet(wire) \cup {Head(queue)}
    BY <1>11, <2>1, SendTyped DEF Follow
  <2> QED  BY <1>11, <2>1, <2>2 DEF Follow, Stored
<1>12. CASE Poll
  <2>1. upto' <= stored
    BY <1>12, LastRowTyped DEF Poll, TypeOK
  <2> QED  BY <1>12, <2>1 DEF Poll, Stored
<1>13. CASE Drop
  BY <1>13, EmptySet DEF Drop, Stored
<1>14. CASE Receive
  <2>1. /\ Head(wire) \in Events /\ Head(wire) <= stored
        /\ ToSet(wire') \subseteq ToSet(wire)
    BY <1>14, TailSet DEF Receive, TypeOK, Strand, Stored
  <2>2. ToSet(got') \subseteq ToSet(got) \cup {Head(wire)}
    BY <1>14, <2>1, AppendSet DEF Receive, TypeOK, Strand
  <2> QED  BY <1>14, <2>1, <2>2 DEF Receive, Stored
<1>15. CASE Reload \/ UNCHANGED vars
  BY <1>15 DEF Reload, vars, Stored
<1> QED
  BY <1>1, <1>2, <1>3, <1>4, <1>5, <1>6, <1>7, <1>8, <1>9, <1>10, <1>11, <1>12, <1>13, <1>14,
     <1>15 DEF Next, Finished

-----------------------------------------------------------------------------
(* Order *)

LEMMA AscendingAppend ==
  ASSUME NEW s \in Strand, Ascending(s), NEW e \in Events, \A x \in ToSet(s) : x < e
  PROVE  Ascending(Append(s, e))
<1>1. /\ DOMAIN Append(s, e) = 1..(Len(s) + 1) /\ DOMAIN s = 1..Len(s) /\ Len(s) \in Nat
      /\ \A i \in 1..(Len(s) + 1) : Append(s, e)[i] = IF i <= Len(s) THEN s[i] ELSE e
  BY DEF Strand
<1>2. \A i \in DOMAIN s : s[i] \in ToSet(s)
  BY DEF ToSet
<1> SUFFICES ASSUME NEW i \in 1..(Len(s) + 1), NEW j \in 1..(Len(s) + 1), i < j
             PROVE  Append(s, e)[i] < Append(s, e)[j]
  BY <1>1 DEF Ascending
<1>3. CASE j <= Len(s)
  BY <1>1, <1>3 DEF Ascending
<1>4. CASE j = Len(s) + 1
  BY <1>1, <1>2, <1>4
<1> QED  BY <1>1, <1>3, <1>4

LEMMA AscendingTail ==
  ASSUME NEW s \in Strand, Ascending(s), s # <<>>
  PROVE  Ascending(Tail(s)) /\ \A x \in ToSet(Tail(s)) : Head(s) < x
<1>1. /\ DOMAIN Tail(s) = 1..(Len(s) - 1) /\ DOMAIN s = 1..Len(s) /\ Len(s) \in Nat \ {0}
      /\ \A i \in 1..(Len(s) - 1) : Tail(s)[i] = s[i + 1]
      /\ Head(s) = s[1]
  BY DEF Strand
<1>2. Ascending(Tail(s))
  BY <1>1 DEF Ascending
<1>3. ASSUME NEW x \in ToSet(Tail(s))
      PROVE  Head(s) < x
  <2>1. PICK i \in DOMAIN Tail(s) : Tail(s)[i] = x
    BY <1>3 DEF ToSet
  <2>2. x = s[i + 1] /\ i + 1 \in DOMAIN s /\ 1 \in DOMAIN s /\ 1 < i + 1
    BY <1>1, <2>1
  <2> QED  BY <1>1, <2>2 DEF Ascending
<1> QED  BY <1>2, <1>3

\* What the browser has, then what is on the wire, ascends, and the cursor of an
\* open connection is not behind it.
Ordered ==
  /\ Ascending(got) /\ Ascending(wire)
  /\ \A x \in ToSet(got), y \in ToSet(wire) : x < y
  /\ phase = "closed" => wire = <<>>
  /\ phase # "closed" => \A x \in ToSet(got) \cup ToSet(wire) : x <= last

\* The panel of all tasks keeps nothing of what it is sent.
OrderInv == IF kind = "all" THEN got = <<>> ELSE Ordered

LEMMA EmptyAscends == Ascending(<<>>)
BY DEF Ascending

\* What is sent is newer than everything sent before.
LEMMA SendOrdered ==
  ASSUME TypeOK, Ordered, NEW e \in Events, last < e, Send(e), phase # "closed", phase' # "closed",
         UNCHANGED got
  PROVE  Ordered'
<1>0. Events \subseteq Nat /\ last \in Nat /\ ToSet(got) \subseteq Nat /\ ToSet(wire) \subseteq Nat
  BY Committed
<1>1. wire' = Append(wire, e) /\ last' = e /\ wire \in Strand
  BY DEF Send, TypeOK
<1>2. \A x \in ToSet(got) \cup ToSet(wire) : x < e
  BY <1>0 DEF Ordered
<1>3. Ascending(wire') /\ ToSet(wire') = ToSet(wire) \cup {e}
  BY <1>1, <1>2, AscendingAppend, SendTyped DEF Ordered
<1>4. \A x \in ToSet(got) \cup ToSet(wire') : x <= e
  BY <1>0, <1>2, <1>3
<1>5. \A x \in ToSet(got), y \in ToSet(wire') : x < y
  BY <1>2, <1>3 DEF Ordered
<1> QED  BY <1>1, <1>3, <1>4, <1>5 DEF Ordered

LEMMA ReceiveOrdered ==
  ASSUME TypeOK, Ordered, Receive, kind # "all"
  PROVE  /\ Ordered'
         /\ ToSet(got') \cup ToSet(wire') = ToSet(got) \cup ToSet(wire)
<1> DEFINE h == Head(wire)
<1>0. /\ wire \in Strand /\ got \in Strand /\ wire # <<>>
      /\ got' = Append(got, h) /\ wire' = Tail(wire) /\ UNCHANGED <<phase, last>>
  BY DEF Receive, TypeOK, socketVars
<1>1. h \in Events /\ ToSet(wire) = {h} \cup ToSet(wire')
  BY <1>0, TailSet DEF Strand
<1>2. ToSet(got') = ToSet(got) \cup {h}
  BY <1>0, <1>1, AppendSet DEF Strand
<1>3. Ascending(wire') /\ \A y \in ToSet(wire') : h < y
  BY <1>0, AscendingTail DEF Ordered
<1>4. Ascending(got')
  BY <1>0, <1>1, AscendingAppend DEF Ordered
<1>5. \A x \in ToSet(got'), y \in ToSet(wire') : x < y
  BY <1>1, <1>2, <1>3 DEF Ordered
<1>6. phase # "closed"
  BY <1>0 DEF Ordered
<1> QED  BY <1>0, <1>1, <1>2, <1>3, <1>4, <1>5, <1>6 DEF Ordered

\* The steps that touch neither the connection nor what it has carried.
Carried == <<kind, phase, last, upto, wire, got>>

LEMMA WriterSteps ==
  ASSUME \/ \E p \in Processes : Commit(p) \/ PublishRunEvent(p) \/ PublishTaskEvent(p)
         \/ \E p \in Publishers : ReadOutbox(p) \/ PublishRow(p) \/ PassFails(p)
         \/ Relay \/ RelayFails \/ RelaySubscribes \/ Reload \/ UNCHANGED vars
  PROVE  UNCHANGED Carried
BY DEF Commit, PublishRunEvent, PublishTaskEvent, ReadOutbox, PublishRow, PassFails, Relay,
   RelayFails, RelaySubscribes, Reload, vars, Carried, socketVars, clientVars

LEMMA OrderStep == TypeOK /\ OrderInv /\ [Next]_vars => OrderInv'
<1> SUFFICES ASSUME TypeOK, OrderInv, [Next]_vars  PROVE OrderInv'
  OBVIOUS
<1> USE DEF socketVars, clientVars
<1>1. CASE UNCHANGED Carried
  BY <1>1 DEF Carried, OrderInv, Ordered
<1>2. CASE Subscribe
  <2>1. Ordered /\ kind' = kind /\ kind # "all" /\ wire = <<>>
    BY <1>2 DEF Subscribe, OrderInv, Ordered
  <2>2. \A x \in ToSet(got) : x <= After
    BY Cursor DEF TypeOK
  <2> QED  BY <1>2, <2>1, <2>2, EmptySet DEF Subscribe, OrderInv, Ordered
<1>3. CASE SubscribeAll
  BY <1>3 DEF SubscribeAll, OrderInv
<1>4. CASE SendRow
  <2>1. CASE kind = "all"
    BY <1>4, <2>1 DEF SendRow, OrderInv
  <2>2. CASE kind # "all" /\ last < upto
    <3>1. last + 1 \in Events /\ last < last + 1
      BY <2>2, BoundsAssumption DEF TypeOK, Events
    <3>2. Ordered'
      BY <1>4, <2>2, <3>1, SendOrdered DEF SendRow, OrderInv
    <3> QED  BY <1>4, <2>2, <3>2 DEF SendRow, OrderInv
  <2>3. CASE kind # "all" /\ ~(last < upto)
    BY <1>4, <2>3 DEF SendRow, OrderInv, Ordered
  <2> QED  BY <2>1, <2>2, <2>3
<1>5. CASE Follow
  <2>1. CASE kind = "all"
    BY <1>5, <2>1 DEF Follow, OrderInv
  <2>2. CASE kind # "all" /\ Head(queue) > last
    <3>1. Head(queue) \in Events /\ last < Head(queue)
      BY <1>5, <2>2, TailSet, Committed DEF Follow, TypeOK, Strand
    <3>2. Ordered'
      BY <1>5, <2>2, <3>1, SendOrdered DEF Follow, OrderInv
    <3> QED  BY <1>5, <2>2, <3>2 DEF Follow, OrderInv
  <2>3. CASE kind # "all" /\ ~(Head(queue) > last)
    BY <1>5, <2>3 DEF Follow, OrderInv, Ordered
  <2> QED  BY <2>1, <2>2, <2>3
<1>6. CASE Poll
  BY <1>6 DEF Poll, OrderInv, Ordered
<1>7. CASE Drop
  BY <1>7, EmptySet, EmptyAscends DEF Drop, OrderInv, Ordered
<1>8. CASE Receive
  <2>1. CASE kind = "all"
    BY <1>8, <2>1 DEF Receive, OrderInv
  <2>2. CASE kind # "all"
    BY <1>8, <2>2, ReceiveOrdered DEF Receive, OrderInv
  <2> QED  BY <2>1, <2>2
<1> QED
  BY <1>1, <1>2, <1>3, <1>4, <1>5, <1>6, <1>7, <1>8, WriterSteps, Zenon DEF Next, Finished

\* What the browser has received is a strictly ascending sequence of committed
\* events, over broken connections, replays and repeated or overtaken publications.
THEOREM InOrder == Spec => []DeliveredInOrder
<1>1. Init => OrderInv
  BY EmptySet, EmptyAscends DEF Init, OrderInv, Ordered
<1>2. TypeOK /\ Stored /\ OrderInv => DeliveredInOrder
  <2> SUFFICES ASSUME TypeOK, Stored, OrderInv  PROVE DeliveredInOrder
    OBVIOUS
  <2>1. Ascending(got)
    BY EmptyAscends DEF OrderInv, Ordered
  <2>2. ToSet(got) \subseteq 1..stored
    BY Committed DEF Stored, Events
  <2> QED  BY <2>1, <2>2 DEF DeliveredInOrder
<1> QED  BY <1>1, <1>2, InitTyped, NextTyped, StoredInit, StoredStep, OrderStep, PTL DEF Spec

-----------------------------------------------------------------------------
(* Gaps *)

Sent == ToSet(got) \cup ToSet(wire)

\* An event the open connection need not send any more, or will send from the store.
Covered(i) == i \in exposed \/ i <= last \/ i <= upto

\* What is missing before an event of the queue is covered, or waits before it.
QueueKnown ==
  \A j \in DOMAIN queue, i \in Events :
    i < queue[j] => Covered(i) \/ \E h \in 1..(j - 1) : queue[h] = i

\* What the hub has handed out is covered, or waits in the queue.
HubKnown == \A i \in hubbed : Covered(i) \/ i \in ToSet(queue)

NoGap == \A x \in Sent, i \in Events : i < x => i \in exposed \cup Sent
UpToLast == \A i \in Events : i <= last => i \in exposed \cup Sent

Gaps ==
  /\ NoGap
  /\ phase # "closed" => UpToLast /\ QueueKnown /\ HubKnown
  /\ phase = "follow" => upto <= last
GapInv == kind # "all" => Gaps

LEMMA GapQuiet ==
  ASSUME GapInv, UNCHANGED Carried, UNCHANGED <<queue, ghostVars>>
  PROVE  GapInv'
BY DEF Carried, ghostVars, GapInv, Gaps, NoGap, UpToLast, QueueKnown, HubKnown, Covered, Sent

LEMMA GapHandOut ==
  ASSUME TypeOK, GapInv, NEW e \in Events, HandOut(e), UNCHANGED Carried
  PROVE  GapInv'
<1> SUFFICES ASSUME kind # "all"  PROVE Gaps'
  BY DEF GapInv, Carried
<1>0. /\ Gaps /\ UNCHANGED <<phase, last, upto, wire, got>> /\ Sent' = Sent
      /\ hubbed' = hubbed \cup {e} /\ exposed \subseteq exposed'
      /\ \A i \in Events : i < e => i \in hubbed \/ i \in exposed'
  BY DEF GapInv, Carried, HandOut, Sent
<1>1. NoGap' /\ (phase' = "follow" => upto' <= last') /\ (UpToLast => UpToLast')
  BY <1>0 DEF Gaps, NoGap, UpToLast
<1>2. \A i : Covered(i) => Covered(i)'
  BY <1>0 DEF Covered
<1>3. CASE phase = "closed"
  BY <1>0, <1>1, <1>3 DEF Gaps
<1>4. CASE phase # "closed"
  <2>1. queue' = Append(queue, e) /\ queue \in Strand
    BY <1>4 DEF HandOut, TypeOK
  <2>2. /\ DOMAIN queue' = 1..(Len(queue) + 1) /\ DOMAIN queue = 1..Len(queue)
        /\ Len(queue) \in Nat
        /\ \A i \in 1..(Len(queue) + 1) : queue'[i] = IF i <= Len(queue) THEN queue[i] ELSE e
    BY <2>1 DEF Strand
  <2>3. ToSet(queue') = ToSet(queue) \cup {e}
    BY <2>1, AppendSet DEF Strand
  <2>4. QueueKnown /\ HubKnown /\ UpToLast
    BY <1>0, <1>4 DEF Gaps
  <2>5. HubKnown'
    <3> SUFFICES ASSUME NEW i \in hubbed'  PROVE Covered(i)' \/ i \in ToSet(queue')
      BY DEF HubKnown
    <3>1. CASE i = e
      BY <2>3, <3>1
    <3>2. CASE i \in hubbed
      BY <1>2, <2>3, <2>4, <3>2 DEF HubKnown
    <3> QED  BY <1>0, <3>1, <3>2
  <2>6. QueueKnown'
    <3> SUFFICES ASSUME NEW j \in 1..(Len(queue) + 1), NEW i \in Events, i < queue'[j]
                 PROVE  Covered(i)' \/ \E h \in 1..(j - 1) : queue'[h] = i
      BY <2>2 DEF QueueKnown
    <3>1. CASE j <= Len(queue)
      <4>1. i < queue[j] /\ j \in DOMAIN queue
        BY <2>2, <3>1
      <4>2. CASE Covered(i)
        BY <1>2, <4>2
      <4>3. CASE \E h \in 1..(j - 1) : queue[h] = i
        <5>1. PICK h \in 1..(j - 1) : queue[h] = i
          BY <4>3
        <5>2. queue'[h] = i
          BY <2>2, <3>1, <5>1
        <5> QED  BY <5>2
      <4> QED  BY <2>4, <4>1, <4>2, <4>3 DEF QueueKnown
    <3>2. CASE j = Len(queue) + 1
      <4>1. i < e
        BY <2>2, <3>2
      <4>2. CASE i \in exposed'
        BY <4>2 DEF Covered
      <4>3. CASE Covered(i)
        BY <1>2, <4>3
      <4>4. CASE i \in ToSet(queue)
        <5>1. PICK h \in DOMAIN queue : queue[h] = i
          BY <4>4 DEF ToSet
        <5>2. h \in 1..(j - 1) /\ queue'[h] = i
          BY <2>2, <3>2, <5>1
        <5> QED  BY <5>2
      <4> QED  BY <1>0, <2>4, <4>1, <4>2, <4>3, <4>4 DEF HubKnown
    <3> QED  BY <2>2, <3>1, <3>2
  <2> QED  BY <1>1, <2>4, <2>5, <2>6 DEF Gaps
<1> QED  BY <1>3, <1>4

LEMMA GapSubscribe ==
  ASSUME TypeOK, Stored, OrderInv, GapInv, Subscribe
  PROVE  GapInv'
<1>0. /\ kind # "all" /\ phase = "closed" /\ wire = <<>> /\ Gaps
      /\ phase' = "replay" /\ last' = After /\ queue' = <<>> /\ UNCHANGED <<wire, got, hubbed>>
      /\ upto' = LastRow(After)
      /\ exposed' = exposed \cup {i \in Events : upto' < i /\ i <= stored}
  BY DEF Subscribe, OrderInv, Ordered, GapInv, clientVars
<1>1. Sent' = Sent /\ Sent = ToSet(got)
  BY <1>0, EmptySet DEF Sent
<1>2. NoGap'
  BY <1>0, <1>1 DEF Gaps, NoGap
<1>3. UpToLast'
  <2> SUFFICES ASSUME NEW i \in Events, i <= After  PROVE i \in exposed \cup Sent
    BY <1>0, <1>1 DEF UpToLast
  <2>1. i \in Nat \ {0} /\ After \in Nat /\ After \in {0} \cup ToSet(got)
    BY Cursor, BoundsAssumption DEF TypeOK, Events
  <2>2. After \in Sent
    BY <1>1, <2>1
  <2>3. CASE i = After
    BY <2>2, <2>3
  <2>4. CASE i < After
    BY <1>0, <2>2, <2>4 DEF Gaps, NoGap
  <2> QED  BY <2>1, <2>3, <2>4
<1>4. QueueKnown'
  BY <1>0 DEF QueueKnown
<1>5. HubKnown'
  <2> SUFFICES ASSUME NEW i \in hubbed  PROVE i \in exposed' \/ i <= upto'
    BY <1>0 DEF HubKnown, Covered
  <2>1. i \in Events /\ i <= stored /\ i \in Nat
    BY BoundsAssumption DEF Stored, TypeOK, Events
  <2>2. upto' \in Nat
    BY <1>0, Cursor, LastRowTyped, BoundsAssumption DEF TypeOK
  <2> QED  BY <1>0, <2>1, <2>2
<1> QED  BY <1>0, <1>2, <1>3, <1>4, <1>5 DEF GapInv, Gaps

\* An event is sent when all before it were sent or are exposed.
LEMMA GapSend ==
  ASSUME TypeOK, Gaps, phase # "closed", NEW e \in Events, last < e, Send(e),
         \A i \in Events : last < i /\ i < e => i \in exposed,
         UNCHANGED <<got, exposed>>
  PROVE  NoGap' /\ UpToLast'
<1>0. Events \subseteq Nat /\ last \in Nat /\ Sent \subseteq Events
  BY Committed DEF Sent
<1>1. Sent' = Sent \cup {e} /\ last' = e
  BY SendTyped DEF Send, Sent
<1>2. \A i \in Events : i < e => i \in exposed \cup Sent
  <2> SUFFICES ASSUME NEW i \in Events, i < e  PROVE i \in exposed \cup Sent
    OBVIOUS
  <2>1. CASE i <= last
    BY <2>1 DEF Gaps, UpToLast
  <2>2. CASE last < i
    BY <2>2
  <2> QED  BY <1>0, <2>1, <2>2
<1>3. NoGap'
  BY <1>1, <1>2 DEF Gaps, NoGap
<1>4. UpToLast'
  <2> SUFFICES ASSUME NEW i \in Events, i <= e  PROVE i \in exposed \cup Sent'
    BY <1>1 DEF UpToLast
  <2> QED  BY <1>0, <1>1, <1>2
<1> QED  BY <1>3, <1>4

LEMMA GapSendRow ==
  ASSUME TypeOK, GapInv, SendRow
  PROVE  GapInv'
<1> SUFFICES ASSUME kind # "all"  PROVE Gaps'
  BY DEF GapInv, SendRow
<1>0. /\ Gaps /\ phase = "replay" /\ UNCHANGED <<upto, queue, hubbed, exposed, got>>
      /\ last \in Nat /\ upto \in Nat /\ Events \subseteq Nat
  BY Committed DEF SendRow, GapInv, ghostVars
<1>1. CASE last < upto
  <2>1. last + 1 \in Events /\ last < last + 1 /\ Send(last + 1) /\ phase' = phase /\ last' = last + 1
    BY <1>1, BoundsAssumption DEF SendRow, Send, TypeOK, Events
  <2>2. NoGap' /\ UpToLast'
    BY <1>0, <2>1, GapSend
  <2>3. \A i \in Events : Covered(i) => Covered(i)'
    BY <1>0, <2>1 DEF Covered
  <2>4. QueueKnown' /\ HubKnown'
    BY <1>0, <2>3 DEF Gaps, QueueKnown, HubKnown, TypeOK
  <2> QED  BY <1>0, <2>1, <2>2, <2>4 DEF Gaps
<1>2. CASE ~(last < upto)
  <2>1. UNCHANGED <<last, wire>> /\ phase' = "follow"
    BY <1>2 DEF SendRow
  <2>2. Sent' = Sent /\ \A i : Covered(i)' <=> Covered(i)
    BY <1>0, <2>1 DEF Sent, Covered
  <2> QED  BY <1>0, <1>2, <2>1, <2>2 DEF Gaps, NoGap, UpToLast, QueueKnown, HubKnown
<1> QED  BY <1>1, <1>2

LEMMA GapFollow ==
  ASSUME TypeOK, GapInv, Follow
  PROVE  GapInv'
<1> SUFFICES ASSUME kind # "all"  PROVE Gaps'
  BY DEF GapInv, Follow
<1> DEFINE e == Head(queue)
<1>0. /\ Gaps /\ phase = "follow" /\ phase' = phase /\ UNCHANGED <<upto, hubbed, exposed, got>>
      /\ queue # <<>> /\ queue' = Tail(queue)
      /\ last \in Nat /\ upto \in Nat /\ Events \subseteq Nat
  BY Committed DEF Follow, GapInv, ghostVars
<1>1. /\ DOMAIN queue = 1..Len(queue) /\ Len(queue) \in Nat \ {0}
      /\ DOMAIN queue' = 1..(Len(queue) - 1)
      /\ \A i \in 1..(Len(queue) - 1) : queue'[i] = queue[i + 1]
      /\ e = queue[1] /\ e \in Events
  BY <1>0 DEF TypeOK, Strand
<1>2. ToSet(queue) = {e} \cup ToSet(queue')
  BY <1>0, TailSet DEF TypeOK, Strand
<1>3. /\ UpToLast /\ QueueKnown /\ HubKnown /\ upto <= last
  BY <1>0 DEF Gaps
<1> HIDE DEF e
<1>4. /\ NoGap' /\ UpToLast' /\ e <= last' /\ last <= last' /\ last' \in Nat
  <2>1. CASE e > last
    <3>1. Send(e) /\ last' = e
      BY <2>1 DEF Follow, Send, e
    <3>2. ASSUME NEW i \in Events, last < i, i < e
          PROVE  i \in exposed
      <4>1. Covered(i) \/ \E h \in 1..0 : queue[h] = i
        BY <1>1, <1>3, <3>2 DEF QueueKnown
      <4> QED  BY <1>0, <1>3, <3>2, <4>1 DEF Covered
    <3>3. NoGap' /\ UpToLast'
      BY <1>0, <1>1, <2>1, <3>1, <3>2, GapSend
    <3>4. e <= last' /\ last <= last' /\ last' \in Nat
      BY <1>0, <1>1, <2>1, <3>1
    <3> QED  BY <3>3, <3>4
  <2>2. CASE ~(e > last)
    <3>1. UNCHANGED <<last, wire>>
      BY <2>2 DEF Follow, e
    <3>2. Sent' = Sent
      BY <1>0, <3>1 DEF Sent
    <3>3. NoGap' /\ UpToLast'
      BY <1>0, <3>1, <3>2 DEF Gaps, NoGap, UpToLast
    <3>4. e <= last' /\ last <= last' /\ last' \in Nat
      BY <1>0, <1>1, <2>2, <3>1
    <3> QED  BY <3>3, <3>4
  <2> QED  BY <2>1, <2>2
<1>5. \A i \in Events : Covered(i) \/ i = e => Covered(i)'
  BY <1>0, <1>4 DEF Covered
<1>6. HubKnown'
  BY <1>0, <1>2, <1>3, <1>5 DEF HubKnown, TypeOK
<1>7. QueueKnown'
  <2> SUFFICES ASSUME NEW j \in 1..(Len(queue) - 1), NEW i \in Events, i < queue'[j]
               PROVE  Covered(i)' \/ \E h \in 1..(j - 1) : queue'[h] = i
    BY <1>1 DEF QueueKnown
  <2>1. j + 1 \in DOMAIN queue /\ i < queue[j + 1] /\ (j + 1) - 1 = j
    BY <1>1
  <2>2. Covered(i) \/ \E h \in 1..j : queue[h] = i
    BY <1>3, <2>1 DEF QueueKnown
  <2>3. CASE Covered(i)
    BY <1>5, <2>3
  <2>4. ASSUME NEW h \in 1..j, queue[h] = i
        PROVE  Covered(i)' \/ \E g \in 1..(j - 1) : queue'[g] = i
    <3>1. CASE h = 1
      BY <1>1, <1>5, <2>4, <3>1
    <3>2. CASE h # 1
      <4>1. h - 1 \in 1..(j - 1) /\ queue'[h - 1] = i
        BY <1>1, <2>4, <3>2
      <4> QED  BY <4>1
    <3> QED  BY <3>1, <3>2
  <2> QED  BY <2>2, <2>3, <2>4
<1>8. upto' <= last'
  BY <1>0, <1>3, <1>4
<1> QED  BY <1>0, <1>4, <1>6, <1>7, <1>8 DEF Gaps

LEMMA GapPoll ==
  ASSUME TypeOK, GapInv, Poll
  PROVE  GapInv'
<1>0. /\ Gaps /\ phase = "follow" /\ phase' = "replay" /\ upto' = LastRow(last) /\ last < upto'
      /\ UNCHANGED <<kind, last, queue, wire, got, hubbed, exposed>>
  BY DEF Poll, GapInv, clientVars, ghostVars
<1>1. last \in Nat /\ upto \in Nat /\ upto' \in Nat /\ Events \subseteq Nat
  BY <1>0, Committed, LastRowTyped, BoundsAssumption DEF TypeOK
<1>2. upto <= upto' /\ Sent' = Sent
  BY <1>0, <1>1 DEF Gaps, Sent
<1>3. \A i \in Events : Covered(i) => Covered(i)'
  BY <1>0, <1>1, <1>2 DEF Covered
<1> QED
  BY <1>0, <1>2, <1>3 DEF GapInv, Gaps, NoGap, UpToLast, QueueKnown, HubKnown, TypeOK

LEMMA GapDrop ==
  ASSUME TypeOK, OrderInv, GapInv, Drop
  PROVE  GapInv'
<1> SUFFICES ASSUME kind # "all"  PROVE NoGap' /\ phase' = "closed"
  BY DEF GapInv, Gaps, Drop
<1>0. Gaps /\ Ordered /\ phase' = "closed" /\ UNCHANGED <<got, exposed>> /\ wire' = <<>>
  BY DEF Drop, GapInv, OrderInv, ghostVars
<1>1. Sent' = ToSet(got) /\ ToSet(got) \subseteq Nat /\ ToSet(wire) \subseteq Nat
  BY <1>0, EmptySet, Committed DEF Sent
<1>2. ASSUME NEW x \in ToSet(got), NEW i \in Events, i < x
      PROVE  i \in exposed \cup ToSet(got)
  <2>1. i \in exposed \cup Sent
    BY <1>0, <1>2 DEF Gaps, NoGap, Sent
  <2>2. i \notin ToSet(wire)
    BY <1>0, <1>1, <1>2 DEF Ordered
  <2> QED  BY <2>1, <2>2 DEF Sent
<1> QED  BY <1>0, <1>1, <1>2 DEF NoGap

LEMMA GapStep == TypeOK /\ Stored /\ OrderInv /\ GapInv /\ [Next]_vars => GapInv'
<1> SUFFICES ASSUME TypeOK, Stored, OrderInv, GapInv, [Next]_vars  PROVE GapInv'
  OBVIOUS
<1>1. ASSUME NEW p \in Processes, PublishTaskEvent(p)
      PROVE  GapInv'
  <2>1. UNCHANGED Carried
    BY <1>1, WriterSteps
  <2>2. emitting[p] \in Events
    BY <1>1, BoundsAssumption DEF PublishTaskEvent, TypeOK, Events
  <2>3. CASE p = "api"
    BY <1>1, <2>1, <2>2, <2>3, GapHandOut DEF PublishTaskEvent
  <2>4. CASE p # "api"
    BY <1>1, <2>1, <2>4, GapQuiet DEF PublishTaskEvent
  <2> QED  BY <2>3, <2>4
<1>2. CASE Relay
  <2>1. UNCHANGED Carried /\ HandOut(Head(channel))
    BY <1>2, WriterSteps DEF Relay
  <2>2. Head(channel) \in Events
    BY <1>2, TailSet DEF Relay, TypeOK, Strand
  <2> QED  BY <2>1, <2>2, GapHandOut
<1>3. CASE \/ \E p \in Processes : Commit(p) \/ PublishRunEvent(p)
           \/ \E p \in Publishers : ReadOutbox(p) \/ PublishRow(p) \/ PassFails(p)
           \/ RelayFails \/ RelaySubscribes \/ Reload \/ UNCHANGED vars
  <2>1. UNCHANGED Carried
    BY <1>3, WriterSteps
  <2>2. UNCHANGED <<queue, ghostVars>>
    BY <1>3 DEF Commit, PublishRunEvent, ReadOutbox, PublishRow, PassFails, RelayFails,
       RelaySubscribes, Reload, vars, socketVars
  <2> QED  BY <2>1, <2>2, GapQuiet
<1>4. CASE Subscribe
  BY <1>4, GapSubscribe
<1>5. CASE SubscribeAll
  BY <1>5 DEF SubscribeAll, GapInv
<1>6. CASE SendRow
  BY <1>6, GapSendRow
<1>7. CASE Follow
  BY <1>7, GapFollow
<1>8. CASE Poll
  BY <1>8, GapPoll
<1>9. CASE Drop
  BY <1>9, GapDrop
<1>10. CASE Receive
  <2>1. CASE kind = "all"
    BY <1>10, <2>1 DEF Receive, GapInv
  <2>2. CASE kind # "all"
    <3>1. Sent' = Sent /\ UNCHANGED <<kind, phase, last, upto, queue, hubbed, exposed>>
      BY <1>10, <2>2, ReceiveOrdered DEF Receive, OrderInv, Sent, socketVars, ghostVars
    <3> QED  BY <3>1 DEF GapInv, Gaps, NoGap, UpToLast, QueueKnown, HubKnown, Covered
  <2> QED  BY <2>1, <2>2
<1> QED
  BY <1>1, <1>2, <1>3, <1>4, <1>5, <1>6, <1>7, <1>8, <1>9, <1>10, Zenon DEF Next, Finished

\* Replay, subscription, polling and reconnection skip nothing of their own: an
\* event the browser misses was overtaken by a later one in the hub, or lay beyond
\* the page that was read.
THEOREM SkippedWereExposed == Spec => []SkippedOnlyIfExposed
<1>1. Init => OrderInv /\ GapInv
  BY EmptySet, EmptyAscends
  DEF Init, OrderInv, Ordered, GapInv, Gaps, NoGap, UpToLast, QueueKnown, HubKnown, Sent, Events
<1>2. TypeOK /\ OrderInv /\ GapInv => SkippedOnlyIfExposed
  <2> SUFFICES ASSUME TypeOK, OrderInv, GapInv, NEW i \in Events, i < After, i \notin ToSet(got)
               PROVE  i \in exposed
    BY DEF SkippedOnlyIfExposed, Skipped
  <2>1. i \in Nat \ {0} /\ After \in ToSet(got) /\ After \in Nat
    BY Cursor, BoundsAssumption DEF TypeOK, Events
  <2>2. kind # "all" /\ Ordered /\ Gaps
    BY <2>1, EmptySet DEF OrderInv, GapInv
  <2>3. i \in exposed \cup Sent
    BY <2>1, <2>2 DEF Gaps, NoGap, Sent
  <2>4. i \notin ToSet(wire)
    BY <2>1, <2>2, Committed DEF Ordered
  <2> QED  BY <2>3, <2>4 DEF Sent
<1> QED
  BY <1>1, <1>2, InitTyped, NextTyped, StoredInit, StoredStep, OrderStep, GapStep, PTL DEF Spec
=============================================================================
