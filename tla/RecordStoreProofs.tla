--------------------------- MODULE RecordStoreProofs ---------------------------
(***************************************************************************)
(* Proofs about RecordStore, and about EventStream, which feeds it, for    *)
(* every set of registrations and occurrences, every ceiling and every     *)
(* capacity of the inbox.                                                  *)
(***************************************************************************)
EXTENDS EventStream, FiniteSetTheorems, SequenceTheorems, TLAPS

USE RecordAssumption

\* The three ways an accepted upsert can leave the list: nothing but the
\* placeholder gone, the placeholder traded for what it stood for, or longer by
\* one, which only an upsert that grows the list does.
LEMMA WithCardinality ==
  ASSUME NEW S, IsFiniteSet(S), NEW id \in EntryId
  PROVE  /\ IsFiniteSet(With(S, id))
         /\ id \in S => Cardinality(With(S, id)) <= Cardinality(S)
         /\ ~is_pending(id) /\ pending(id) \in S => Cardinality(With(S, id)) <= Cardinality(S)
         /\ Cardinality(With(S, id)) <= Cardinality(S) + 1
  <1>. DEFINE rest == IF is_pending(id) THEN S ELSE S \ {pending(id)}
  <1>1. /\ IsFiniteSet(rest) /\ Cardinality(rest) \in Nat /\ Cardinality(S) \in Nat
        /\ Cardinality(rest) <= Cardinality(S)
        /\ ~is_pending(id) /\ pending(id) \in S => Cardinality(rest) = Cardinality(S) - 1
    BY FS_CardinalityType, FS_RemoveElement
  <1>2. id \in S => id \in rest
    BY DEF is_pending, pending
  <1>3. With(S, id) = rest \cup {id}
    BY DEF With
  <1>. HIDE DEF rest
  <1>4. /\ IsFiniteSet(rest \cup {id})
        /\ Cardinality(rest \cup {id}) = IF id \in rest THEN Cardinality(rest) ELSE Cardinality(rest) + 1
    BY <1>1, FS_AddElement
  <1>5. QED
    BY <1>1, <1>2, <1>3, <1>4

\* What a step that only takes records away does to the list.
LEMMA ShrinkKeeps ==
  ASSUME RecordTypeOK, WithinLimit, records' \subseteq records
  PROVE  /\ records' \subseteq EntryId /\ IsFiniteSet(records')
         /\ Cardinality(records') <= MAX_DISCOVERED_OCCURRENCES
  <1>1. IsFiniteSet(records') /\ Cardinality(records') <= Cardinality(records)
    BY FS_Subset DEF RecordTypeOK
  <1>2. Cardinality(records') \in Nat /\ Cardinality(records) \in Nat
    BY <1>1, FS_CardinalityType DEF RecordTypeOK
  <1>3. QED
    BY <1>1, <1>2 DEF RecordTypeOK, WithinLimit

RecordInv == RecordTypeOK /\ WithinLimit

LEMMA RecordInvInit == RecordInit => RecordInv
  <1>1. IsFiniteSet({}) /\ Cardinality({}) = 0
    BY FS_EmptySet
  <1>. SUFFICES ASSUME RecordInit PROVE RecordInv
    OBVIOUS
  <1>2. IsFiniteSet(records) /\ Cardinality(records) = 0
    BY <1>1, Zenon DEF RecordInit
  <1>3. RecordTypeOK
    BY <1>2 DEF RecordInit, RecordTypeOK
  <1>4. WithinLimit
    BY <1>2 DEF WithinLimit, RecordAssumption
  <1>5. QED
    BY <1>3, <1>4 DEF RecordInv

LEMMA UpsertKeeps ==
  ASSUME RecordInv, NEW id \in EntryId, Upsert(id)
  PROVE  RecordInv'
  <1>1. CASE Refuses(id)
    BY <1>1 DEF Upsert, RecordInv, RecordTypeOK, WithinLimit
  <1>2. CASE ~Refuses(id)
    <2>1. records' = With(records, id) /\ record_limit_reached' = record_limit_reached
      BY <1>2 DEF Upsert
    <2>2. IsFiniteSet(records)
      BY DEF RecordInv, RecordTypeOK
    <2>3. /\ IsFiniteSet(records')
          /\ Cardinality(records) \in Nat /\ Cardinality(records') \in Nat
      BY <2>1, <2>2, WithCardinality, FS_CardinalityType
    <2>4. CASE ~grows(id)
      <3>1. id \in records \/ (~is_pending(id) /\ pending(id) \in records)
        BY <2>4 DEF grows
      <3>2. Cardinality(records') <= Cardinality(records)
        BY <2>1, <2>2, <3>1, WithCardinality
      <3>3. QED
        BY <2>1, <2>3, <3>2 DEF RecordInv, RecordTypeOK, WithinLimit, With
    <2>5. CASE ~Full
      <3>1. Cardinality(records') <= Cardinality(records) + 1
        BY <2>1, <2>2, WithCardinality
      <3>2. Cardinality(records) < MAX_DISCOVERED_OCCURRENCES
        BY <2>3, <2>5 DEF Full
      <3>3. QED
        BY <2>1, <2>3, <3>1, <3>2 DEF RecordInv, RecordTypeOK, WithinLimit, With
    <2>6. QED
      BY <1>2, <2>4, <2>5 DEF Refuses
  <1>3. QED
    BY <1>1, <1>2

LEMMA RemovalKeeps ==
  ASSUME RecordInv, records' \subseteq records, reopen_record_capacity
  PROVE  RecordInv'
  BY ShrinkKeeps DEF reopen_record_capacity, RecordInv, RecordTypeOK, WithinLimit

LEMMA RecordInvNext == RecordInv /\ [RecordNext]_recordVars => RecordInv'
  <1>. SUFFICES ASSUME RecordInv, [RecordNext]_recordVars PROVE RecordInv'
    OBVIOUS
  <1>1. ASSUME NEW id \in EntryId, Upsert(id) PROVE RecordInv'
    BY <1>1, UpsertKeeps
  <1>2. ASSUME NEW id \in EntryId, Remove(id) PROVE RecordInv'
    BY <1>2, RemovalKeeps DEF Remove
  <1>3. ASSUME NEW r \in Registrations, RemoveRegistration(r) PROVE RecordInv'
    BY <1>3, RemovalKeeps DEF RemoveRegistration, Without
  <1>4. CASE UNCHANGED recordVars
    BY <1>4 DEF recordVars, RecordInv, RecordTypeOK, WithinLimit
  <1>5. CASE Cleared
    BY <1>5, ShrinkKeeps DEF Cleared, RecordInv, RecordTypeOK, WithinLimit
  <1>6. QED
    BY <1>1, <1>2, <1>3, <1>4, <1>5 DEF RecordNext

\* The list never outgrows its ceiling, whatever events arrive in whatever
\* order (App::drain_discovery).
THEOREM WithinLimitHolds == RecordSpec => []WithinLimit
  <1>1. RecordInv => WithinLimit
    BY DEF RecordInv
  <1>2. QED
    BY RecordInvInit, RecordInvNext, <1>1, PTL DEF RecordSpec

\* No removal lifts the refusal unless it leaves room (App::reopen_record_capacity).
THEOREM ReopensOnlyWithRoomHolds == RecordSpec => ReopensOnlyWithRoom
  <1>. DEFINE Reopening ==
         record_limit_reached /\ ~record_limit_reached' =>
           Cardinality(records') < MAX_DISCOVERED_OCCURRENCES
  <1>1. ASSUME RecordInv, [RecordNext]_recordVars PROVE [Reopening]_recordVars
    <2>1. ASSUME NEW id \in EntryId, Upsert(id) PROVE Reopening
      BY <2>1 DEF Upsert
    <2>2. ASSUME reopen_record_capacity PROVE Reopening
      BY <2>2 DEF reopen_record_capacity
    <2>3. CASE Cleared
      BY <2>3, FS_EmptySet DEF Cleared
    <2>4. QED
      BY <1>1, <2>1, <2>2, <2>3 DEF RecordNext, Remove, RemoveRegistration
  <1>2. RecordSpec => []RecordInv
    BY RecordInvInit, RecordInvNext, PTL DEF RecordSpec
  <1>3. QED
    BY <1>1, <1>2, PTL DEF RecordSpec, ReopensOnlyWithRoom

-----------------------------------------------------------------------------
(* EventStream.                                                            *)

\* A placeholder goes when what it stands for arrives.
LEMMA Superseded ==
  ASSUME NEW x \in EntryId, NEW id \in EntryId
  PROVE  (is_pending(id) /\ x # id /\ x[1] = id[1]) <=> (~is_pending(x) /\ id = pending(x))
  BY DEF EntryId, is_pending, pending

LEMMA EventKinds ==
  ASSUME NEW event \in Event
  PROVE  \/ \E x \in EntryId : event = UpsertEvent(x)
         \/ \E x \in EntryId : event = RemoveEvent(x)
         \/ \E r \in Registrations : event = RemoveRegistrationEvent(r)
         \/ event = StatusEvent
  BY DEF Event, UpsertEvent, RemoveEvent, RemoveRegistrationEvent, StatusEvent

LEMMA WhatDrops ==
  ASSUME NEW id
  PROVE  /\ ~Drops(StatusEvent, id)
         /\ \A x : Drops(UpsertEvent(x), id) <=> is_pending(id) /\ x # id /\ x[1] = id[1]
         /\ \A x : Drops(RemoveEvent(x), id) <=> x = id
         /\ \A r : Drops(RemoveRegistrationEvent(r), id) <=> r = id[1]
  BY DEF Drops, UpsertEvent, RemoveEvent, RemoveRegistrationEvent, StatusEvent

LEMMA WhatApplies ==
  /\ Apply(StatusEvent) <=> UNCHANGED recordVars
  /\ \A x : Apply(UpsertEvent(x)) <=> Upsert(x)
  /\ \A x : Apply(RemoveEvent(x)) <=> Remove(x)
  /\ \A r : Apply(RemoveRegistrationEvent(r)) <=> RemoveRegistration(r)
  BY DEF Apply, UpsertEvent, RemoveEvent, RemoveRegistrationEvent, StatusEvent

\* An event that is applied while the ceiling is out of reach puts on the list
\* what it announces and takes off it what it drops, and nothing else.
LEMMA AppliedToRecords ==
  ASSUME RecordTypeOK, NEW event \in Event, Apply(event), ~record_limit_reached', NEW id \in EntryId
  PROVE  id \in records' <=> event = UpsertEvent(id) \/ (id \in records /\ ~Drops(event, id))
  <1>1. ASSUME NEW x \in EntryId, event = UpsertEvent(x)
        PROVE  id \in records' <=> event = UpsertEvent(id) \/ (id \in records /\ ~Drops(event, id))
    <2>1. records' = With(records, x)
      BY <1>1, WhatApplies DEF Upsert
    <2>2. event = UpsertEvent(id) <=> x = id
      BY <1>1 DEF UpsertEvent
    <2>3. Drops(event, id) <=> (~is_pending(x) /\ id = pending(x))
      BY <1>1, WhatDrops, Superseded
    <2>4. x = id => ~Drops(event, id)
      BY <1>1, WhatDrops
    <2>5. QED
      BY <2>1, <2>2, <2>3, <2>4 DEF With
  <1>2. ASSUME NEW x \in EntryId, event = RemoveEvent(x)
        PROVE  id \in records' <=> event = UpsertEvent(id) \/ (id \in records /\ ~Drops(event, id))
    <2>1. event # UpsertEvent(id)
      BY <1>2 DEF UpsertEvent, RemoveEvent
    <2>2. QED
      BY <1>2, <2>1, WhatApplies, WhatDrops DEF Remove
  <1>3. ASSUME NEW r \in Registrations, event = RemoveRegistrationEvent(r)
        PROVE  id \in records' <=> event = UpsertEvent(id) \/ (id \in records /\ ~Drops(event, id))
    <2>1. event # UpsertEvent(id)
      BY <1>3 DEF UpsertEvent, RemoveRegistrationEvent
    <2>2. QED
      BY <1>3, <2>1, WhatApplies, WhatDrops DEF RemoveRegistration, Without
  <1>4. CASE event = StatusEvent
    <2>1. event # UpsertEvent(id)
      BY <1>4 DEF UpsertEvent, StatusEvent
    <2>2. QED
      BY <1>4, <2>1, WhatApplies, WhatDrops DEF recordVars
  <1>5. QED
    BY <1>1, <1>2, <1>3, <1>4, EventKinds

\* What is sent decides what will be listed, as if it had been applied already.
LEMMA SentIsListed ==
  ASSUME StreamTypeOK, NEW event \in Event, inbox' = Append(inbox, event), records' = records,
         NEW id \in EntryId
  PROVE  Lists(id)' <=> event = UpsertEvent(id) \/ (Lists(id) /\ ~Drops(event, id))
  <1>. PICK n \in Nat : n = Len(inbox)
    BY LenProperties DEF StreamTypeOK
  <1>1. /\ n \in Nat /\ DOMAIN inbox = 1 .. n /\ DOMAIN inbox' = 1 .. n + 1
        /\ inbox'[n + 1] = event
        /\ \A i \in 1 .. n : inbox'[i] = inbox[i]
    BY DEF StreamTypeOK
  <1>2. \A i \in 1 .. n : KeptFrom(i, id)' <=> KeptFrom(i, id) /\ ~Drops(event, id)
    BY <1>1 DEF KeptFrom
  <1>3. KeptFrom(1, id)' <=> KeptFrom(1, id) /\ ~Drops(event, id)
    BY <1>1 DEF KeptFrom
  <1>4. KeptFrom(n + 1, id)' <=> ~Drops(event, id)
    <2>1. KeptFrom(n + 1, id)' <=> \A j \in 1 .. n + 1 : j >= n + 1 => ~Drops(inbox'[j], id)
      BY <1>1 DEF KeptFrom
    <2>2. \A j \in 1 .. n + 1 : j >= n + 1 <=> j = n + 1
      BY <1>1
    <2>3. QED
      BY <1>1, <2>1, <2>2
  <1>5. event = UpsertEvent(id) => ~Drops(event, id)
    BY WhatDrops
  <1>6. Lists(id)' <=> \/ id \in records /\ KeptFrom(1, id)'
                       \/ \E i \in 1 .. n : inbox[i] = UpsertEvent(id) /\ KeptFrom(i, id)'
                       \/ event = UpsertEvent(id) /\ KeptFrom(n + 1, id)'
    <2>1. UpsertEvent(id)' = UpsertEvent(id)
      BY DEF UpsertEvent
    <2>2. Lists(id)' <=> \/ id \in records /\ KeptFrom(1, id)'
                         \/ \E i \in 1 .. n + 1 : inbox'[i] = UpsertEvent(id) /\ KeptFrom(i, id)'
      BY <1>1, <2>1 DEF Lists
    <2>3. QED
      BY <1>1, <2>2
  <1>7. Lists(id) <=> \/ id \in records /\ KeptFrom(1, id)
                      \/ \E i \in 1 .. n : inbox[i] = UpsertEvent(id) /\ KeptFrom(i, id)
    BY <1>1 DEF Lists
  <1>8. QED
    BY <1>2, <1>3, <1>4, <1>5, <1>6, <1>7

\* Draining changes nothing of what will be listed, until the ceiling is hit.
LEMMA AppliedIsListed ==
  ASSUME StreamTypeOK, Drain, ~record_limit_reached', NEW id \in EntryId
  PROVE  Lists(id)' <=> Lists(id)
  <1>. DEFINE n == Len(inbox)
              event == Head(inbox)
  <1>1. /\ n \in Nat /\ n >= 1 /\ DOMAIN inbox = 1 .. n /\ DOMAIN inbox' = 1 .. n - 1
        /\ event = inbox[1] /\ event \in Event
        /\ \A i \in 1 .. n - 1 : inbox'[i] = inbox[i + 1]
    <2>1. inbox \in Seq(Event) /\ inbox # <<>> /\ inbox' = Tail(inbox)
      BY DEF StreamTypeOK, Drain
    <2>2. QED
      BY <2>1, HeadTailProperties
  <1>2. Apply(event) /\ RecordTypeOK
    BY DEF Drain, StreamTypeOK
  <1>3. id \in records' <=> event = UpsertEvent(id) \/ (id \in records /\ ~Drops(event, id))
    BY <1>1, <1>2, AppliedToRecords
  <1>4. event = UpsertEvent(id) => ~Drops(event, id)
    BY WhatDrops
  <1>. HIDE DEF n, event
  <1>5. KeptFrom(1, id) <=> ~Drops(event, id) /\ KeptFrom(1, id)'
    <2>1. KeptFrom(1, id)' <=> \A j \in 1 .. n - 1 : ~Drops(inbox[j + 1], id)
      BY <1>1 DEF KeptFrom
    <2>2. KeptFrom(1, id) <=> \A j \in 1 .. n : ~Drops(inbox[j], id)
      BY <1>1 DEF KeptFrom
    <2>3. ASSUME \A j \in 1 .. n - 1 : ~Drops(inbox[j + 1], id), ~Drops(event, id)
          PROVE  \A j \in 1 .. n : ~Drops(inbox[j], id)
      <3>1. TAKE j \in 1 .. n
      <3>2. CASE j = 1
        BY <1>1, <2>3, <3>2
      <3>3. CASE j # 1
        <4>1. j - 1 \in 1 .. n - 1 /\ (j - 1) + 1 = j
          BY <1>1, <3>3
        <4>2. QED
          BY <2>3, <4>1
      <3>4. QED
        BY <3>2, <3>3
    <2>4. QED
      BY <1>1, <2>1, <2>2, <2>3
  <1>6. \A i \in 1 .. n - 1 : KeptFrom(i, id)' <=> KeptFrom(i + 1, id)
    <2>1. TAKE i \in 1 .. n - 1
    <2>2. KeptFrom(i, id)' <=> \A j \in 1 .. n - 1 : j >= i => ~Drops(inbox[j + 1], id)
      BY <1>1 DEF KeptFrom
    <2>3. KeptFrom(i + 1, id) <=> \A j \in 1 .. n : j >= i + 1 => ~Drops(inbox[j], id)
      BY <1>1 DEF KeptFrom
    <2>4. ASSUME \A j \in 1 .. n - 1 : j >= i => ~Drops(inbox[j + 1], id),
                 NEW j \in 1 .. n, j >= i + 1
          PROVE  ~Drops(inbox[j], id)
      <3>1. j - 1 \in 1 .. n - 1 /\ (j - 1) + 1 = j /\ j - 1 >= i
        BY <1>1, <2>4
      <3>2. QED
        BY <2>4, <3>1
    <2>5. QED
      BY <1>1, <2>2, <2>3, <2>4
  <1>7. Lists(id) <=> \/ id \in records /\ KeptFrom(1, id)
                      \/ event = UpsertEvent(id) /\ KeptFrom(1, id)
                      \/ \E i \in 1 .. n - 1 : inbox[i + 1] = UpsertEvent(id) /\ KeptFrom(i + 1, id)
    <2>1. Lists(id) <=> \/ id \in records /\ KeptFrom(1, id)
                        \/ \E i \in 1 .. n : inbox[i] = UpsertEvent(id) /\ KeptFrom(i, id)
      BY <1>1 DEF Lists
    <2>2. ASSUME NEW i \in 1 .. n, inbox[i] = UpsertEvent(id), KeptFrom(i, id)
          PROVE  \/ event = UpsertEvent(id) /\ KeptFrom(1, id)
                 \/ \E j \in 1 .. n - 1 : inbox[j + 1] = UpsertEvent(id) /\ KeptFrom(j + 1, id)
      <3>1. CASE i = 1
        BY <1>1, <2>2, <3>1
      <3>2. CASE i # 1
        <4>1. i - 1 \in 1 .. n - 1 /\ (i - 1) + 1 = i
          BY <1>1, <3>2
        <4>2. QED
          BY <2>2, <4>1
      <3>3. QED
        BY <3>1, <3>2
    <2>3. \A j \in 1 .. n - 1 : j + 1 \in 1 .. n
      BY <1>1
    <2>4. QED
      BY <1>1, <2>1, <2>2, <2>3
  <1>8. Lists(id)' <=> \/ id \in records' /\ KeptFrom(1, id)'
                       \/ \E i \in 1 .. n - 1 : inbox[i + 1] = UpsertEvent(id) /\ KeptFrom(i, id)'
    BY <1>1 DEF Lists, UpsertEvent
  <1>9. QED
    BY <1>3, <1>4, <1>5, <1>6, <1>7, <1>8

\* What is sent is typed, and a send that is refused ends the loop.
LEMMA SendTypes ==
  ASSUME StreamTypeOK, NEW event \in Event, Send(event)
  PROVE  /\ inbox' \in Seq(Event)
         /\ loop = "browsing" => loop' \in {"browsing", "over"}
         /\ loop = "browsing" /\ loop' = "browsing" => inbox' = Append(inbox, event)
  BY DEF StreamTypeOK, Send

LEMMA EventTypes ==
  /\ \A x \in EntryId : UpsertEvent(x) \in Event /\ RemoveEvent(x) \in Event
  /\ \A r \in Registrations : RemoveRegistrationEvent(r) \in Event
  /\ StatusEvent \in Event
  BY DEF Event, UpsertEvent, RemoveEvent, RemoveRegistrationEvent, StatusEvent

\* Whatever the app does with the stream is a step of RecordStore.
LEMMA DrainIsRecordNext ==
  ASSUME StreamTypeOK, Drain \/ DrainEnd \/ Restart
  PROVE  [RecordNext]_recordVars
  <1>1. CASE Drain
    <2>1. Head(inbox) \in Event /\ Apply(Head(inbox))
      BY <1>1, HeadTailProperties DEF Drain, StreamTypeOK
    <2>2. QED
      BY <2>1, EventKinds, WhatApplies DEF RecordNext
  <1>2. CASE DrainEnd \/ Restart
    BY <1>2 DEF DrainEnd, Restart, RecordNext
  <1>3. QED
    BY <1>1, <1>2

\* A ceiling that was hit is remembered until the session is replaced.
RefusalIsRemembered == loop = "browsing" /\ record_limit_reached => refused

LEMMA StreamSteps ==
  ASSUME StreamTypeOK, RecordInv, RefusalIsRemembered, Drain \/ DrainEnd \/ Restart
  PROVE  StreamTypeOK' /\ RecordInv' /\ RefusalIsRemembered'
  <1>1. RecordInv'
    BY DrainIsRecordNext, RecordInvNext
  <1>2. RecordTypeOK'
    BY <1>1 DEF RecordInv
  <1>3. CASE Drain
    <2>1. inbox' \in Seq(Event)
      BY <1>3, HeadTailProperties DEF Drain, StreamTypeOK
    <2>2. QED
      BY <1>1, <1>2, <1>3, <2>1 DEF Drain, StreamTypeOK, RecordTypeOK, RefusalIsRemembered
  <1>4. CASE DrainEnd \/ Restart
    BY <1>1, <1>2, <1>4, EmptySeq
       DEF DrainEnd, Restart, StreamTypeOK, RefusalIsRemembered, Cleared
  <1>5. QED
    BY <1>3, <1>4
=============================================================================
