------------------------ MODULE EventsAndMovesProofs ------------------------
(***************************************************************************)
(* The events of entities (EntityEvents) and the moves of a client         *)
(* (UserMoves): none is told twice.  Neither touches what the other keeps. *)
(***************************************************************************)
EXTENDS EntityEvents, UserMoves, ProofFacts

-----------------------------------------------------------------------------
(* Events.                                                                 *)

AnEvent  == [type : Nat, nonce : Nat, num : Nat]
AState   == [isEventEntity : BOOLEAN, event : AnEvent]
AnEntity == [state : AState, valid : BOOLEAN, lastFiredEvent : AnEvent]

\* Each event once.
Once == \A i, j \in DOMAIN fired : i < j => fired[i] # fired[j]

\* What the current event of the entity is, it fired already, as far as it knows.
Known(ent) ==
  IF ent.state.isEventEntity THEN ent.lastFiredEvent.type # 0
  ELSE SameEvent(ent.lastFiredEvent, ent.state.event)

LEMMA EventParts ==
  ASSUME NEW type \in EventTypes, NEW num \in Nat
  PROVE  Event(type, num) \in AnEvent /\ Event(type, num).num = num
         /\ Event(type, num).type = type /\ type # 0 /\ Event(type, num).nonce = num % Nonces
BY EventsAssumption DEF Event, AnEvent

LEMMA NewParts ==
  /\ NoEvent \in AnEvent /\ NoEvent.type = 0 /\ NoEvent.num = 0
  /\ NewEntity \in AnEntity /\ NewEntity.state \in AState /\ NewEntity.state.event = NoEvent
  /\ NewEntity.valid = FALSE /\ NewEntity.state.isEventEntity = FALSE
  /\ NewEntity.lastFiredEvent = NoEvent
BY DEF NoEvent, NewEntity, AnEvent, AState, AnEntity

LEMMA FiredMore ==
  ASSUME fired \in Seq(Nat), NEW n \in Nat, fired' = Append(fired, n)
  PROVE  /\ fired' \in Seq(Nat) /\ Range(fired') = Range(fired) \cup {n}
         /\ Range(fired) \subseteq Nat
         /\ Once /\ n \notin Range(fired) => Once'
<1>1. /\ fired' \in Seq(Nat) /\ Len(fired') = Len(fired) + 1 /\ fired'[Len(fired) + 1] = n
      /\ \A i \in 1 .. Len(fired) : fired'[i] = fired[i]
      /\ Len(fired) \in Nat /\ DOMAIN fired = 1 .. Len(fired)
      /\ DOMAIN fired' = 1 .. Len(fired) + 1
  OBVIOUS
<1>2. Range(fired) \subseteq Nat
  BY DEF Range
<1>3. \A i \in DOMAIN fired' : i \in DOMAIN fired \/ i = Len(fired) + 1
  BY <1>1
<1>4. Range(fired') = Range(fired) \cup {n}
  <2>1. ASSUME NEW i \in DOMAIN fired' PROVE fired'[i] \in Range(fired) \cup {n}
    BY <1>1, <1>3 DEF Range
  <2>2. ASSUME NEW i \in DOMAIN fired PROVE fired[i] \in Range(fired')
    BY <1>1 DEF Range
  <2>3. n \in Range(fired')
    <3>1. Len(fired) + 1 \in DOMAIN fired'
      BY <1>1
    <3> QED
      BY <1>1, <3>1 DEF Range
  <2> QED
    BY <2>1, <2>2, <2>3 DEF Range
<1>5. ASSUME Once, n \notin Range(fired), NEW i \in DOMAIN fired', NEW j \in DOMAIN fired', i < j
      PROVE  fired'[i] # fired'[j]
  <2>1. i \in DOMAIN fired /\ fired'[i] = fired[i]
    BY <1>1, <1>5
  <2>2. CASE j \in DOMAIN fired
    BY <1>1, <1>5, <2>1, <2>2 DEF Once
  <2>3. CASE j = Len(fired) + 1
    <3>1. fired[i] \in Range(fired)
      BY <2>1 DEF Range
    <3> QED
      BY <1>1, <1>5, <2>1, <2>3, <3>1
  <2> QED
    BY <1>3, <2>2, <2>3
<1> QED
  BY <1>1, <1>2, <1>4, <1>5 DEF Once

\* The application takes an event that the entity does not know as fired.
LEMMA Extracted ==
  ASSUME cent \in AnEntity, fired \in Seq(Nat), extractNewCurrentEvent
  PROVE  /\ ~Known(cent) /\ Known(cent') /\ cent' \in AnEntity
         /\ cent'.state = cent.state /\ cent'.valid = cent.valid
         /\ cent.valid = TRUE /\ cent.state.event.type # 0
         /\ fired' = Append(fired, cent.state.event.num) /\ cent.state.event.num \in Nat
         /\ UNCHANGED <<who, server, snapshots, acked>>
<1> DEFINE ev == getNewCurrentEvent(cent)
           event == cent.state.event
           current == currentEvent(cent.state)
<1>1. /\ cent.valid /\ ev.type # 0 /\ fired' = Append(fired, ev.num)
      /\ cent' = [cent EXCEPT !.lastFiredEvent = current]
      /\ UNCHANGED <<who, server, snapshots, acked>>
  BY DEF extractNewCurrentEvent, setCurrentEventFired
<1>2. /\ cent.valid \in BOOLEAN /\ cent.state \in AState /\ event \in AnEvent
      /\ cent.state.isEventEntity \in BOOLEAN
  BY DEF AnEntity, AState
<1>3. /\ current \in AnEvent /\ current.type = event.type /\ current.num = event.num
      /\ ~cent.state.isEventEntity => current = event
  <2>1. eventFromType(cent.state) \in AnEvent /\ eventFromType(cent.state).type = event.type
        /\ eventFromType(cent.state).num = event.num
    BY <1>2 DEF eventFromType, AnEvent
  <2> QED
    BY <1>2, <2>1 DEF currentEvent
<1>4. ~Known(cent) /\ ev = current
  <2>1. NoEvent.type = 0
    BY DEF NoEvent
  <2> QED
    BY <1>1, <2>1 DEF getNewCurrentEvent, Known
<1> HIDE DEF ev, current
<1>5. /\ cent' \in AnEntity /\ cent'.state = cent.state /\ cent'.valid = cent.valid
      /\ cent'.lastFiredEvent = current
  BY <1>1, <1>3 DEF AnEntity
<1>6. Known(cent')
  BY <1>1, <1>3, <1>4, <1>5 DEF Known, SameEvent
<1>7. cent.valid = TRUE
  BY <1>1, <1>2
<1>8. event.num \in Nat
  BY <1>2 DEF AnEvent
<1> QED
  BY <1>1, <1>3, <1>4, <1>5, <1>6, <1>7, <1>8

-----------------------------------------------------------------------------
(* An entity that is not the player.                                       *)

OtherServer == [present : BOOLEAN, num : Nat, state : AState]

\* The server has an event on the entity.
Announced == server.present = TRUE /\ server.state.event.type # 0

\* Events have their numbers in order, and only the last one is to be seen.
OtherType ==
  /\ server \in OtherServer /\ cent \in AnEntity /\ fired \in Seq(Nat)
  /\ \A k \in Range(fired) : k <= server.num
  /\ cent.state.event.num <= server.num /\ server.state.event.num <= server.num
  /\ server.state.event.type # 0 =>
       server.state.event.num = server.num

\* An event that fired is known to the entity that still has it, and an entity
\* has the event that the server still announces after it fired.
OtherKnows ==
  /\ cent.valid = TRUE /\ cent.state.event.type # 0 /\ cent.state.event.num \in Range(fired)
     => Known(cent)
  /\ Announced /\ server.num \in Range(fired) => cent.valid = TRUE /\ cent.state = server.state
  /\ Announced /\ cent.state.event.type # 0 /\ cent.state.event.num = server.num
     => cent.state = server.state

OtherInv == who = "other" /\ OtherType /\ OtherKnows /\ Once

LEMMA OtherSteps ==
  ASSUME ~Returns, OtherInv, OtherStep
  PROVE  OtherInv'
<1>1. /\ OtherType /\ OtherKnows /\ Once /\ who = "other"
      /\ server \in OtherServer /\ server.num \in Nat
  BY DEF OtherInv, OtherType, OtherServer
<1>2. server' \in ServerStates(server) /\ UNCHANGED <<who, snapshots, acked, cent, fired>>
  BY DEF OtherStep
<1>3. \/ \E e \in BOOLEAN, type \in EventTypes :
           server' = [present |-> TRUE, num |-> server.num + 1,
                      state |-> [isEventEntity |-> e, event |-> Event(type, server.num + 1)]]
      \/ server' = [server EXCEPT !.present = TRUE, !.state = NewEntity.state]
      \/ server' = [server EXCEPT !.present = FALSE]
  BY <1>2 DEF ServerStates
<1>4. /\ cent \in AnEntity /\ fired \in Seq(Nat) /\ cent.state.event.num \in Nat
      /\ Range(fired) \subseteq Nat
  BY <1>1 DEF OtherType, AnEntity, AState, AnEvent, Range
<1>5. CASE \E e \in BOOLEAN, type \in EventTypes :
             server' = [present |-> TRUE, num |-> server.num + 1,
                        state |-> [isEventEntity |-> e, event |-> Event(type, server.num + 1)]]
  <2>1. PICK e \in BOOLEAN, type \in EventTypes :
             server' = [present |-> TRUE, num |-> server.num + 1,
                        state |-> [isEventEntity |-> e, event |-> Event(type, server.num + 1)]]
    BY <1>5
  <2>2. PICK event : event = Event(type, server.num + 1)
    OBVIOUS
  <2>3. event \in AnEvent /\ event.num = server.num + 1
    BY <1>1, <2>2, EventParts
  <2>4. server' \in OtherServer /\ server'.num = server.num + 1 /\ server'.state.event = event
    BY <1>1, <2>1, <2>2, <2>3 DEF OtherServer, AState
  <2>5. OtherType'
    BY <1>1, <1>2, <1>4, <2>3, <2>4 DEF OtherType
  <2>6. server'.num \notin Range(fired) /\ server'.num # cent.state.event.num
    BY <1>1, <1>4, <2>4 DEF OtherType
  <2>7. OtherKnows'
    BY <1>1, <1>2, <2>6 DEF OtherKnows
  <2> QED
    BY <1>1, <1>2, <2>5, <2>7 DEF OtherInv, Once
<1>6. CASE server' = [server EXCEPT !.present = TRUE, !.state = NewEntity.state]
  <2>1. /\ server' \in OtherServer /\ server'.num = server.num
        /\ server'.state.event.type = 0 /\ server'.state.event.num = 0
    BY <1>1, <1>6, NewParts DEF OtherServer
  <2>2. ~Announced'
    BY <2>1 DEF Announced
  <2>3. OtherType' /\ OtherKnows'
    BY <1>1, <1>2, <2>1, <2>2 DEF OtherType, OtherKnows
  <2> QED
    BY <1>1, <1>2, <2>3 DEF OtherInv, Once
<1>7. CASE server' = [server EXCEPT !.present = FALSE]
  <2>1. /\ server' \in OtherServer /\ server'.num = server.num /\ server'.present = FALSE
        /\ server'.state = server.state
    BY <1>1, <1>7 DEF OtherServer
  <2>2. ~Announced'
    BY <2>1 DEF Announced
  <2>3. OtherType' /\ OtherKnows'
    BY <1>1, <1>2, <2>1, <2>2 DEF OtherType, OtherKnows
  <2> QED
    BY <1>1, <1>2, <2>3 DEF OtherInv, Once
<1> QED
  BY <1>3, <1>5, <1>6, <1>7

LEMMA OtherReceives ==
  ASSUME OtherInv, ReceiveOther
  PROVE  OtherInv'
<1>1. /\ OtherType /\ OtherKnows /\ Once /\ who = "other"
      /\ server \in OtherServer /\ cent \in AnEntity /\ server.state \in AState
      /\ server.present \in BOOLEAN /\ cent.valid \in BOOLEAN
      /\ server.num \in Nat /\ server.state.event.num \in Nat
  BY DEF OtherInv, OtherType, OtherServer, AnEntity, AState, AnEvent
<1>2. /\ UNCHANGED <<who, server, snapshots, acked, fired>>
      /\ \/ server.present = FALSE
            /\ cent' = [cent EXCEPT !.valid = FALSE, !.lastFiredEvent = NoEvent]
         \/ server.present = TRUE /\ cent.valid = FALSE
            /\ cent' = [cent EXCEPT !.valid = TRUE, !.state = server.state]
         \/ server.present = TRUE /\ cent.valid = TRUE
            /\ cent' = [cent EXCEPT !.state = server.state]
  BY <1>1 DEF ReceiveOther, removeEntity, addEntity, changeEntity
<1>3. CASE server.present = FALSE
  <2>1. cent' \in AnEntity /\ cent'.state = cent.state /\ cent'.valid = FALSE
    BY <1>1, <1>2, <1>3, NewParts DEF AnEntity
  <2>2. ~Announced'
    BY <1>2, <1>3 DEF Announced
  <2>3. OtherType' /\ OtherKnows'
    BY <1>1, <1>2, <2>1, <2>2 DEF OtherType, OtherKnows
  <2> QED
    BY <1>1, <1>2, <2>3 DEF OtherInv, Once
<1>4. CASE server.present = TRUE
  <2>1. /\ cent' \in AnEntity /\ cent'.state = server.state /\ cent'.valid = TRUE
        /\ cent.valid = TRUE => cent' = [cent EXCEPT !.state = server.state]
    BY <1>1, <1>2, <1>4 DEF AnEntity
  <2>2. OtherType'
    BY <1>1, <1>2, <2>1 DEF OtherType
  <2>3. ASSUME cent'.state.event.type # 0, cent'.state.event.num \in Range(fired)
        PROVE  Known(cent')
    <3>1. Announced /\ server.num \in Range(fired)
      BY <1>1, <1>4, <2>1, <2>3 DEF Announced, OtherType
    <3>2. cent.valid = TRUE /\ cent.state = server.state
      BY <1>1, <3>1 DEF OtherKnows
    <3>3. cent' = cent
      BY <1>1, <2>1, <3>2 DEF AnEntity
    <3> QED
      BY <1>1, <2>3, <3>2, <3>3 DEF OtherKnows
  <2>4. OtherKnows'
    BY <1>2, <2>1, <2>3 DEF OtherKnows
  <2> QED
    BY <1>1, <1>2, <2>2, <2>4 DEF OtherInv, Once
<1> QED
  BY <1>1, <1>3, <1>4

LEMMA OtherFires ==
  ASSUME OtherInv, extractNewCurrentEvent
  PROVE  OtherInv'
<1>1. /\ OtherType /\ OtherKnows /\ Once /\ who = "other" /\ cent \in AnEntity
      /\ fired \in Seq(Nat)
  BY DEF OtherInv, OtherType
<1>2. /\ ~Known(cent) /\ Known(cent') /\ cent' \in AnEntity
      /\ cent'.state = cent.state /\ cent'.valid = cent.valid
      /\ cent.valid = TRUE /\ cent.state.event.type # 0
      /\ fired' = Append(fired, cent.state.event.num) /\ cent.state.event.num \in Nat
      /\ UNCHANGED <<who, server, snapshots, acked>>
  BY <1>1, Extracted
<1>3. cent.state.event.num \notin Range(fired)
  BY <1>1, <1>2 DEF OtherKnows
<1>4. fired' \in Seq(Nat) /\ Range(fired') = Range(fired) \cup {cent.state.event.num} /\ Once'
  BY <1>1, <1>2, <1>3, FiredMore
<1>5. OtherType'
  BY <1>1, <1>2, <1>4 DEF OtherType
<1>6. OtherKnows'
  BY <1>1, <1>2, <1>4 DEF OtherKnows, Announced
<1> QED
  BY <1>1, <1>2, <1>4, <1>5, <1>6 DEF OtherInv

-----------------------------------------------------------------------------
(* The player.                                                             *)

SlotOf(n) == n % MAX_PS_EVENTS

Ring == [0 .. MAX_PS_EVENTS - 1 -> AnEvent]

PlayerServer == [eventSequence : Nat, events : Ring, externalEvent : AnEvent, externals : Nat]

APlayerState == [eventSequence : Nat, events : Ring, externalEvent : AnEvent,
                 entityEventSequence : Nat]

\* What the player's state of the last acknowledged snapshot remembers.
AckedSequence == IF acked = 0 THEN 0 ELSE snapshots[acked].entityEventSequence

\* The oldest event that a snapshot may still show.
Oldest ==
  IF AckedSequence >= server.eventSequence - MAX_PS_EVENTS THEN AckedSequence
  ELSE server.eventSequence - MAX_PS_EVENTS

\* The last events are in their slots; events by others have the numbers behind.
PlayerType ==
  /\ server \in PlayerServer /\ cent \in AnEntity /\ fired \in Seq(Nat)
  /\ snapshots \in Seq(APlayerState) /\ acked \in 0 .. Len(snapshots)
  /\ cent.state.isEventEntity = FALSE
  /\ server.eventSequence <= MaxEvents
  /\ \A n \in Nat : n < server.eventSequence /\ server.eventSequence <= n + MAX_PS_EVENTS =>
       server.events[SlotOf(n)].num = n /\ server.events[SlotOf(n)].type # 0
  /\ server.externals = 0 => server.externalEvent.type = 0
  /\ server.externalEvent.type # 0 =>
       server.externalEvent.num = MaxEvents + server.externals

\* Events set by others fire once: while one lasts it stays the player's event.
ExternalsOnce ==
  /\ \A i, j \in DOMAIN fired : i < j /\ fired[i] = fired[j] => fired[i] <= MaxEvents
  /\ \A k \in Range(fired) : k <= MaxEvents + server.externals
  /\ cent.state.event.num <= MaxEvents + server.externals
  /\ cent.state.event.num > MaxEvents /\ cent.state.event.num \in Range(fired) => Known(cent)
  /\ server.externalEvent.type # 0 /\ server.externalEvent.num \in Range(fired)
     => cent.state.event = server.externalEvent
  /\ server.externalEvent.type # 0 /\ server.externalEvent.num = cent.state.event.num
     => cent.state.event = server.externalEvent

\* As long as others set none, the events shown never go back: neither do the
\* sequences that snapshots remember, nor the one that was acknowledged.
SequencesRise ==
  /\ \A i, j \in DOMAIN snapshots : i <= j =>
       snapshots[i].entityEventSequence <= snapshots[j].entityEventSequence
  /\ \A i \in DOMAIN snapshots :
       /\ snapshots[i].entityEventSequence <= server.eventSequence
       /\ snapshots[i].entityEventSequence <= Oldest + 1

\* The event shown is the one of its number, as long as that has its slot.
ShownIsTrue ==
  cent.state.event.type # 0 =>
    /\ cent.state.event.num <= Oldest /\ cent.state.event.num < server.eventSequence
    /\ cent.state.event.nonce = cent.state.event.num % Nonces
    /\ server.eventSequence <= cent.state.event.num + MAX_PS_EVENTS =>
         server.events[SlotOf(cent.state.event.num)].type = cent.state.event.type

FiredIsKnown ==
  /\ Once
  /\ \A k \in Range(fired) : cent.state.event.type # 0 /\ k <= cent.state.event.num
  /\ cent.state.event.type # 0 /\ cent.state.event.num \in Range(fired) => Known(cent)

OwnOnce == SequencesRise /\ ShownIsTrue /\ FiredIsKnown

PlayerInv ==
  who = "player" /\ PlayerType /\ ExternalsOnce /\ (server.externals = 0 => OwnOnce)

LEMMA PlayerFacts ==
  ASSUME PlayerType
  PROVE  /\ MAX_PS_EVENTS \in Nat \ {0} /\ MaxEvents \in Nat
         /\ server.eventSequence \in Nat /\ server.externals \in Nat
         /\ server.events \in Ring /\ server.externalEvent \in AnEvent
         /\ server.externalEvent.num \in Nat
         /\ AckedSequence \in Nat /\ Oldest \in Nat /\ Oldest >= AckedSequence
         /\ server.eventSequence <= Oldest + MAX_PS_EVENTS
         /\ AckedSequence < server.eventSequence => Oldest < server.eventSequence
         /\ cent.state \in AState /\ cent.state.event \in AnEvent
         /\ cent.state.event.num \in Nat
         /\ Range(fired) \subseteq Nat /\ Len(snapshots) \in Nat
         /\ \A n \in Nat : SlotOf(n) \in 0 .. MAX_PS_EVENTS - 1
<1>1. /\ MAX_PS_EVENTS \in Nat \ {0} /\ MaxEvents \in Nat
      /\ server.eventSequence \in Nat /\ server.externals \in Nat
      /\ server.events \in Ring /\ server.externalEvent \in AnEvent
      /\ server.externalEvent.num \in Nat
      /\ cent.state \in AState /\ cent.state.event \in AnEvent
      /\ cent.state.event.num \in Nat
  BY EventsAssumption DEF PlayerType, PlayerServer, AnEntity, AState, AnEvent
<1>2. AckedSequence \in Nat
  <2>1. acked # 0 => snapshots[acked] \in APlayerState
    BY DEF PlayerType
  <2> QED
    BY <2>1 DEF AckedSequence, APlayerState
<1>3. /\ Oldest \in Nat /\ Oldest >= AckedSequence
      /\ server.eventSequence <= Oldest + MAX_PS_EVENTS
      /\ AckedSequence < server.eventSequence => Oldest < server.eventSequence
  BY <1>1, <1>2 DEF Oldest
<1>4. Range(fired) \subseteq Nat /\ Len(snapshots) \in Nat
  BY DEF PlayerType, Range
<1>5. \A n \in Nat : SlotOf(n) \in 0 .. MAX_PS_EVENTS - 1
  BY <1>1 DEF SlotOf
<1> QED
  BY <1>1, <1>2, <1>3, <1>4, <1>5

LEMMA GreaterOfTwo ==
  ASSUME NEW a \in Int, NEW b \in Int
  PROVE  Max({a, b}) = IF a >= b THEN a ELSE b
BY DEF Max

\* What a snapshot based on the acknowledged one brings.
LEMMA PlayerReceived ==
  ASSUME PlayerType, ReceivePlayer(acked)
  PROVE  \E event \in AnEvent, ps \in APlayerState :
           /\ snapshots' = Append(snapshots, ps)
           /\ cent' = [cent EXCEPT !.state.event = event, !.valid = TRUE]
           /\ UNCHANGED <<who, server, acked, fired>>
           /\ \/ /\ server.externalEvent.type # 0 /\ event = server.externalEvent
                 /\ ps.entityEventSequence = AckedSequence
              \/ /\ server.externalEvent.type = 0 /\ AckedSequence < server.eventSequence
                 /\ event.num = Oldest /\ event.nonce = Oldest % Nonces
                 /\ event.type = server.events[SlotOf(Oldest)].type
                 /\ ps.entityEventSequence = Oldest + 1
              \/ /\ server.externalEvent.type = 0 /\ ~(AckedSequence < server.eventSequence)
                 /\ event = cent.state.event
                 /\ ps.entityEventSequence = AckedSequence
<1> DEFINE from == IF acked = 0 THEN NotSent ELSE snapshots[acked]
           ps == [eventSequence |-> server.eventSequence, events |-> server.events,
                  externalEvent |-> server.externalEvent,
                  entityEventSequence |-> AckedSequence]
           r == BG_PlayerStateToEntityState(ps, cent.state.event)
<1>1. from.entityEventSequence = AckedSequence
  BY DEF NotSent, AckedSequence
<1>2. /\ snapshots' = Append(snapshots, r.ps)
      /\ cent' = [cent EXCEPT !.state.event = r.event, !.valid = TRUE]
      /\ UNCHANGED <<who, server, acked, fired>>
  BY <1>1 DEF ReceivePlayer
<1>3. /\ MAX_PS_EVENTS \in Nat \ {0} /\ server.eventSequence \in Nat
      /\ server.events \in Ring /\ server.externalEvent \in AnEvent
      /\ AckedSequence \in Nat /\ Oldest \in Nat /\ cent.state.event \in AnEvent
      /\ SlotOf(Oldest) \in 0 .. MAX_PS_EVENTS - 1
  BY PlayerFacts
<1>4. ps \in APlayerState /\ ps.entityEventSequence = AckedSequence
  BY <1>3 DEF APlayerState
<1>5. OldestPending(ps) = Oldest
  <2>1. server.eventSequence - MAX_PS_EVENTS \in Int /\ AckedSequence \in Int
    BY <1>3
  <2>2. OldestPending(ps) = Max({AckedSequence, server.eventSequence - MAX_PS_EVENTS})
    BY DEF OldestPending
  <2> QED
    BY <2>1, <2>2, GreaterOfTwo DEF Oldest
<1> DEFINE next  == [ps EXCEPT !.entityEventSequence = Oldest + 1]
           ev    == server.events[SlotOf(Oldest)]
           shown == [ev EXCEPT !.nonce = Oldest % Nonces]
<1>6. next \in APlayerState /\ next.entityEventSequence = Oldest + 1
  BY <1>3, <1>4 DEF APlayerState
<1>7. CASE server.externalEvent.type # 0
  <2>1. r = [ps |-> ps, event |-> server.externalEvent]
    BY <1>7 DEF BG_PlayerStateToEntityState
  <2> HIDE DEF ps, r
  <2> QED
    BY <1>2, <1>3, <1>4, <1>7, <2>1
<1>8. CASE server.externalEvent.type = 0 /\ AckedSequence < server.eventSequence
  <2>1. r = [ps |-> next, event |-> shown]
    BY <1>5, <1>8 DEF BG_PlayerStateToEntityState, SlotOf
  <2>2. Oldest < server.eventSequence /\ server.eventSequence <= Oldest + MAX_PS_EVENTS
    BY <1>8, PlayerFacts
  <2>3. ev \in AnEvent /\ ev.num = Oldest
    BY <1>3, <2>2 DEF PlayerType, Ring
  <2>4. Oldest % Nonces \in Nat
    BY <1>3, EventsAssumption
  <2>5. shown \in AnEvent /\ shown.num = Oldest /\ shown.nonce = Oldest % Nonces
        /\ shown.type = ev.type
    BY <2>3, <2>4 DEF AnEvent
  <2> HIDE DEF ps, r, next, shown
  <2> QED
    BY <1>2, <1>6, <1>8, <2>1, <2>5
<1>9. CASE server.externalEvent.type = 0 /\ ~(AckedSequence < server.eventSequence)
  <2>1. r = [ps |-> ps, event |-> cent.state.event]
    BY <1>9 DEF BG_PlayerStateToEntityState
  <2> HIDE DEF ps, r
  <2> QED
    BY <1>2, <1>3, <1>4, <1>9, <2>1
<1> QED
  BY <1>7, <1>8, <1>9

\* What is known of an event is about its type and nonce.
LEMMA KnownSame ==
  ASSUME NEW a, NEW b, a.state.isEventEntity = FALSE, b.state.isEventEntity = FALSE,
         a.lastFiredEvent = b.lastFiredEvent, SameEvent(a.state.event, b.state.event), Known(a)
  PROVE  Known(b)
BY DEF Known, SameEvent

\* The cent, whatever event the snapshot brings it.
LEMMA CentParts ==
  ASSUME cent \in AnEntity, cent.state.isEventEntity = FALSE, NEW event \in AnEvent,
         cent' = [cent EXCEPT !.state.event = event, !.valid = TRUE]
  PROVE  /\ cent' \in AnEntity /\ cent'.state.isEventEntity = FALSE
         /\ cent'.state.event = event /\ cent'.lastFiredEvent = cent.lastFiredEvent
<1> DEFINE state == [cent.state EXCEPT !.event = event]
<1>1. cent.state \in AState
  BY DEF AnEntity
<1>2. state \in AState /\ state.isEventEntity = FALSE /\ state.event = event
  BY <1>1 DEF AState
<1>3. cent' = [[cent EXCEPT !.state = state] EXCEPT !.valid = TRUE]
  BY DEF AnEntity
<1> HIDE DEF state
<1> QED
  BY <1>2, <1>3 DEF AnEntity

LEMMA PlayerReceives ==
  ASSUME PlayerInv, ReceivePlayer(acked)
  PROVE  PlayerInv'
<1>1. who = "player" /\ PlayerType /\ ExternalsOnce /\ (server.externals = 0 => OwnOnce)
  BY DEF PlayerInv
<1>2. PICK event \in AnEvent, ps \in APlayerState :
        /\ snapshots' = Append(snapshots, ps)
        /\ cent' = [cent EXCEPT !.state.event = event, !.valid = TRUE]
        /\ UNCHANGED <<who, server, acked, fired>>
        /\ \/ /\ server.externalEvent.type # 0 /\ event = server.externalEvent
              /\ ps.entityEventSequence = AckedSequence
           \/ /\ server.externalEvent.type = 0 /\ AckedSequence < server.eventSequence
              /\ event.num = Oldest /\ event.nonce = Oldest % Nonces
              /\ event.type = server.events[SlotOf(Oldest)].type
              /\ ps.entityEventSequence = Oldest + 1
           \/ /\ server.externalEvent.type = 0 /\ ~(AckedSequence < server.eventSequence)
              /\ event = cent.state.event
              /\ ps.entityEventSequence = AckedSequence
  BY <1>1, PlayerReceived
<1>3. /\ MAX_PS_EVENTS \in Nat \ {0} /\ MaxEvents \in Nat /\ server.eventSequence \in Nat
      /\ server.externals \in Nat /\ AckedSequence \in Nat /\ Oldest \in Nat
      /\ Oldest >= AckedSequence /\ server.eventSequence <= Oldest + MAX_PS_EVENTS
      /\ AckedSequence < server.eventSequence => Oldest < server.eventSequence
      /\ cent.state.event \in AnEvent /\ cent.state.event.num \in Nat
      /\ Range(fired) \subseteq Nat /\ server.externalEvent.num \in Nat
  BY <1>1, PlayerFacts
<1>4. /\ cent \in AnEntity /\ cent.state.isEventEntity = FALSE
      /\ server.eventSequence <= MaxEvents /\ snapshots \in Seq(APlayerState)
      /\ acked \in 0 .. Len(snapshots) /\ Len(snapshots) \in Nat
      /\ DOMAIN snapshots = 1 .. Len(snapshots)
  BY <1>1 DEF PlayerType
<1>5. /\ cent' \in AnEntity /\ cent'.state.isEventEntity = FALSE
      /\ cent'.state.event = event /\ cent'.lastFiredEvent = cent.lastFiredEvent
  BY <1>2, <1>4, CentParts
<1>6. /\ snapshots' \in Seq(APlayerState) /\ Len(snapshots') = Len(snapshots) + 1
      /\ DOMAIN snapshots' = 1 .. Len(snapshots) + 1
      /\ \A i \in DOMAIN snapshots : snapshots'[i] = snapshots[i]
      /\ snapshots'[Len(snapshots) + 1] = ps
  BY <1>2, <1>4
<1>7. AckedSequence' = AckedSequence /\ Oldest' = Oldest
  <2>1. acked # 0 => snapshots'[acked] = snapshots[acked]
    BY <1>4, <1>6
  <2> QED
    BY <1>2, <2>1 DEF AckedSequence, Oldest
<1>8. PlayerType'
  BY <1>1, <1>2, <1>4, <1>5, <1>6 DEF PlayerType
<1>9. Known(cent) /\ SameEvent(event, cent.state.event) => Known(cent')
  <2>1. ASSUME Known(cent), SameEvent(event, cent.state.event) PROVE Known(cent')
    <3>1. SameEvent(cent.state.event, cent'.state.event)
      BY <1>5, <2>1 DEF SameEvent
    <3> QED
      BY <1>4, <1>5, <2>1, <3>1, KnownSame
  <2> QED
    BY <2>1
<1>10. ExternalsOnce'
  <2>1. CASE server.externalEvent.type # 0
    <3>1. event = server.externalEvent
      BY <1>2, <2>1
    <3>2. event.num = MaxEvents + server.externals
      BY <1>1, <2>1, <3>1 DEF PlayerType
    <3>3. event.num \in Range(fired) => event = cent.state.event
      BY <1>1, <2>1, <3>1 DEF ExternalsOnce
    <3>4. event.num > MaxEvents /\ event.num \in Range(fired) => Known(cent')
      BY <1>1, <1>9, <3>3 DEF ExternalsOnce, SameEvent
    <3> QED
      BY <1>1, <1>2, <1>3, <1>5, <3>1, <3>2, <3>4 DEF ExternalsOnce
  <2>2. CASE server.externalEvent.type = 0 /\ event.num = Oldest /\ Oldest < server.eventSequence
    <3>1. event.num \in Nat /\ event.num <= MaxEvents + server.externals /\ ~(event.num > MaxEvents)
      BY <1>3, <1>4, <2>2
    <3> QED
      BY <1>1, <1>2, <1>5, <2>2, <3>1 DEF ExternalsOnce
  <2>3. CASE server.externalEvent.type = 0 /\ event = cent.state.event
    BY <1>1, <1>2, <1>5, <1>9, <2>3 DEF ExternalsOnce, SameEvent
  <2> QED
    BY <1>2, <1>3, <2>1, <2>2, <2>3
<1>11. ASSUME server.externals = 0 PROVE OwnOnce'
  <2>1. OwnOnce /\ server.externalEvent.type = 0
    BY <1>1, <1>11 DEF PlayerType
  <2>2. /\ \A i, j \in DOMAIN snapshots : i <= j =>
             snapshots[i].entityEventSequence <= snapshots[j].entityEventSequence
        /\ \A i \in DOMAIN snapshots :
             /\ snapshots[i].entityEventSequence \in Nat
             /\ snapshots[i].entityEventSequence <= server.eventSequence
             /\ snapshots[i].entityEventSequence <= Oldest + 1
    <3>1. ASSUME NEW i \in DOMAIN snapshots PROVE snapshots[i].entityEventSequence \in Nat
      <4>1. snapshots[i] \in APlayerState
        BY <1>4
      <4> QED
        BY <4>1 DEF APlayerState
    <3> QED
      BY <2>1, <3>1 DEF OwnOnce, SequencesRise
  <2>3. /\ ps.entityEventSequence \in Nat
        /\ ps.entityEventSequence <= server.eventSequence
        /\ ps.entityEventSequence <= Oldest + 1
        /\ \A i \in DOMAIN snapshots :
             snapshots[i].entityEventSequence <= ps.entityEventSequence
    <3>1. AckedSequence <= server.eventSequence
      BY <1>3, <1>4, <2>2 DEF AckedSequence
    <3>2. CASE AckedSequence < server.eventSequence /\ ps.entityEventSequence = Oldest + 1
      BY <1>3, <2>2, <3>2
    <3>3. CASE ~(AckedSequence < server.eventSequence) /\ ps.entityEventSequence = AckedSequence
      BY <1>3, <2>2, <3>1, <3>3
    <3> QED
      BY <1>2, <2>1, <3>2, <3>3
  <2>4. SequencesRise'
    <3>1. \A i \in DOMAIN snapshots' : i \in DOMAIN snapshots \/ i = Len(snapshots) + 1
      BY <1>4, <1>6
    <3>2. ASSUME NEW i \in DOMAIN snapshots', NEW j \in DOMAIN snapshots', i <= j
          PROVE  snapshots'[i].entityEventSequence <= snapshots'[j].entityEventSequence
      <4>1. CASE j \in DOMAIN snapshots
        <5>1. i \in DOMAIN snapshots
          BY <1>4, <1>6, <3>2, <4>1
        <5> QED
          BY <1>6, <2>2, <3>2, <4>1, <5>1
      <4>2. CASE j = Len(snapshots) + 1
        BY <1>6, <2>3, <3>1, <4>2
      <4> QED
        BY <3>1, <4>1, <4>2
    <3>3. ASSUME NEW i \in DOMAIN snapshots'
          PROVE  /\ snapshots'[i].entityEventSequence <= server.eventSequence
                 /\ snapshots'[i].entityEventSequence <= Oldest + 1
      BY <1>6, <2>2, <2>3, <3>1
    <3> QED
      BY <1>2, <1>7, <3>2, <3>3 DEF SequencesRise
  <2>5. CASE event = cent.state.event
    <3>1. ShownIsTrue'
      BY <1>2, <1>5, <1>7, <2>1, <2>5 DEF OwnOnce, ShownIsTrue
    <3>2. FiredIsKnown'
      BY <1>2, <1>5, <1>9, <2>1, <2>5 DEF OwnOnce, FiredIsKnown, Once, SameEvent
    <3> QED
      BY <2>4, <3>1, <3>2 DEF OwnOnce
  <2>6. CASE /\ AckedSequence < server.eventSequence
             /\ event.num = Oldest /\ event.nonce = Oldest % Nonces
             /\ event.type = server.events[SlotOf(Oldest)].type
    <3>1. Oldest < server.eventSequence /\ server.eventSequence <= Oldest + MAX_PS_EVENTS
      BY <1>3, <2>6
    <3>2. event.type # 0
      BY <1>1, <1>3, <2>6, <3>1 DEF PlayerType
    <3>3. ShownIsTrue'
      BY <1>2, <1>3, <1>5, <1>7, <2>6, <3>1 DEF ShownIsTrue
    <3>4. ASSUME NEW k \in Range(fired)
          PROVE  k <= event.num /\ (k = event.num => Known(cent'))
      <4>1. /\ cent.state.event.type # 0 /\ k <= cent.state.event.num
            /\ cent.state.event.num <= Oldest /\ k \in Nat
            /\ cent.state.event.nonce = cent.state.event.num % Nonces
            /\ server.eventSequence <= cent.state.event.num + MAX_PS_EVENTS =>
                 server.events[SlotOf(cent.state.event.num)].type = cent.state.event.type
            /\ cent.state.event.num \in Range(fired) => Known(cent)
        BY <1>3, <2>1 DEF OwnOnce, ShownIsTrue, FiredIsKnown
      <4>2. k <= event.num
        BY <1>3, <2>6, <4>1
      <4>3. ASSUME k = event.num PROVE Known(cent')
        <5>1. cent.state.event.num = Oldest /\ cent.state.event.num \in Range(fired)
          BY <1>3, <2>6, <4>1, <4>3
        <5>2. SameEvent(event, cent.state.event)
          BY <2>6, <3>1, <4>1, <5>1 DEF SameEvent
        <5> QED
          BY <1>9, <4>1, <5>1, <5>2
      <4> QED
        BY <4>2, <4>3
    <3>5. FiredIsKnown'
      BY <1>2, <1>5, <2>1, <3>2, <3>4 DEF OwnOnce, FiredIsKnown, Once
    <3> QED
      BY <2>4, <3>3, <3>5 DEF OwnOnce
  <2> QED
    BY <1>2, <2>1, <2>5, <2>6
<1> QED
  BY <1>1, <1>2, <1>8, <1>10, <1>11 DEF PlayerInv

\* pmove adds an event in the slot of the oldest.
LEMMA PlayerEvents ==
  ASSUME PlayerInv, NEW type \in EventTypes, PlayerEvent(type)
  PROVE  PlayerInv'
<1>1. who = "player" /\ PlayerType /\ ExternalsOnce /\ (server.externals = 0 => OwnOnce)
  BY DEF PlayerInv
<1>2. /\ MAX_PS_EVENTS \in Nat \ {0} /\ MaxEvents \in Nat /\ server.eventSequence \in Nat
      /\ server.events \in Ring /\ AckedSequence \in Nat /\ Oldest \in Nat
      /\ cent.state.event.num \in Nat /\ server \in PlayerServer
      /\ \A n \in Nat : SlotOf(n) \in 0 .. MAX_PS_EVENTS - 1
  BY <1>1, PlayerFacts DEF PlayerType
<1>3. PICK event \in AnEvent : /\ event = Event(type, server.eventSequence)
                               /\ event.num = server.eventSequence /\ event.type # 0
  BY <1>2, EventParts
<1>4. PICK events : events = [server.events EXCEPT ![SlotOf(server.eventSequence)] = event]
  OBVIOUS
<1>5. /\ events \in Ring /\ events[SlotOf(server.eventSequence)] = event
      /\ \A n \in Nat : SlotOf(n) # SlotOf(server.eventSequence) =>
           events[SlotOf(n)] = server.events[SlotOf(n)]
  BY <1>2, <1>4 DEF Ring
<1>6. /\ server.eventSequence < MaxEvents
      /\ server' = [server EXCEPT !.eventSequence = server.eventSequence + 1, !.events = events]
      /\ UNCHANGED <<who, snapshots, acked, cent, fired>>
  BY <1>2, <1>3, <1>4 DEF PlayerEvent, SlotOf, PlayerServer
<1>7. /\ server' \in PlayerServer /\ server'.eventSequence = server.eventSequence + 1
      /\ server'.events = events /\ server'.externalEvent = server.externalEvent
      /\ server'.externals = server.externals
  <2>1. server.eventSequence + 1 \in Nat
    BY <1>2
  <2>2. PICK n \in Nat : n = server.eventSequence + 1
    BY <2>1
  <2>3. server' = [[server EXCEPT !.eventSequence = n] EXCEPT !.events = events]
    BY <1>2, <1>6, <2>2 DEF PlayerServer
  <2>4. /\ server' \in PlayerServer /\ server'.eventSequence = n
        /\ server'.events = events /\ server'.externalEvent = server.externalEvent
        /\ server'.externals = server.externals
    BY <1>2, <1>5, <2>3 DEF PlayerServer
  <2> QED
    BY <2>2, <2>4
<1>8. AckedSequence' = AckedSequence /\ Oldest' \in Nat /\ Oldest <= Oldest'
  <2>1. AckedSequence' = AckedSequence
    BY <1>6 DEF AckedSequence
  <2> QED
    BY <1>2, <1>7, <2>1 DEF Oldest
<1>9. ASSUME NEW n \in Nat, n < server.eventSequence,
             server.eventSequence + 1 <= n + MAX_PS_EVENTS
      PROVE  events[SlotOf(n)] = server.events[SlotOf(n)]
  <2>1. SlotOf(n) # SlotOf(server.eventSequence)
    <3>1. server.eventSequence < n + MAX_PS_EVENTS
      BY <1>2, <1>9
    <3>2. n % MAX_PS_EVENTS # server.eventSequence % MAX_PS_EVENTS
      BY <1>2, <1>9, <3>1, ModNear
    <3> QED
      BY <3>2 DEF SlotOf
  <2> QED
    BY <1>5, <2>1
<1>10. PlayerType'
  <2>1. ASSUME NEW n \in Nat, n < server.eventSequence + 1,
               server.eventSequence + 1 <= n + MAX_PS_EVENTS
        PROVE  events[SlotOf(n)].num = n /\ events[SlotOf(n)].type # 0
    <3>1. CASE n = server.eventSequence
      BY <1>3, <1>5, <3>1
    <3>2. CASE n < server.eventSequence
      <4>1. server.eventSequence <= n + MAX_PS_EVENTS
        BY <1>2, <2>1
      <4> QED
        BY <1>1, <1>9, <2>1, <3>2, <4>1 DEF PlayerType
    <3> QED
      BY <1>2, <2>1, <3>1, <3>2
  <2>2. server.eventSequence + 1 <= MaxEvents
    BY <1>2, <1>6
  <2> QED
    BY <1>1, <1>6, <1>7, <2>1, <2>2 DEF PlayerType
<1>11. ExternalsOnce'
  BY <1>1, <1>6, <1>7 DEF ExternalsOnce
<1>12. ASSUME server.externals = 0 PROVE OwnOnce'
  <2>1. OwnOnce
    BY <1>1, <1>12
  <2>2. SequencesRise'
    <3>1. ASSUME NEW i \in DOMAIN snapshots
          PROVE  /\ snapshots[i].entityEventSequence <= server.eventSequence + 1
                 /\ snapshots[i].entityEventSequence <= Oldest' + 1
      <4>1. snapshots[i] \in APlayerState
        BY <1>1 DEF PlayerType
      <4>2. snapshots[i].entityEventSequence \in Nat
        BY <4>1 DEF APlayerState
      <4>3. /\ snapshots[i].entityEventSequence <= server.eventSequence
            /\ snapshots[i].entityEventSequence <= Oldest + 1
        BY <2>1 DEF OwnOnce, SequencesRise
      <4> QED
        BY <1>2, <1>8, <4>2, <4>3
    <3> QED
      BY <1>6, <1>7, <2>1, <3>1 DEF OwnOnce, SequencesRise
  <2>3. ShownIsTrue'
    <3>1. ASSUME cent.state.event.type # 0
          PROVE  /\ cent.state.event.num <= Oldest'
                 /\ cent.state.event.num < server.eventSequence + 1
                 /\ cent.state.event.nonce = cent.state.event.num % Nonces
                 /\ server.eventSequence + 1 <= cent.state.event.num + MAX_PS_EVENTS =>
                      events[SlotOf(cent.state.event.num)].type = cent.state.event.type
      <4>1. /\ cent.state.event.num <= Oldest
            /\ cent.state.event.num < server.eventSequence
            /\ cent.state.event.nonce = cent.state.event.num % Nonces
            /\ server.eventSequence <= cent.state.event.num + MAX_PS_EVENTS =>
                 server.events[SlotOf(cent.state.event.num)].type = cent.state.event.type
        BY <2>1, <3>1 DEF OwnOnce, ShownIsTrue
      <4>2. ASSUME server.eventSequence + 1 <= cent.state.event.num + MAX_PS_EVENTS
            PROVE  events[SlotOf(cent.state.event.num)].type = cent.state.event.type
        <5>1. server.eventSequence <= cent.state.event.num + MAX_PS_EVENTS
          BY <1>2, <4>2
        <5>2. events[SlotOf(cent.state.event.num)] = server.events[SlotOf(cent.state.event.num)]
          BY <1>2, <1>9, <4>1, <4>2
        <5> QED
          BY <4>1, <5>1, <5>2
      <4>3. /\ cent.state.event.num <= Oldest'
            /\ cent.state.event.num < server.eventSequence + 1
        BY <1>2, <1>8, <4>1
      <4> QED
        BY <4>1, <4>2, <4>3
    <3> QED
      BY <1>6, <1>7, <3>1 DEF ShownIsTrue
  <2>4. FiredIsKnown'
    BY <1>6, <2>1 DEF OwnOnce, FiredIsKnown, Once
  <2> QED
    BY <2>2, <2>3, <2>4 DEF OwnOnce
<1> QED
  BY <1>1, <1>6, <1>7, <1>10, <1>11, <1>12 DEF PlayerInv

\* Others set an event on the player, or theirs ends.
LEMMA PlayerExternals ==
  ASSUME PlayerInv, NEW type \in EventTypes, ExternalEvent(type)
  PROVE  PlayerInv'
<1>1. who = "player" /\ PlayerType /\ ExternalsOnce
  BY DEF PlayerInv
<1>2. /\ MaxEvents \in Nat /\ server.externals \in Nat /\ server \in PlayerServer
      /\ cent.state.event.num \in Nat /\ Range(fired) \subseteq Nat
  BY <1>1, PlayerFacts DEF PlayerType
<1>3. PICK event \in AnEvent : /\ event = Event(type, MaxEvents + server.externals + 1)
                               /\ event.num = MaxEvents + (server.externals + 1)
                               /\ event.type # 0
  <2>1. /\ MaxEvents + server.externals + 1 \in Nat
        /\ MaxEvents + server.externals + 1 = MaxEvents + (server.externals + 1)
    BY <1>2
  <2> QED
    BY <2>1, EventParts
<1>4. /\ server' = [server EXCEPT !.externals = server.externals + 1, !.externalEvent = event]
      /\ UNCHANGED <<who, snapshots, acked, cent, fired>>
  BY <1>2, <1>3 DEF ExternalEvent, PlayerServer
<1>5. /\ server' \in PlayerServer /\ server'.eventSequence = server.eventSequence
      /\ server'.events = server.events /\ server'.externalEvent = event
      /\ server'.externals = server.externals + 1 /\ server.externals + 1 # 0
  <2>1. server.externals + 1 \in Nat /\ server.externals + 1 # 0
    BY <1>2
  <2>2. PICK n \in Nat : n = server.externals + 1
    BY <2>1
  <2>3. server' = [[server EXCEPT !.externals = n] EXCEPT !.externalEvent = event]
    BY <1>2, <1>4, <2>2 DEF PlayerServer
  <2>4. /\ server' \in PlayerServer /\ server'.eventSequence = server.eventSequence
        /\ server'.events = server.events /\ server'.externalEvent = event
        /\ server'.externals = n
    BY <1>2, <2>3 DEF PlayerServer
  <2> QED
    BY <2>1, <2>2, <2>4
<1>6. PlayerType'
  BY <1>1, <1>3, <1>4, <1>5 DEF PlayerType
<1>7. event.num \notin Range(fired) /\ event.num # cent.state.event.num
  BY <1>1, <1>2, <1>3 DEF ExternalsOnce
<1>8. /\ \A k \in Range(fired) : k <= MaxEvents + (server.externals + 1)
      /\ cent.state.event.num <= MaxEvents + (server.externals + 1)
  BY <1>1, <1>2 DEF ExternalsOnce
<1>9. ExternalsOnce'
  BY <1>1, <1>4, <1>5, <1>7, <1>8 DEF ExternalsOnce
<1> QED
  BY <1>1, <1>4, <1>5, <1>6, <1>9 DEF PlayerInv

LEMMA PlayerExternalEnds ==
  ASSUME PlayerInv, ExternalEventEnds
  PROVE  PlayerInv'
<1>1. who = "player" /\ PlayerType /\ ExternalsOnce /\ server \in PlayerServer
  BY DEF PlayerInv, PlayerType
<1>2. /\ server' = [server EXCEPT !.externalEvent = NoEvent] /\ server.externals # 0
      /\ UNCHANGED <<who, snapshots, acked, cent, fired>>
  BY <1>1 DEF ExternalEventEnds, PlayerType
<1>3. /\ server' \in PlayerServer /\ server'.eventSequence = server.eventSequence
      /\ server'.events = server.events /\ server'.externalEvent.type = 0
      /\ server'.externals = server.externals
  BY <1>1, <1>2, NewParts DEF PlayerServer
<1>4. PlayerType'
  BY <1>1, <1>2, <1>3 DEF PlayerType
<1>5. ExternalsOnce'
  BY <1>1, <1>2, <1>3 DEF ExternalsOnce
<1> QED
  BY <1>1, <1>2, <1>3, <1>4, <1>5 DEF PlayerInv

\* The server learns of a later snapshot, whose state is the next one's base.
LEMMA PlayerAcknowledges ==
  ASSUME PlayerInv, Acknowledge
  PROVE  PlayerInv'
<1>1. who = "player" /\ PlayerType /\ ExternalsOnce /\ (server.externals = 0 => OwnOnce)
  BY DEF PlayerInv
<1>2. /\ acked' \in acked + 1 .. Len(snapshots)
      /\ UNCHANGED <<who, server, snapshots, cent, fired>>
  BY DEF Acknowledge
<1>3. /\ MAX_PS_EVENTS \in Nat \ {0} /\ server.eventSequence \in Nat
      /\ AckedSequence \in Nat /\ Oldest \in Nat
      /\ cent.state.event.num \in Nat /\ Len(snapshots) \in Nat
      /\ snapshots \in Seq(APlayerState) /\ acked \in 0 .. Len(snapshots)
      /\ DOMAIN snapshots = 1 .. Len(snapshots)
  <2>1. /\ MAX_PS_EVENTS \in Nat \ {0} /\ server.eventSequence \in Nat
        /\ AckedSequence \in Nat /\ Oldest \in Nat
        /\ cent.state.event.num \in Nat /\ Len(snapshots) \in Nat
    BY <1>1, PlayerFacts
  <2>2. /\ snapshots \in Seq(APlayerState) /\ acked \in 0 .. Len(snapshots)
        /\ DOMAIN snapshots = 1 .. Len(snapshots)
    BY <1>1 DEF PlayerType
  <2> QED
    BY <2>1, <2>2
<1>4. /\ acked' \in 0 .. Len(snapshots) /\ acked' \in DOMAIN snapshots
      /\ acked # 0 => acked \in DOMAIN snapshots /\ acked <= acked'
  BY <1>2, <1>3
<1>5. PlayerType'
  BY <1>1, <1>2, <1>4 DEF PlayerType
<1>6. ExternalsOnce'
  BY <1>1, <1>2 DEF ExternalsOnce
<1>7. ASSUME server.externals = 0 PROVE OwnOnce'
  <2>1. OwnOnce
    BY <1>1, <1>7
  <2>2. AckedSequence' = snapshots[acked'].entityEventSequence
    BY <1>2, <1>3, <1>4 DEF AckedSequence
  <2>3. AckedSequence' \in Nat
    <3>1. snapshots[acked'] \in APlayerState
      BY <1>3, <1>4
    <3> QED
      BY <2>2, <3>1 DEF APlayerState
  <2>4. AckedSequence <= AckedSequence'
    <3>1. CASE acked = 0
      BY <2>3, <3>1 DEF AckedSequence
    <3>2. CASE acked # 0
      BY <1>4, <2>1, <2>2, <3>2 DEF AckedSequence, OwnOnce, SequencesRise
    <3> QED
      BY <3>1, <3>2
  <2>5. Oldest' \in Nat /\ Oldest <= Oldest'
    BY <1>2, <1>3, <2>3, <2>4 DEF Oldest
  <2>6. ASSUME NEW i \in DOMAIN snapshots
        PROVE  snapshots[i].entityEventSequence <= Oldest' + 1
    <3>1. snapshots[i] \in APlayerState
      BY <1>3
    <3>2. snapshots[i].entityEventSequence \in Nat
      BY <3>1 DEF APlayerState
    <3>3. snapshots[i].entityEventSequence <= Oldest + 1
      BY <2>1 DEF OwnOnce, SequencesRise
    <3> QED
      BY <1>3, <2>5, <3>2, <3>3
  <2>7. SequencesRise'
    BY <1>2, <2>1, <2>6 DEF OwnOnce, SequencesRise
  <2>8. ShownIsTrue'
    <3>1. cent.state.event.type # 0 => cent.state.event.num <= Oldest
      BY <2>1 DEF OwnOnce, ShownIsTrue
    <3>2. cent.state.event.type # 0 => cent.state.event.num <= Oldest'
      BY <1>3, <2>5, <3>1
    <3> QED
      BY <1>2, <2>1, <3>2 DEF OwnOnce, ShownIsTrue
  <2>9. FiredIsKnown'
    BY <1>2, <2>1 DEF OwnOnce, FiredIsKnown, Once
  <2> QED
    BY <2>7, <2>8, <2>9 DEF OwnOnce
<1> QED
  BY <1>1, <1>2, <1>5, <1>6, <1>7 DEF PlayerInv

LEMMA FiredOwn ==
  ASSUME fired \in Seq(Nat), NEW n \in Nat, fired' = Append(fired, n),
         MaxEvents \in Nat, n > MaxEvents => n \notin Range(fired),
         \A i, j \in DOMAIN fired : i < j /\ fired[i] = fired[j] => fired[i] <= MaxEvents
  PROVE  \A i, j \in DOMAIN fired' : i < j /\ fired'[i] = fired'[j] => fired'[i] <= MaxEvents
<1>1. /\ fired'[Len(fired) + 1] = n /\ \A i \in DOMAIN fired : fired'[i] = fired[i]
      /\ Len(fired) \in Nat /\ DOMAIN fired = 1 .. Len(fired)
      /\ DOMAIN fired' = 1 .. Len(fired) + 1
  OBVIOUS
<1> SUFFICES ASSUME NEW i \in DOMAIN fired', NEW j \in DOMAIN fired', i < j, fired'[i] = fired'[j]
             PROVE  fired'[i] <= MaxEvents
  OBVIOUS
<1>2. i \in DOMAIN fired
  BY <1>1
<1>3. CASE j \in DOMAIN fired
  BY <1>1, <1>2, <1>3
<1>4. CASE j = Len(fired) + 1
  <2>1. fired'[i] = n /\ n \in Range(fired)
    BY <1>1, <1>2, <1>4 DEF Range
  <2> QED
    BY <2>1
<1> QED
  BY <1>1, <1>3, <1>4

LEMMA PlayerFires ==
  ASSUME PlayerInv, extractNewCurrentEvent
  PROVE  PlayerInv'
<1>1. who = "player" /\ PlayerType /\ ExternalsOnce /\ (server.externals = 0 => OwnOnce)
  BY DEF PlayerInv
<1>2. cent \in AnEntity /\ fired \in Seq(Nat) /\ MaxEvents \in Nat
  BY <1>1, PlayerFacts DEF PlayerType
<1>3. PICK n \in Nat : n = cent.state.event.num
  BY <1>1, PlayerFacts
<1>4. /\ ~Known(cent) /\ Known(cent') /\ cent' \in AnEntity
      /\ cent'.state = cent.state /\ cent.state.event.type # 0
      /\ fired' = Append(fired, n)
      /\ UNCHANGED <<who, server, snapshots, acked>>
  BY <1>2, <1>3, Extracted
<1>5. /\ fired' \in Seq(Nat) /\ Range(fired') = Range(fired) \cup {n}
      /\ Once /\ n \notin Range(fired) => Once'
  BY <1>2, <1>4, FiredMore
<1>6. PlayerType'
  BY <1>1, <1>4, <1>5 DEF PlayerType
<1>7. ExternalsOnce'
  <2>1. n > MaxEvents => n \notin Range(fired)
    BY <1>1, <1>3, <1>4 DEF ExternalsOnce
  <2>2. \A i, j \in DOMAIN fired : i < j /\ fired[i] = fired[j] => fired[i] <= MaxEvents
    BY <1>1 DEF ExternalsOnce
  <2>3. \A i, j \in DOMAIN fired' : i < j /\ fired'[i] = fired'[j] => fired'[i] <= MaxEvents
    BY <1>2, <1>4, <2>1, <2>2, FiredOwn
  <2>4. \A k \in Range(fired') : k <= MaxEvents + server.externals
    BY <1>1, <1>3, <1>5 DEF ExternalsOnce
  <2>5. server.externalEvent.type # 0 /\ server.externalEvent.num \in Range(fired')
        => cent.state.event = server.externalEvent
    BY <1>1, <1>3, <1>5 DEF ExternalsOnce
  <2> QED
    BY <1>1, <1>4, <2>3, <2>4, <2>5 DEF ExternalsOnce
<1>8. ASSUME server.externals = 0 PROVE OwnOnce'
  <2>1. OwnOnce
    BY <1>1, <1>8
  <2>2. SequencesRise' /\ ShownIsTrue'
    <3>1. AckedSequence' = AckedSequence
      BY <1>4 DEF AckedSequence
    <3>2. Oldest' = Oldest
      BY <1>4, <3>1 DEF Oldest
    <3> QED
      BY <1>4, <2>1, <3>2 DEF OwnOnce, SequencesRise, ShownIsTrue
  <2>3. n \notin Range(fired) /\ \A k \in Range(fired) : k <= n
    BY <1>3, <1>4, <2>1 DEF OwnOnce, FiredIsKnown
  <2>4. Once'
    BY <1>5, <2>1, <2>3 DEF OwnOnce, FiredIsKnown
  <2>5. FiredIsKnown'
    BY <1>3, <1>4, <1>5, <2>3, <2>4 DEF FiredIsKnown
  <2> QED
    BY <2>2, <2>5 DEF OwnOnce
<1> QED
  BY <1>1, <1>4, <1>6, <1>7, <1>8 DEF PlayerInv

-----------------------------------------------------------------------------

EventsInv == OtherInv \/ PlayerInv

LEMMA EventsStart ==
  ASSUME EventsInit
  PROVE  EventsInv
<1>1. /\ snapshots = << >> /\ acked = 0 /\ cent = NewEntity /\ fired = << >>
      /\ \/ who = "player" /\ server = PlayerInit
         \/ who = "other" /\ server = OtherInit
  BY DEF EventsInit
<1>2. /\ fired \in Seq(Nat) /\ DOMAIN fired = {} /\ Range(fired) = {} /\ Len(fired) = 0
      /\ snapshots \in Seq(APlayerState) /\ DOMAIN snapshots = {} /\ Len(snapshots) = 0
  BY <1>1 DEF Range
<1>3. /\ cent \in AnEntity /\ cent.state.event.num = 0 /\ cent.state.event.type = 0
      /\ cent.state.isEventEntity = FALSE /\ cent.valid = FALSE
  BY <1>1, NewParts
<1>4. CASE who = "other" /\ server = OtherInit
  <2>1. /\ server \in OtherServer /\ server.num = 0 /\ server.present = FALSE
        /\ server.state.event.num = 0 /\ server.state.event.type = 0
    BY <1>4, NewParts DEF OtherInit, OtherServer
  <2>2. OtherType
    BY <1>2, <1>3, <2>1 DEF OtherType
  <2>3. OtherKnows /\ Once
    BY <1>2, <1>3, <2>1 DEF OtherKnows, Announced, Once
  <2> QED
    BY <1>4, <2>2, <2>3 DEF EventsInv, OtherInv
<1>5. CASE who = "player" /\ server = PlayerInit
  <2>1. /\ server.eventSequence = 0 /\ server.externals = 0 /\ server.externalEvent = NoEvent
        /\ server.events = [i \in 0 .. MAX_PS_EVENTS - 1 |-> NoEvent]
        /\ server = [eventSequence |-> server.eventSequence, events |-> server.events,
                     externalEvent |-> server.externalEvent, externals |-> server.externals]
    BY <1>5 DEF PlayerInit
  <2>2. server.events \in Ring
    BY <2>1, NewParts DEF Ring
  <2>3. server \in PlayerServer /\ server.externalEvent.type = 0
    <3>1. /\ server.eventSequence \in Nat /\ server.externals \in Nat
          /\ server.externalEvent \in AnEvent /\ server.externalEvent.type = 0
      BY <2>1, NewParts
    <3>2. PICK s, e, x, n : server = [eventSequence |-> s, events |-> e,
                                      externalEvent |-> x, externals |-> n]
      BY <2>1
    <3>3. /\ s = server.eventSequence /\ e = server.events
          /\ x = server.externalEvent /\ n = server.externals
      BY <3>2
    <3> QED
      BY <2>2, <3>1, <3>2, <3>3 DEF PlayerServer
  <2>4. MaxEvents \in Nat
    BY EventsAssumption
  <2>5. PlayerType
    BY <1>1, <1>2, <1>3, <2>1, <2>3, <2>4 DEF PlayerType
  <2>6. ExternalsOnce
    BY <1>2, <1>3, <2>1, <2>3, <2>4 DEF ExternalsOnce
  <2>7. OwnOnce
    BY <1>2, <1>3 DEF OwnOnce, SequencesRise, ShownIsTrue, FiredIsKnown, Once
  <2> QED
    BY <1>5, <2>5, <2>6, <2>7 DEF EventsInv, PlayerInv
<1> QED
  BY <1>1, <1>4, <1>5

LEMMA EventsStep ==
  ASSUME ~AnyFull, ~Returns, EventsInv, [EventsNext]_eventVars
  PROVE  EventsInv'
<1>1. CASE UNCHANGED eventVars
  <2>1. CASE OtherInv
    BY <1>1, <2>1 DEF eventVars, EventsInv, OtherInv, OtherType, OtherKnows, Announced, Once
  <2>2. CASE PlayerInv
    <3>1. AckedSequence' = AckedSequence /\ Oldest' = Oldest
      BY <1>1 DEF eventVars, AckedSequence, Oldest
    <3>2. PlayerType' /\ ExternalsOnce'
      BY <1>1, <2>2 DEF eventVars, PlayerInv, PlayerType, ExternalsOnce
    <3>3. OwnOnce => OwnOnce'
      BY <1>1, <3>1
      DEF eventVars, OwnOnce, SequencesRise, ShownIsTrue, FiredIsKnown, Once
    <3> QED
      BY <1>1, <2>2, <3>2, <3>3 DEF eventVars, EventsInv, PlayerInv
  <2> QED
    BY <2>1, <2>2 DEF EventsInv
<1>2. CASE EventsNext
  <2>1. CASE OtherInv
    <3>1. who # "player"
      BY <2>1 DEF OtherInv
    <3>2. OtherStep \/ ReceiveOther \/ extractNewCurrentEvent
      BY <1>2, <3>1
      DEF EventsNext, PlayerEvent, ExternalEvent, ExternalEventEnds, ReceivePlayer, Acknowledge
    <3> QED
      BY <2>1, <3>2, OtherSteps, OtherReceives, OtherFires DEF EventsInv
  <2>2. CASE PlayerInv
    <3>1. who # "other"
      BY <2>2 DEF PlayerInv
    <3>2. \/ \E type \in EventTypes : PlayerEvent(type) \/ ExternalEvent(type)
          \/ ExternalEventEnds \/ ReceivePlayer(acked) \/ Acknowledge
          \/ extractNewCurrentEvent
      BY <1>2, <3>1 DEF EventsNext, OtherStep, ReceiveOther
    <3> QED
      BY <2>2, <3>2, PlayerEvents, PlayerExternals, PlayerExternalEnds, PlayerReceives,
         PlayerAcknowledges, PlayerFires DEF EventsInv
  <2> QED
    BY <2>1, <2>2 DEF EventsInv
<1> QED
  BY <1>1, <1>2

\* No event fires twice (CEntity.h lines 122-190, JKAFunctions.cpp lines 105-118), for
\* every size of the ring, every number of nonces and all types of events, but for the
\* player's own events once others have set one on the player.  Provided that a snapshot
\* has its base once the server knows of one, and that no entity comes back with the
\* event it had.
THEOREM EventsAreTakenOnce ==
  ASSUME ~AnyFull, ~Returns
  PROVE  EventsSpec => []EventsFireOnce
<1>1. EventsInit => EventsInv
  BY EventsStart
<1>2. EventsInv /\ [EventsNext]_eventVars => EventsInv'
  BY EventsStep
<1>3. EventsInv => EventsFireOnce
  <2>1. OtherInv => EventsFireOnce
    BY DEF OtherInv, Once, EventsFireOnce
  <2>2. ASSUME PlayerInv PROVE EventsFireOnce
    <3>1. server.externals \in Nat
      BY <2>2, PlayerFacts DEF PlayerInv
    <3>2. CASE server.externals = 0
      BY <2>2, <3>2 DEF PlayerInv, OwnOnce, FiredIsKnown, Once, EventsFireOnce
    <3>3. CASE server.externals > 0
      BY <2>2, <3>3 DEF PlayerInv, ExternalsOnce, EventsFireOnce
    <3> QED
      BY <3>1, <3>2, <3>3
  <2> QED
    BY <2>1, <2>2 DEF EventsInv
<1> QED
  BY <1>1, <1>2, <1>3, PTL DEF EventsSpec

-----------------------------------------------------------------------------
(* Moves.                                                                  *)

Time == Nat \ {0}

\* Times in the order in which they were made.
InOrder(s) == \A i, j \in DOMAIN s : i < j => s[i] <= s[j]

\* Each time once.
Rising(s) == \A i, j \in DOMAIN s : i < j => s[i] < s[j]

-----------------------------------------------------------------------------
(* Sequences of times.                                                     *)

LEMMA RangeOfTimes ==
  ASSUME NEW s \in Seq(Time)
  PROVE  /\ DOMAIN s = 1 .. Len(s) /\ Len(s) \in Nat
         /\ Range(s) = {s[i] : i \in 1 .. Len(s)} /\ Range(s) \subseteq Time
BY DEF Range

LEMMA OneMore ==
  ASSUME NEW s \in Seq(Time), NEW t \in Time
  PROVE  /\ Append(s, t) \in Seq(Time) /\ Range(Append(s, t)) = Range(s) \cup {t}
         /\ InOrder(s) /\ (\A u \in Range(s) : u <= t) => InOrder(Append(s, t))
         /\ Rising(s) /\ (\A u \in Range(s) : u < t) => Rising(Append(s, t))
<1> DEFINE r == Append(s, t)
<1>1. /\ r \in Seq(Time) /\ Len(r) = Len(s) + 1 /\ r[Len(s) + 1] = t
      /\ \A i \in 1 .. Len(s) : r[i] = s[i]
  OBVIOUS
<1>2. /\ Len(s) \in Nat /\ DOMAIN s = 1 .. Len(s) /\ DOMAIN r = 1 .. Len(s) + 1
      /\ Range(s) = {s[i] : i \in 1 .. Len(s)} /\ Range(r) = {r[i] : i \in 1 .. Len(s) + 1}
  BY <1>1, RangeOfTimes DEF Time
<1> HIDE DEF r
<1>3. Range(r) = Range(s) \cup {t}
  <2>1. ASSUME NEW i \in 1 .. Len(s) + 1 PROVE r[i] \in Range(s) \cup {t}
    BY <1>1, <1>2
  <2>2. ASSUME NEW i \in 1 .. Len(s) PROVE s[i] \in Range(r)
    BY <1>1, <1>2
  <2>3. t \in Range(r)
    BY <1>1, <1>2
  <2> QED
    BY <1>2, <2>1, <2>2, <2>3
<1>4. ASSUME NEW i \in DOMAIN r, NEW j \in DOMAIN r, i < j
      PROVE  /\ i \in DOMAIN s /\ r[i] = s[i] /\ s[i] \in Range(s)
             /\ (j \in DOMAIN s /\ r[j] = s[j]) \/ r[j] = t
  BY <1>1, <1>2, <1>4
<1>5. InOrder(s) /\ (\A u \in Range(s) : u <= t) => InOrder(r)
  BY <1>4 DEF InOrder
<1>6. Rising(s) /\ (\A u \in Range(s) : u < t) => Rising(r)
  BY <1>4 DEF Rising
<1> QED
  BY <1>1, <1>3, <1>5, <1>6 DEF r

-----------------------------------------------------------------------------
(* The moves of one packet.                                                *)

\* f has what is known after each of n moves.
IsExecution(f, n, state, cmds) ==
  f = [i \in 0 .. n |-> IF i = 0 THEN state ELSE executeUserCmd(f[i - 1], cmds[i])]

LEMMA ExecutionExists ==
  ASSUME NEW state, NEW cmds, NEW length \in Nat
  PROVE  \E f : IsExecution(f, length, state, cmds)
<1> DEFINE S == {n \in Nat : \E f : IsExecution(f, n, state, cmds)}
<1>1. 0 \in S
  <2> DEFINE f == [i \in 0 .. 0 |-> state]
  <2>1. IsExecution(f, 0, state, cmds)
    BY DEF IsExecution
  <2> QED
    BY <2>1
<1>2. ASSUME NEW n \in S PROVE n + 1 \in S
  <2>1. PICK f : IsExecution(f, n, state, cmds)
    OBVIOUS
  <2> DEFINE Step(x, i) == executeUserCmd(x, cmds[i])
             h == [i \in 0 .. n + 1 |-> IF i = n + 1 THEN Step(f[n], i) ELSE f[i]]
  <2>2. f = [i \in 0 .. n |-> IF i = 0 THEN state ELSE Step(f[i - 1], i)]
    BY <2>1 DEF IsExecution
  <2> HIDE DEF Step
  <2>3. ASSUME NEW i \in 0 .. n + 1
        PROVE  h[i] = IF i = 0 THEN state ELSE Step(h[i - 1], i)
    <3>1. CASE i = n + 1
      <4>1. i - 1 = n /\ n \in 0 .. n + 1 /\ n # n + 1 /\ i # 0
        BY <3>1
      <4> QED
        BY <3>1, <4>1
    <3>2. CASE i = 0
      BY <2>2, <3>2
    <3>3. CASE i # 0 /\ i # n + 1
      <4>1. i \in 0 .. n /\ i - 1 \in 0 .. n + 1 /\ i - 1 # n + 1
        BY <3>3
      <4>2. h[i] = f[i] /\ h[i - 1] = f[i - 1]
        BY <3>3, <4>1
      <4>3. f[i] = Step(f[i - 1], i)
        BY <2>2, <3>3, <4>1
      <4> QED
        BY <3>3, <4>2, <4>3
    <3> QED
      BY <3>1, <3>2, <3>3
  <2>4. h = [i \in 0 .. n + 1 |-> h[i]]
    OBVIOUS
  <2> HIDE DEF h
  <2>5. h = [i \in 0 .. n + 1 |-> IF i = 0 THEN state ELSE Step(h[i - 1], i)]
    BY <2>3, <2>4
  <2>6. IsExecution(h, n + 1, state, cmds)
    BY <2>5 DEF IsExecution, Step
  <2> QED
    BY <2>6
<1>3. S = Nat
  <2>1. S \in SUBSET Nat
    OBVIOUS
  <2> HIDE DEF S
  <2> QED
    BY <1>1, <1>2, <2>1, SetInduction
<1> QED
  BY <1>3

\* What is known after the moves of the set "read" were gone through: those later
\* than the last that was known are executed, in their order.
Executed(state, read, r) ==
  /\ r.last \in Nat /\ r.last \in {state.last} \cup read
  /\ state.last <= r.last /\ \A t \in read : t <= r.last
  /\ r.executed \in Seq(Time) /\ Rising(r.executed)
  /\ Range(r.executed) = Range(state.executed) \cup {t \in read : state.last < t}
  /\ \A t \in Range(r.executed) : t <= r.last

\* Before any is.
Executable(state) ==
  /\ state.last \in Nat
  /\ state.executed \in Seq(Time) /\ Rising(state.executed)
  /\ \A t \in Range(state.executed) : t <= state.last

\* One move more, not earlier than those before it.
LEMMA OneIsExecuted ==
  ASSUME NEW state, Executable(state), NEW read \in SUBSET Time, NEW r, Executed(state, read, r),
         NEW t \in Time, \A u \in read : u <= t
  PROVE  Executed(state, read \cup {t}, executeUserCmd(r, t))
<1>1. /\ r.last \in Nat /\ r.last \in {state.last} \cup read /\ state.last \in Nat
      /\ state.last <= r.last /\ t \in Nat
      /\ r.executed \in Seq(Time) /\ Rising(r.executed)
      /\ \A u \in Range(r.executed) : u <= r.last
      /\ \A u \in read : u <= r.last
      /\ Range(r.executed) = Range(state.executed) \cup {u \in read : state.last < u}
  BY DEF Executable, Executed, Time
<1>2. CASE t <= r.last
  <2>1. executeUserCmd(r, t) = r
    BY <1>2 DEF executeUserCmd
  <2>2. state.last < t => t \in read
    <3>1. state.last < t => r.last = t
      <4>1. ASSUME state.last < t PROVE r.last = t
        <5>1. r.last \in read
          BY <1>1, <1>2, <4>1
        <5> QED
          BY <1>1, <1>2, <5>1
      <4> QED
        BY <4>1
    <3> QED
      BY <1>1, <3>1
  <2>3. {u \in read \cup {t} : state.last < u} = {u \in read : state.last < u}
    BY <2>2
  <2> QED
    BY <1>1, <1>2, <2>1, <2>3 DEF Executed
<1>3. CASE ~(t <= r.last)
  <2> DEFINE s == Append(r.executed, t)
  <2>1. executeUserCmd(r, t) = [last |-> t, executed |-> s]
    BY <1>3 DEF executeUserCmd
  <2>2. \A u \in Range(r.executed) : u < t
    <3>1. ASSUME NEW u \in Range(r.executed) PROVE u < t
      <4>1. u \in Nat /\ u <= r.last
        BY <1>1, RangeOfTimes DEF Time
      <4> QED
        BY <1>1, <1>3, <4>1
    <3> QED
      BY <3>1
  <2>3. s \in Seq(Time) /\ Rising(s) /\ Range(s) = Range(r.executed) \cup {t}
    BY <1>1, <2>2, OneMore
  <2> HIDE DEF s
  <2>4. state.last < t /\ state.last <= t
    BY <1>1, <1>3
  <2>5. {u \in read \cup {t} : state.last < u} = {u \in read : state.last < u} \cup {t}
    BY <2>4
  <2>6. Range(s) = Range(state.executed) \cup {u \in read \cup {t} : state.last < u}
    BY <1>1, <2>3, <2>5
  <2>7. \A u \in Range(s) : u <= t
    <3>1. ASSUME NEW u \in Range(r.executed) PROVE u <= t
      <4>1. u \in Nat /\ u < t
        BY <1>1, <2>2, RangeOfTimes DEF Time
      <4> QED
        BY <1>1, <4>1
    <3> QED
      BY <1>1, <2>3, <3>1
  <2> QED
    BY <1>1, <2>1, <2>3, <2>4, <2>6, <2>7 DEF Executed
<1> QED
  BY <1>2, <1>3

\* All of a packet.
LEMMA PacketIsExecuted ==
  ASSUME NEW state, Executable(state), NEW cmds \in Seq(Time), InOrder(cmds)
  PROVE  Executed(state, Range(cmds), executeUserCmds(state, cmds))
<1> DEFINE after == CHOOSE f : IsExecution(f, Len(cmds), state, cmds)
<1>1. /\ DOMAIN cmds = 1 .. Len(cmds) /\ Len(cmds) \in Nat
      /\ Range(cmds) = {cmds[i] : i \in 1 .. Len(cmds)} /\ Range(cmds) \subseteq Time
  BY RangeOfTimes
<1>2. IsExecution(after, Len(cmds), state, cmds)
  BY <1>1, ExecutionExists
<1>3. executeUserCmds(state, cmds) = after[Len(cmds)]
  BY DEF executeUserCmds, IsExecution
<1> HIDE DEF after
<1> DEFINE Read(n) == {cmds[i] : i \in 1 .. n}
           S == {n \in Nat : n <= Len(cmds) => Executed(state, Read(n), after[n])}
<1>4. 0 \in S
  <2>1. after[0] = state
    BY <1>1, <1>2 DEF IsExecution
  <2>2. Read(0) = {}
    OBVIOUS
  <2>3. Executed(state, {}, state)
    BY DEF Executed, Executable
  <2> QED
    BY <2>1, <2>2, <2>3
<1>5. ASSUME NEW n \in S PROVE n + 1 \in S
  <2>1. SUFFICES ASSUME n + 1 <= Len(cmds)
                 PROVE  Executed(state, Read(n + 1), after[n + 1])
    OBVIOUS
  <2>2. n \in Nat /\ n <= Len(cmds) /\ n + 1 \in 1 .. Len(cmds) /\ n + 1 \in 0 .. Len(cmds)
    BY <1>1, <2>1
  <2>3. Executed(state, Read(n), after[n])
    BY <2>2
  <2>4. after[n + 1] = executeUserCmd(after[n], cmds[n + 1])
    BY <1>2, <2>2 DEF IsExecution
  <2>5. cmds[n + 1] \in Time /\ Read(n) \subseteq Time
    BY <1>1, <2>2
  <2>6. \A u \in Read(n) : u <= cmds[n + 1]
    <3>1. ASSUME NEW i \in 1 .. n PROVE cmds[i] <= cmds[n + 1]
      <4>1. i \in DOMAIN cmds /\ n + 1 \in DOMAIN cmds /\ i < n + 1
        BY <1>1, <2>2
      <4> QED
        BY <4>1 DEF InOrder
    <3> QED
      BY <3>1
  <2>7. Read(n + 1) = Read(n) \cup {cmds[n + 1]}
    <3>1. 1 .. n + 1 = 1 .. n \cup {n + 1}
      BY <2>2
    <3> QED
      BY <3>1
  <2> HIDE DEF Read
  <2> QED
    BY <2>3, <2>4, <2>5, <2>6, <2>7, OneIsExecuted
<1>6. S = Nat
  <2>1. S \in SUBSET Nat
    OBVIOUS
  <2> HIDE DEF S
  <2> QED
    BY <1>4, <1>5, <2>1, SetInduction
<1>7. Executed(state, Read(Len(cmds)), after[Len(cmds)])
  <2> HIDE DEF S
  <2>1. Len(cmds) \in S
    BY <1>1, <1>6
  <2>2. Len(cmds) <= Len(cmds)
    BY <1>1
  <2> HIDE DEF Read
  <2> QED
    BY <2>1, <2>2 DEF S
<1> QED
  BY <1>1, <1>3, <1>7

-----------------------------------------------------------------------------
(* The packets and what is still to be sent.                               *)

\* The moves that packets yet to be sent can have.
ToSend == {moves[i] : i \in first .. Len(moves)}

\* The moves that come to the observer, if they do, behind a packet in flight.
Behind(p) ==
  {t \in Time : t \in ToSend \/ \E q \in DOMAIN packets : p < q /\ t \in Range(packets[q])}

InFlight == {t \in Time : \E p \in DOMAIN packets : t \in Range(packets[p])}

MovesType ==
  /\ moves \in Seq(Time) /\ first \in 1 .. Len(moves) + 1 /\ packets \in Seq(Seq(Time))
  /\ lastUsercmd \in Nat /\ executed \in Seq(Time) /\ received \subseteq Range(moves)

\* The moves of a packet have the order in which they were made.
MadeInOrder ==
  /\ InOrder(moves) /\ \A p \in DOMAIN packets : InOrder(packets[p])
  /\ InFlight \subseteq Range(moves)

\* What is executed are the moves received, and the last of them is known.
ReceivedAreExecuted ==
  /\ Range(executed) = received /\ Rising(executed)
  /\ lastUsercmd \in {0} \cup received /\ \A t \in received : t <= lastUsercmd

\* A move that comes too late to be executed was received.
LateIsReceived ==
  \A t \in InFlight \cup ToSend : t <= lastUsercmd => t \in received

\* A packet has all moves not later than one of its own that come behind it.
PacketsAreRepeated ==
  \A p \in DOMAIN packets : \A u \in Range(packets[p]) : \A t \in Behind(p) :
    t <= u => t \in Range(packets[p])

MovesInv ==
  MovesType /\ MadeInOrder /\ ReceivedAreExecuted /\ LateIsReceived /\ PacketsAreRepeated

LEMMA PacketTimes ==
  ASSUME MovesType, NEW p \in DOMAIN packets
  PROVE  /\ packets[p] \in Seq(Time) /\ Range(packets[p]) \subseteq Time
         /\ Range(packets[p]) \subseteq InFlight
<1>1. packets[p] \in Seq(Time)
  BY DEF MovesType
<1> QED
  BY <1>1, RangeOfTimes DEF InFlight

LEMMA InitMoves ==
  ASSUME MovesInit
  PROVE  MovesInv
<1>1. /\ moves = << >> /\ first = 1 /\ packets = << >> /\ lastUsercmd = 0
      /\ executed = << >> /\ received = {}
  BY DEF MovesInit
<1>2. Range(<< >>) = {} /\ DOMAIN << >> = {} /\ Len(<< >>) = 0
  BY DEF Range
<1>3. MovesType
  BY <1>1, <1>2 DEF MovesType
<1>4. InFlight = {} /\ ToSend = {}
  BY <1>1, <1>2 DEF InFlight, ToSend
<1>5. MadeInOrder
  BY <1>1, <1>2, <1>4 DEF MadeInOrder, InOrder
<1>6. ReceivedAreExecuted
  BY <1>1, <1>2 DEF ReceivedAreExecuted, Rising
<1>7. LateIsReceived /\ PacketsAreRepeated
  BY <1>1, <1>2, <1>4 DEF LateIsReceived, PacketsAreRepeated
<1> QED
  BY <1>3, <1>5, <1>6, <1>7 DEF MovesInv

\* The client makes a move: no move that is known is later.
LEMMA MakeMoves ==
  ASSUME MovesInv, NEW time \in Time, MakeMove(time)
  PROVE  MovesInv'
<1>1. /\ moves' = Append(moves, time)
      /\ moves # << >> => moves[Len(moves)] <= time
      /\ first' = first /\ packets' = packets /\ lastUsercmd' = lastUsercmd
      /\ executed' = executed /\ received' = received
  BY DEF MakeMove, Last
<1>2. /\ MovesType /\ MadeInOrder /\ ReceivedAreExecuted /\ LateIsReceived
      /\ PacketsAreRepeated
  BY DEF MovesInv
<1>3. /\ moves \in Seq(Time) /\ Len(moves) \in Nat /\ first \in 1 .. Len(moves) + 1
      /\ DOMAIN moves = 1 .. Len(moves) /\ Range(moves) \subseteq Time
      /\ Range(moves) = {moves[i] : i \in 1 .. Len(moves)}
      /\ InOrder(moves) /\ received \subseteq Range(moves) /\ InFlight \subseteq Range(moves)
  BY <1>2, RangeOfTimes DEF MovesType, MadeInOrder
<1>4. \A u \in Range(moves) : u <= time
  <2>1. ASSUME NEW i \in 1 .. Len(moves) PROVE moves[i] <= time
    <3>1. Len(moves) \in 1 .. Len(moves) /\ moves # << >>
      BY <1>3
    <3>2. /\ moves[i] \in Nat /\ moves[Len(moves)] \in Nat /\ time \in Nat
          /\ moves[Len(moves)] <= time
      BY <1>1, <1>3, <3>1 DEF Time
    <3>3. moves[i] <= moves[Len(moves)]
      <4>1. CASE i = Len(moves)
        BY <3>2, <4>1
      <4>2. CASE i # Len(moves)
        <5>0. Len(moves) \in Nat
          BY <1>3
        <5>1. i < Len(moves)
          BY <4>2, <5>0
        <5> QED
          BY <1>3, <3>1, <5>1 DEF InOrder
      <4> QED
        BY <4>1, <4>2
    <3> QED
      BY <3>2, <3>3
  <2> QED
    BY <1>3, <2>1
<1>5. moves' \in Seq(Time) /\ Range(moves') = Range(moves) \cup {time} /\ InOrder(moves')
  BY <1>1, <1>3, <1>4, OneMore
<1>6. Len(moves') = Len(moves) + 1 /\ ToSend' \subseteq ToSend \cup {time}
  <2>1. /\ Len(moves') = Len(moves) + 1 /\ moves'[Len(moves) + 1] = time
        /\ \A i \in 1 .. Len(moves) : moves'[i] = moves[i]
    BY <1>1, <1>3
  <2>2. ASSUME NEW i \in first .. Len(moves) + 1 PROVE moves'[i] \in ToSend \cup {time}
    <3>1. CASE i = Len(moves) + 1
      BY <2>1, <3>1
    <3>2. CASE i # Len(moves) + 1
      <4>1. i \in first .. Len(moves) /\ i \in 1 .. Len(moves)
        BY <1>3, <3>2
      <4> QED
        BY <2>1, <4>1 DEF ToSend
    <3> QED
      BY <3>1, <3>2
  <2>3. ToSend' = {moves'[i] : i \in first .. Len(moves) + 1}
    BY <1>1, <2>1 DEF ToSend
  <2> QED
    BY <2>1, <2>2, <2>3
<1>7. InFlight' = InFlight /\ DOMAIN packets' = DOMAIN packets
  BY <1>1 DEF InFlight
<1>8. MovesType'
  BY <1>1, <1>2, <1>3, <1>5, <1>6 DEF MovesType
<1>9. MadeInOrder'
  BY <1>1, <1>2, <1>3, <1>5, <1>7 DEF MadeInOrder
<1>10. ReceivedAreExecuted'
  BY <1>1, <1>2 DEF ReceivedAreExecuted
<1>11. LateIsReceived'
  <2>1. time <= lastUsercmd => time \in received
    <3>1. ASSUME time <= lastUsercmd PROVE time = lastUsercmd /\ lastUsercmd \in received
      <4>1. lastUsercmd \in received
        BY <1>2, <3>1 DEF ReceivedAreExecuted, Time
      <4>2. lastUsercmd <= time /\ lastUsercmd \in Nat
        BY <1>2, <1>3, <1>4, <4>1 DEF MovesType
      <4> QED
        BY <3>1, <4>1, <4>2 DEF Time
    <3> QED
      BY <3>1
  <2> QED
    BY <1>1, <1>2, <1>6, <1>7, <2>1 DEF LateIsReceived
<1>12. PacketsAreRepeated'
  <2>1. \A p \in DOMAIN packets : Behind(p)' \subseteq Behind(p) \cup {time}
    BY <1>1, <1>6, <1>7 DEF Behind
  <2>2. ASSUME NEW p \in DOMAIN packets, NEW u \in Range(packets[p]), time <= u
        PROVE  time \in Range(packets[p])
    <3>1. u \in Range(moves) /\ u \in Time
      BY <1>2, <1>3, PacketTimes
    <3>2. u <= time /\ time <= u
      BY <1>4, <2>2, <3>1
    <3>3. u \in Nat /\ time \in Nat
      BY <1>1, <3>1 DEF Time
    <3>4. u = time
      BY ONLY <3>2, <3>3
    <3> QED
      BY <3>4, <2>2
  <2>3. ASSUME NEW p \in DOMAIN packets, NEW u \in Range(packets[p]), NEW t \in Behind(p)', t <= u
        PROVE  t \in Range(packets[p])
    <3>1. CASE t = time
      BY <2>2, <2>3, <3>1
    <3>2. CASE t # time
      BY <1>2, <2>1, <2>3, <3>2 DEF PacketsAreRepeated
    <3> QED
      BY <3>1, <3>2
  <2> QED
    BY <1>1, <2>3 DEF PacketsAreRepeated
<1> QED
  BY <1>8, <1>9, <1>10, <1>11, <1>12 DEF MovesInv

\* The client sends what it has from some move on.
LEMMA SendMovesKeeps ==
  ASSUME MovesInv, NEW from \in first .. Len(moves) + 1, SendMoves(from)
  PROVE  MovesInv'
<1> DEFINE packet == SubSeq(moves, from, Len(moves))
<1>1. /\ moves' = moves /\ first' = from /\ packets' = Append(packets, packet)
      /\ lastUsercmd' = lastUsercmd /\ executed' = executed /\ received' = received
  BY DEF SendMoves
<1>2. /\ MovesType /\ MadeInOrder /\ ReceivedAreExecuted /\ LateIsReceived
      /\ PacketsAreRepeated
  BY DEF MovesInv
<1>3. /\ moves \in Seq(Time) /\ Len(moves) \in Nat /\ first \in 1 .. Len(moves) + 1
      /\ from \in 1 .. Len(moves) + 1 /\ first <= from /\ from \in Nat
      /\ DOMAIN moves = 1 .. Len(moves) /\ packets \in Seq(Seq(Time))
      /\ DOMAIN packets = 1 .. Len(packets) /\ Len(packets) \in Nat
  BY <1>2, RangeOfTimes DEF MovesType
<1>4. /\ packet \in Seq(Time) /\ DOMAIN packet = 1 .. Len(moves) - from + 1
      /\ Len(packet) = Len(moves) - from + 1
      /\ \A i \in DOMAIN packet : packet[i] = moves[from + i - 1]
  BY <1>3, SubSeqProperties
<1> HIDE DEF packet
<1>5. Range(packet) = {moves[i] : i \in from .. Len(moves)}
  <2>1. ASSUME NEW i \in DOMAIN packet PROVE packet[i] \in {moves[k] : k \in from .. Len(moves)}
    <3>1. from + i - 1 \in from .. Len(moves)
      BY <1>3, <1>4
    <3> QED
      BY <1>4, <3>1
  <2>2. ASSUME NEW k \in from .. Len(moves) PROVE moves[k] \in Range(packet)
    <3>1. k - from + 1 \in DOMAIN packet /\ from + (k - from + 1) - 1 = k
      BY <1>3, <1>4
    <3> QED
      BY <1>4, <3>1 DEF Range
  <2> QED
    BY <2>1, <2>2 DEF Range
<1>6. ToSend' = Range(packet)
  BY <1>1, <1>5 DEF ToSend
<1>7. Range(packet) \subseteq ToSend /\ Range(packet) \subseteq Range(moves)
  <2>1. from .. Len(moves) \subseteq first .. Len(moves) /\ from .. Len(moves) \subseteq DOMAIN moves
    BY <1>3
  <2> QED
    BY <1>5, <2>1 DEF ToSend, Range
<1>8. InOrder(packet)
  <2>1. ASSUME NEW i \in DOMAIN packet, NEW j \in DOMAIN packet, i < j PROVE packet[i] <= packet[j]
    <3>1. /\ from + i - 1 \in DOMAIN moves /\ from + j - 1 \in DOMAIN moves
          /\ from + i - 1 < from + j - 1
      BY <1>3, <1>4, <2>1
    <3> QED
      BY <1>2, <1>4, <3>1 DEF MadeInOrder, InOrder
  <2> QED
    BY <2>1 DEF InOrder
<1>9. /\ packets' \in Seq(Seq(Time)) /\ DOMAIN packets' = 1 .. Len(packets) + 1
      /\ packets'[Len(packets) + 1] = packet
      /\ \A p \in DOMAIN packets : packets'[p] = packets[p]
  BY <1>1, <1>3, <1>4
<1>10. InFlight' = InFlight \cup Range(packet)
  <2>1. ASSUME NEW t \in InFlight PROVE t \in InFlight'
    BY <1>3, <1>9, <2>1 DEF InFlight
  <2>2. ASSUME NEW t \in Range(packet) PROVE t \in InFlight'
    <3>1. t \in Time /\ Len(packets) + 1 \in DOMAIN packets'
      BY <1>3, <1>4, <1>9, RangeOfTimes
    <3> QED
      BY <1>9, <3>1 DEF InFlight
  <2>3. ASSUME NEW t \in InFlight' PROVE t \in InFlight \cup Range(packet)
    <3>1. PICK p \in DOMAIN packets' : t \in Range(packets'[p])
      BY <2>3 DEF InFlight
    <3>2. p \in DOMAIN packets \/ p = Len(packets) + 1
      BY <1>3, <1>9
    <3> QED
      BY <1>9, <2>3, <3>1, <3>2 DEF InFlight
  <2> QED
    BY <2>1, <2>2, <2>3
<1>11. MovesType'
  BY <1>1, <1>2, <1>3, <1>9 DEF MovesType
<1>12. MadeInOrder'
  <2>1. \A p \in DOMAIN packets' : InOrder(packets'[p])
    <3>1. ASSUME NEW p \in DOMAIN packets' PROVE InOrder(packets'[p])
      <4>1. p \in DOMAIN packets \/ p = Len(packets) + 1
        BY <1>3, <1>9
      <4> QED
        BY <1>2, <1>8, <1>9, <4>1 DEF MadeInOrder
    <3> QED
      BY <3>1
  <2> QED
    BY <1>1, <1>2, <1>7, <1>10, <2>1 DEF MadeInOrder
<1>13. ReceivedAreExecuted'
  BY <1>1, <1>2 DEF ReceivedAreExecuted
<1>14. LateIsReceived'
  BY <1>1, <1>2, <1>6, <1>7, <1>10 DEF LateIsReceived
<1>15. PacketsAreRepeated'
  <2>1. ASSUME NEW p \in DOMAIN packets PROVE Behind(p)' \subseteq Behind(p)
    <3>1. ASSUME NEW t \in Time, NEW q \in DOMAIN packets', p < q, t \in Range(packets'[q])
          PROVE  t \in Behind(p)
      <4>1. CASE q \in DOMAIN packets
        BY <1>9, <3>1, <4>1 DEF Behind
      <4>2. CASE q = Len(packets) + 1
        BY <1>7, <1>9, <3>1, <4>2 DEF Behind
      <4> QED
        BY <1>3, <1>9, <4>1, <4>2
    <3>2. ASSUME NEW t \in Time, t \in ToSend' PROVE t \in Behind(p)
      BY <1>6, <1>7, <3>2 DEF Behind
    <3> QED
      BY <3>1, <3>2 DEF Behind
  <2>2. ASSUME NEW p, p = Len(packets) + 1 PROVE Behind(p)' \subseteq Range(packet)
    <3>1. \A q \in DOMAIN packets' : ~(p < q)
      BY <1>3, <1>9, <2>2
    <3> QED
      BY <1>6, <3>1 DEF Behind
  <2>3. ASSUME NEW p \in DOMAIN packets', NEW u \in Range(packets'[p]),
               NEW t \in Behind(p)', t <= u
        PROVE  t \in Range(packets'[p])
    <3>1. CASE p \in DOMAIN packets
      BY <1>2, <1>9, <2>1, <2>3, <3>1 DEF PacketsAreRepeated
    <3>2. CASE p = Len(packets) + 1
      BY <1>9, <2>2, <2>3, <3>2
    <3> QED
      BY <1>3, <1>9, <3>1, <3>2
  <2> QED
    BY <2>3 DEF PacketsAreRepeated
<1> QED
  BY <1>11, <1>12, <1>13, <1>14, <1>15 DEF MovesInv

\* The first packet in flight is lost or read.
LEMMA HeadTaken ==
  ASSUME MovesInv, packets # << >>, packets' = Tail(packets), moves' = moves, first' = first
  PROVE  /\ packets' \in Seq(Seq(Time)) /\ InFlight' \subseteq InFlight /\ ToSend' = ToSend
         /\ MadeInOrder' /\ PacketsAreRepeated'
         /\ Head(packets) \in Seq(Time) /\ InOrder(Head(packets))
         /\ Range(Head(packets)) \subseteq Range(moves)
         /\ Range(Head(packets)) \subseteq InFlight
         /\ \A u \in Range(Head(packets)) : \A t \in InFlight' \cup ToSend :
              t <= u => t \in Range(Head(packets))
<1>1. MovesType /\ MadeInOrder /\ PacketsAreRepeated
  BY DEF MovesInv
<1>2. /\ packets \in Seq(Seq(Time)) /\ Len(packets) \in Nat /\ Len(packets) >= 1
      /\ DOMAIN packets = 1 .. Len(packets) /\ Head(packets) = packets[1]
      /\ 1 \in DOMAIN packets
  BY <1>1 DEF MovesType
<1>3. /\ packets' \in Seq(Seq(Time)) /\ DOMAIN packets' = 1 .. Len(packets) - 1
      /\ \A p \in DOMAIN packets' : packets'[p] = packets[p + 1]
  BY <1>2
<1>4. \A p \in DOMAIN packets' : p + 1 \in DOMAIN packets /\ 1 < p + 1
  BY <1>2, <1>3
<1>5. ToSend' = ToSend
  BY DEF ToSend
<1>6. ASSUME NEW t \in InFlight' PROVE t \in InFlight /\ t \in Behind(1)
  <2>1. t \in Time /\ \E p \in DOMAIN packets' : t \in Range(packets'[p])
    BY <1>6 DEF InFlight
  <2>2. PICK p \in DOMAIN packets' : t \in Range(packets'[p])
    BY <2>1
  <2>3. p + 1 \in DOMAIN packets /\ 1 < p + 1 /\ t \in Range(packets[p + 1])
    BY <1>3, <1>4, <2>2
  <2> QED
    BY <2>1, <2>3 DEF InFlight, Behind
<1>7. MadeInOrder'
  <2>1. \A p \in DOMAIN packets' : InOrder(packets'[p])
    BY <1>1, <1>3, <1>4 DEF MadeInOrder
  <2> QED
    BY <1>1, <1>6, <2>1 DEF MadeInOrder
<1>8. ASSUME NEW p \in DOMAIN packets', NEW n, n = p + 1 PROVE Behind(p)' \subseteq Behind(n)
  <2>1. ASSUME NEW t \in Time, NEW q \in DOMAIN packets', p < q, t \in Range(packets'[q])
        PROVE  t \in Behind(n)
    <3>1. q + 1 \in DOMAIN packets /\ n < q + 1 /\ t \in Range(packets[q + 1])
      BY <1>3, <1>4, <1>8, <2>1
    <3> QED
      BY <3>1 DEF Behind
  <2>2. ASSUME NEW t \in Time, t \in ToSend' PROVE t \in Behind(n)
    BY <1>5, <2>2 DEF Behind
  <2> QED
    BY <2>1, <2>2 DEF Behind
<1>9. PacketsAreRepeated'
  <2>1. ASSUME NEW p \in DOMAIN packets', NEW u \in Range(packets'[p]),
               NEW t \in Behind(p)', t <= u
        PROVE  t \in Range(packets'[p])
    <3>1. PICK n : n = p + 1
      OBVIOUS
    <3>2. n \in DOMAIN packets /\ packets'[p] = packets[n] /\ t \in Behind(n)
      BY <1>3, <1>4, <1>8, <3>1
    <3> QED
      BY <1>1, <2>1, <3>2 DEF PacketsAreRepeated
  <2> QED
    BY <2>1 DEF PacketsAreRepeated
<1>10. Head(packets) \in Seq(Time) /\ Range(Head(packets)) \subseteq InFlight
  BY <1>1, <1>2, PacketTimes
<1>11. InOrder(Head(packets)) /\ Range(Head(packets)) \subseteq Range(moves)
  BY <1>1, <1>2, <1>10 DEF MadeInOrder
<1>12. ASSUME NEW u \in Range(Head(packets)), NEW t \in InFlight' \cup ToSend, t <= u
       PROVE  t \in Range(Head(packets))
  <2>1. t \in Behind(1)
    <3>1. ToSend \subseteq Time
      <4>1. moves \in Seq(Time) /\ first \in 1 .. Len(moves) + 1
        BY <1>1 DEF MovesType
      <4>2. \A i \in first .. Len(moves) : i \in 1 .. Len(moves)
        BY <4>1
      <4> QED
        BY <4>1, <4>2 DEF ToSend
    <3> QED
      BY <1>6, <3>1 DEF Behind
  <2> QED
    BY <1>1, <1>2, <1>12, <2>1 DEF PacketsAreRepeated
<1> QED
  BY <1>3, <1>5, <1>6, <1>7, <1>9, <1>10, <1>11, <1>12

LEMMA LoseMovesKeeps ==
  ASSUME MovesInv, LoseMoves
  PROVE  MovesInv'
<1>1. /\ packets # << >> /\ packets' = Tail(packets) /\ moves' = moves /\ first' = first
      /\ lastUsercmd' = lastUsercmd /\ executed' = executed /\ received' = received
  BY DEF LoseMoves
<1>2. /\ MovesType /\ ReceivedAreExecuted /\ LateIsReceived
  BY DEF MovesInv
<1>3. /\ packets' \in Seq(Seq(Time)) /\ InFlight' \subseteq InFlight /\ ToSend' = ToSend
      /\ MadeInOrder' /\ PacketsAreRepeated'
  BY <1>1, HeadTaken
<1>4. MovesType' /\ ReceivedAreExecuted' /\ LateIsReceived'
  BY <1>1, <1>2, <1>3 DEF MovesType, ReceivedAreExecuted, LateIsReceived
<1> QED
  BY <1>3, <1>4 DEF MovesInv

\* The observer reads a packet, if it has not too many moves.
LEMMA ParseKeepsMoves ==
  ASSUME MovesInv, parseUserMove
  PROVE  MovesInv'
<1> DEFINE start == [last |-> lastUsercmd, executed |-> executed]
<1>1. PICK cmds : cmds = Head(packets)
  OBVIOUS
<1>2. PICK after : after = IF Len(cmds) \in 1 .. MAX_PACKET_USERCMDS
                           THEN executeUserCmds(start, cmds) ELSE start
  OBVIOUS
<1>3. PICK new : new = IF Len(cmds) <= MAX_PACKET_USERCMDS THEN Range(cmds) ELSE {}
  OBVIOUS
<1>4. /\ packets # << >> /\ packets' = Tail(packets) /\ moves' = moves /\ first' = first
      /\ lastUsercmd' = after.last /\ executed' = after.executed
      /\ received' = received \cup new
  BY <1>1, <1>2, <1>3 DEF parseUserMove
<1>5. /\ MovesType /\ ReceivedAreExecuted /\ LateIsReceived
  BY DEF MovesInv
<1>6. /\ packets' \in Seq(Seq(Time)) /\ InFlight' \subseteq InFlight /\ ToSend' = ToSend
      /\ MadeInOrder' /\ PacketsAreRepeated'
      /\ cmds \in Seq(Time) /\ InOrder(cmds)
      /\ Range(cmds) \subseteq Range(moves) /\ Range(cmds) \subseteq InFlight
      /\ \A u \in Range(cmds) : \A t \in InFlight' \cup ToSend : t <= u => t \in Range(cmds)
  BY <1>1, <1>4, HeadTaken
<1>7. /\ lastUsercmd \in Nat /\ executed \in Seq(Time) /\ received \subseteq Range(moves)
      /\ Range(moves) \subseteq Time /\ Range(cmds) \subseteq Time /\ Len(cmds) \in Nat
      /\ MAX_PACKET_USERCMDS \in Nat
      /\ Range(executed) = received /\ Rising(executed)
      /\ lastUsercmd \in {0} \cup received /\ \A t \in received : t <= lastUsercmd
  BY <1>5, <1>6, RangeOfTimes, MovesAssumption DEF MovesType, ReceivedAreExecuted
<1>8. Executable(start)
  BY <1>7 DEF Executable
<1>9. Executed(start, new, after) /\ new \subseteq Range(cmds)
  <2>1. CASE Len(cmds) \in 1 .. MAX_PACKET_USERCMDS
    <3>1. Executed(start, Range(cmds), executeUserCmds(start, cmds))
      BY <1>6, <1>8, PacketIsExecuted
    <3> QED
      BY <1>2, <1>3, <2>1, <3>1
  <2>2. CASE Len(cmds) \notin 1 .. MAX_PACKET_USERCMDS
    <3>1. new = {}
      <4>1. CASE Len(cmds) = 0
        <5>1. DOMAIN cmds = {}
          BY <1>6, <4>1
        <5>2. Range(cmds) = {}
          BY <5>1 DEF Range
        <5> QED
          BY <1>3, <5>2
      <4>2. CASE Len(cmds) # 0
        <5>1. ~(Len(cmds) <= MAX_PACKET_USERCMDS)
          BY <1>7, <2>2, <4>2
        <5> QED
          BY <1>3, <5>1
      <4> QED
        BY <4>1, <4>2
    <3>2. Executed(start, {}, start)
      BY <1>8 DEF Executed, Executable
    <3> QED
      BY <1>2, <2>2, <3>1, <3>2
  <2> QED
    BY <2>1, <2>2
<1>10. /\ after.last \in Nat /\ after.last \in {lastUsercmd} \cup new
       /\ lastUsercmd <= after.last /\ \A t \in new : t <= after.last
       /\ after.executed \in Seq(Time) /\ Rising(after.executed)
       /\ Range(after.executed) = received \cup {t \in new : lastUsercmd < t}
       /\ \A t \in Range(after.executed) : t <= after.last
  BY <1>7, <1>9 DEF Executed
<1> HIDE DEF start
\* What is not executed because it is late was received.
<1>11. Range(after.executed) = received \cup new
  <2>1. ASSUME NEW t \in new, ~(lastUsercmd < t) PROVE t \in received
    <3>1. t \in InFlight /\ t \in Time
      BY <1>6, <1>7, <1>9
    <3>2. t <= lastUsercmd
      BY <1>7, <2>1, <3>1 DEF Time
    <3> QED
      BY <1>5, <3>1, <3>2 DEF LateIsReceived
  <2> QED
    BY <1>10, <2>1
<1>12. MovesType'
  BY <1>4, <1>5, <1>6, <1>7, <1>9, <1>10 DEF MovesType
<1>13. ReceivedAreExecuted'
  <2>1. after.last \in {0} \cup received \cup new
    BY <1>7, <1>10
  <2> QED
    BY <1>4, <1>10, <1>11, <2>1 DEF ReceivedAreExecuted
<1>14. LateIsReceived'
  <2>1. ASSUME NEW t \in InFlight' \cup ToSend, t <= after.last PROVE t \in received \cup new
    <3>1. CASE after.last = lastUsercmd
      BY <1>5, <1>6, <2>1, <3>1 DEF LateIsReceived
    <3>2. CASE after.last \in new
      <4>1. t \in Range(cmds)
        BY <1>6, <1>9, <2>1, <3>2
      <4>2. new = Range(cmds)
        BY <1>3, <3>2
      <4> QED
        BY <4>1, <4>2
    <3> QED
      BY <1>10, <3>1, <3>2
  <2> QED
    BY <1>4, <1>6, <2>1 DEF LateIsReceived
<1> QED
  BY <1>6, <1>12, <1>13, <1>14 DEF MovesInv

\* Whatever packets are lost, and however the moves in them overlap, what the listener
\* is told of are all moves in the packets that were read, each time once and in
\* order: a move that is passed over as late was in an earlier packet, for the client
\* repeats only what it goes on to send from (ClientPacketParser.cpp:73-108).
THEOREM MovesAreTold == MovesSpec => []MovesAreExecutedOnce
<1>1. MovesInit => MovesInv
  BY InitMoves
<1>2. MovesInv /\ [MovesNext]_moveVars => MovesInv'
  <2> SUFFICES ASSUME MovesInv, [MovesNext]_moveVars PROVE MovesInv'
    OBVIOUS
  <2>1. ASSUME NEW time \in 1 .. MaxTime, MakeMove(time) PROVE MovesInv'
    <3>1. time \in Time
      BY MovesAssumption DEF Time
    <3> QED
      BY <2>1, <3>1, MakeMoves
  <2>2. ASSUME NEW from \in first .. Len(moves) + 1, SendMoves(from) PROVE MovesInv'
    BY <2>2, SendMovesKeeps
  <2>3. CASE LoseMoves
    BY <2>3, LoseMovesKeeps
  <2>4. CASE parseUserMove
    BY <2>4, ParseKeepsMoves
  <2>5. CASE UNCHANGED moveVars
    BY <2>5
    DEF moveVars, MovesInv, MovesType, MadeInOrder, ReceivedAreExecuted, LateIsReceived,
        PacketsAreRepeated, InFlight, ToSend, Behind
  <2> QED
    BY <2>1, <2>2, <2>3, <2>4, <2>5 DEF MovesNext
<1>3. MovesInv => MovesAreExecutedOnce
  BY DEF MovesInv, ReceivedAreExecuted, MovesAreExecutedOnce, Rising
<1> QED
  BY <1>1, <1>2, <1>3, PTL DEF MovesSpec
=============================================================================
