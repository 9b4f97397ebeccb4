------------------------------ MODULE EntityEvents ------------------------------
(***************************************************************************)
(* One CEntity and the events the application takes from it.  Either it is *)
(* the player's own, which parseSnapshot fills from the player's state, or *)
(* another one, which comes, changes and goes.  An event is a type and the *)
(* nonce of its number; the number itself is not in the program.           *)
(***************************************************************************)
EXTENDS Integers, SequencesExt

CONSTANTS MAX_PS_EVENTS,   \* events a player's state has room for
          Nonces,          \* values of the two bits above an event's type
          EventTypes,      \* types, as positive numbers; EV_NONE is 0
          MaxEvents,       \* bound: events that happen
          MaxSnapshots,    \* bound: snapshots that arrive
          MaxExternal,     \* bound: events set on the player by others
          AnyFull,         \* whether any snapshot may be without a base
          Returns          \* whether an entity may leave the snapshots and come back as it was

ASSUME EventsAssumption ==
  /\ MAX_PS_EVENTS \in Nat \ {0} /\ Nonces \in Nat \ {0}
  /\ EventTypes \subseteq Nat \ {0}
  /\ MaxEvents \in Nat /\ MaxSnapshots \in Nat /\ MaxExternal \in Nat
  /\ AnyFull \in BOOLEAN /\ Returns \in BOOLEAN

VARIABLES who,        \* "player" or "other"
          server,     \* the event source at the server, see below
          snapshots,  \* the player's state in each snapshot that arrived
          acked,      \* the last snapshot the server knows has arrived; 0 for none
          cent,       \* the CEntity
          fired       \* numbers of the events taken by the application

eventVars == <<who, server, snapshots, acked, cent, fired>>

-----------------------------------------------------------------------------
(* CEntity.                                                                *)

NoEvent == [type |-> 0, nonce |-> 0, num |-> 0]
Event(type, num) == [type |-> type, nonce |-> num % Nonces, num |-> num]

\* state.event of a regular entity, or the type of an event entity.
NewEntity == [state |-> [isEventEntity |-> FALSE, event |-> NoEvent],
              valid |-> FALSE, lastFiredEvent |-> NoEvent]

removeEntity(ent)       == [ent EXCEPT !.valid = FALSE, !.lastFiredEvent = NoEvent]
addEntity(ent, state)   == [ent EXCEPT !.valid = TRUE, !.state = state]
changeEntity(ent, state) == [ent EXCEPT !.state = state]

SameEvent(a, b) == a.type = b.type /\ a.nonce = b.nonce

\* The type alone makes the event of an event entity.
eventFromType(state) == [state.event EXCEPT !.nonce = 0]
currentEvent(state) == IF state.isEventEntity THEN eventFromType(state) ELSE state.event

getNewCurrentEvent(ent) ==
  LET isNew == IF ent.state.isEventEntity THEN ent.lastFiredEvent.type = 0
               ELSE ~SameEvent(ent.lastFiredEvent, ent.state.event)
  IN  IF isNew THEN currentEvent(ent.state) ELSE NoEvent

setCurrentEventFired(ent) == [ent EXCEPT !.lastFiredEvent = currentEvent(ent.state)]

-----------------------------------------------------------------------------
(* The player's own entity.                                                *)

PlayerInit == [eventSequence |-> 0, events |-> [i \in 0 .. MAX_PS_EVENTS - 1 |-> NoEvent],
               externalEvent |-> NoEvent, externals |-> 0]

\* BG_PlayerStateToEntityState: an event set by others goes first; else the oldest
\* event that is still there and was not put in the entity is.  The player's state
\* remembers which one.
FromTheOldest(ps) == ps.entityEventSequence  \* mutant: what was overwritten is not skipped
OldestPending(ps) ==
  Max({ps.entityEventSequence, ps.eventSequence - MAX_PS_EVENTS})

BG_PlayerStateToEntityState(ps, event) ==
  LET seq == OldestPending(ps)
      ev  == ps.events[seq % MAX_PS_EVENTS]
  IN  IF ps.externalEvent.type # 0 THEN [ps |-> ps, event |-> ps.externalEvent]
      ELSE IF ps.entityEventSequence < ps.eventSequence
      THEN [ps |-> [ps EXCEPT !.entityEventSequence = seq + 1],
            event |-> [ev EXCEPT !.nonce = seq % Nonces]]
      ELSE [ps |-> ps, event |-> event]

\* A snapshot: what is not sent of the player's state is that of the base.
NotSent == [entityEventSequence |-> 0]
ReceivePlayer(base) ==
  LET from == IF base = 0 THEN NotSent ELSE snapshots[base]
      ps   == [eventSequence |-> server.eventSequence, events |-> server.events,
               externalEvent |-> server.externalEvent,
               entityEventSequence |-> from.entityEventSequence]
      r    == BG_PlayerStateToEntityState(ps, cent.state.event)
  IN  /\ who = "player" /\ Len(snapshots) < MaxSnapshots
      /\ snapshots' = Append(snapshots, r.ps)
      /\ cent' = [cent EXCEPT !.state.event = r.event, !.valid = TRUE]
      /\ UNCHANGED <<who, server, acked, fired>>

\* The server: pmove adds an event; an acknowledgement tells it of a snapshot.
PlayerEvent(type) ==
  /\ who = "player" /\ server.eventSequence < MaxEvents
  /\ server' = [server EXCEPT
       !.eventSequence = @ + 1,
       !.events[server.eventSequence % MAX_PS_EVENTS] = Event(type, server.eventSequence)]
  /\ UNCHANGED <<who, snapshots, acked, cent, fired>>

\* The numbers of external events follow those of the others.
ExternalEvent(type) ==
  /\ who = "player" /\ server.externals < MaxExternal
  /\ server' = [server EXCEPT !.externals = @ + 1,
                 !.externalEvent = Event(type, MaxEvents + server.externals + 1)]
  /\ UNCHANGED <<who, snapshots, acked, cent, fired>>

ExternalEventEnds ==
  /\ who = "player" /\ server.externalEvent.type # 0
  /\ server' = [server EXCEPT !.externalEvent = NoEvent]
  /\ UNCHANGED <<who, snapshots, acked, cent, fired>>

Acknowledge ==
  /\ who = "player"
  /\ acked' \in acked + 1 .. Len(snapshots)
  /\ UNCHANGED <<who, server, snapshots, cent, fired>>

-----------------------------------------------------------------------------
(* Another entity.  The server gives each event the next nonce, takes it   *)
(* back after a while, and uses the entity's number for others.            *)

OtherInit == [present |-> FALSE, num |-> 0, state |-> NewEntity.state]

ServerStates(ent) ==
  {[present |-> TRUE, num |-> ent.num + 1,
    state |-> [isEventEntity |-> e, event |-> Event(type, ent.num + 1)]] :
     e \in BOOLEAN, type \in EventTypes}
  \cup {[ent EXCEPT !.present = TRUE, !.state = NewEntity.state], [ent EXCEPT !.present = FALSE]}
  \cup (IF Returns THEN {[ent EXCEPT !.present = TRUE]} ELSE {})

OtherStep ==
  /\ who = "other"
  /\ server' \in {s \in ServerStates(server) : s.num <= MaxEvents}
  /\ UNCHANGED <<who, snapshots, acked, cent, fired>>

\* parsePacketEntities: one that is not in the snapshot is removed, one that was
\* not valid added, one that differs changed.
ReceiveOther ==
  /\ who = "other"
  /\ cent' = IF ~server.present THEN removeEntity(cent)
             ELSE IF ~cent.valid THEN addEntity(cent, server.state)
             ELSE changeEntity(cent, server.state)
  /\ cent' # cent
  /\ UNCHANGED <<who, server, snapshots, acked, fired>>

-----------------------------------------------------------------------------
(* The application.                                                        *)

extractNewCurrentEvent ==
  LET ev == getNewCurrentEvent(cent)
  IN  /\ cent.valid /\ ev.type # 0
      /\ fired' = Append(fired, ev.num)
      /\ cent' = setCurrentEventFired(cent)
      /\ UNCHANGED <<who, server, snapshots, acked>>

EventsInit ==
  /\ \/ who = "player" /\ server = PlayerInit
     \/ who = "other" /\ server = OtherInit
  /\ snapshots = << >> /\ acked = 0 /\ cent = NewEntity /\ fired = << >>

EventsNext ==
  \/ \E type \in EventTypes : PlayerEvent(type) \/ ExternalEvent(type)
  \/ ExternalEventEnds
  \/ \E base \in {acked} \cup (IF AnyFull THEN {0} ELSE {}) : ReceivePlayer(base)
  \/ Acknowledge
  \/ OtherStep
  \/ ReceiveOther
  \/ extractNewCurrentEvent

EventsSpec == EventsInit /\ [][EventsNext]_eventVars

-----------------------------------------------------------------------------
(* Properties.                                                             *)

\* No event fires twice, however often it is sent, from whichever base, and whatever
\* other events share its type, but for the player's own once others have set an
\* event on it (CEntity.h lines 122-190, JKAFunctions.cpp lines 105-118).  Provided
\* that no snapshot is without a base once the server knows of one, and that no
\* entity comes back with the event it had.
EventsFireOnce ==
  \A i, j \in DOMAIN fired :
    i < j /\ fired[i] = fired[j] =>
      who = "player" /\ server.externals > 0 /\ fired[i] <= MaxEvents

\* "We must ensure that a single event would not fire twice" (CEntity.h lines 162-164):
\* with events set by others it does.
NoEventFiresTwice == IsInjective(fired)
=============================================================================
