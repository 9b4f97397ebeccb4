-------------------------- MODULE DatagramChannel --------------------------
(***************************************************************************)
(* What the receiving half of a Netchan promises: out of the messages the  *)
(* peer has sent in this session some are delivered, whole, each at most   *)
(* once and in the order of their sequence numbers.  Nothing is promised   *)
(* about which ones.                                                       *)
(***************************************************************************)
EXTENDS Naturals, Sequences

CONSTANTS Messages,    \* what the peer may send: records with a session and a seq
          Payload(_)   \* the bytes of a message

VARIABLES session,    \* which connection this is
          sent,       \* messages the peer has sent: [session, seq, len]
          delivered   \* messages handed to the parser in this session

vars == <<session, sent, delivered>>

Init == session = 0 /\ sent = {} /\ delivered = << >>

Send(m) ==
  /\ m.session = session
  /\ \A n \in sent : n.seq < m.seq
  /\ sent' = sent \cup {m}
  /\ UNCHANGED <<session, delivered>>

Deliver(m) ==
  /\ m.session = session
  /\ \A i \in 1 .. Len(delivered) : delivered[i].seq < m.seq
  /\ delivered' = Append(delivered, [seq |-> m.seq, body |-> Payload(m)])
  /\ UNCHANGED <<session, sent>>

NewSession ==
  /\ session' = session + 1
  /\ delivered' = << >>
  /\ sent' = {}

Next ==
  \/ \E m \in Messages : Send(m)
  \/ \E m \in sent : Deliver(m)
  \/ NewSession

Spec == Init /\ [][Next]_vars
=============================================================================
