--------------------------- MODULE FragmentBuffer ---------------------------
(***************************************************************************)
(* The reassembly buffer of src/include/JKAProto/protocol/FragmentBuffer.h *)
(* as operators on a record                                                *)
(*   header    bytes of the sequence placeholder in front of the body      *)
(*   body      the bytes collected so far, in any representation           *)
(*   sequence  fragmentSequence, the message being collected               *)
(* The value of the placeholder is left out: Netchan skips over it.        *)
(***************************************************************************)
EXTENDS Integers, Sequences

CONSTANTS FRAGMENT_SIZE,  \* bytes in every fragment but the last
          SEQUENCE_LEN    \* bytes of the sequence number

ASSUME FragmentBufferAssumption ==
  /\ FRAGMENT_SIZE \in Nat \ {0}
  /\ SEQUENCE_LEN \in Nat \ {0}

DefaultBuffer == [header |-> 0, body |-> << >>, sequence |-> 0]

Size(fb) == fb.header + Len(fb.body)

\* Mutant: the placeholder is counted in.
SizeWithHeader(fb) == Size(fb)

effectiveFragmentBufferSize(fb) ==
  IF Size(fb) < SEQUENCE_LEN THEN 0 ELSE Size(fb) - SEQUENCE_LEN

clearFragmentBuffer(fb) == [fb EXCEPT !.header = SEQUENCE_LEN, !.body = << >>]

\* Mutant: a reset that forgets the collected bytes are there.
KeepBuffer(fb) == fb

resetBuffer(fb) == [clearFragmentBuffer(fb) EXCEPT !.sequence = 0]

\* What setFragmentSequence asserts of the buffer it stamps.
FragmentSequenceCanBeSet(fb) == Size(fb) >= SEQUENCE_LEN

\* Mutant: the placeholder is not written.
TurnToWithoutHeader(fb, s) ==
  IF s = fb.sequence THEN fb ELSE [fb EXCEPT !.sequence = s, !.body = << >>]

\* The buffer a fragment of message s is appended to: another message's
\* collected bytes are given up.
TurnTo(fb, s) ==
  IF s = fb.sequence THEN fb
  ELSE [clearFragmentBuffer(fb) EXCEPT !.sequence = s]

appendFragment(fb, fragment) ==
  [header |-> fb.header, body |-> fb.body \o fragment, sequence |-> fb.sequence]

\* Mutant: a fragment is appended wherever it starts.
AppendAnyFragment(fb, fragment, start, s) ==
  LET appended == appendFragment(TurnTo(fb, s), fragment)
      isLast   == Len(fragment) # FRAGMENT_SIZE
  IN  [buffer   |-> IF isLast THEN clearFragmentBuffer(appended) ELSE appended,
       complete |-> isLast,
       body     |-> IF isLast THEN appended.body ELSE << >>]

\* processFragment: the buffer it leaves, whether a message is complete and,
\* if one is, its bytes.
processFragment(fb, fragment, start, s) ==
  LET current  == TurnTo(fb, s)
      appended == appendFragment(current, fragment)
      isNext   == start = effectiveFragmentBufferSize(current)
      isLast   == Len(fragment) # FRAGMENT_SIZE
  IN  [buffer   |-> IF isNext /\ ~isLast THEN appended
                    ELSE clearFragmentBuffer(current),
       complete |-> isNext /\ isLast,
       body     |-> IF isNext /\ isLast THEN appended.body ELSE << >>]
=============================================================================
