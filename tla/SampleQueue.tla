------------------------------ MODULE SampleQueue ------------------------------
(***************************************************************************)
(* What the sample buffer between the engine and the codec promises: a     *)
(* bounded queue.  The writer may add a word only while there is room, the *)
(* reader takes the oldest word or, when it finds none, keeps the one it   *)
(* has.  Nothing is dropped, repeated or reordered.                        *)
(***************************************************************************)
EXTENDS Naturals, Sequences

CONSTANTS Words,   \* words that may be queued
          Depth,   \* capacity
          NoWord   \* what the reader shows before the first word

VARIABLES buffer, shown

SQInit == buffer = << >> /\ shown = NoWord

Put == /\ Len(buffer) < Depth
       /\ Len(buffer') = Len(buffer) + 1
       /\ SubSeq(buffer', 1, Len(buffer)) = buffer
       /\ buffer'[Len(buffer')] \in Words
       /\ UNCHANGED shown

Take == /\ buffer # << >>
        /\ shown' = Head(buffer)
        /\ buffer' = Tail(buffer)

SQNext == Put \/ Take

SQSpec == SQInit /\ [][SQNext]_<<buffer, shown>>
=============================================================================
