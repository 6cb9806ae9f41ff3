----------------------------- MODULE EventQueue -----------------------------
(***************************************************************************)
(* What the circular action buffer promises to the code that calls         *)
(* L_ADD_EVENT: a bounded first-in first-out queue of event numbers.  An   *)
(* event that finds the queue full is dropped without a trace; every other *)
(* event is run exactly once, in the order of the calls.                   *)
(***************************************************************************)
EXTENDS Naturals, Sequences

CONSTANTS Kinds,      \* the event numbers (0 .. 6 in the code)
          Capacity    \* how many events the queue can hold

VARIABLES queue,      \* the events accepted and not yet taken out
          current     \* <<>>, or <<k>> while event k is being run

qvars == <<queue, current>>

QInit == queue = <<>> /\ current = <<>>

(* A call that finds room appends its event. *)
Enqueue(k) == /\ Len(queue) < Capacity
              /\ queue' = Append(queue, k)
              /\ UNCHANGED current

(* The main loop takes the oldest event out ... *)
Take == /\ current = <<>>
        /\ queue # <<>>
        /\ current' = <<Head(queue)>>
        /\ queue' = Tail(queue)

(* ... and runs it to its end. *)
Finish == /\ current # <<>>
          /\ current' = <<>>
          /\ UNCHANGED queue

QNext == (\E k \in Kinds : Enqueue(k)) \/ Take \/ Finish

(* The main loop never stops taking and finishing events. *)
QSpec == QInit /\ [][QNext]_qvars /\ WF_qvars(Take) /\ WF_qvars(Finish)
=============================================================================
