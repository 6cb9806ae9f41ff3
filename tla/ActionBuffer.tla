---------------------------- MODULE ActionBuffer ----------------------------
(***************************************************************************)
(* The circular action buffer at $60c0-$60ff.  The interrupt handler adds  *)
(* events with L_ADD_EVENT; the main loop takes them out and runs them.    *)
(* The interrupt can come between any two instructions of the main loop,   *)
(* so the main loop's loads and stores are steps of their own; the handler *)
(* masks further interrupts, so a call of L_ADD_EVENT is one step.  (The   *)
(* handler may call it several times in a row: several AddEvent steps.)    *)
(***************************************************************************)
EXTENDS Naturals, Sequences

CONSTANTS NSlots,     \* two-byte slots of the buffer (32 in the code)
          Kinds,      \* event numbers
          Args,       \* arguments passed with the events
          Free        \* the byte $ff: no event, or no argument

ASSUME NSlotsAssumption == NSlots \in Nat \ {0}
ASSUME FreeAssumption   == Free \notin Kinds /\ Free \notin Args

VARIABLES kind,       \* kind[s]: the first byte of slot s
          arg,        \* arg[s]: the second byte of slot s
          writePos,   \* ACTION_BUFFER_WRITE_POS, as a slot number
          readPos,    \* ACTION_BUFFER_READ_POS, as a slot number
          pc,         \* where the main loop is
          runKind,    \* register e: the event being run
          runArg,     \* register c: its argument
          sent,       \* ghost: the events accepted and not yet run
          torn,       \* ghost: torn[s]: the event in slot s filled the buffer
                      \* while the argument of another was being taken out
          runTorn     \* ghost: as torn, for the event being run, or the
                      \* buffer was filled before its argument was read

vars == <<kind, arg, writePos, readPos, pc, runKind, runArg, sent, torn, runTorn>>
ringVars == <<kind, arg, writePos, readPos>>
ghostVars == <<sent, torn, runTorn>>

Slots == 0 .. NSlots - 1

(* The cursors step by one slot and wrap from $00 back to $c0. *)
NextSlot(s) == IF s = NSlots - 1 THEN 0 ELSE s + 1

Init == /\ kind = [s \in Slots |-> Free]
        /\ arg = [s \in Slots |-> Free]
        /\ writePos = 0
        /\ readPos = 0
        /\ pc = "fetch"
        /\ runKind = Free
        /\ runArg = Free
        /\ sent = <<>>
        /\ torn = [s \in Slots |-> FALSE]
        /\ runTorn = FALSE

-----------------------------------------------------------------------------
(* The interrupt handler's side. *)

(* Faulty variant: the slot is not looked at. *)
HasRoomUnchecked == TRUE

HasRoom == kind[writePos] = Free

Accept(k, a) == /\ kind' = [kind EXCEPT ![writePos] = k]
                /\ arg' = [arg EXCEPT ![writePos] = a]
                /\ writePos' = NextSlot(writePos)
                /\ sent' = Append(sent, <<k, a>>)
                /\ LET fills == \A s \in Slots : kind'[s] # Free
                   IN  /\ torn' = [torn EXCEPT ![writePos] =
                                      fills /\ pc \in {"readArg", "clearArg"}]
                       /\ runTorn' = (runTorn \/ (fills /\ pc = "readArg"))

(* L_ADD_EVENT returns without a trace when the slot at the write position *)
(* is still in use.                                                        *)
AddEvent(k, a) == /\ \/ HasRoom /\ Accept(k, a)
                     \/ ~HasRoom /\ UNCHANGED <<kind, arg, writePos, ghostVars>>
                  /\ UNCHANGED <<readPos, pc, runKind, runArg>>

-----------------------------------------------------------------------------
(* The main loop's side, one step per access to the shared bytes. *)

(* Faulty variant: the main loop takes a free slot for an event. *)
FetchUnchecked == /\ pc = "fetch"
                  /\ runKind' = kind[readPos]
                  /\ pc' = "clearKind"
                  /\ UNCHANGED <<ringVars, runArg, ghostVars>>

(* L_MAIN_LOOP reads the byte at the read position; while it is $ff the    *)
(* loop goes round (and does the work that AddEvent never sees).           *)
Fetch == /\ pc = "fetch"
         /\ kind[readPos] # Free
         /\ runKind' = kind[readPos]
         /\ pc' = "clearKind"
         /\ UNCHANGED <<ringVars, runArg, ghostVars>>

ClearKind == /\ pc = "clearKind"
             /\ kind' = [kind EXCEPT ![readPos] = Free]
             /\ pc' = "readArg"
             /\ runTorn' = torn[readPos]
             /\ UNCHANGED <<arg, writePos, readPos, runKind, runArg, sent, torn>>

(* Faulty variant: the argument is read after it has been cleared. *)
ReadArgTooLate == /\ pc = "readArg"
                  /\ runArg' = Free
                  /\ pc' = "clearArg"
                  /\ UNCHANGED <<ringVars, runKind, ghostVars>>

ReadArg == /\ pc = "readArg"
           /\ runArg' = arg[readPos]
           /\ pc' = "clearArg"
           /\ UNCHANGED <<ringVars, runKind, ghostVars>>

ClearArg == /\ pc = "clearArg"
            /\ arg' = [arg EXCEPT ![readPos] = Free]
            /\ pc' = "advance"
            /\ UNCHANGED <<kind, writePos, readPos, runKind, runArg, ghostVars>>

(* Faulty variant: the read position is not stored. *)
AdvanceForgotten == /\ pc = "advance"
                    /\ pc' = "run"
                    /\ UNCHANGED <<ringVars, runKind, runArg, ghostVars>>

Advance == /\ pc = "advance"
           /\ readPos' = NextSlot(readPos)
           /\ pc' = "run"
           /\ UNCHANGED <<kind, arg, writePos, runKind, runArg, ghostVars>>

(* The jump through the table at l0307 and the return to L_MAIN_LOOP. *)
Run == /\ pc = "run"
       /\ pc' = "fetch"
       /\ sent' = Tail(sent)
       /\ UNCHANGED <<ringVars, runKind, runArg, torn, runTorn>>

MainLoop == Fetch \/ ClearKind \/ ReadArg \/ ClearArg \/ Advance \/ Run

Next == MainLoop \/ \E k \in Kinds, a \in Args : AddEvent(k, a)

(* The interrupt handler always returns to the main loop, which always     *)
(* goes on; nothing makes the handler add an event.                        *)
Spec == Init /\ [][Next]_vars /\ WF_vars(MainLoop)

-----------------------------------------------------------------------------
TypeOK == /\ kind \in [Slots -> Kinds \cup {Free}]
          /\ arg \in [Slots -> Args \cup {Free}]
          /\ writePos \in Slots
          /\ readPos \in Slots
          /\ pc \in {"fetch", "clearKind", "readArg", "clearArg", "advance", "run"}
          /\ runKind \in Kinds \cup {Free}
          /\ runArg \in Args \cup {Free}
          /\ sent \in Seq(Kinds \X Args)
          /\ torn \in [Slots -> BOOLEAN]
          /\ runTorn \in BOOLEAN

(* The main loop has cleared the slot at readPos and not yet moved on. *)
Consuming == pc \in {"readArg", "clearArg", "advance"}

(* The slot of the oldest event that the main loop has not begun to take. *)
HeadSlot == IF Consuming THEN NextSlot(readPos) ELSE readPos

(* s lies in the circular interval that starts at from and ends before to. *)
Within(from, s, to) == IF from <= to THEN from <= s /\ s < to
                                     ELSE from <= s \/ s < to

(* The slots in use are exactly those between the oldest event and the     *)
(* write position, with no hole and no stray event: otherwise the main     *)
(* loop would stall at a hole with events behind it (L_MAIN_LOOP waits at  *)
(* one slot only) or L_ADD_EVENT would refuse events beside free slots.    *)
RingShape ==
  \/ /\ HeadSlot # writePos
     /\ \A s \in Slots : kind[s] # Free <=> Within(HeadSlot, s, writePos)
  \/ /\ HeadSlot = writePos
     /\ \/ \A s \in Slots : kind[s] # Free
        \/ \A s \in Slots : kind[s] = Free

(* While the main loop works on an event (clearKind) it is the one it      *)
(* fetched: no interrupt has replaced it under its feet.                   *)
FetchedIsCurrent == pc = "clearKind" => kind[readPos] # Free /\ kind[readPos] = runKind

(* L_ADD_EVENT refuses an event only when all slots are in use. *)
RefusesOnlyWhenFull == kind[writePos] # Free => \A s \in Slots : kind[s] # Free

(* Every event is run with the argument L_ADD_EVENT was called with, unless *)
(* the buffer was filled up between the main loop's first store of $ff and  *)
(* its second: the event that fills it lies in the slot being cleared, and  *)
(* its argument is lost; so is that of the event being taken if it had not  *)
(* been read.  No event before or after these two is affected.              *)
ArgsIntact == (pc = "run" /\ ~runTorn) => Head(sent) = <<runKind, runArg>>

(* Torn or not, the events themselves are run in the order of their calls. *)
KindsIntact == pc = "run" => Head(sent)[1] = runKind

(* The interrupt handler never changes a byte of an event that is waiting: *)
(* the only way out of a used slot is the main loop's own clearing of the  *)
(* slot at its read position.                                              *)
NoOverwrite ==
  [][\A s \in Slots :
        kind[s] # Free /\ kind'[s] # kind[s] => s = readPos /\ kind'[s] = Free /\ ClearKind]_vars

(* Every event that is waiting is eventually run, however often the        *)
(* interrupt handler adds others.                                          *)
EventuallyRun ==
  \A s \in Slots : (kind[s] # Free) ~> (pc = "run" /\ readPos = NextSlot(s))

-----------------------------------------------------------------------------
(* The slot i places after the oldest event, and how many slots are in use. *)
SlotAfter(i) == IF HeadSlot + i < NSlots THEN HeadSlot + i ELSE HeadSlot + i - NSlots

Used == IF HeadSlot = writePos
          THEN IF HasRoom THEN 0 ELSE NSlots
          ELSE IF HeadSlot < writePos THEN writePos - HeadSlot
                                      ELSE writePos + NSlots - HeadSlot

(* 1 while an event is out of the ring and not yet run. *)
InFlight == IF Consuming \/ pc = "run" THEN 1 ELSE 0

(* The ghost sequence is the event in flight followed by the slots in use, *)
(* oldest first.                                                           *)
SentMatchesRing ==
  /\ Len(sent) = InFlight + Used
  /\ InFlight = 1 => sent[1][1] = runKind
  /\ \A i \in 1 .. Used : sent[InFlight + i][1] = kind[SlotAfter(i - 1)]

(* The inductive invariant of the events. *)
RingInv == TypeOK /\ RingShape /\ FetchedIsCurrent /\ SentMatchesRing

(* The arguments are where they belong, too: with the event in flight in    *)
(* its slot and then in register c, with the others in their slots.  Those  *)
(* torn are left out, and an event in the very slot whose argument is still *)
(* to be read or cleared is one of them.                                    *)
SentMatchesArgs ==
  /\ pc = "readArg" /\ ~runTorn => arg[readPos] = sent[1][2]
  /\ pc \in {"clearArg", "advance", "run"} /\ ~runTorn => runArg = sent[1][2]
  /\ \A i \in 1 .. Used :
       ~torn[SlotAfter(i - 1)] => sent[InFlight + i][2] = arg[SlotAfter(i - 1)]
  /\ pc \in {"readArg", "clearArg"} /\ kind[readPos] # Free => torn[readPos]

Queue == INSTANCE EventQueue WITH
           Capacity <- NSlots,
           queue    <- [i \in 1 .. Used |-> kind[SlotAfter(i - 1)]],
           current  <- IF Consuming \/ pc = "run" THEN <<runKind>> ELSE <<>>

(* The buffer implements the bounded first-in first-out queue of event     *)
(* numbers, including its liveness.                                        *)
ImplementsQueue == Queue!QSpec
=============================================================================
