------------------------- MODULE ActionBufferProofs -------------------------
(***************************************************************************)
(* What the action buffer guarantees for every number of slots, every set  *)
(* of events and every set of arguments.                                   *)
(***************************************************************************)
EXTENDS ActionBuffer, Integers, SequenceTheorems, TLAPS

(* The cursors stay inside the buffer. *)
LEMMA NextSlotType == \A s \in Slots : NextSlot(s) \in Slots
  BY NSlotsAssumption DEF NextSlot, Slots

(* Advancing the write position puts exactly its old slot into the         *)
(* interval, unless the interval then closes on itself.                    *)
LEMMA ExtendInterval ==
  ASSUME NEW from \in Slots, NEW to \in Slots, NextSlot(to) # from
  PROVE  \A s \in Slots : Within(from, s, NextSlot(to)) <=> (Within(from, s, to) \/ s = to)
  BY NSlotsAssumption DEF NextSlot, Slots, Within

(* When it does close on itself, every slot but the one added was inside. *)
LEMMA CloseInterval ==
  ASSUME NEW from \in Slots, NEW to \in Slots, NextSlot(to) = from, to # from
  PROVE  \A s \in Slots : Within(from, s, to) <=> s # to
  BY NSlotsAssumption DEF NextSlot, Slots, Within

(* Advancing the head takes exactly its old slot out of the interval. *)
LEMMA ShrinkInterval ==
  ASSUME NEW from \in Slots, NEW to \in Slots, from # to, NextSlot(from) # to
  PROVE  \A s \in Slots : Within(NextSlot(from), s, to) <=> (Within(from, s, to) /\ s # from)
  BY NSlotsAssumption DEF NextSlot, Slots, Within

LEMMA SingletonInterval ==
  ASSUME NEW from \in Slots, NextSlot(from) # from
  PROVE  \A s \in Slots : /\ Within(from, s, NextSlot(from)) <=> s = from
                          /\ Within(NextSlot(from), s, from) <=> s # from
  BY NSlotsAssumption DEF NextSlot, Slots, Within

LEMMA LastInterval ==
  ASSUME NEW from \in Slots, NEW to \in Slots, NextSlot(from) = to, from # to
  PROVE  \A s \in Slots : Within(from, s, to) <=> s = from
  BY NSlotsAssumption DEF NextSlot, Slots, Within

LEMMA OneSlot ==
  ASSUME NEW p \in Slots, NextSlot(p) = p
  PROVE  \A s \in Slots : s = p
  BY NSlotsAssumption DEF NextSlot, Slots

-----------------------------------------------------------------------------
LEMMA InitShape == Init => RingShape /\ FetchedIsCurrent
  BY NSlotsAssumption DEF Init, RingShape, FetchedIsCurrent, HeadSlot, Consuming

(* No step of the interrupt handler or of the main loop disturbs the shape. *)
LEMMA AcceptShape ==
  ASSUME TypeOK, RingShape, FetchedIsCurrent, NEW k \in Kinds, NEW a \in Args,
         HasRoom, Accept(k, a), UNCHANGED <<readPos, pc, runKind, runArg>>
  PROVE  RingShape' /\ FetchedIsCurrent'
<1> DEFINE h == HeadSlot
<1> DEFINE w == writePos
<1>1. h \in Slots /\ w \in Slots /\ NextSlot(w) \in Slots /\ HeadSlot' = h /\ writePos' = NextSlot(w)
  BY NextSlotType DEF HeadSlot, TypeOK, Accept, Consuming, NextSlot
<1>2. \A s \in Slots : kind'[s] # Free <=> (kind[s] # Free \/ s = w)
  BY FreeAssumption DEF Accept, TypeOK, HasRoom
<1>3. FetchedIsCurrent'
  BY DEF FetchedIsCurrent, Accept, TypeOK, HasRoom
<1>4. CASE h # w
  <2>1. \A s \in Slots : kind[s] # Free <=> Within(h, s, w)
    BY <1>4 DEF RingShape
  <2>2. CASE NextSlot(w) = h
    <3>1. \A s \in Slots : kind'[s] # Free
      BY <1>1, <1>2, <1>4, <2>1, <2>2, CloseInterval
    <3> QED BY <1>1, <1>3, <2>2, <3>1 DEF RingShape
  <2>3. CASE NextSlot(w) # h
    <3>1. \A s \in Slots : kind'[s] # Free <=> Within(h, s, NextSlot(w))
      BY <1>1, <1>2, <2>1, <2>3, ExtendInterval
    <3> QED BY <1>1, <1>3, <2>3, <3>1 DEF RingShape
  <2> QED BY <2>2, <2>3
<1>5. CASE h = w
  <2>1. \A s \in Slots : kind[s] = Free
    BY <1>1, <1>5 DEF RingShape, HasRoom
  <2>2. \A s \in Slots : kind'[s] # Free <=> s = w
    BY <1>2, <2>1
  <2>3. CASE NextSlot(w) = w
    <3>1. \A s \in Slots : kind'[s] # Free
      BY <1>1, <2>2, <2>3, OneSlot
    <3> QED BY <1>1, <1>3, <1>5, <2>3, <3>1 DEF RingShape
  <2>4. CASE NextSlot(w) # w
    <3>1. \A s \in Slots : kind'[s] # Free <=> Within(h, s, NextSlot(w))
      BY <1>1, <1>5, <2>2, <2>4, SingletonInterval
    <3> QED BY <1>1, <1>3, <1>5, <2>4, <3>1 DEF RingShape
  <2> QED BY <2>3, <2>4
<1> QED BY <1>4, <1>5

LEMMA ClearKindShape ==
  ASSUME TypeOK, RingShape, FetchedIsCurrent, ClearKind
  PROVE  RingShape' /\ FetchedIsCurrent'
<1> DEFINE r == readPos
<1> DEFINE w == writePos
<1>1. /\ r \in Slots /\ w \in Slots /\ NextSlot(r) \in Slots
      /\ HeadSlot = r /\ HeadSlot' = NextSlot(r) /\ writePos' = w /\ kind[r] # Free
  BY NextSlotType DEF HeadSlot, TypeOK, ClearKind, Consuming, NextSlot, FetchedIsCurrent
<1>2. \A s \in Slots : kind'[s] # Free <=> (kind[s] # Free /\ s # r)
  BY <1>1 DEF ClearKind, TypeOK
<1>3. FetchedIsCurrent'
  BY DEF FetchedIsCurrent, ClearKind
<1>4. CASE r # w
  <2>1. \A s \in Slots : kind[s] # Free <=> Within(r, s, w)
    BY <1>1, <1>4 DEF RingShape
  <2>2. CASE NextSlot(r) = w
    <3>1. \A s \in Slots : kind'[s] = Free
      BY <1>1, <1>2, <1>4, <2>1, <2>2, LastInterval
    <3> QED BY <1>1, <1>3, <2>2, <3>1 DEF RingShape
  <2>3. CASE NextSlot(r) # w
    <3>1. \A s \in Slots : kind'[s] # Free <=> Within(NextSlot(r), s, w)
      BY <1>1, <1>2, <1>4, <2>1, <2>3, ShrinkInterval
    <3> QED BY <1>1, <1>3, <2>3, <3>1 DEF RingShape
  <2> QED BY <2>2, <2>3
<1>5. CASE r = w
  <2>1. \A s \in Slots : kind[s] # Free
    BY <1>1, <1>5 DEF RingShape
  <2>2. \A s \in Slots : kind'[s] # Free <=> s # r
    BY <1>2, <2>1
  <2>3. CASE NextSlot(r) = r
    <3>1. \A s \in Slots : kind'[s] = Free
      BY <1>1, <2>2, <2>3, OneSlot
    <3> QED BY <1>1, <1>3, <1>5, <2>3, <3>1 DEF RingShape
  <2>4. CASE NextSlot(r) # r
    <3>1. \A s \in Slots : kind'[s] # Free <=> Within(NextSlot(r), s, w)
      BY <1>1, <1>5, <2>2, <2>4, SingletonInterval
    <3> QED BY <1>1, <1>3, <1>5, <2>4, <3>1 DEF RingShape
  <2> QED BY <2>3, <2>4
<1> QED BY <1>4, <1>5

-----------------------------------------------------------------------------
(* The ghost sequence agrees with the ring. *)

(* Used counts the slots of the interval. *)
LEMMA UsedType == TypeOK => Used \in 0 .. NSlots /\ HeadSlot \in Slots
  BY NSlotsAssumption, NextSlotType DEF TypeOK, Used, HeadSlot, Slots, NextSlot, HasRoom

(* An accepted event makes one more slot used and is the last of them. *)
LEMMA AcceptSent ==
  ASSUME RingInv, NEW k \in Kinds, NEW a \in Args,
         HasRoom, Accept(k, a), UNCHANGED <<readPos, pc, runKind, runArg>>
  PROVE  /\ Used < NSlots /\ Used' = Used + 1
         /\ \A i \in 1 .. Used : kind'[SlotAfter(i - 1)'] = kind[SlotAfter(i - 1)]
         /\ \A i : i = Used + 1 => kind'[SlotAfter(i - 1)'] = k
         /\ SentMatchesRing'
         /\ SlotAfter(Used) = writePos /\ \A i : SlotAfter(i)' = SlotAfter(i)
         /\ \A i \in 1 .. Used : SlotAfter(i - 1) \in Slots \ {writePos}
<1> USE NSlotsAssumption DEF RingInv
<1>1. /\ HeadSlot' = HeadSlot /\ HeadSlot \in Slots /\ writePos \in Slots
      /\ NextSlot(writePos) \in Slots /\ writePos' = NextSlot(writePos)
      /\ \A i : SlotAfter(i)' = SlotAfter(i)
  BY NextSlotType, UsedType DEF HeadSlot, TypeOK, Accept, Consuming, SlotAfter
<1>2. HeadSlot = writePos => Used = 0
  BY DEF Used
<1>3. NextSlot(writePos) = HeadSlot => ~HasRoom'
  <2> SUFFICES ASSUME NextSlot(writePos) = HeadSlot PROVE kind'[HeadSlot] # Free
    BY <1>1 DEF HasRoom
  <2>1. CASE HeadSlot = writePos
    BY <2>1, <1>1, FreeAssumption DEF Accept, TypeOK
  <2>2. CASE HeadSlot # writePos
    <3>1. kind[HeadSlot] # Free
      BY <2>2, <1>1 DEF RingShape, Within, Slots
    <3> QED BY <2>2, <3>1, <1>1 DEF Accept, TypeOK
  <2> QED BY <2>1, <2>2
<1>4. Used' = Used + 1
  <2>1. CASE NextSlot(writePos) = HeadSlot
    <3>1. Used' = NSlots
      BY <1>1, <1>3, <2>1 DEF Used
    <3>2. Used = NSlots - 1
      BY <1>1, <1>2, <2>1 DEF Used, NextSlot, Slots
    <3> QED BY <3>1, <3>2
  <2>2. CASE NextSlot(writePos) # HeadSlot
    BY <1>1, <1>2, <2>2 DEF Used, NextSlot, Slots
  <2> QED BY <2>1, <2>2
<1>5. Used \in 0 .. NSlots - 1 /\ Used \in Nat
  BY <1>4, <1>1, UsedType, <1>2 DEF Used, Slots
<1>6. SlotAfter(Used) = writePos
  BY <1>1, <1>2 DEF SlotAfter, Used, Slots
<1>7. \A i \in 1 .. Used : SlotAfter(i - 1) \in Slots /\ SlotAfter(i - 1) # writePos
  BY <1>1, <1>2 DEF SlotAfter, Used, Slots
<1>8. \A i \in 1 .. Used : kind'[SlotAfter(i - 1)'] = kind[SlotAfter(i - 1)]
  BY <1>1, <1>7 DEF Accept, TypeOK
<1>9. \A i : i = Used + 1 => kind'[SlotAfter(i - 1)'] = k
  <2> SUFFICES ASSUME NEW i, i = Used + 1 PROVE kind'[SlotAfter(i - 1)] = k
    BY <1>1
  <2>1. i - 1 = Used
    BY <1>5
  <2> QED BY <1>1, <1>6, <2>1 DEF Accept, TypeOK
<1>10. InFlight' = InFlight /\ InFlight \in {0, 1}
  BY DEF InFlight, Consuming
<1>11. sent' = Append(sent, <<k, a>>) /\ sent \in Seq(Kinds \X Args) /\ Len(sent) = InFlight + Used
  BY DEF Accept, TypeOK, SentMatchesRing
<1>12. /\ Len(sent') = InFlight + Used + 1
       /\ \A i \in 1 .. Len(sent) : sent'[i] = sent[i]
       /\ sent'[InFlight + Used + 1] = <<k, a>>
  BY <1>5, <1>10, <1>11
<1>13. SentMatchesRing'
  <2>1. Len(sent') = InFlight' + Used'
    BY <1>4, <1>5, <1>10, <1>12
  <2>2. InFlight' = 1 => sent'[1][1] = runKind'
    BY <1>5, <1>10, <1>11, <1>12 DEF SentMatchesRing
  <2>3. ASSUME NEW i \in 1 .. Used'
        PROVE  sent'[InFlight' + i][1] = kind'[SlotAfter(i - 1)']
    <3>1. CASE i = Used + 1
      BY <3>1, <1>5, <1>9, <1>10, <1>12
    <3>2. CASE i # Used + 1
      <4>1. i \in 1 .. Used /\ InFlight + i \in 1 .. Len(sent)
        BY <3>2, <1>4, <1>5, <1>10, <1>11
      <4> QED BY <4>1, <1>8, <1>10, <1>12 DEF SentMatchesRing
    <3> QED BY <3>1, <3>2
  <2> QED BY <2>1, <2>2, <2>3 DEF SentMatchesRing
<1>14. Used < NSlots
  BY <1>5
<1> QED BY <1>1, <1>4, <1>6, <1>7, <1>8, <1>9, <1>13, <1>14

(* Taking the oldest event out of the ring puts it in flight. *)
LEMMA ClearKindSent ==
  ASSUME RingInv, ClearKind
  PROVE  /\ Used \in 1 .. NSlots /\ Used' = Used - 1
         /\ runKind = kind[SlotAfter(0)]
         /\ \A i \in 1 .. Used' : kind'[SlotAfter(i - 1)'] = kind[SlotAfter(i)]
         /\ SentMatchesRing'
         /\ SlotAfter(0) = readPos
         /\ \A i \in 1 .. Used' : SlotAfter(i - 1)' = SlotAfter(i)
<1> USE NSlotsAssumption DEF RingInv
<1>1. /\ HeadSlot = readPos /\ HeadSlot' = NextSlot(readPos) /\ writePos' = writePos
      /\ readPos \in Slots /\ writePos \in Slots /\ NextSlot(readPos) \in Slots
      /\ kind[readPos] # Free /\ kind[readPos] = runKind
  BY NextSlotType DEF HeadSlot, TypeOK, ClearKind, Consuming, FetchedIsCurrent
<1>2. HeadSlot = writePos => Used = NSlots
  BY <1>1 DEF Used, HasRoom
<1>3. NextSlot(readPos) = writePos => HasRoom'
  <2> SUFFICES ASSUME NextSlot(readPos) = writePos PROVE kind'[writePos] = Free
    BY <1>1 DEF HasRoom
  <2>1. CASE readPos = writePos
    BY <2>1, <1>1 DEF ClearKind, TypeOK
  <2>2. CASE readPos # writePos
    <3>1. kind[writePos] = Free
      BY <2>2, <1>1 DEF RingShape, Within, Slots
    <3> QED BY <2>2, <3>1, <1>1 DEF ClearKind, TypeOK
  <2> QED BY <2>1, <2>2
<1>4. Used' = Used - 1
  <2>1. CASE NextSlot(readPos) = writePos
    <3>1. Used' = 0
      BY <1>1, <1>3, <2>1 DEF Used
    <3>2. Used = 1
      BY <1>1, <1>2, <2>1 DEF Used, NextSlot, Slots
    <3> QED BY <3>1, <3>2
  <2>2. CASE NextSlot(readPos) # writePos
    BY <1>1, <1>2, <2>2 DEF Used, NextSlot, Slots
  <2> QED BY <2>1, <2>2
<1>5. Used \in 1 .. NSlots /\ Used' \in 0 .. NSlots - 1
  <2>1. Used \in 0 .. NSlots
    BY UsedType
  <2>2. Used >= 1
    BY <1>1, <1>2 DEF Used, Slots
  <2>3. Used' \in Int
    BY <1>1 DEF Used, Slots
  <2> QED BY <1>4, <2>1, <2>2, <2>3
<1>6. SlotAfter(0) = readPos
  BY <1>1 DEF SlotAfter, Slots
<1>7. \A i \in 1 .. Used' : /\ SlotAfter(i - 1)' = SlotAfter(i)
                            /\ SlotAfter(i) \in Slots /\ SlotAfter(i) # readPos
  BY <1>1, <1>5 DEF SlotAfter, NextSlot, Slots
<1>8. \A i \in 1 .. Used' : kind'[SlotAfter(i - 1)'] = kind[SlotAfter(i)]
  BY <1>7 DEF ClearKind, TypeOK
<1>9. InFlight = 0 /\ InFlight' = 1 /\ sent' = sent /\ runKind' = runKind
  BY DEF InFlight, ClearKind, Consuming
<1>10. SentMatchesRing'
  <2>1. Len(sent') = InFlight' + Used'
    BY <1>4, <1>5, <1>9 DEF SentMatchesRing
  <2>2. sent'[1][1] = runKind'
    BY <1>1, <1>5, <1>6, <1>9 DEF SentMatchesRing
  <2>3. ASSUME NEW i \in 1 .. Used'
        PROVE  sent'[InFlight' + i][1] = kind'[SlotAfter(i - 1)']
    <3>1. i + 1 \in 1 .. Used /\ (i + 1) - 1 = i
      BY <1>4, <1>5
    <3>2. sent[0 + (i + 1)][1] = kind[SlotAfter((i + 1) - 1)]
      BY <3>1, <1>9 DEF SentMatchesRing
    <3> QED BY <3>1, <3>2, <1>8, <1>9
  <2> QED BY <2>1, <2>2, <2>3 DEF SentMatchesRing
<1> QED BY <1>1, <1>4, <1>5, <1>6, <1>7, <1>8, <1>10

-----------------------------------------------------------------------------
(* The steps that leave the ring alone. *)

LEMMA FetchInv ==
  ASSUME RingInv, Fetch
  PROVE  /\ RingShape' /\ FetchedIsCurrent' /\ SentMatchesRing'
         /\ Used' = Used /\ \A i : SlotAfter(i)' = SlotAfter(i)
<1> USE DEF RingInv
<1>1. UNCHANGED <<kind, writePos, readPos, sent>> /\ HeadSlot' = HeadSlot
  BY DEF Fetch, HeadSlot, Consuming, ringVars, ghostVars
<1>2. Used' = Used /\ \A i : SlotAfter(i)' = SlotAfter(i)
  BY <1>1 DEF Used, HasRoom, SlotAfter
<1>3. InFlight = 0 /\ InFlight' = 0
  BY DEF InFlight, Consuming, Fetch
<1>4. SentMatchesRing'
  BY <1>1, <1>2, <1>3 DEF SentMatchesRing
<1>5. RingShape' /\ FetchedIsCurrent'
  BY <1>1 DEF RingShape, FetchedIsCurrent, Fetch
<1> QED BY <1>2, <1>4, <1>5

(* Reading the argument, clearing it, and every call of L_ADD_EVENT that is *)
(* refused.                                                                 *)
LEMMA QuietInv ==
  ASSUME RingInv, UNCHANGED <<kind, writePos, HeadSlot, InFlight, runKind, sent>>,
         pc' = "clearKind" => UNCHANGED <<pc, readPos>>
  PROVE  /\ RingShape' /\ FetchedIsCurrent' /\ SentMatchesRing'
         /\ Used' = Used /\ \A i : SlotAfter(i)' = SlotAfter(i)
<1> USE DEF RingInv
<1>1. Used' = Used /\ \A i : SlotAfter(i)' = SlotAfter(i)
  BY DEF Used, HasRoom, SlotAfter
<1>2. SentMatchesRing'
  BY <1>1 DEF SentMatchesRing
<1>3. RingShape' /\ FetchedIsCurrent'
  BY DEF RingShape, FetchedIsCurrent
<1> QED BY <1>1, <1>2, <1>3

LEMMA RunInv ==
  ASSUME RingInv, Run
  PROVE  /\ RingShape' /\ FetchedIsCurrent' /\ SentMatchesRing'
         /\ sent' \in Seq(Kinds \X Args)
         /\ Used' = Used /\ \A i : SlotAfter(i)' = SlotAfter(i)
<1> USE DEF RingInv
<1>1. UNCHANGED <<kind, writePos, readPos>> /\ HeadSlot' = HeadSlot
  BY DEF Run, HeadSlot, Consuming, ringVars
<1>2. Used' = Used /\ \A i : SlotAfter(i)' = SlotAfter(i)
  BY <1>1 DEF Used, HasRoom, SlotAfter
<1>3. InFlight = 1 /\ InFlight' = 0 /\ Used \in Nat
  BY UsedType, NSlotsAssumption DEF InFlight, Consuming, Run
<1>4. sent' = Tail(sent) /\ sent \in Seq(Kinds \X Args) /\ Len(sent) = Used + 1
  BY <1>3 DEF Run, TypeOK, SentMatchesRing
<1>5. /\ sent' \in Seq(Kinds \X Args) /\ Len(sent') = Used
      /\ \A i \in 1 .. Used : sent'[i] = sent[1 + i]
  BY <1>3, <1>4
<1>6. SentMatchesRing'
  BY <1>1, <1>2, <1>3, <1>5 DEF SentMatchesRing
<1>7. RingShape' /\ FetchedIsCurrent'
  BY <1>1 DEF RingShape, FetchedIsCurrent, Run
<1> QED BY <1>2, <1>5, <1>6, <1>7

LEMMA AdvanceInv ==
  ASSUME RingInv, Advance
  PROVE  UNCHANGED <<kind, writePos, HeadSlot, InFlight, runKind, sent>> /\ pc' = "run"
  BY DEF Advance, HeadSlot, Consuming, InFlight, ghostVars

-----------------------------------------------------------------------------
(* Every step keeps the inductive invariant. *)

LEMMA TypeStep ==
  ASSUME RingInv, Next
  PROVE  TypeOK'
<1> USE DEF RingInv, TypeOK
<1>1. CASE Fetch         BY <1>1 DEF Fetch, ringVars, ghostVars
<1>2. CASE ClearKind     BY <1>2 DEF ClearKind
<1>3. CASE ReadArg       BY <1>3 DEF ReadArg, ringVars, ghostVars
<1>4. CASE ClearArg      BY <1>4 DEF ClearArg, ghostVars
<1>5. CASE Advance       BY <1>5, NextSlotType DEF Advance, ghostVars
<1>6. CASE Run           BY <1>6, RunInv DEF Run, ringVars
<1>7. ASSUME NEW k \in Kinds, NEW a \in Args, AddEvent(k, a) PROVE TypeOK'
  <2>1. CASE HasRoom /\ Accept(k, a)
    BY <2>1, <1>7, NextSlotType DEF Accept, AddEvent
  <2>2. CASE ~HasRoom
    BY <2>2, <1>7 DEF AddEvent, ghostVars
  <2> QED BY <1>7, <2>1, <2>2 DEF AddEvent
<1> QED BY <1>1, <1>2, <1>3, <1>4, <1>5, <1>6, <1>7 DEF Next, MainLoop

LEMMA InitInv == Init => RingInv
<1> SUFFICES ASSUME Init PROVE RingInv
  OBVIOUS
<1>1. TypeOK
  <2>1. torn \in [Slots -> BOOLEAN] /\ runTorn \in BOOLEAN
    BY Zenon DEF Init
  <2> QED BY <2>1, NSlotsAssumption DEF Init, TypeOK, Slots
<1>2. Used = 0 /\ InFlight = 0
  BY NSlotsAssumption DEF Init, Used, InFlight, HeadSlot, HasRoom, Slots, Consuming
<1>3. SentMatchesRing
  BY <1>2 DEF Init, SentMatchesRing
<1> QED BY <1>1, <1>3, InitShape DEF RingInv

LEMMA StepInv == RingInv /\ [Next]_vars => RingInv'
<1> SUFFICES ASSUME RingInv, [Next]_vars PROVE RingInv'
  OBVIOUS
<1>1. CASE Fetch
  BY <1>1, FetchInv, TypeStep DEF Next, MainLoop, RingInv
<1>2. CASE ClearKind
  BY <1>2, ClearKindShape, ClearKindSent, TypeStep DEF Next, MainLoop, RingInv
<1>3. CASE ReadArg
  <2>1. UNCHANGED <<kind, writePos, HeadSlot, InFlight, runKind, sent>> /\ pc' # "clearKind"
    BY <1>3 DEF ReadArg, HeadSlot, InFlight, Consuming, ringVars, ghostVars
  <2> QED BY <1>3, <2>1, QuietInv, TypeStep DEF Next, MainLoop, RingInv
<1>4. CASE ClearArg
  <2>1. UNCHANGED <<kind, writePos, HeadSlot, InFlight, runKind, sent>> /\ pc' # "clearKind"
    BY <1>4 DEF ClearArg, HeadSlot, InFlight, Consuming, ghostVars
  <2> QED BY <1>4, <2>1, QuietInv, TypeStep DEF Next, MainLoop, RingInv
<1>5. CASE Advance
  BY <1>5, AdvanceInv, QuietInv, TypeStep DEF Next, MainLoop, RingInv
<1>6. CASE Run
  BY <1>6, RunInv, TypeStep DEF Next, MainLoop, RingInv
<1>7. ASSUME NEW k \in Kinds, NEW a \in Args, AddEvent(k, a) PROVE RingInv'
  <2>1. CASE HasRoom /\ Accept(k, a)
    BY <1>7, <2>1, AcceptShape, AcceptSent, TypeStep DEF AddEvent, Next, RingInv
  <2>2. CASE ~HasRoom
    <3>1. UNCHANGED <<kind, writePos, HeadSlot, InFlight, runKind, sent, pc, readPos>>
      BY <1>7, <2>2 DEF AddEvent, HeadSlot, InFlight, Consuming, ghostVars
    <3> QED BY <1>7, <3>1, QuietInv, TypeStep DEF Next, RingInv
  <2> QED BY <1>7, <2>1, <2>2 DEF AddEvent
<1>8. CASE UNCHANGED vars
  BY <1>8 DEF vars, RingInv, TypeOK, RingShape, FetchedIsCurrent, SentMatchesRing, HeadSlot,
              Consuming, InFlight, Used, HasRoom, SlotAfter
<1> QED BY <1>1, <1>2, <1>3, <1>4, <1>5, <1>6, <1>7, <1>8 DEF Next, MainLoop

(* The inductive invariant holds in every reachable state. *)
THEOREM RingInvHolds == Spec => []RingInv
<1>1. Init => RingInv
  BY InitInv
<1>2. RingInv /\ [Next]_vars => RingInv'
  BY StepInv
<1> QED BY <1>1, <1>2, PTL DEF Spec

-----------------------------------------------------------------------------
(* The results. *)

(* Type correctness, whatever the number of slots. *)
THEOREM TypeCorrect == Spec => []TypeOK
<1>1. RingInv => TypeOK
  BY DEF RingInv
<1> QED BY <1>1, RingInvHolds, PTL

(* The slots in use are always those between the two cursors: L_MAIN_LOOP  *)
(* never stalls in front of a hole with events behind it.                  *)
THEOREM RingHasNoHoles == Spec => []RingShape
<1>1. RingInv => RingShape
  BY DEF RingInv
<1> QED BY <1>1, RingInvHolds, PTL

(* L_ADD_EVENT, which looks at one byte only, drops an event only when     *)
(* there is no free slot at all.                                           *)
THEOREM DropsOnlyWhenFull == Spec => []RefusesOnlyWhenFull
<1>1. RingInv => RefusesOnlyWhenFull
  <2> SUFFICES ASSUME RingInv, kind[writePos] # Free
               PROVE  \A s \in Slots : kind[s] # Free
    BY DEF RefusesOnlyWhenFull
  <2>1. writePos \in Slots /\ HeadSlot \in Slots
    BY UsedType DEF RingInv, TypeOK
  <2>2. HeadSlot = writePos
    BY <2>1 DEF RingInv, RingShape, Within, Slots
  <2> QED BY <2>1, <2>2 DEF RingInv, RingShape
<1> QED BY <1>1, RingInvHolds, PTL

(* Events are run in the order of the accepted calls of L_ADD_EVENT, each  *)
(* exactly once, even through a full buffer.                               *)
THEOREM EventsRunInOrder == Spec => []KindsIntact
<1>1. RingInv => KindsIntact
  <2> SUFFICES ASSUME RingInv, pc = "run" PROVE Head(sent)[1] = runKind
    BY DEF KindsIntact
  <2>1. Used \in Nat
    BY UsedType, NSlotsAssumption DEF RingInv
  <2>2. sent \in Seq(Kinds \X Args) /\ Len(sent) = 1 + Used /\ sent[1][1] = runKind
    BY <2>1 DEF RingInv, TypeOK, SentMatchesRing, InFlight
  <2>3. sent # <<>>
    BY <2>1, <2>2
  <2> QED BY <2>2, <2>3
<1> QED BY <1>1, RingInvHolds, PTL

-----------------------------------------------------------------------------
(* The arguments. *)

(* An event that comes to lie in the slot whose event has just been taken   *)
(* fills the buffer.                                                        *)
LEMMA ReuseFills ==
  ASSUME RingInv, RingInv', NEW k \in Kinds, NEW a \in Args, Accept(k, a),
         UNCHANGED <<readPos, pc>>, Consuming, writePos = readPos
  PROVE  \A s \in Slots : kind'[s] # Free
<1>1. readPos \in Slots /\ NextSlot(readPos) \in Slots
  BY NextSlotType DEF RingInv, TypeOK
<1>2. HeadSlot' = NextSlot(readPos) /\ writePos' = NextSlot(readPos)
  BY DEF Accept, HeadSlot, Consuming
<1>3. kind'[readPos] # Free
  BY <1>1, FreeAssumption DEF Accept, RingInv, TypeOK
<1> QED BY <1>1, <1>2, <1>3 DEF RingInv, RingShape

(* An accepted event brings its argument along; the argument of the event   *)
(* being taken is not touched unless the buffer is filled now.              *)
LEMMA AcceptArgs ==
  ASSUME RingInv, RingInv', SentMatchesArgs, NEW k \in Kinds, NEW a \in Args,
         HasRoom, Accept(k, a), UNCHANGED <<readPos, pc, runKind, runArg>>
  PROVE  SentMatchesArgs'
<1> USE NSlotsAssumption
<1>1. /\ Used \in 0 .. NSlots - 1 /\ Used' = Used + 1
      /\ SlotAfter(Used) = writePos /\ \A i : SlotAfter(i)' = SlotAfter(i)
      /\ \A i \in 1 .. Used : SlotAfter(i - 1) \in Slots \ {writePos}
  BY AcceptSent, UsedType DEF RingInv
<1>2. readPos \in Slots /\ writePos \in Slots
  BY DEF RingInv, TypeOK
<1>3. \A s \in Slots \ {writePos} :
        arg'[s] = arg[s] /\ torn'[s] = torn[s] /\ kind'[s] = kind[s]
  BY DEF Accept, RingInv, TypeOK
<1>4. InFlight' = InFlight /\ InFlight \in {0, 1} /\ Len(sent) = InFlight + Used
  BY DEF InFlight, Consuming, RingInv, SentMatchesRing
<1>5. /\ \A i \in 1 .. Len(sent) : sent'[i] = sent[i]
      /\ sent'[InFlight + Used + 1] = <<k, a>>
  BY <1>1, <1>4 DEF Accept, RingInv, TypeOK
<1>6. pc \in {"readArg", "clearArg", "advance", "run"} => sent'[1] = sent[1]
  BY <1>1, <1>4, <1>5 DEF InFlight, Consuming
<1>7. pc = "readArg" /\ ~runTorn' => ~runTorn /\ writePos # readPos
  BY ReuseFills DEF Accept, Consuming
<1>8. pc' = "readArg" /\ ~runTorn' => arg'[readPos'] = sent'[1][2]
  BY <1>2, <1>3, <1>6, <1>7 DEF SentMatchesArgs
<1>9. ~runTorn' => ~runTorn
  BY DEF Accept, RingInv, TypeOK
<1>10. pc' \in {"clearArg", "advance", "run"} /\ ~runTorn' => runArg' = sent'[1][2]
  BY <1>6, <1>9 DEF SentMatchesArgs
<1>11. ASSUME NEW i \in 1 .. Used', ~torn'[SlotAfter(i - 1)']
       PROVE  sent'[InFlight' + i][2] = arg'[SlotAfter(i - 1)']
  <2>1. CASE i = Used + 1
    <3>1. SlotAfter(i - 1)' = writePos
      BY <1>1, <2>1
    <3>2. arg'[writePos] = a
      BY <1>2 DEF Accept, RingInv, TypeOK
    <3> QED BY <1>1, <1>4, <1>5, <2>1, <3>1, <3>2
  <2>2. CASE i # Used + 1
    <3>1. i \in 1 .. Used /\ InFlight + i \in 1 .. Len(sent)
      BY <1>1, <1>4, <2>2
    <3>2. /\ arg'[SlotAfter(i - 1)] = arg[SlotAfter(i - 1)]
          /\ ~torn[SlotAfter(i - 1)]
      BY <1>1, <1>3, <1>11, <3>1
    <3> QED BY <1>1, <1>4, <1>5, <3>1, <3>2 DEF SentMatchesArgs
  <2> QED BY <2>1, <2>2
<1>12. ASSUME pc' \in {"readArg", "clearArg"}, kind'[readPos'] # Free
       PROVE  torn'[readPos']
  <2>1. CASE writePos = readPos
    BY <1>2, <1>12, <2>1, ReuseFills DEF Accept, Consuming, RingInv, TypeOK
  <2>2. CASE writePos # readPos
    BY <1>2, <1>3, <1>12, <2>2 DEF SentMatchesArgs
  <2> QED BY <2>1, <2>2
<1> QED BY <1>8, <1>10, <1>11, <1>12 DEF SentMatchesArgs

(* The slot the main loop takes out keeps its argument. *)
LEMMA ClearKindArgs ==
  ASSUME RingInv, SentMatchesArgs, ClearKind
  PROVE  SentMatchesArgs'
<1>1. /\ Used \in 1 .. NSlots /\ Used' = Used - 1
      /\ SlotAfter(0) = readPos
      /\ \A i \in 1 .. Used' : SlotAfter(i - 1)' = SlotAfter(i)
  BY ClearKindSent
<1>2. InFlight = 0 /\ InFlight' = 1 /\ UNCHANGED <<arg, readPos, sent, torn>>
  BY DEF InFlight, ClearKind, Consuming
<1>3. \A i \in 1 .. Used : ~torn[SlotAfter(i - 1)] => sent[0 + i][2] = arg[SlotAfter(i - 1)]
  BY <1>2 DEF SentMatchesArgs
<1>4. ~runTorn' => sent'[1][2] = arg'[readPos']
  <2>1. ~torn[SlotAfter(1 - 1)] => sent[0 + 1][2] = arg[SlotAfter(1 - 1)]
    BY <1>1, <1>3, NSlotsAssumption
  <2> QED BY <1>1, <1>2, <2>1 DEF ClearKind
<1>5. ASSUME NEW i \in 1 .. Used', ~torn'[SlotAfter(i - 1)']
      PROVE  sent'[InFlight' + i][2] = arg'[SlotAfter(i - 1)']
  <2>1. i + 1 \in 1 .. Used /\ (i + 1) - 1 = i /\ 0 + (i + 1) = 1 + i
    BY <1>1, NSlotsAssumption
  <2> QED BY <1>1, <1>2, <1>3, <1>5, <2>1
<1>6. kind'[readPos'] = Free
  BY DEF ClearKind, RingInv, TypeOK
<1> QED BY <1>4, <1>5, <1>6 DEF SentMatchesArgs, ClearKind

(* Clearing the argument of the event in flight touches no slot in use but  *)
(* one that is torn.                                                        *)
LEMMA ClearArgArgs ==
  ASSUME RingInv, SentMatchesArgs, ClearArg
  PROVE  SentMatchesArgs'
<1> USE NSlotsAssumption
<1>1. /\ UNCHANGED <<kind, readPos, runArg, sent, torn, runTorn, HeadSlot, InFlight, Used>>
      /\ \A i : SlotAfter(i)' = SlotAfter(i)
  BY DEF ClearArg, HeadSlot, Consuming, InFlight, Used, HasRoom, SlotAfter, ghostVars
<1>2. /\ Used \in 0 .. NSlots /\ readPos \in Slots /\ writePos \in Slots
      /\ HeadSlot = NextSlot(readPos) /\ HeadSlot \in Slots
  BY UsedType DEF RingInv, TypeOK, ClearArg, HeadSlot, Consuming
<1>3. ASSUME NEW i \in 1 .. Used, ~torn[SlotAfter(i - 1)]
      PROVE  arg'[SlotAfter(i - 1)] = arg[SlotAfter(i - 1)]
  <2>1. SlotAfter(i - 1) \in Slots
    BY <1>2 DEF SlotAfter, Slots
  <2>2. kind[SlotAfter(i - 1)] # Free
    <3>1. CASE HeadSlot = writePos
      <4>1. ~HasRoom
        BY <3>1 DEF Used
      <4> QED BY <2>1, <3>1, <4>1, <1>2 DEF HasRoom, RingInv, RingShape
    <3>2. CASE HeadSlot # writePos
      <4>1. Within(HeadSlot, SlotAfter(i - 1), writePos)
        BY <1>2, <3>2 DEF Used, SlotAfter, Slots, Within
      <4> QED BY <2>1, <3>2, <4>1 DEF RingInv, RingShape
    <3> QED BY <3>1, <3>2
  <2>3. SlotAfter(i - 1) # readPos
    BY <1>3, <2>2 DEF SentMatchesArgs, ClearArg
  <2> QED BY <2>1, <2>3 DEF ClearArg, RingInv, TypeOK
<1> QED BY <1>1, <1>3 DEF SentMatchesArgs, ClearArg

(* The event that is done takes its argument with it. *)
LEMMA RunArgs ==
  ASSUME RingInv, SentMatchesArgs, Run
  PROVE  SentMatchesArgs'
<1>1. UNCHANGED <<arg, torn, Used>> /\ \A i : SlotAfter(i)' = SlotAfter(i)
  BY RunInv DEF Run, ringVars
<1>2. InFlight = 1 /\ InFlight' = 0 /\ Used \in Nat
  BY UsedType, NSlotsAssumption DEF InFlight, Consuming, Run, RingInv
<1>3. sent' = Tail(sent) /\ sent \in Seq(Kinds \X Args) /\ Len(sent) = 1 + Used
  BY <1>2 DEF Run, RingInv, TypeOK, SentMatchesRing
<1>4. \A i \in 1 .. Used : sent'[i] = sent[1 + i]
  BY <1>2, <1>3
<1>5. \A i \in 1 .. Used : sent'[InFlight' + i] = sent[InFlight + i]
  BY <1>2, <1>4
<1>6. pc' = "fetch"
  BY DEF Run
<1> QED BY <1>1, <1>5, <1>6 DEF SentMatchesArgs

LEMMA ArgsStep == RingInv /\ RingInv' /\ SentMatchesArgs /\ [Next]_vars => SentMatchesArgs'
<1> SUFFICES ASSUME RingInv, RingInv', SentMatchesArgs, [Next]_vars PROVE SentMatchesArgs'
  OBVIOUS
<1>1. ASSUME UNCHANGED <<kind, arg, runArg, sent, torn, runTorn, InFlight, Used>>,
             \A i : SlotAfter(i)' = SlotAfter(i),
             UNCHANGED <<pc, readPos>> \/ pc' \in {"fetch", "clearKind"}
                          \/ (pc \in {"clearArg", "advance"} /\ pc' = "run")
      PROVE  SentMatchesArgs'
  BY <1>1 DEF SentMatchesArgs
<1>2. CASE Fetch
  BY <1>1, <1>2, FetchInv DEF Fetch, InFlight, Consuming, ringVars, ghostVars
<1>3. CASE ClearKind
  BY <1>3, ClearKindArgs
<1>4. CASE ReadArg
  <2>1. /\ UNCHANGED <<kind, arg, readPos, sent, torn, runTorn, InFlight, Used>>
        /\ runArg' = arg[readPos]
        /\ pc = "readArg" /\ pc' = "clearArg" /\ \A i : SlotAfter(i)' = SlotAfter(i)
    BY <1>4 DEF ReadArg, HeadSlot, Consuming, InFlight, Used, HasRoom, SlotAfter, ringVars, ghostVars
  <2> QED BY <2>1 DEF SentMatchesArgs
<1>5. CASE ClearArg
  BY <1>5, ClearArgArgs
<1>6. CASE Advance
  <2>1. /\ UNCHANGED <<kind, arg, sent, torn, runTorn, runArg, InFlight, HeadSlot, Used>>
        /\ pc = "advance" /\ pc' = "run" /\ \A i : SlotAfter(i)' = SlotAfter(i)
    BY <1>6 DEF Advance, HeadSlot, Consuming, InFlight, Used, HasRoom, SlotAfter, ghostVars
  <2> QED BY <1>1, <2>1
<1>7. CASE Run
  BY <1>7, RunArgs
<1>8. ASSUME NEW k \in Kinds, NEW a \in Args, AddEvent(k, a) PROVE SentMatchesArgs'
  <2>1. CASE HasRoom /\ Accept(k, a)
    BY <1>8, <2>1, AcceptArgs DEF AddEvent
  <2>2. CASE ~HasRoom
    BY <1>1, <1>8, <2>2
    DEF AddEvent, HeadSlot, Consuming, InFlight, Used, HasRoom, SlotAfter, ghostVars
  <2> QED BY <1>8, <2>1, <2>2 DEF AddEvent
<1>9. CASE UNCHANGED vars
  BY <1>1, <1>9 DEF vars, HeadSlot, Consuming, InFlight, Used, HasRoom, SlotAfter
<1> QED BY <1>2, <1>3, <1>4, <1>5, <1>6, <1>7, <1>8, <1>9 DEF Next, MainLoop

(* Every event is run with the argument L_ADD_EVENT was called with, also   *)
(* through a full buffer, unless an interrupt filled the buffer between the *)
(* two stores with which L_MAIN_LOOP frees a slot; then the event being     *)
(* taken and the one that filled the buffer may lose theirs, and no other.  *)
THEOREM EventsKeepTheirArgs == Spec => []ArgsIntact
<1>1. Init => RingInv /\ SentMatchesArgs
  <2> SUFFICES ASSUME Init PROVE SentMatchesArgs
    BY InitInv
  <2>1. Used = 0
    BY NSlotsAssumption DEF Init, Used, HeadSlot, HasRoom, Slots, Consuming
  <2> QED BY <2>1, NSlotsAssumption DEF Init, SentMatchesArgs
<1>2. RingInv /\ SentMatchesArgs /\ [Next]_vars => (RingInv /\ SentMatchesArgs)'
  BY StepInv, ArgsStep
<1>3. RingInv /\ SentMatchesArgs => ArgsIntact
  <2> SUFFICES ASSUME RingInv, SentMatchesArgs, pc = "run", ~runTorn
               PROVE  Head(sent) = <<runKind, runArg>>
    BY DEF ArgsIntact
  <2>1. Used \in Nat
    BY UsedType, NSlotsAssumption DEF RingInv
  <2>2. /\ sent \in Seq(Kinds \X Args) /\ Len(sent) = 1 + Used
        /\ sent[1][1] = runKind /\ sent[1][2] = runArg
    BY <2>1 DEF RingInv, TypeOK, SentMatchesRing, SentMatchesArgs, InFlight
  <2>3. Head(sent) = sent[1] /\ sent[1] \in Kinds \X Args
    BY <2>1, <2>2
  <2> QED BY <2>2, <2>3
<1> QED BY <1>1, <1>2, <1>3, PTL DEF Spec

(* No step changes the event number of a waiting event, except the main    *)
(* loop when it takes that event.                                          *)
THEOREM WaitingEventsUntouched == Spec => NoOverwrite
<1> DEFINE Untouched == \A s \in Slots : kind[s] # Free /\ kind'[s] # kind[s] =>
                                            s = readPos /\ kind'[s] = Free /\ ClearKind
<1>1. RingInv /\ [Next]_vars => [Untouched]_vars
  <2> SUFFICES ASSUME RingInv, Next PROVE Untouched
    OBVIOUS
  <2> USE DEF RingInv
  <2>1. CASE ClearKind
    BY <2>1 DEF ClearKind, TypeOK
  <2>2. ASSUME NEW k \in Kinds, NEW a \in Args, AddEvent(k, a) PROVE Untouched
    BY <2>2 DEF AddEvent, Accept, HasRoom, TypeOK
  <2>3. CASE UNCHANGED kind
    BY <2>3
  <2> QED BY <2>1, <2>2, <2>3 DEF Next, MainLoop, Fetch, ReadArg, ClearArg, Advance, Run, ringVars
<1> QED BY <1>1, RingInvHolds, PTL DEF Spec, NoOverwrite

-----------------------------------------------------------------------------
(* The refinement: every step of the ring is a step of the queue. *)

AbstractQueue == [i \in 1 .. Used |-> kind[SlotAfter(i - 1)]]

AbstractCurrent == IF Consuming \/ pc = "run" THEN <<runKind>> ELSE <<>>

LEMMA AbstractSeq ==
  ASSUME RingInv
  PROVE  /\ Used \in 0 .. NSlots
         /\ AbstractQueue \in Seq(Kinds \cup {Free})
         /\ Len(AbstractQueue) = Used
         /\ \A i \in 1 .. Used : AbstractQueue[i] = kind[SlotAfter(i - 1)]
<1> USE NSlotsAssumption
<1>1. Used \in 0 .. NSlots /\ HeadSlot \in Slots
  BY UsedType DEF RingInv
<1>2. \A i \in 1 .. Used : SlotAfter(i - 1) \in Slots
  BY <1>1 DEF SlotAfter, Slots
<1>3. \A i \in 1 .. Used : kind[SlotAfter(i - 1)] \in Kinds \cup {Free}
  BY <1>2 DEF RingInv, TypeOK
<1>4. Used \in Nat
  BY <1>1
<1>5. AbstractQueue \in Seq(Kinds \cup {Free})
  BY <1>3, <1>4, IsASeq DEF AbstractQueue
<1>6. DOMAIN AbstractQueue = 1 .. Used
  BY DEF AbstractQueue
<1>7. Len(AbstractQueue) = Used
  BY <1>4, <1>5, <1>6, LenProperties
<1> QED BY <1>1, <1>5, <1>7 DEF AbstractQueue

(* A sequence after Append and Tail, as a function. *)
LEMMA AppendAsFunction ==
  ASSUME NEW S, NEW q \in Seq(S), NEW k \in S
  PROVE  Append(q, k) = [i \in 1 .. Len(q) + 1 |-> IF i <= Len(q) THEN q[i] ELSE k]
<1>1. /\ Append(q, k) \in Seq(S) /\ Len(Append(q, k)) = Len(q) + 1
      /\ \A i \in 1 .. Len(q) + 1 : Append(q, k)[i] = IF i <= Len(q) THEN q[i] ELSE k
  OBVIOUS
<1>2. Append(q, k) = [i \in 1 .. Len(q) + 1 |-> Append(q, k)[i]]
  BY <1>1, LenProperties
<1> QED BY <1>1, <1>2

LEMMA TailAsFunction ==
  ASSUME NEW S, NEW q \in Seq(S), q # <<>>
  PROVE  Tail(q) = [i \in 1 .. Len(q) - 1 |-> q[i + 1]]
<1>1. /\ Tail(q) \in Seq(S) /\ Len(Tail(q)) = Len(q) - 1
      /\ \A i \in 1 .. Len(q) - 1 : Tail(q)[i] = q[i + 1]
  OBVIOUS
<1>2. Tail(q) = [i \in 1 .. Len(q) - 1 |-> Tail(q)[i]]
  BY <1>1, LenProperties
<1> QED BY <1>1, <1>2

LEMMA AcceptEnqueues ==
  ASSUME RingInv, NEW k \in Kinds, NEW a \in Args,
         HasRoom, Accept(k, a), UNCHANGED <<readPos, pc, runKind, runArg>>
  PROVE  Queue!Enqueue(k)
<1> DEFINE q == AbstractQueue
<1>1. /\ Used < NSlots /\ Used' = Used + 1
      /\ \A i \in 1 .. Used : kind'[SlotAfter(i - 1)'] = kind[SlotAfter(i - 1)]
      /\ \A i : i = Used + 1 => kind'[SlotAfter(i - 1)'] = k
  BY AcceptSent
<1>2. Used \in Nat /\ q \in Seq(Kinds \cup {Free}) /\ Len(q) = Used
      /\ \A i \in 1 .. Used : q[i] = kind[SlotAfter(i - 1)]
  BY AbstractSeq, NSlotsAssumption
<1>3. Append(q, k) = [i \in 1 .. Used + 1 |-> IF i <= Used THEN q[i] ELSE k]
  BY <1>2, AppendAsFunction
<1>4. \A i \in 1 .. Used + 1 : kind'[SlotAfter(i - 1)'] = IF i <= Used THEN q[i] ELSE k
  BY <1>1, <1>2
<1>5. q' = Append(q, k)
  BY <1>1, <1>3, <1>4 DEF AbstractQueue
<1>6. UNCHANGED AbstractCurrent
  BY DEF AbstractCurrent, Consuming
<1> QED BY <1>1, <1>2, <1>5, <1>6 DEF Queue!Enqueue, AbstractQueue, AbstractCurrent

LEMMA ClearKindTakes ==
  ASSUME RingInv, ClearKind
  PROVE  Queue!Take
<1> DEFINE q == AbstractQueue
<1>1. /\ Used \in 1 .. NSlots /\ Used' = Used - 1
      /\ runKind = kind[SlotAfter(0)]
      /\ \A i \in 1 .. Used' : kind'[SlotAfter(i - 1)'] = kind[SlotAfter(i)]
  BY ClearKindSent
<1>2. Used \in Nat /\ q \in Seq(Kinds \cup {Free}) /\ Len(q) = Used
      /\ \A i \in 1 .. Used : q[i] = kind[SlotAfter(i - 1)]
  BY AbstractSeq, NSlotsAssumption
<1>3. q # <<>> /\ Head(q) = runKind
  BY <1>1, <1>2
<1>4. Tail(q) = [i \in 1 .. Used - 1 |-> q[i + 1]]
  BY <1>2, <1>3, TailAsFunction
<1>5. \A i \in 1 .. Used - 1 : kind'[SlotAfter(i - 1)'] = q[i + 1]
  <2> SUFFICES ASSUME NEW i \in 1 .. Used - 1 PROVE kind[SlotAfter(i)] = q[i + 1]
    BY <1>1
  <2>1. i + 1 \in 1 .. Used /\ (i + 1) - 1 = i
    BY <1>2
  <2> QED BY <1>2, <2>1
<1>6. q' = Tail(q)
  BY <1>1, <1>4, <1>5 DEF AbstractQueue
<1>7. AbstractCurrent = <<>> /\ AbstractCurrent' = <<runKind>>
  BY DEF AbstractCurrent, Consuming, ClearKind
<1> QED BY <1>3, <1>6, <1>7 DEF Queue!Take, AbstractQueue, AbstractCurrent

(* The buffer implements the bounded first-in first-out queue of event     *)
(* numbers: its initial states and its steps are the queue's, for every    *)
(* capacity.                                                               *)
THEOREM RingImplementsQueue ==
  Spec => Queue!QInit /\ [][Queue!QNext]_(Queue!qvars)
<1>1. Init => Queue!QInit
  <2> SUFFICES ASSUME Init PROVE Queue!QInit
    OBVIOUS
  <2>1. Used = 0
    BY NSlotsAssumption DEF Init, Used, HeadSlot, HasRoom, Slots, Consuming
  <2> QED BY <2>1 DEF Init, Queue!QInit, Consuming
<1>2. RingInv /\ [Next]_vars => [Queue!QNext]_(Queue!qvars)
  <2> SUFFICES ASSUME RingInv, [Next]_vars
               PROVE  Queue!QNext \/ UNCHANGED <<AbstractQueue, AbstractCurrent>>
    BY DEF Queue!qvars, AbstractQueue, AbstractCurrent
  <2>1. ASSUME UNCHANGED <<kind, Used, AbstractCurrent>>, \A i : SlotAfter(i)' = SlotAfter(i)
        PROVE  UNCHANGED <<AbstractQueue, AbstractCurrent>>
    BY <2>1 DEF AbstractQueue
  <2>2. CASE ClearKind
    BY <2>2, ClearKindTakes DEF Queue!QNext
  <2>3. CASE Run
    <3>1. UNCHANGED kind /\ AbstractCurrent = <<runKind>> /\ AbstractCurrent' = <<>>
      BY <2>3 DEF Run, AbstractCurrent, Consuming, ringVars
    <3>2. UNCHANGED AbstractQueue
      BY <2>3, <3>1, RunInv DEF AbstractQueue
    <3> QED BY <3>1, <3>2 DEF Queue!QNext, Queue!Finish, AbstractQueue, AbstractCurrent
  <2>4. ASSUME NEW k \in Kinds, NEW a \in Args, HasRoom, Accept(k, a), AddEvent(k, a)
        PROVE  Queue!QNext
    BY <2>4, AcceptEnqueues DEF Queue!QNext, AddEvent
  <2>5. CASE Fetch
    BY <2>1, <2>5, FetchInv DEF Fetch, AbstractCurrent, Consuming, ringVars
  <2>6. CASE UNCHANGED <<kind, writePos, HeadSlot, pc, runKind>>
    BY <2>1, <2>6 DEF Used, HasRoom, SlotAfter, AbstractCurrent, Consuming
  <2>7. CASE ReadArg \/ ClearArg \/ Advance
    <3>1. UNCHANGED <<kind, writePos, HeadSlot, runKind>>
      BY <2>7 DEF ReadArg, ClearArg, Advance, HeadSlot, Consuming, ringVars
    <3>2. UNCHANGED AbstractCurrent
      BY <2>7, <3>1 DEF ReadArg, ClearArg, Advance, AbstractCurrent, Consuming
    <3> QED BY <2>1, <3>1, <3>2 DEF Used, HasRoom, SlotAfter
  <2>8. ASSUME NEW k \in Kinds, NEW a \in Args, ~HasRoom, AddEvent(k, a)
        PROVE  UNCHANGED <<kind, writePos, HeadSlot, pc, runKind>>
    BY <2>8 DEF AddEvent, HeadSlot, Consuming
  <2>9. CASE UNCHANGED vars
    BY <2>6, <2>9 DEF vars, HeadSlot, Consuming
  <2> QED BY <2>2, <2>3, <2>4, <2>5, <2>6, <2>7, <2>8, <2>9 DEF Next, MainLoop, AddEvent
<1> QED BY <1>1, <1>2, RingInvHolds, PTL DEF Spec
=============================================================================
