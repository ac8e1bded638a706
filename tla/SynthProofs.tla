----------------------------- MODULE SynthProofs -----------------------------
(***************************************************************************)
(* The synthesizer's two threads, for every size of the rings, of the      *)
(* schedule and of the tables of plays and of instruments.  First the      *)
(* command ring is a queue: what the device thread and the interpreter do  *)
(* to it implements CommandQueue.  Then the safety properties: the         *)
(* inductive invariant IInv has six parts, each kept by every step in a    *)
(* lemma of its own; most of the proof is where a sample, a sequenced      *)
(* event or the note of an instrument goes when a command is queued and    *)
(* when it is applied.                                                     *)
(***************************************************************************)
EXTENDS Synth, FiniteSetTheorems, SequenceTheorems, TLAPS

(* Indices go round.                                                       *)
LEMMA NextIndexIs ==
    ASSUME NEW i \in Indices
    PROVE  /\ NextIndex(i) = IF i + 1 = Capacity THEN 0 ELSE i + 1
           /\ NextIndex(i) \in Indices
BY CapacityAssumption, SMT DEF NextIndex, Indices

LEMMA DistanceType ==
    ASSUME NEW from \in Indices, NEW to \in Indices
    PROVE  Distance(from, to) \in 0 .. Capacity - 1
BY CapacityAssumption DEF Distance, Indices

LEMMA NoDistance ==
    ASSUME NEW from \in Indices, NEW to \in Indices
    PROVE  Distance(from, to) = 0 <=> from = to
BY CapacityAssumption DEF Distance, Indices

LEMMA FullIs ==
    ASSUME NEW from \in Indices, NEW to \in Indices
    PROVE  NextIndex(to) = from <=> Distance(from, to) = Capacity - 1
BY CapacityAssumption, NextIndexIs DEF Distance, Indices

LEMMA TailMoves ==
    ASSUME NEW from \in Indices, NEW to \in Indices, NextIndex(to) # from
    PROVE  Distance(from, NextIndex(to)) = Distance(from, to) + 1
BY CapacityAssumption, NextIndexIs DEF Distance, Indices

LEMMA HeadMoves ==
    ASSUME NEW from \in Indices, NEW to \in Indices, from # to
    PROVE  Distance(NextIndex(from), to) = Distance(from, to) - 1
BY CapacityAssumption, NextIndexIs DEF Distance, Indices

LEMMA AheadInside ==
    ASSUME NEW from \in Indices, NEW to \in Indices, NEW i \in 0 .. Distance(from, to)
    PROVE  Ahead(from, i) \in Indices /\ (Ahead(from, i) = to <=> i = Distance(from, to))
BY CapacityAssumption DEF Ahead, Distance, Indices

LEMMA AheadShifts ==
    ASSUME NEW from \in Indices, NEW i \in 1 .. Capacity - 1
    PROVE  Ahead(NextIndex(from), i - 1) = Ahead(from, i)
BY CapacityAssumption, NextIndexIs DEF Ahead, Indices

(* A step that touches none of what the ring is made of, and at most moves *)
(* the device thread between steps other than the draining.                *)
RingStays ==
    /\ UNCHANGED <<live, ring, head, tail, dhead, dtail>>
    /\ dpc' = dpc \/ (live /\ dpc # "drain" /\ dpc' # "drain")
    /\ pc' = pc \/ (pc # "closing" /\ pc' # "publish" /\ pc' # "closing") \/ (dpc # "drain" /\ pc' = "idle")
    /\ pc = "publish" => cur' = cur

LEMMA StaysInv ==
    ASSUME RingInv, RingStays
    PROVE  RingInv' /\ Queue' = Queue
<1>1. RingInv'
  BY DEF RingInv, RingStays, RingFull, Distance
<1>2. Queue' = Queue
  BY DEF Queue, RingStays, ReadFrom, Distance
<1>3. QED BY <1>1, <1>2

(* Every action but those on the ring itself is such a step.               *)
LEMMA OthersStay ==
    ASSUME RingInv,
           \/ TakePendingPatch \/ PublishSounding \/ CountRender \/ FireScheduled \/ PlayEnds \/ VoiceEnds
           \/ FreeCollected \/ ApplyOffline \/ Refuse \/ Release \/ Close \/ Bind \/ StorePatch
           \/ SequenceApplied \/ PollQuiet \/ Quiet \/ WaitOver
           \/ NoteOn \/ ForgetWord \/ SilenceWord \/ SequenceNote \/ PatchWord \/ WaitWord
    PROVE  RingStays
<1> USE DEF RingStays, RingInv, ringVars, interpreterVars
<1>1. CASE TakePendingPatch BY <1>1 DEF TakePendingPatch
<1>2. CASE PublishSounding BY <1>2 DEF PublishSounding
<1>3. CASE CountRender BY <1>3 DEF CountRender
<1>4. CASE FireScheduled BY <1>4 DEF FireScheduled
<1>5. CASE PlayEnds BY <1>5 DEF PlayEnds
<1>6. CASE VoiceEnds BY <1>6 DEF VoiceEnds
<1>7. CASE FreeCollected BY <1>7 DEF FreeCollected
<1>8. CASE ApplyOffline BY <1>8 DEF ApplyOffline, Accepted, CollectFinished
<1>9. CASE Refuse BY <1>9 DEF Refuse
<1>10. CASE Release BY <1>10 DEF Release
<1>11. CASE Close BY <1>11 DEF Close
<1>12. CASE Bind BY <1>12 DEF Bind
<1>13. CASE StorePatch BY <1>13 DEF StorePatch
<1>14. CASE SequenceApplied BY <1>14 DEF SequenceApplied
<1>15. CASE PollQuiet BY <1>15 DEF PollQuiet
<1>16. CASE Quiet BY <1>16 DEF Quiet
<1>17. CASE WaitOver BY <1>17 DEF WaitOver, Waiting
<1>18. CASE NoteOn BY <1>18 DEF NoteOn, StartWord, CollectFinished, WordUnchanged
<1>19. CASE ForgetWord BY <1>19 DEF ForgetWord, StartWord, CollectFinished, WordUnchanged
<1>20. CASE SilenceWord BY <1>20 DEF SilenceWord, StartWord, CollectFinished, WordUnchanged
<1>21. CASE SequenceNote BY <1>21 DEF SequenceNote, StartWord, CollectFinished, WordUnchanged
<1>22. CASE PatchWord BY <1>22 DEF PatchWord
<1>23. CASE WaitWord BY <1>23 DEF WaitWord
<1>24. QED
  BY <1>1, <1>2, <1>3, <1>4, <1>5, <1>6, <1>7, <1>8, <1>9, <1>10, <1>11, <1>12, <1>13, <1>14, <1>15,
     <1>16, <1>17, <1>18, <1>19, <1>20, <1>21, <1>22, <1>23

LEMMA Initially == Init => RingInv /\ Queue = <<>>
<1> SUFFICES ASSUME Init PROVE RingInv /\ Queue = <<>>
  OBVIOUS
<1>1. RingInv
  <2>1. /\ live = FALSE /\ head = 0 /\ tail = 0 /\ dhead = 0 /\ dtail = 0 /\ dpc = "idle" /\ pc = "idle"
        /\ ring = [i \in 0 .. Capacity - 1 |-> NoCommand]
    BY DEF Init
  <2>2. 0 \in Indices
    BY CapacityAssumption DEF Indices
  <2>3. ring = [i \in Indices |-> ring[i]]
    BY <2>1 DEF Indices
  <2>4. QED BY <2>1, <2>2, <2>3 DEF RingInv
<1>2. Queue = <<>>
  BY DEF Init, Queue, ReadFrom, Distance
<1>3. QED BY <1>1, <1>2

(* The steps on the ring.  Beginning to drain, publishing the head and     *)
(* closing the device move the place the queue is read from to where it is *)
(* read from already.                                                      *)
LEMMA StartDrainStep ==
    ASSUME RingInv, StartDrain
    PROVE  RingInv' /\ Queue' = Queue
<1>1. RingInv'
  BY CapacityAssumption DEF RingInv, StartDrain, RingFull, Distance, Indices, interpreterVars
<1>2. Queue' = Queue
  BY DEF Queue, StartDrain, ReadFrom, RingInv
<1>3. QED BY <1>1, <1>2

LEMMA PublishHeadStep ==
    ASSUME RingInv, PublishHead
    PROVE  RingInv' /\ Queue' = Queue
<1>1. ~RingFull => ~RingFull'
  <2>1. NextIndex(tail) = (IF tail + 1 = Capacity THEN 0 ELSE tail + 1)
    BY NextIndexIs DEF RingInv
  <2>2. NextIndex(tail)' = NextIndex(tail)
    BY DEF PublishHead, NextIndex
  <2>3. QED BY <2>1, <2>2, CapacityAssumption DEF RingFull, RingInv, PublishHead, Distance, Indices
<1>2. RingInv'
  BY <1>1, CapacityAssumption DEF RingInv, PublishHead, Distance, Indices, interpreterVars
<1>3. Queue' = Queue
  BY DEF Queue, PublishHead, ReadFrom, RingInv
<1>4. QED BY <1>2, <1>3

LEMMA AudioOffStep ==
    ASSUME RingInv, AudioOff
    PROVE  RingInv' /\ Queue' = Queue
<1>1. /\ live /\ live' = FALSE /\ pc' = "closing" /\ dpc' = "drain"
      /\ dhead' = head /\ dtail' = tail /\ UNCHANGED <<ring, head, tail>>
  BY DEF AudioOff
<1>2. /\ head \in Indices /\ tail \in Indices /\ Distance(head, tail) \in Int
      /\ Distance(head, head) = 0 /\ Distance(tail, tail) = 0
  BY NoDistance, DistanceType DEF RingInv
<1>3. (Distance(head, dhead) + Distance(dhead, tail) = Distance(head, tail))'
      /\ (Distance(dhead, dtail) + Distance(dtail, tail) = Distance(dhead, tail))'
  BY <1>1, <1>2 DEF Distance
<1>4. RingInv'
  BY <1>1, <1>2, <1>3 DEF RingInv
<1>5. Queue' = Queue
  BY DEF Queue, AudioOff, ReadFrom, RingInv
<1>6. QED BY <1>4, <1>5

(* Opening the device sets the indices back, while the queue is empty.     *)
LEMMA OpenDeviceStep ==
    ASSUME RingInv, AudioOn \/ PlaySamples
    PROVE  RingInv' /\ Queue' = Queue
<1> USE DEF WordUnchanged, OpenDevice, StartWord, CollectFinished
<1>1. /\ pc = "idle" /\ pc' # "publish" /\ pc' # "closing"
      /\ UNCHANGED <<ring, dhead, dtail, dpc>>
      /\ \/ live' = live /\ head' = head /\ tail' = tail
         \/ ~live /\ live' \in BOOLEAN /\ head' = 0 /\ tail' = 0
  <2>1. CASE AudioOn BY <2>1 DEF AudioOn
  <2>2. CASE PlaySamples BY <2>2 DEF PlaySamples
  <2>3. QED BY <2>1, <2>2
<1>2. RingInv'
  <2>1. CASE live' = live /\ head' = head /\ tail' = tail
    BY <2>1, <1>1 DEF RingInv, Distance
  <2>2. CASE ~live /\ live' \in BOOLEAN /\ head' = 0 /\ tail' = 0
    <3>1. dpc = "idle" /\ dpc' = "idle" /\ dhead' = dhead /\ dtail' = dtail /\ ring' = ring
      BY <2>2, <1>1 DEF RingInv
    <3>2. 0 \in Indices
      BY CapacityAssumption DEF Indices
    <3>3. QED BY <2>2, <3>1, <3>2, <1>1 DEF RingInv
  <2>3. QED BY <1>1, <2>1, <2>2
<1>3. Queue' = Queue
  <2>1. CASE live' = live /\ head' = head /\ tail' = tail
    BY <2>1, <1>1 DEF Queue, ReadFrom
  <2>2. CASE ~live /\ head' = 0 /\ tail' = 0
    <3>1. dpc = "idle" /\ head = tail
      BY <2>2, <1>1 DEF RingInv
    <3>2. Distance(ReadFrom, tail) = 0 /\ Distance(ReadFrom, tail)' = 0
      BY <3>1, <2>2, <1>1 DEF ReadFrom, Distance, RingInv, Indices
    <3>3. QED BY <3>2 DEF Queue
  <2>3. QED BY <1>1, <2>1, <2>2
<1>4. QED BY <1>2, <1>3

(* A command is written where the queue does not reach ...                 *)
LEMMA WriteStep ==
    ASSUME RingInv, WriteCommand
    PROVE  RingInv' /\ Queue' = Queue
<1>1. RingInv'
  BY DEF RingInv, WriteCommand, RingFull, Distance, NextIndex, interpreterVars
<1>2. Distance(ReadFrom, tail)' = Distance(ReadFrom, tail)
  BY DEF WriteCommand, ReadFrom, Distance
<1>3. ASSUME NEW i \in 1 .. Distance(ReadFrom, tail)
      PROVE  ring'[Ahead(ReadFrom, i - 1)'] = ring[Ahead(ReadFrom, i - 1)]
  <2>1. Ahead(ReadFrom, i - 1)' = Ahead(ReadFrom, i - 1)
    BY DEF WriteCommand, ReadFrom, Ahead
  <2>2. Ahead(ReadFrom, i - 1) \in Indices /\ Ahead(ReadFrom, i - 1) # tail
    <3>1. ReadFrom \in Indices /\ tail \in Indices
      BY DEF ReadFrom, RingInv
    <3>2. i - 1 \in 0 .. Distance(ReadFrom, tail) /\ i - 1 # Distance(ReadFrom, tail)
      BY <3>1, DistanceType
    <3>3. QED BY <3>1, <3>2, AheadInside
  <2>3. QED BY <2>1, <2>2 DEF WriteCommand, RingInv
<1>4. Queue' = Queue
  BY <1>2, <1>3 DEF Queue
<1>5. QED BY <1>1, <1>4

(* ... and joins it at its end when the tail is published.                 *)
LEMMA PublishStep ==
    ASSUME RingInv, PublishCommand
    PROVE  RingInv' /\ Fifo!Put
<1> DEFINE n == Distance(ReadFrom, tail)
<1>1. /\ tail' = NextIndex(tail) /\ NextIndex(tail) \in Indices /\ NextIndex(tail) # head
      /\ live /\ ring[tail] = cur
  BY NextIndexIs DEF RingInv, PublishCommand, RingFull
<1>2. /\ pc' # "publish" /\ pc' # "closing"
      /\ UNCHANGED <<live, ring, head, dhead, dtail, dpc>>
  BY DEF PublishCommand, Accepted, CollectFinished
<1>3. head \in Indices /\ tail \in Indices /\ dhead \in Indices /\ dtail \in Indices
  BY DEF RingInv
<1>4. ASSUME dpc = "drain"
      PROVE  NextIndex(tail) # dhead /\ NextIndex(tail) # dtail
  <2>1. /\ Distance(head, dhead) + Distance(dhead, tail) = Distance(head, tail)
        /\ Distance(dhead, dtail) + Distance(dtail, tail) = Distance(dhead, tail)
    BY <1>4 DEF RingInv
  <2>2. /\ Distance(head, dhead) \in 0 .. Capacity - 1 /\ Distance(dhead, tail) \in 0 .. Capacity - 1
        /\ Distance(dhead, dtail) \in 0 .. Capacity - 1 /\ Distance(dtail, tail) \in 0 .. Capacity - 1
        /\ Distance(head, tail) \in 0 .. Capacity - 1
    BY <1>3, DistanceType
  <2>3. Distance(head, tail) # Capacity - 1
    BY <1>1, <1>3, FullIs
  <2>4. Distance(dhead, tail) # Capacity - 1 /\ Distance(dtail, tail) # Capacity - 1
    BY <2>1, <2>2, <2>3, CapacityAssumption
  <2>5. QED BY <2>4, <1>3, FullIs
<1>5. /\ Distance(head, tail)' = Distance(head, tail) + 1
      /\ dpc = "drain" => /\ Distance(dhead, tail)' = Distance(dhead, tail) + 1
                          /\ Distance(dtail, tail)' = Distance(dtail, tail) + 1
      /\ Distance(head, dhead)' = Distance(head, dhead)
      /\ Distance(dhead, dtail)' = Distance(dhead, dtail)
  <2>1. /\ Distance(head, tail)' = Distance(head, NextIndex(tail))
        /\ Distance(dhead, tail)' = Distance(dhead, NextIndex(tail))
        /\ Distance(dtail, tail)' = Distance(dtail, NextIndex(tail))
        /\ Distance(head, dhead)' = Distance(head, dhead)
        /\ Distance(dhead, dtail)' = Distance(dhead, dtail)
    BY <1>1, <1>2 DEF Distance
  <2>2. QED BY <2>1, <1>1, <1>3, <1>4, TailMoves
<1>6. RingInv'
  <2>1. /\ Distance(head, dhead) \in Int /\ Distance(dhead, tail) \in Int
        /\ Distance(dhead, dtail) \in Int /\ Distance(dtail, tail) \in Int /\ Distance(head, tail) \in Int
    BY <1>3, DistanceType
  <2>2. dpc' = dpc
    BY <1>2
  <2>3. ASSUME dpc = "drain"
        PROVE  /\ Distance(head, dhead)' + Distance(dhead, tail)' = Distance(head, tail)'
               /\ Distance(dhead, dtail)' + Distance(dtail, tail)' = Distance(dhead, tail)'
    <3>1. /\ Distance(head, dhead) + Distance(dhead, tail) = Distance(head, tail)
          /\ Distance(dhead, dtail) + Distance(dtail, tail) = Distance(dhead, tail)
      BY <2>3 DEF RingInv
    <3>2. QED BY <3>1, <2>1, <2>3, <1>5
  <2>4. QED BY <2>2, <2>3, <1>1, <1>2 DEF RingInv
<1>7. /\ n \in Nat /\ n < Capacity - 1
      /\ Distance(ReadFrom, tail)' = n + 1
      /\ Ahead(ReadFrom, n) = tail
  <2>1. ReadFrom \in Indices /\ NextIndex(tail) # ReadFrom /\ ReadFrom' = ReadFrom
    BY <1>1, <1>2, <1>3, <1>4 DEF ReadFrom
  <2>2. n \in 0 .. Capacity - 1 /\ n # Capacity - 1
    BY <2>1, <1>3, FullIs, DistanceType
  <2>3. Distance(ReadFrom, tail)' = Distance(ReadFrom, NextIndex(tail))
    BY <2>1, <1>1 DEF Distance
  <2>4. Distance(ReadFrom, tail)' = n + 1
    BY <2>1, <2>3, <1>3, TailMoves
  <2>5. Ahead(ReadFrom, n) = tail
    BY <2>1, <2>2, <1>3, AheadInside
  <2>6. QED BY <2>2, <2>4, <2>5, CapacityAssumption
<1>8. Ahead(ReadFrom, n) = tail /\ \A i \in 1 .. n + 1 : Ahead(ReadFrom, i - 1)' = Ahead(ReadFrom, i - 1)
  BY <1>7, <1>2 DEF Ahead, ReadFrom
<1>9. Queue' = [i \in 1 .. n + 1 |-> ring[Ahead(ReadFrom, i - 1)]]
  BY <1>2, <1>7, <1>8 DEF Queue
<1>10. Len(Queue) = n /\ Queue = [i \in 1 .. n |-> ring[Ahead(ReadFrom, i - 1)]]
  BY <1>7 DEF Queue
<1>11. Append(Queue, cur) = [i \in 1 .. n + 1 |-> IF i = n + 1 THEN cur ELSE ring[Ahead(ReadFrom, i - 1)]]
  BY <1>7, <1>10
<1>12. Queue' = Append(Queue, cur)
  BY <1>1, <1>7, <1>9, <1>11
<1>13. QED BY <1>6, <1>7, <1>10, <1>12 DEF Fifo!Put

(* The device thread applies the command at the head of the queue.         *)
LEMMA ApplyStep ==
    ASSUME RingInv, ApplyNext
    PROVE  RingInv' /\ Fifo!Take
<1> DEFINE n == Distance(dhead, tail)
<1>1. /\ dhead' = NextIndex(dhead) /\ NextIndex(dhead) \in Indices
      /\ dpc = "drain" /\ dhead # dtail
      /\ UNCHANGED <<pc, cur, live, ring, head, tail, dtail, dpc>>
  BY NextIndexIs DEF RingInv, ApplyNext, interpreterVars
<1>2. /\ head \in Indices /\ tail \in Indices /\ dhead \in Indices /\ dtail \in Indices
      /\ Distance(head, dhead) + Distance(dhead, tail) = Distance(head, tail)
      /\ Distance(dhead, dtail) + Distance(dtail, tail) = Distance(dhead, tail)
  BY <1>1 DEF RingInv
<1>3. /\ Distance(head, dhead) \in 0 .. Capacity - 1 /\ Distance(dhead, tail) \in 0 .. Capacity - 1
      /\ Distance(dhead, dtail) \in 0 .. Capacity - 1 /\ Distance(dtail, tail) \in 0 .. Capacity - 1
      /\ Distance(head, tail) \in 0 .. Capacity - 1
  BY <1>2, DistanceType
<1>4. Distance(dhead, dtail) # 0 /\ dhead # tail /\ NextIndex(dhead) # head
  <2>1. Distance(dhead, dtail) # 0
    BY <1>1, <1>2, NoDistance
  <2>2. Distance(dhead, tail) # 0 /\ Distance(head, dhead) # Capacity - 1
    BY <2>1, <1>2, <1>3, CapacityAssumption
  <2>3. QED BY <2>1, <2>2, <1>2, NoDistance, FullIs
<1>5. /\ Distance(dhead, tail)' = n - 1
      /\ Distance(dhead, dtail)' = Distance(dhead, dtail) - 1
      /\ Distance(head, dhead)' = Distance(head, dhead) + 1
      /\ Distance(head, tail)' = Distance(head, tail)
      /\ Distance(dtail, tail)' = Distance(dtail, tail)
  <2>1. /\ Distance(dhead, tail)' = Distance(NextIndex(dhead), tail)
        /\ Distance(dhead, dtail)' = Distance(NextIndex(dhead), dtail)
        /\ Distance(head, dhead)' = Distance(head, NextIndex(dhead))
        /\ Distance(head, tail)' = Distance(head, tail)
        /\ Distance(dtail, tail)' = Distance(dtail, tail)
    BY <1>1 DEF Distance
  <2>2. QED BY <2>1, <1>1, <1>2, <1>4, HeadMoves, TailMoves
<1>6. RingInv'
  <2>1. (/\ Distance(head, dhead) + Distance(dhead, tail) = Distance(head, tail)
         /\ Distance(dhead, dtail) + Distance(dtail, tail) = Distance(dhead, tail))'
    BY <1>2, <1>3, <1>5
  <2>2. RingFull' = RingFull
    BY <1>1 DEF RingFull, NextIndex
  <2>3. QED BY <2>1, <2>2, <1>1 DEF RingInv
<1>7. n \in Nat /\ n > 0 /\ n <= Capacity - 1 /\ Distance(dhead, tail)' = n - 1
  BY <1>2, <1>3, <1>4, <1>5, CapacityAssumption
<1>8. \A i \in 1 .. n - 1 : Ahead(dhead, i - 1)' = Ahead(dhead, i)
  <2>1. TAKE i \in 1 .. n - 1
  <2>2. i \in 1 .. Capacity - 1
    BY <1>7, CapacityAssumption
  <2>3. Ahead(dhead, i - 1)' = Ahead(NextIndex(dhead), i - 1)
    BY <1>1 DEF Ahead
  <2>4. QED BY <2>2, <2>3, <1>2, AheadShifts
<1>9. Len(Queue) = n /\ Queue = [i \in 1 .. n |-> ring[Ahead(dhead, i - 1)]]
  BY <1>1, <1>7 DEF Queue, ReadFrom
<1>10. Queue' = [i \in 1 .. n - 1 |-> ring[Ahead(dhead, i)]]
  BY <1>1, <1>7, <1>8 DEF Queue, ReadFrom
<1>11. Tail(Queue) = [i \in 1 .. n - 1 |-> Queue[i + 1]]
  BY <1>7, <1>9
<1>12. \A i \in 1 .. n - 1 : Queue[i + 1] = ring[Ahead(dhead, i)]
  BY <1>7, <1>9
<1>13. Queue' = Tail(Queue)
  BY <1>10, <1>11, <1>12
<1>14. Queue # <<>>
  BY <1>7, <1>9
<1>15. QED BY <1>6, <1>13, <1>14 DEF Fifo!Take

LEMMA Step ==
    ASSUME RingInv, [Next]_vars
    PROVE  RingInv' /\ (Queue' = Queue \/ Fifo!Put \/ Fifo!Take)
<1>1. CASE UNCHANGED vars
  BY <1>1, StaysInv DEF vars, RingStays, ringVars, interpreterVars
<1>2. CASE \/ TakePendingPatch \/ PublishSounding \/ CountRender \/ FireScheduled \/ PlayEnds \/ VoiceEnds
           \/ FreeCollected \/ ApplyOffline \/ Refuse \/ Release \/ Close \/ Bind \/ StorePatch
           \/ SequenceApplied \/ PollQuiet \/ Quiet \/ WaitOver
           \/ NoteOn \/ ForgetWord \/ SilenceWord \/ SequenceNote \/ PatchWord \/ WaitWord
  BY <1>2, OthersStay, StaysInv
<1>3. CASE StartDrain BY <1>3, StartDrainStep
<1>4. CASE ApplyNext BY <1>4, ApplyStep
<1>5. CASE PublishHead BY <1>5, PublishHeadStep
<1>6. CASE WriteCommand BY <1>6, WriteStep
<1>7. CASE PublishCommand BY <1>7, PublishStep
<1>8. CASE AudioOn \/ PlaySamples BY <1>8, OpenDeviceStep
<1>9. CASE AudioOff BY <1>9, AudioOffStep
<1>10. QED
  BY <1>1, <1>2, <1>3, <1>4, <1>5, <1>6, <1>7, <1>8, <1>9 DEF Next, Device, Polls

(* The four indices of the command ring keep their order round the ring,   *)
(* and a command is written where nothing is left to apply (synth_submit,  *)
(* synth_drain_commands, synth_set_live).                                  *)
THEOREM RingInvariant == Spec => []RingInv
<1>1. Init => RingInv BY Initially
<1>2. RingInv /\ [Next]_vars => RingInv' BY Step
<1>3. QED BY <1>1, <1>2, PTL DEF Spec

(* The ring implements the queue: the commands a program gives reach the   *)
(* engine in the order given, each once, through any number of renders and *)
(* of openings and closings of the device.                                 *)
THEOREM RingIsQueue == Spec => CommandsInOrder
<1>1. Init => Fifo!Init BY Initially DEF Fifo!Init
<1>2. RingInv /\ [Next]_vars => [Fifo!Put \/ Fifo!Take]_Queue BY Step
<1>3. QED BY <1>1, <1>2, RingInvariant, PTL DEF Spec, CommandsInOrder, Fifo!Spec

------------------------------------------------------------------------------
(* The safety properties.                                                  *)

(* The actions other than the two ends of the queue leave it as it is, and *)
(* the device thread applies its first command.                            *)
QueueActions ==
    \/ TakePendingPatch \/ StartDrain \/ PublishHead \/ PublishSounding \/ CountRender
    \/ FireScheduled \/ PlayEnds \/ VoiceEnds
    \/ FreeCollected \/ ApplyOffline \/ Refuse \/ WriteCommand \/ Release \/ Close \/ Bind \/ StorePatch
    \/ SequenceApplied \/ PollQuiet \/ Quiet \/ WaitOver
    \/ NoteOn \/ ForgetWord \/ SilenceWord \/ SequenceNote \/ AudioOn \/ PlaySamples \/ AudioOff
    \/ PatchWord \/ WaitWord \/ UNCHANGED vars

LEMMA QueueStays ==
    ASSUME RingInv, QueueActions
    PROVE  Queue' = Queue
<1>1. CASE UNCHANGED vars
  BY <1>1, StaysInv DEF vars, RingStays, ringVars, interpreterVars
<1>2. CASE \/ TakePendingPatch \/ PublishSounding \/ CountRender \/ FireScheduled \/ PlayEnds \/ VoiceEnds
           \/ FreeCollected \/ ApplyOffline \/ Refuse \/ Release \/ Close \/ Bind \/ StorePatch
           \/ SequenceApplied \/ PollQuiet \/ Quiet \/ WaitOver
           \/ NoteOn \/ ForgetWord \/ SilenceWord \/ SequenceNote \/ PatchWord \/ WaitWord
  BY <1>2, OthersStay, StaysInv
<1>3. CASE StartDrain BY <1>3, StartDrainStep
<1>4. CASE PublishHead BY <1>4, PublishHeadStep
<1>5. CASE WriteCommand BY <1>5, WriteStep
<1>6. CASE AudioOn \/ PlaySamples BY <1>6, OpenDeviceStep
<1>7. CASE AudioOff BY <1>7, AudioOffStep
<1>8. QED BY <1>1, <1>2, <1>3, <1>4, <1>5, <1>6, <1>7 DEF QueueActions

LEMMA AppliesHead ==
    ASSUME RingInv, ApplyNext
    PROVE  Len(Queue) \in Nat /\ Len(Queue) > 0 /\ Queue[1] = ring[dhead] /\ Queue' = Tail(Queue)
<1>1. dpc = "drain" /\ dhead \in Indices /\ dtail \in Indices /\ tail \in Indices /\ dhead # dtail
  BY DEF RingInv, ApplyNext
<1>2. /\ Distance(dhead, dtail) + Distance(dtail, tail) = Distance(dhead, tail)
      /\ Distance(dhead, tail) \in 0 .. Capacity - 1 /\ Distance(dhead, dtail) \in 0 .. Capacity - 1
      /\ Distance(dtail, tail) \in 0 .. Capacity - 1 /\ Distance(dhead, dtail) # 0
  BY <1>1, DistanceType, NoDistance DEF RingInv
<1>3. Distance(dhead, tail) \in Nat /\ Distance(dhead, tail) > 0
  BY <1>2, CapacityAssumption
<1>4. Len(Queue) = Distance(dhead, tail) /\ Queue[1] = ring[Ahead(dhead, 0)]
  BY <1>1, <1>3 DEF Queue, ReadFrom
<1>5. Ahead(dhead, 0) = dhead
  BY <1>1, CapacityAssumption DEF Ahead, Indices
<1>6. Queue' = Tail(Queue)
  BY ApplyStep DEF Fifo!Take
<1>7. QED BY <1>3, <1>4, <1>5, <1>6

LEMMA Publishes ==
    ASSUME RingInv, PublishCommand
    PROVE  Queue' = Append(Queue, cur)
BY PublishStep DEF Fifo!Put

(* The commands the words give.                                            *)
LEMMA CommandIs ==
    ASSUME TypeInv, NEW kind \in Kinds \ {"play", "off"}, NEW slot \in 0 .. MaxInstruments,
           slot # 0 <=> kind \in {"note", "forget"}
    PROVE  /\ Command(kind, slot) \in Commands
           /\ Command(kind, slot).kind = kind /\ Command(kind, slot).slot = slot
           /\ Command(kind, slot).sample = 0 /\ ~Command(kind, slot).scheduled
           /\ slot # 0 => Command(kind, slot).patch = wanted[slot]
<1>1. (IF slot = 0 THEN NoPatch ELSE wanted[slot]) \in Patch
  BY SizesAssumption DEF TypeInv, NoPatch, Patch, Slots
<1>2. QED BY <1>1 DEF Command, Commands, Forms, Kinds

LEMMA NoCommandIs == NoCommand \in Commands /\ NoCommand.sample = 0 /\ NoCommand.slot = 0 /\ NoCommand.kind = "none"
BY SizesAssumption DEF NoCommand, Commands, Forms, Kinds, NoPatch, Patch

(* Both events of a sequenced note.                                        *)
LEMMA ScheduledIs ==
    ASSUME NEW c \in Commands, c.kind = "note"
    PROVE  [c EXCEPT !.scheduled = TRUE] \in Commands
BY DEF Commands, Forms

LEMMA OffIs ==
    ASSUME NEW c \in Commands, c.kind = "note", c.scheduled
    PROVE  [c EXCEPT !.kind = "off"] \in Commands
BY DEF Commands, Forms, Kinds

LEMMA PlayIs ==
    ASSUME TypeInv, NEW sample \in Nat, sample # 0
    PROVE  /\ [Command("play", 0) EXCEPT !.sample = sample] \in Commands
           /\ [Command("play", 0) EXCEPT !.sample = sample].kind = "play"
           /\ [Command("play", 0) EXCEPT !.sample = sample].slot = 0
           /\ [Command("play", 0) EXCEPT !.sample = sample].sample = sample
<1> DEFINE c == Command("play", 0)
<1>1. NoPatch \in Patch
  BY DEF NoPatch, Patch
<1>2. c \in Forms /\ c.kind = "play" /\ c.slot = 0 /\ c.scheduled = FALSE
  BY <1>1, SizesAssumption DEF Command, Forms, Kinds
<1>3. QED BY <1>2 DEF Commands, Forms

(* What applying a command leaves of the engine.                           *)
LEMMA FinitePlaces ==
    ASSUME NEW S \in SUBSET Places
    PROVE  IsFiniteSet(S) /\ Cardinality(S) \in Nat
<1>1. IsFiniteSet(Places)
  BY SizesAssumption, FS_Interval DEF Places
<1>2. IsFiniteSet(S)
  BY <1>1, FS_Subset
<1>3. QED BY <1>2, FS_CardinalityType

LEMMA FreePlace ==
    ASSUME TypeInv, DOMAIN schedule # Places
    PROVE  (CHOOSE p \in Places : p \notin DOMAIN schedule) \in Places \ DOMAIN schedule
<1>1. \E p \in Places : p \notin DOMAIN schedule
  BY DEF TypeInv
<1>2. QED BY <1>1

LEMMA InsertType ==
    ASSUME TypeInv, NEW c \in Commands, c.scheduled, ScheduleInsert(c)
    PROVE  applied' \in Nat /\ DOMAIN schedule' \subseteq Places /\ schedule' \in [DOMAIN schedule' -> Events]
<1>1. CASE DOMAIN schedule = Places
  BY <1>1 DEF ScheduleInsert, TypeInv
<1>2. CASE DOMAIN schedule # Places
  <2> DEFINE free == CHOOSE p \in Places : p \notin DOMAIN schedule
  <2>1. free \in Places
    BY <1>2, FreePlace
  <2>2. /\ schedule' = [p \in DOMAIN schedule \cup {free} |-> IF p = free THEN Event(c) ELSE schedule[p]]
        /\ applied' = applied
    BY <1>2 DEF ScheduleInsert
  <2>3. Event(c) \in Events
    BY DEF Event, Events, Commands, Forms, Patch, Slots
  <2>4. schedule \in [DOMAIN schedule -> Events] /\ DOMAIN schedule \subseteq Places /\ applied \in Nat
    BY DEF TypeInv
  <2> HIDE DEF free
  <2>5. QED BY <2>1, <2>2, <2>3, <2>4
<1>3. QED BY <1>1, <1>2

LEMMA RestrictType ==
    ASSUME TypeInv, NEW S \in SUBSET DOMAIN schedule, schedule' = Restrict(schedule, S)
    PROVE  /\ DOMAIN schedule' = S /\ DOMAIN schedule' \subseteq Places /\ schedule' \in [DOMAIN schedule' -> Events]
           /\ \A p \in S : schedule'[p] = schedule[p]
BY DEF TypeInv, Restrict

LEMMA EmptyScheduleIs ==
    ASSUME NEW f, f = <<>>
    PROVE  DOMAIN f = {} /\ f \in [DOMAIN f -> Events]
BY DEF Events

LEMMA ApplyType ==
    ASSUME TypeInv, NEW c \in Commands, Apply(c)
    PROVE  /\ applied' \in Nat /\ instruments' = instruments
           /\ voices' \subseteq [slot : Slots, binding : Nat]
           /\ DOMAIN schedule' \subseteq Places /\ schedule' \in [DOMAIN schedule' -> Events]
<1>1. /\ applied \in Nat /\ voices \subseteq [slot : Slots, binding : Nat]
      /\ DOMAIN schedule \subseteq Places /\ schedule \in [DOMAIN schedule -> Events]
      /\ Scheduled \in Nat /\ \A s : Cardinality(EventsOf(s)) \in Nat
  BY FinitePlaces DEF TypeInv, Scheduled, EventsOf
<1>2. instruments' = instruments
  BY DEF Apply
<1>3. CASE c.scheduled /\ ScheduleInsert(c) /\ UNCHANGED <<voices, plays, sampleVars>>
  BY <1>1, <1>2, <1>3, InsertType
<1>4. CASE /\ c.kind = "note"
           /\ voices' = voices \cup {Note(c)} \/ voices' = voices
           /\ UNCHANGED <<plays, schedule, applied, sampleVars>>
  <2>1. Note(c) \in [slot : Slots, binding : Nat]
    BY <1>4 DEF Note, Commands, Forms, Slots, Patch
  <2>2. QED BY <2>1, <1>1, <1>2, <1>4
<1>5. CASE c.kind = "silence" /\ SilenceAll
  <2>1. voices' = {} /\ applied' = applied + Scheduled /\ schedule' = <<>>
    BY <1>5 DEF SilenceAll, ScheduleClear
  <2>2. QED BY <2>1, <1>1, <1>2, EmptyScheduleIs
<1>6. CASE UNCHANGED <<voices, schedule, applied>>
  BY <1>1, <1>2, <1>6
<1>7. CASE c.kind = "forget" /\ ForgetInstrument(c.slot)
  <2>1. /\ voices' \subseteq voices /\ applied' = applied + Cardinality(EventsOf(c.slot))
        /\ schedule' = Restrict(schedule, DOMAIN schedule \ EventsOf(c.slot))
    BY <1>7 DEF ForgetInstrument
  <2>2. applied' \in Nat
    <3>1. Cardinality(EventsOf(c.slot)) \in Nat
      BY <1>1
    <3>2. QED BY <3>1, <2>1, <1>1
  <2>3. DOMAIN schedule' \subseteq Places /\ schedule' \in [DOMAIN schedule' -> Events]
    <3>1. DOMAIN schedule \ EventsOf(c.slot) \in SUBSET DOMAIN schedule
      OBVIOUS
    <3>2. QED BY <3>1, <2>1, RestrictType
  <2>4. QED BY <2>1, <2>2, <2>3, <1>1, <1>2
<1>8. QED BY <1>3, <1>4, <1>5, <1>6, <1>7 DEF Apply

(* Types.                                                                  *)
TypeFrame == <<pc, dpc, words, submitted, applied, torn, sounding, cur, wanted, instruments, bound, pending,
               storing, passed, voices, schedule>>

LEMMA TypeStays ==
    ASSUME TypeInv, UNCHANGED TypeFrame, Queue' = Queue
    PROVE  TypeInv'
BY DEF TypeInv, TypeFrame

LEMMA AcceptedType ==
    ASSUME TypeInv, pc \in {"submit", "publish"}, Accepted, UNCHANGED <<words, bound, wanted, storing>>
    PROVE  /\ pc' \in Submitting \cup {"idle"} /\ submitted' \in Nat /\ cur' \in Commands
           /\ pc' \notin Submitting => cur' = NoCommand
           /\ pc' = "release" => cur'.kind = "forget"
<1>1. CASE cur.scheduled /\ cur.kind = "note"
  <2>1. cur' \in Commands
    BY <1>1, OffIs DEF Accepted, TypeInv
  <2>2. QED BY <2>1, <1>1 DEF Accepted, CollectFinished, TypeInv, Submitting
<1>2. CASE ~(cur.scheduled /\ cur.kind = "note")
  BY <1>2, NoCommandIs DEF Accepted, TypeInv, Submitting
<1>3. QED BY <1>1, <1>2

LEMMA TypeStep ==
    ASSUME RingInv, TypeInv, [Next]_vars
    PROVE  TypeInv'
<1> USE DEF interpreterVars, ringVars, engineVars, sampleVars
<1>0. ASSUME QueueActions
      PROVE  Queue' = Queue /\ Queue' \in Seq(Commands)
  BY <1>0, QueueStays DEF TypeInv
<1>1. CASE StartDrain
  BY <1>0, <1>1 DEF QueueActions, StartDrain, TypeInv, Submitting
<1>2. CASE WriteCommand
  BY <1>0, <1>2 DEF QueueActions, WriteCommand, TypeInv, Submitting
<1>3. CASE PublishHead
  BY <1>0, <1>3 DEF QueueActions, PublishHead, TypeInv, Submitting
<1>4. CASE PlayEnds
  BY <1>0, <1>4 DEF QueueActions, PlayEnds, TypeInv, Submitting
<1>5. CASE FreeCollected
  BY <1>0, <1>5 DEF QueueActions, FreeCollected, TypeInv, Submitting
<1>6. CASE Close
  BY <1>0, <1>6 DEF QueueActions, Close, TypeInv, Submitting
<1>7. CASE PollQuiet
  BY <1>0, <1>7 DEF QueueActions, PollQuiet, TypeInv, Submitting
<1>8. CASE TakePendingPatch
  <2>0. Queue' \in Seq(Commands)
    BY <1>0, <1>8 DEF QueueActions
  <2>1. PICK s \in toTake :
           /\ instruments' = [instruments EXCEPT ![s] = IF pending[s] = None THEN @ ELSE pending[s]]
           /\ pending' = [pending EXCEPT ![s] = None]
    BY <1>8 DEF TakePendingPatch, Lowest
  <2>2. instruments' \in [Slots -> Patch] /\ pending' \in [Slots -> Patch \cup {None}]
    BY <2>1 DEF TypeInv
  <2>3. QED BY <2>0, <2>2, <1>8 DEF TakePendingPatch, TypeInv
<1>9. CASE PublishSounding
  BY <1>0, <1>9 DEF QueueActions, PublishSounding, TypeInv
<1>10. CASE CountRender
  <2>0. Queue' \in Seq(Commands)
    BY <1>0, <1>10 DEF QueueActions
  <2>1. passed' \in [wait : 0 .. 2, released : [Slots -> 0 .. 2]]
    <3>1. \A i \in 0 .. 2 : OneMore(i) \in 0 .. 2
      BY DEF OneMore
    <3>2. passed.wait \in 0 .. 2 /\ passed.released \in [Slots -> 0 .. 2]
      BY DEF TypeInv
    <3>3. [s \in Slots |-> OneMore(passed.released[s])] \in [Slots -> 0 .. 2]
      BY <3>1, <3>2
    <3>4. QED BY <3>1, <3>2, <3>3, <1>10 DEF CountRender
  <2>2. QED BY <2>0, <2>1, <1>10 DEF CountRender, TypeInv
<1>11. CASE VoiceEnds
  BY <1>0, <1>11 DEF QueueActions, VoiceEnds, TypeInv
<1>12. CASE Refuse
  BY <1>0, <1>12, NoCommandIs DEF QueueActions, Refuse, TypeInv
<1>13. CASE Release
  <2>0. Queue' \in Seq(Commands)
    BY <1>0, <1>13 DEF QueueActions
  <2>1. passed' \in [wait : 0 .. 2, released : [Slots -> 0 .. 2]]
    BY <1>13 DEF Release, TypeInv
  <2>2. bound' = [s \in Slots |-> bound'[s]]
    BY <1>13 DEF Release, TypeInv
  <2>3. QED BY <2>0, <2>1, <2>2, NoCommandIs, <1>13 DEF Release, TypeInv, Submitting
<1>14. CASE Bind
  <2>0. Queue' \in Seq(Commands)
    BY <1>0, <1>14 DEF QueueActions
  <2>1. PICK s \in Slots :
           /\ bound' = [bound EXCEPT ![s] = storing.name]
           /\ storing' = [storing EXCEPT !.slot = s, !.patch = [binding |-> words, version |-> words]]
    BY <1>14 DEF Bind, Lowest
  <2>2. [binding |-> words, version |-> words] \in Patch
    BY DEF TypeInv, Patch
  <2>3. /\ bound' = [t \in Slots |-> bound'[t]]
        /\ storing' \in [name : Names \cup {None}, slot : 0 .. MaxInstruments, patch : Patch]
        /\ storing'.slot \in Slots
    <3>1. storing \in [name : Names \cup {None}, slot : 0 .. MaxInstruments, patch : Patch] /\ s \in 0 .. MaxInstruments
      BY DEF TypeInv, Slots
    <3>2. storing' \in [name : Names \cup {None}, slot : 0 .. MaxInstruments, patch : Patch] /\ storing'.slot = s
      BY <3>1, <2>1, <2>2
    <3>3. QED BY <3>2, <2>1 DEF TypeInv
  <2>4. pc' = "store" /\ UNCHANGED <<dpc, words, submitted, applied, torn, sounding, cur, wanted, instruments,
                                     pending, passed, voices, schedule>>
    BY <1>14 DEF Bind
  <2>5. pc = "bind"
    BY <1>14 DEF Bind
  <2>6. QED BY <2>0, <2>3, <2>4, <2>5 DEF TypeInv, Submitting
<1>15. CASE StorePatch
  <2>0. Queue' \in Seq(Commands)
    BY <1>0, <1>15 DEF QueueActions
  <2>1. storing.slot \in Slots /\ storing.patch \in Patch
    BY <1>15 DEF StorePatch, TypeInv
  <2>2. /\ wanted' \in [Slots -> Patch] /\ instruments' \in [Slots -> Patch]
        /\ pending' \in [Slots -> Patch \cup {None}]
    BY <2>1, <1>15 DEF StorePatch, TypeInv
  <2>3. storing' \in [name : Names \cup {None}, slot : 0 .. MaxInstruments, patch : Patch]
    BY <1>15, SizesAssumption DEF StorePatch, NoStore, NoPatch, Patch
  <2>4. QED BY <2>0, <2>2, <2>3, <1>15 DEF StorePatch, TypeInv, Submitting
<1>16. CASE SequenceApplied
  BY <1>0, <1>16 DEF QueueActions, SequenceApplied, TypeInv, Submitting, Waits, Waiting
<1>17. CASE Quiet
  BY <1>0, <1>17 DEF QueueActions, Quiet, TypeInv, Submitting, Waits, Waiting
<1>18. CASE WaitOver
  BY <1>0, <1>18 DEF QueueActions, WaitOver, TypeInv, Submitting, Waits, Waiting
<1>19. CASE NoteOn
  <2>1. PICK s \in Slots : StartWord(Command("note", s))
    BY <1>19 DEF NoteOn
  <2>2. cur' \in Commands
    BY <2>1, CommandIs DEF StartWord, Slots, Kinds
  <2>3. QED BY <2>1, <2>2, <1>0, <1>19 DEF QueueActions, NoteOn, TypeInv, StartWord, CollectFinished, WordUnchanged, Submitting
<1>20. CASE ForgetWord
  <2>1. PICK s \in Slots : StartWord(Command("forget", s))
    BY <1>20 DEF ForgetWord
  <2>2. cur' \in Commands
    BY <2>1, CommandIs DEF StartWord, Slots, Kinds
  <2>3. QED BY <2>1, <2>2, <1>0, <1>20 DEF QueueActions, ForgetWord, TypeInv, StartWord, CollectFinished, WordUnchanged, Submitting
<1>21. CASE SilenceWord
  <2>1. cur' \in Commands
    BY <1>21, CommandIs, SizesAssumption DEF SilenceWord, StartWord, Kinds
  <2>2. QED BY <2>1, <1>0, <1>21 DEF QueueActions, SilenceWord, TypeInv, StartWord, CollectFinished, WordUnchanged, Submitting
<1>22. CASE SequenceNote
  <2>1. PICK s \in Slots : StartWord([Command("note", s) EXCEPT !.scheduled = TRUE])
    BY <1>22 DEF SequenceNote
  <2>2. cur' \in Commands
    BY <2>1, CommandIs, ScheduledIs DEF StartWord, Slots, Kinds
  <2>3. words' \in Nat /\ pc' \in {"free", "submit"}
    BY <2>1, <2>2, <1>22 DEF StartWord, CollectFinished, TypeInv
  <2>4. Queue' \in Seq(Commands)
    BY <1>0, <1>22 DEF QueueActions
  <2>5. UNCHANGED <<dpc, submitted, applied, torn, sounding, wanted, instruments, bound, pending, storing, passed,
                   voices, schedule>>
    BY <1>22 DEF SequenceNote, WordUnchanged
  <2>6. QED BY <2>2, <2>3, <2>4, <2>5 DEF TypeInv, Submitting
<1>23. CASE AudioOn
  BY <1>0, <1>23 DEF QueueActions, AudioOn, TypeInv, WordUnchanged, OpenDevice, Submitting
<1>24. CASE PlaySamples
  <2>1. words + 1 \in Nat /\ words + 1 # 0
    BY DEF TypeInv
  <2>2. CASE StartWord([Command("play", 0) EXCEPT !.sample = words + 1])
    <3>1. cur' \in Commands
      BY <2>1, <2>2, PlayIs DEF StartWord
    <3>2. words' \in Nat /\ pc' \in {"free", "submit"}
      BY <3>1, <2>2, <1>24 DEF StartWord, CollectFinished, TypeInv
    <3>3. Queue' \in Seq(Commands)
      BY <1>0, <1>24 DEF QueueActions
    <3>4. UNCHANGED <<dpc, submitted, applied, torn, sounding, wanted, instruments, bound, pending, storing, passed,
                     voices, schedule>>
      BY <1>24 DEF PlaySamples, WordUnchanged
    <3>5. QED BY <3>1, <3>2, <3>3, <3>4 DEF TypeInv, Submitting
  <2>3. CASE words' = words + 1 /\ UNCHANGED <<pc, cur, collected>>
    BY <2>1, <2>3, <1>0, <1>24 DEF QueueActions, PlaySamples, TypeInv, WordUnchanged, Submitting
  <2>4. QED BY <2>2, <2>3, <1>24 DEF PlaySamples
<1>25. CASE AudioOff
  BY <1>0, <1>25 DEF QueueActions, AudioOff, TypeInv, Submitting, Waits
<1>26. CASE PatchWord
  <2>1. words' \in Nat /\ words' = words + 1
    BY <1>26 DEF PatchWord, TypeInv
  <2>2. PICK name \in Names :
           \/ \E s \in Slots :
                /\ bound[s] = name
                /\ storing' = [name |-> name, slot |-> s, patch |-> [wanted[s] EXCEPT !.version = words']]
                /\ pc' = "store"
           \/ /\ storing' = [NoStore EXCEPT !.name = name]
              /\ pc' = "bind"
    BY <1>26 DEF PatchWord
  <2>3. /\ storing' \in [name : Names \cup {None}, slot : 0 .. MaxInstruments, patch : Patch]
        /\ pc' \in {"bind", "store"}
        /\ pc' = "bind" => storing'.name # None
        /\ pc' = "store" => storing'.slot \in Slots
    <3>1. CASE /\ storing' = [NoStore EXCEPT !.name = name]
               /\ pc' = "bind"
      BY <3>1, NamesAssumption, SizesAssumption DEF NoStore, NoPatch, Patch
    <3>2. ASSUME NEW s \in Slots,
                 storing' = [name |-> name, slot |-> s, patch |-> [wanted[s] EXCEPT !.version = words']],
                 pc' = "store"
          PROVE  /\ storing' \in [name : Names \cup {None}, slot : 0 .. MaxInstruments, patch : Patch]
                 /\ storing'.slot \in Slots
      <4>1. [wanted[s] EXCEPT !.version = words'] \in Patch
        BY <2>1 DEF TypeInv, Patch
      <4>2. QED BY <3>2, <4>1, SizesAssumption DEF Slots
    <3>3. QED BY <3>1, <3>2, <2>2
  <2>4. QED BY <2>1, <2>3, <1>0, <1>26 DEF QueueActions, PatchWord, TypeInv, Submitting
<1>27. CASE WaitWord
  BY <1>0, <1>27 DEF QueueActions, WaitWord, TypeInv, Submitting, Waits, Waiting
<1>28. CASE FireScheduled
  <2>1. PICK p \in DOMAIN schedule :
           /\ schedule' = Restrict(schedule, DOMAIN schedule \ {p})
           /\ voices' = IF schedule[p].on THEN voices \cup {Voice(schedule[p])} ELSE voices
    BY <1>28 DEF FireScheduled
  <2>2. Voice(schedule[p]) \in [slot : Slots, binding : Nat]
    BY DEF Voice, TypeInv, Events
  <2>3. DOMAIN schedule' \subseteq Places /\ schedule' \in [DOMAIN schedule' -> Events]
    BY <2>1, RestrictType
  <2>4. Queue' \in Seq(Commands)
    BY <1>0, <1>28 DEF QueueActions
  <2>5. voices' \subseteq [slot : Slots, binding : Nat]
    BY <2>1, <2>2 DEF TypeInv
  <2>6. applied' \in Nat /\ UNCHANGED <<pc, dpc, words, submitted, torn, sounding, cur, wanted, instruments, bound,
                                        pending, storing, passed>>
    BY <1>28 DEF FireScheduled, TypeInv
  <2>7. QED BY <2>3, <2>4, <2>5, <2>6 DEF TypeInv
<1>29. CASE ApplyOffline
  <2>1. /\ applied' \in Nat /\ instruments' = instruments
        /\ voices' \subseteq [slot : Slots, binding : Nat]
        /\ DOMAIN schedule' \subseteq Places /\ schedule' \in [DOMAIN schedule' -> Events]
    BY <1>29, ApplyType DEF ApplyOffline, TypeInv
  <2>2. /\ pc' \in Submitting \cup {"idle"} /\ submitted' \in Nat /\ cur' \in Commands
        /\ pc' \notin Submitting => cur' = NoCommand
        /\ pc' = "release" => cur'.kind = "forget"
    BY <1>29, AcceptedType DEF ApplyOffline
  <2>3. QED BY <2>1, <2>2, <1>0, <1>29 DEF QueueActions, ApplyOffline, TypeInv, Submitting
<1>30. CASE PublishCommand
  <2>1. /\ pc' \in Submitting \cup {"idle"} /\ submitted' \in Nat /\ cur' \in Commands
        /\ pc' \notin Submitting => cur' = NoCommand
        /\ pc' = "release" => cur'.kind = "forget"
    BY <1>30, AcceptedType DEF PublishCommand
  <2>2. Queue' \in Seq(Commands)
    BY <1>30, Publishes, AppendProperties DEF TypeInv
  <2>3. QED BY <2>1, <2>2, <1>30 DEF PublishCommand, TypeInv, Submitting
<1>31. CASE ApplyNext
  <2>1. Queue' \in Seq(Commands) /\ ring[dhead] \in Commands
    <3>1. Len(Queue) > 0 /\ Queue[1] = ring[dhead] /\ Queue' = Tail(Queue) /\ Queue \in Seq(Commands)
      BY <1>31, AppliesHead DEF TypeInv
    <3>2. QED BY <3>1
  <2>2. /\ applied' \in Nat /\ instruments' = instruments
        /\ voices' \subseteq [slot : Slots, binding : Nat]
        /\ DOMAIN schedule' \subseteq Places /\ schedule' \in [DOMAIN schedule' -> Events]
    BY <2>1, <1>31, ApplyType DEF ApplyNext
  <2>3. QED BY <2>1, <2>2, <1>31 DEF ApplyNext, TypeInv
<1>32. CASE UNCHANGED vars
  BY <1>0, <1>32, TypeStays DEF QueueActions, TypeFrame, vars
<1>33. QED
  BY <1>1, <1>2, <1>3, <1>4, <1>5, <1>6, <1>7, <1>8, <1>9, <1>10, <1>11, <1>12, <1>13, <1>14, <1>15, <1>16, <1>17, <1>18, <1>19, <1>20, <1>21, <1>22, <1>23, <1>24, <1>25, <1>26, <1>27, <1>28, <1>29, <1>30, <1>31, <1>32 DEF Next, Device, Polls

(* Sequences of samples, each sample in them once.                         *)
LEMMA OnceAppend ==
    ASSUME NEW S, NEW q \in Seq(S), IsInjective(q), NEW x \in S, x \notin Range(q)
    PROVE  /\ Append(q, x) \in Seq(S) /\ IsInjective(Append(q, x)) /\ Range(Append(q, x)) = Range(q) \cup {x}
           /\ Len(Append(q, x)) = Len(q) + 1
<1>1. /\ Append(q, x) \in Seq(S) /\ Len(Append(q, x)) = Len(q) + 1 /\ Len(q) \in Nat
      /\ \A i \in 1 .. Len(q) : Append(q, x)[i] = q[i]
      /\ Append(q, x)[Len(q) + 1] = x
      /\ DOMAIN q = 1 .. Len(q) /\ DOMAIN Append(q, x) = 1 .. Len(q) + 1
  OBVIOUS
<1>2. \A i \in 1 .. Len(q) : q[i] # x
  BY <1>1 DEF Range
<1>3. IsInjective(Append(q, x))
  BY <1>1, <1>2 DEF IsInjective
<1>4. Range(Append(q, x)) = Range(q) \cup {x}
  <2>1. \A i \in 1 .. Len(q) + 1 : i \in 1 .. Len(q) \/ i = Len(q) + 1
    BY <1>1
  <2>2. \A i \in 1 .. Len(q) : i \in 1 .. Len(q) + 1
    BY <1>1
  <2>3. Len(q) + 1 \in 1 .. Len(q) + 1
    BY <1>1
  <2>4. QED BY <1>1, <2>1, <2>2, <2>3 DEF Range
<1>5. QED BY <1>1, <1>3, <1>4

LEMMA OncePart ==
    ASSUME NEW S, NEW q \in Seq(S), IsInjective(q), NEW m \in 1 .. Len(q) + 1, NEW n \in m - 1 .. Len(q)
    PROVE  /\ SubSeq(q, m, n) \in Seq(S) /\ IsInjective(SubSeq(q, m, n))
           /\ Range(SubSeq(q, m, n)) = {q[i] : i \in m .. n}
           /\ Len(SubSeq(q, m, n)) = n - m + 1
           /\ \A i \in 1 .. n - m + 1 : SubSeq(q, m, n)[i] = q[m + i - 1]
<1> DEFINE r == SubSeq(q, m, n)
<1>1. /\ r \in Seq(S) /\ Len(r) = n - m + 1 /\ DOMAIN r = 1 .. n - m + 1 /\ m \in Nat /\ n \in Nat
      /\ \A i \in 1 .. n - m + 1 : r[i] = q[m + i - 1] /\ m + i - 1 \in 1 .. Len(q)
  BY SubSeqProperties
<1>2. IsInjective(r)
  BY <1>1 DEF IsInjective
<1>3. \A i \in m .. n : i - m + 1 \in 1 .. n - m + 1 /\ r[i - m + 1] = q[i]
  BY <1>1
<1>4. \A i \in 1 .. n - m + 1 : m + i - 1 \in m .. n
  BY <1>1
<1>5. Range(r) = {q[i] : i \in m .. n}
  <2>1. Range(r) = {r[i] : i \in 1 .. n - m + 1}
    BY <1>1 DEF Range
  <2>2. \A i \in 1 .. n - m + 1 : r[i] \in {q[j] : j \in m .. n}
    BY <1>1, <1>4
  <2>3. \A i \in m .. n : q[i] \in {r[j] : j \in 1 .. n - m + 1}
    BY <1>3
  <2> HIDE DEF r
  <2>4. QED BY <2>1, <2>2, <2>3
<1>6. QED BY <1>1, <1>2, <1>5

\* What is left of q without its first n elements.
After(q, n) == SubSeq(q, n + 1, Len(q))

LEMMA OnceTail ==
    ASSUME NEW S, NEW q \in Seq(S), IsInjective(q), NEW n \in 0 .. Len(q)
    PROVE  /\ After(q, n) \in Seq(S) /\ IsInjective(After(q, n))
           /\ Range(After(q, n)) = {q[i] : i \in n + 1 .. Len(q)} /\ Len(After(q, n)) = Len(q) - n
<1> DEFINE m == n + 1
           z == Len(q)
<1>1. m \in 1 .. Len(q) + 1 /\ z \in m - 1 .. Len(q)
  OBVIOUS
<1>2. z - m + 1 = Len(q) - n
  OBVIOUS
<1> HIDE DEF m, z
<1>3. /\ SubSeq(q, m, z) \in Seq(S) /\ IsInjective(SubSeq(q, m, z))
      /\ Range(SubSeq(q, m, z)) = {q[i] : i \in m .. z} /\ Len(SubSeq(q, m, z)) = z - m + 1
  BY <1>1, OncePart
<1>4. /\ SubSeq(q, m, z) \in Seq(S) /\ IsInjective(SubSeq(q, m, z))
      /\ Range(SubSeq(q, m, z)) = {q[i] : i \in m .. z} /\ Len(SubSeq(q, m, z)) = Len(q) - n
  BY <1>2, <1>3
<1>5. QED BY <1>4 DEF m, z, After

LEMMA OnceConcat ==
    ASSUME NEW S, NEW q \in Seq(S), NEW r \in Seq(S), IsInjective(q), IsInjective(r), Range(q) \cap Range(r) = {}
    PROVE  q \o r \in Seq(S) /\ IsInjective(q \o r) /\ Range(q \o r) = Range(q) \cup Range(r) /\ Len(q \o r) = Len(q) + Len(r)
<1>1. /\ q \o r \in Seq(S) /\ Len(q \o r) = Len(q) + Len(r) /\ Len(q) \in Nat /\ Len(r) \in Nat
      /\ DOMAIN q = 1 .. Len(q) /\ DOMAIN r = 1 .. Len(r) /\ DOMAIN (q \o r) = 1 .. Len(q) + Len(r)
      /\ \A i \in 1 .. Len(q) + Len(r) : (q \o r)[i] = IF i <= Len(q) THEN q[i] ELSE r[i - Len(q)]
  OBVIOUS
<1>2. \A i \in 1 .. Len(q), j \in 1 .. Len(r) : q[i] # r[j]
  BY <1>1 DEF Range
<1>3. IsInjective(q \o r)
  <2>1. SUFFICES ASSUME NEW i \in 1 .. Len(q) + Len(r), NEW j \in 1 .. Len(q) + Len(r), (q \o r)[i] = (q \o r)[j]
                 PROVE  i = j
    BY <1>1 DEF IsInjective
  <2>2. CASE i <= Len(q) /\ j <= Len(q)
    BY <2>1, <2>2, <1>1 DEF IsInjective
  <2>3. CASE i > Len(q) /\ j > Len(q)
    <3>1. i - Len(q) \in 1 .. Len(r) /\ j - Len(q) \in 1 .. Len(r)
      BY <2>3, <1>1
    <3>2. r[i - Len(q)] = r[j - Len(q)]
      BY <2>1, <2>3, <1>1
    <3>3. i - Len(q) = j - Len(q)
      BY <3>1, <3>2 DEF IsInjective
    <3>4. QED BY <3>3, <1>1
  <2>4. CASE i <= Len(q) /\ j > Len(q)
    BY <2>1, <2>4, <1>1, <1>2
  <2>5. CASE i > Len(q) /\ j <= Len(q)
    BY <2>1, <2>5, <1>1, <1>2
  <2>6. QED BY <2>2, <2>3, <2>4, <2>5, <1>1
<1>4. Range(q \o r) = Range(q) \cup Range(r)
  BY RangeConcatenation
<1>5. QED BY <1>1, <1>3, <1>4

LEMMA OnceRemove ==
    ASSUME NEW S, NEW q \in Seq(S), IsInjective(q), NEW k \in 1 .. Len(q),
           NEW r, r = SubSeq(q, 1, k - 1) \o SubSeq(q, k + 1, Len(q))
    PROVE  r \in Seq(S) /\ IsInjective(r) /\ Range(r) = Range(q) \ {q[k]}
<1> DEFINE a == SubSeq(q, 1, k - 1)
           b == SubSeq(q, k + 1, Len(q))
<1>1. Len(q) \in Nat /\ k \in Nat /\ DOMAIN q = 1 .. Len(q)
  OBVIOUS
<1>2. a \in Seq(S) /\ IsInjective(a) /\ Range(a) = {q[i] : i \in 1 .. k - 1}
  <2>1. 1 \in 1 .. Len(q) + 1 /\ k - 1 \in 1 - 1 .. Len(q)
    BY <1>1
  <2>2. QED BY <2>1, OncePart
<1>3. b \in Seq(S) /\ IsInjective(b) /\ Range(b) = {q[i] : i \in k + 1 .. Len(q)}
  <2>1. k + 1 \in 1 .. Len(q) + 1 /\ Len(q) \in k + 1 - 1 .. Len(q)
    BY <1>1
  <2>2. QED BY <2>1, OncePart
<1>4. Range(a) \cap Range(b) = {}
  BY <1>1, <1>2, <1>3 DEF IsInjective
<1>5. r \in Seq(S) /\ IsInjective(r) /\ Range(r) = Range(a) \cup Range(b)
  <2> HIDE DEF a, b
  <2>1. r = a \o b
    BY DEF a, b
  <2>2. a \o b \in Seq(S) /\ IsInjective(a \o b) /\ Range(a \o b) = Range(a) \cup Range(b)
    <3>1. a \in Seq(S) /\ b \in Seq(S) /\ IsInjective(a) /\ IsInjective(b)
      BY <1>2, <1>3
    <3>2. \A x \in Seq(S), y \in Seq(S) : IsInjective(x) /\ IsInjective(y) /\ Range(x) \cap Range(y) = {}
             => x \o y \in Seq(S) /\ IsInjective(x \o y) /\ Range(x \o y) = Range(x) \cup Range(y)
      BY OnceConcat
    <3>3. QED BY <3>1, <3>2, <1>4
  <2>3. QED BY <2>1, <2>2
<1>6. Range(a) \cup Range(b) = Range(q) \ {q[k]}
  <2>1. \A i \in 1 .. Len(q) : i # k => i \in 1 .. k - 1 \/ i \in k + 1 .. Len(q)
    BY <1>1
  <2>2. \A i \in (1 .. k - 1) \cup (k + 1 .. Len(q)) : i \in 1 .. Len(q) /\ q[i] # q[k]
    BY <1>1 DEF IsInjective
  <2>3. Range(q) = {q[i] : i \in 1 .. Len(q)}
    BY <1>1 DEF Range
  <2> HIDE DEF a, b
  <2>4. \A x \in Range(a) \cup Range(b) : x \in Range(q) \ {q[k]}
    BY <1>2, <1>3, <2>2, <2>3
  <2>5. \A x \in Range(q) \ {q[k]} : x \in Range(a) \cup Range(b)
    BY <1>2, <1>3, <2>1, <2>3
  <2>6. QED BY <2>4, <2>5
<1>7. QED BY <1>5, <1>6

LEMMA EmptyOnce == \A S : <<>> \in Seq(S) /\ IsInjective(<<>>) /\ Range(<<>>) = {}
BY DEF IsInjective, Range

(* Where the samples are: the engine's plays, the ring of finished buffers *)
(* and those that are freed or lost.                                       *)
LEMMA Primes ==
    /\ IsInjective(plays)' = IsInjective(plays') /\ IsInjective(finished)' = IsInjective(finished')
    /\ Range(plays)' = Range(plays') /\ Range(finished)' = Range(finished')
BY DEF IsInjective, Range

LEMMA FinishedKeeps ==
    ASSUME EngineInv, NEW sample \in Samples, sample \notin HandedBack, PlayFinished(sample)
    PROVE  /\ finished' \in Seq(Samples) /\ IsInjective(finished') /\ Range(finished') \cap (freed' \cup lost') = {}
           /\ freed' \subseteq Samples /\ lost' \subseteq Samples /\ freed' \cap lost' = {}
           /\ Len(finished') >= Len(finished) /\ Len(finished') < Capacity
           /\ Range(finished') \cup freed' \cup lost' = HandedBack \cup {sample}
<1>1. CASE UNCHANGED <<finished, lost>> /\ freed' = freed \cup {sample}
  BY <1>1 DEF EngineInv, HandedBack
<1>2. CASE UNCHANGED <<finished, freed>> /\ lost' = lost \cup {sample}
  BY <1>2 DEF EngineInv, HandedBack
<1>3. CASE Len(finished) # Capacity - 1 /\ finished' = Append(finished, sample) /\ UNCHANGED <<freed, lost>>
  <2>1. /\ finished \in Seq(Samples) /\ IsInjective(finished) /\ sample \notin Range(finished) /\ Len(finished) \in Nat
        /\ Len(finished) < Capacity
    BY DEF EngineInv, HandedBack
  <2>2. Len(finished) + 1 < Capacity
    BY <2>1, <1>3, CapacityAssumption DEF PlayFinished
  <2>3. /\ finished' \in Seq(Samples) /\ IsInjective(finished') /\ Range(finished') = Range(finished) \cup {sample}
        /\ Len(finished') = Len(finished) + 1
    BY <1>3, <2>1, OnceAppend
  <2>4. QED BY <2>1, <2>2, <2>3, <1>3 DEF EngineInv, HandedBack
<1>4. QED BY <1>1, <1>2, <1>3 DEF PlayFinished

(* Silence hands back every play, as far as the ring has room.             *)
LEMMA SilenceKeeps ==
    ASSUME EngineInv, SilenceAll
    PROVE  /\ plays' = <<>>
           /\ finished' \in Seq(Samples) /\ IsInjective(finished') /\ Range(finished') \cap (freed' \cup lost') = {}
           /\ freed' \subseteq Samples /\ lost' \subseteq Samples /\ freed' \cap lost' = {}
           /\ Len(finished') >= Len(finished) /\ Len(finished') < Capacity
           /\ Range(finished') \cup freed' \cup lost' \subseteq EngineSamples
<1> DEFINE room == Capacity - 1 - Len(finished)
           kept == IF room < Len(plays) THEN room ELSE Len(plays)
<1>1. /\ plays \in Seq(Samples) /\ IsInjective(plays) /\ Len(plays) \in Nat
      /\ finished \in Seq(Samples) /\ IsInjective(finished) /\ Len(finished) \in Nat
      /\ Range(plays) = {plays[i] : i \in 1 .. Len(plays)} /\ Range(plays) \subseteq Samples
  BY DEF EngineInv, Range
<1>2. plays' = <<>>
  BY DEF SilenceAll
<1>3. CASE ~live
  <2>1. freed' = freed \cup Range(plays) /\ UNCHANGED <<finished, lost>>
    BY <1>1, <1>3 DEF SilenceAll
  <2>2. QED BY <1>1, <1>2, <2>1 DEF EngineInv, EngineSamples, HandedBack
<1>4. CASE live
  <2>1. /\ finished' = finished \o SubSeq(plays, 1, kept)
        /\ lost' = lost \cup {plays[i] : i \in kept + 1 .. Len(plays)}
        /\ freed' = freed
    BY <1>4 DEF SilenceAll
  <2>2. CASE kept \in Nat
    <3> DEFINE part == SubSeq(plays, 1, kept)
    <3>1. kept <= Len(plays) /\ 1 \in 1 .. Len(plays) + 1 /\ kept \in 1 - 1 .. Len(plays)
      BY <1>1, <2>2
    <3>2. part \in Seq(Samples) /\ IsInjective(part) /\ Range(part) = {plays[i] : i \in 1 .. kept} /\ Len(part) \in Nat
      BY <1>1, <3>1, OncePart
    <3>3. Len(part) = kept /\ kept <= room
      BY <1>1, <2>2, <3>1, OncePart, CapacityAssumption
    <3> HIDE DEF part, kept
    <3>4. /\ Range(part) \subseteq Range(plays)
          /\ {plays[i] : i \in kept + 1 .. Len(plays)} \subseteq Range(plays)
          /\ Range(part) \cap {plays[i] : i \in kept + 1 .. Len(plays)} = {}
      BY <1>1, <3>1, <3>2, <2>2 DEF IsInjective
    <3>5. Range(plays) \cap HandedBack = {}
      BY DEF EngineInv
    <3>6. Range(finished) \cap Range(part) = {}
      BY <3>4, <3>5 DEF HandedBack
    <3>7. \A x \in Seq(Samples), y \in Seq(Samples) : IsInjective(x) /\ IsInjective(y) /\ Range(x) \cap Range(y) = {}
            => /\ x \o y \in Seq(Samples) /\ IsInjective(x \o y) /\ Range(x \o y) = Range(x) \cup Range(y)
               /\ Len(x \o y) = Len(x) + Len(y)
      BY OnceConcat
    <3>8. finished' = finished \o part
      BY <2>1 DEF part
    <3>9. /\ finished' \in Seq(Samples) /\ IsInjective(finished') /\ Range(finished') = Range(finished) \cup Range(part)
          /\ Len(finished') = Len(finished) + Len(part)
      BY <1>1, <3>2, <3>6, <3>7, <3>8
    <3>10. Len(finished') >= Len(finished) /\ Len(finished') < Capacity
      BY <1>1, <3>2, <3>9, <3>3, CapacityAssumption
    <3>11. QED BY <1>1, <1>2, <2>1, <3>4, <3>5, <3>9, <3>10 DEF EngineInv, EngineSamples, HandedBack
  <2>3. CASE kept \notin Nat
    <3>1. Len(finished) < Capacity
      BY DEF EngineInv
    <3>2. QED BY <1>1, <2>3, <3>1, CapacityAssumption
  <2>4. QED BY <2>2, <2>3
<1>5. QED BY <1>3, <1>4

(* What a step of the engine does to the samples: the one it takes is in   *)
(* one of its places afterwards.                                           *)
EngineKept(taken) ==
    /\ EngineInv'
    /\ EngineSamples' \subseteq EngineSamples \cup taken
    /\ Len(finished') >= Len(finished)

LEMMA EngineKeptIs ==
    ASSUME EngineInv, words' = words, NEW taken,
           plays' \in Seq(Samples), IsInjective(plays'), finished' \in Seq(Samples), IsInjective(finished'),
           freed' \subseteq Samples, lost' \subseteq Samples, freed' \cap lost' = {},
           Range(finished') \cap (freed' \cup lost') = {},
           Range(plays') \cap (Range(finished') \cup freed' \cup lost') = {},
           Range(plays') \cup Range(finished') \cup freed' \cup lost' \subseteq EngineSamples \cup taken,
           Len(finished') >= Len(finished), Len(finished') < Capacity
    PROVE  EngineKept(taken)
<1>1. Samples' = Samples
  BY DEF Samples
<1>2. HandedBack' = Range(finished') \cup freed' \cup lost' /\ EngineSamples' = Range(plays') \cup HandedBack'
  BY Primes DEF HandedBack, EngineSamples
<1>3. EngineInv'
  BY <1>1, <1>2, Primes DEF EngineInv
<1>4. QED BY <1>2, <1>3 DEF EngineKept

LEMMA EngineStays ==
    ASSUME EngineInv, words' = words, NEW taken, UNCHANGED <<plays, finished, freed, lost>>
    PROVE  EngineKept(taken)
<1>1. Len(finished) \in Nat
  BY DEF EngineInv
<1>2. EngineInv' /\ EngineSamples' = EngineSamples
  BY Primes DEF EngineInv, EngineSamples, HandedBack, Samples
<1>3. QED BY <1>1, <1>2 DEF EngineKept

LEMMA ApplyKeeps ==
    ASSUME TypeInv, EngineInv, NEW c \in Commands, Apply(c), words' = words,
           c.sample # 0 => c.sample \in Samples /\ c.sample \notin EngineSamples
    PROVE  EngineKept({c.sample} \ {0})
<1> USE DEF sampleVars
<1>1. CASE UNCHANGED <<plays, sampleVars>>
  BY <1>1, EngineStays
<1>2. CASE SilenceAll
  <2>1. /\ plays' = <<>>
        /\ finished' \in Seq(Samples) /\ IsInjective(finished') /\ Range(finished') \cap (freed' \cup lost') = {}
        /\ freed' \subseteq Samples /\ lost' \subseteq Samples /\ freed' \cap lost' = {}
        /\ Len(finished') >= Len(finished) /\ Len(finished') < Capacity
        /\ Range(finished') \cup freed' \cup lost' \subseteq EngineSamples
    BY <1>2, SilenceKeeps
  <2>2. plays' \in Seq(Samples) /\ IsInjective(plays') /\ Range(plays') = {}
    BY <2>1, EmptyOnce
  <2>3. QED BY <2>1, <2>2, EngineKeptIs
<1>3. CASE c.kind = "play" /\ plays' = Append(plays, c.sample) /\ UNCHANGED sampleVars
  <2>1. c.sample \in Samples /\ c.sample \notin Range(plays) /\ c.sample \notin HandedBack /\ c.sample # 0
    BY <1>3 DEF Commands, EngineSamples
  <2>2. plays' \in Seq(Samples) /\ IsInjective(plays') /\ Range(plays') = Range(plays) \cup {c.sample}
    BY <1>3, <2>1, OnceAppend DEF EngineInv
  <2>3. /\ finished' \in Seq(Samples) /\ IsInjective(finished') /\ Range(finished') \cap (freed' \cup lost') = {}
        /\ freed' \subseteq Samples /\ lost' \subseteq Samples /\ freed' \cap lost' = {}
        /\ Len(finished') >= Len(finished) /\ Len(finished') < Capacity
        /\ Range(finished') \cup freed' \cup lost' = HandedBack /\ Range(plays) \cap HandedBack = {}
    BY <1>3 DEF EngineInv, HandedBack
  <2>4. QED BY <2>1, <2>2, <2>3, EngineKeptIs DEF EngineSamples
<1>4. CASE c.kind = "play" /\ PlayFinished(c.sample) /\ plays' = plays
  <2>1. c.sample \in Samples /\ c.sample \notin Range(plays) /\ c.sample \notin HandedBack /\ c.sample # 0
    BY <1>4 DEF Commands, EngineSamples
  <2>2. /\ finished' \in Seq(Samples) /\ IsInjective(finished') /\ Range(finished') \cap (freed' \cup lost') = {}
        /\ freed' \subseteq Samples /\ lost' \subseteq Samples /\ freed' \cap lost' = {}
        /\ Len(finished') >= Len(finished) /\ Len(finished') < Capacity
        /\ Range(finished') \cup freed' \cup lost' = HandedBack \cup {c.sample}
    BY <1>4, <2>1, FinishedKeeps
  <2>3. plays' \in Seq(Samples) /\ IsInjective(plays') /\ Range(plays') = Range(plays) /\ Range(plays) \cap HandedBack = {}
    BY <1>4 DEF EngineInv
  <2>4. QED BY <2>1, <2>2, <2>3, EngineKeptIs DEF EngineSamples
<1>5. QED BY <1>1, <1>2, <1>3, <1>4 DEF Apply

LEMMA EndKeeps ==
    ASSUME EngineInv, PlayEnds
    PROVE  EngineKept({})
<1>1. PICK k \in 1 .. Len(plays) :
         /\ PlayFinished(plays[k])
         /\ plays' = SubSeq(plays, 1, k - 1) \o SubSeq(plays, k + 1, Len(plays))
  BY DEF PlayEnds
<1>2. plays[k] \in Samples /\ plays[k] \in Range(plays) /\ plays[k] \notin HandedBack
  BY DEF EngineInv, Range
<1>3. /\ finished' \in Seq(Samples) /\ IsInjective(finished') /\ Range(finished') \cap (freed' \cup lost') = {}
      /\ freed' \subseteq Samples /\ lost' \subseteq Samples /\ freed' \cap lost' = {}
      /\ Len(finished') >= Len(finished) /\ Len(finished') < Capacity
      /\ Range(finished') \cup freed' \cup lost' = HandedBack \cup {plays[k]}
  BY <1>1, <1>2, FinishedKeeps
<1>4. plays' \in Seq(Samples) /\ IsInjective(plays') /\ Range(plays') = Range(plays) \ {plays[k]}
  BY <1>1, OnceRemove DEF EngineInv
<1>5. Range(plays) \cap HandedBack = {} /\ words' = words
  BY DEF EngineInv, PlayEnds, interpreterVars
<1>6. QED BY <1>2, <1>3, <1>4, <1>5, EngineKeptIs DEF EngineSamples

LEMMA FinishedIs ==
    ASSUME EngineInv
    PROVE  /\ finished \in Seq(Samples) /\ IsInjective(finished) /\ Len(finished) \in Nat
           /\ DOMAIN finished = 1 .. Len(finished) /\ Len(finished) < Capacity
<1>1. finished \in Seq(Samples) /\ IsInjective(finished) /\ Len(finished) < Capacity
  BY Zenon DEF EngineInv
<1>2. Len(finished) \in Nat /\ DOMAIN finished = 1 .. Len(finished)
  BY <1>1
<1>3. QED BY <1>1, <1>2

(* The interpreter frees buffers that came back, and one it could not give.*)
LEMMA FreeKeeps ==
    ASSUME EngineInv, words' = words, NEW n \in 0 .. Len(finished), NEW taken, taken \subseteq Samples,
           taken \cap EngineSamples = {},
           freed' = freed \cup {finished[i] : i \in 1 .. n} \cup taken,
           finished' = SubSeq(finished, n + 1, Len(finished)), lost' = lost, plays' = plays
    PROVE  EngineInv' /\ EngineSamples' \subseteq EngineSamples \cup taken
<1> DEFINE back == {finished[i] : i \in 1 .. n}
<1>1. /\ finished \in Seq(Samples) /\ IsInjective(finished) /\ Len(finished) \in Nat /\ DOMAIN finished = 1 .. Len(finished)
      /\ Len(finished) < Capacity
  BY FinishedIs
<1>2. /\ finished' \in Seq(Samples) /\ IsInjective(finished') /\ Range(finished') = {finished[i] : i \in n + 1 .. Len(finished)}
      /\ Len(finished') = Len(finished) - n
  <2>1. finished' = After(finished, n)
    BY DEF After
  <2>2. /\ After(finished, n) \in Seq(Samples) /\ IsInjective(After(finished, n))
        /\ Range(After(finished, n)) = {finished[i] : i \in n + 1 .. Len(finished)}
        /\ Len(After(finished, n)) = Len(finished) - n
    BY <1>1, OnceTail
  <2>3. QED BY <2>1, <2>2
<1>3. /\ back \subseteq Range(finished) /\ Range(finished') \subseteq Range(finished)
      /\ back \cap Range(finished') = {}
  <2>1. \A i \in 1 .. n, j \in n + 1 .. Len(finished) :
           i \in DOMAIN finished /\ j \in DOMAIN finished /\ finished[i] # finished[j]
    BY <1>1 DEF IsInjective
  <2>2. Range(finished) = {finished[i] : i \in DOMAIN finished}
    BY DEF Range
  <2>3. \A i \in 1 .. n : i \in DOMAIN finished
    BY <1>1
  <2>4. \A j \in n + 1 .. Len(finished) : j \in DOMAIN finished
    BY <1>1
  <2>5. back \subseteq Range(finished)
    BY <2>2, <2>3
  <2>6. Range(finished') \subseteq Range(finished)
    BY <1>2, <2>2, <2>4
  <2>7. back \cap Range(finished') = {}
    BY <1>2, <2>1
  <2>8. QED BY <2>5, <2>6, <2>7
<1>4. Len(finished') < Capacity
  BY <1>1, <1>2, CapacityAssumption
<1>5. freed' = freed \cup back \cup taken
  OBVIOUS
<1> HIDE DEF back
<1>6. Samples' = Samples
  BY DEF Samples
<1>7. HandedBack' = Range(finished') \cup freed' \cup lost' /\ EngineSamples' = Range(plays') \cup HandedBack'
  BY Primes DEF HandedBack, EngineSamples
<1>8. Range(finished) \subseteq Samples
  BY <1>1 DEF Range
<1>9. freed' \subseteq Samples
  BY <1>3, <1>5, <1>8 DEF EngineInv
<1>10. /\ Range(finished') \cap (freed' \cup lost') = {} /\ freed' \cap lost' = {}
       /\ Range(plays') \cap HandedBack' = {}
       /\ EngineSamples' \subseteq EngineSamples \cup taken
  BY <1>3, <1>5, <1>7 DEF EngineInv, HandedBack, EngineSamples
<1>11. QED BY <1>1, <1>2, <1>4, <1>6, <1>7, <1>9, <1>10, Primes DEF EngineInv

(* The two ends of the queue.                                              *)
LEMMA QueuedPut ==
    ASSUME TypeInv, SampleInv, Queue' = Queue \/ Queue' = Append(Queue, cur)
    PROVE  /\ Queued \subseteq Queued' /\ Queued' \subseteq Queued \cup Submitted
           /\ Queue' = Queue => Queued' = Queued
           /\ \A i, j \in 1 .. Len(Queue') : Queue'[i].sample = Queue'[j].sample /\ Queue'[i].sample # 0 => i = j
<1>1. Queue \in Seq(Commands) /\ Len(Queue) \in Nat
  BY DEF TypeInv
<1>2. \A i, j \in 1 .. Len(Queue) : Queue[i].sample = Queue[j].sample /\ Queue[i].sample # 0 => i = j
  BY DEF SampleInv
<1>3. CASE Queue' = Queue
  BY <1>2, <1>3 DEF Queued
<1>4. CASE Queue' = Append(Queue, cur)
  <2>1. /\ Len(Queue') = Len(Queue) + 1 /\ Queue'[Len(Queue) + 1] = cur
        /\ \A i \in 1 .. Len(Queue) : Queue'[i] = Queue[i]
    BY <1>1, <1>4
  <2>2. \A i \in 1 .. Len(Queue) + 1 : i \in 1 .. Len(Queue) \/ i = Len(Queue) + 1
    BY <1>1
  <2>3. \A i \in 1 .. Len(Queue) : i \in 1 .. Len(Queue) + 1
    BY <1>1
  <2>4. \A i \in 1 .. Len(Queue) : cur.sample # 0 => Queue[i].sample # cur.sample
    BY DEF SampleInv, Submitted, Queued
  <2>5. Queued' = {Queue'[i].sample : i \in 1 .. Len(Queue) + 1} \ {0}
    BY <2>1 DEF Queued
  <2>6. Queued \subseteq Queued' /\ Queued' \subseteq Queued \cup Submitted
    BY <2>1, <2>2, <2>3, <2>5 DEF Queued, Submitted
  <2>7. \A i, j \in 1 .. Len(Queue') : Queue'[i].sample = Queue'[j].sample /\ Queue'[i].sample # 0 => i = j
    BY <1>2, <2>1, <2>2, <2>4
  <2>8. Queue' # Queue
    BY <1>1, <2>1
  <2>9. QED BY <2>6, <2>7, <2>8
<1>5. QED BY <1>3, <1>4

LEMMA QueuedTaken ==
    ASSUME TypeInv, SampleInv, Queue' = Tail(Queue), Len(Queue) > 0
    PROVE  /\ Queued' \subseteq Queued /\ Queue[1].sample \notin Queued'
           /\ Queue[1].sample # 0 => Queue[1].sample \in Queued
           /\ \A i, j \in 1 .. Len(Queue') : Queue'[i].sample = Queue'[j].sample /\ Queue'[i].sample # 0 => i = j
<1>1. Queue \in Seq(Commands) /\ Len(Queue) \in Nat
  BY DEF TypeInv
<1>2. \A i, j \in 1 .. Len(Queue) : Queue[i].sample = Queue[j].sample /\ Queue[i].sample # 0 => i = j
  BY DEF SampleInv
<1>3. Len(Queue') = Len(Queue) - 1 /\ \A i \in 1 .. Len(Queue) - 1 : Queue'[i] = Queue[i + 1]
  BY <1>1
<1>4. \A i \in 1 .. Len(Queue) - 1 : i + 1 \in 1 .. Len(Queue) /\ i + 1 # 1
  BY <1>1
<1>5. 1 \in 1 .. Len(Queue)
  BY <1>1
<1>6. Queued' = {Queue'[i].sample : i \in 1 .. Len(Queue) - 1} \ {0}
  BY <1>3 DEF Queued
<1>7. Queued' \subseteq Queued
  BY <1>3, <1>4, <1>6 DEF Queued
<1>8. Queue[1].sample \notin Queued'
  BY <1>2, <1>3, <1>4, <1>5, <1>6
<1>9. Queue[1].sample # 0 => Queue[1].sample \in Queued
  BY <1>5 DEF Queued
<1>10. ASSUME NEW i \in 1 .. Len(Queue'), NEW j \in 1 .. Len(Queue'),
              Queue'[i].sample = Queue'[j].sample, Queue'[i].sample # 0
       PROVE  i = j
  <2>1. i + 1 = j + 1
    BY <1>2, <1>3, <1>4, <1>10
  <2>2. QED BY <2>1
<1>11. QED BY <1>7, <1>8, <1>9, <1>10

LEMMA AcceptedSample ==
    ASSUME TypeInv, Accepted
    PROVE  cur'.sample = 0 /\ Submitted' = {} /\ (pc' = "free" => collected' = Len(finished))
<1>1. cur \in Commands
  BY DEF TypeInv
<1>2. cur'.sample = 0
  BY <1>1, NoCommandIs DEF Accepted, Commands, Forms
<1>3. QED BY <1>2 DEF Submitted, Accepted, CollectFinished

(* Steps that leave the engine's samples where they are.                   *)
LEMMA SamplesStay ==
    ASSUME TypeInv, SampleInv, UNCHANGED <<plays, finished, freed, lost>>, Queue' = Queue,
           words' = words \/ words' = words + 1, cur'.sample \in {0, cur.sample},
           cur'.sample # 0 => pc' \in {"free", "submit", "publish"},
           pc' = "free" => collected' = Len(finished) \/ (pc = "free" /\ collected' = collected)
    PROVE  SampleInv'
<1>1. words \in Nat /\ Samples \subseteq Samples'
  BY DEF TypeInv, Samples
<1>2. /\ plays' \in Seq(Samples') /\ finished' \in Seq(Samples')
  BY <1>1, SeqMonotonic DEF SampleInv, EngineInv
<1>3. HandedBack' = HandedBack /\ EngineSamples' = EngineSamples
  BY Primes DEF HandedBack, EngineSamples
<1>4. EngineInv'
  BY <1>1, <1>2, <1>3, Primes DEF SampleInv, EngineInv
<1>5. Queued' = Queued /\ Submitted' \subseteq Submitted
  BY DEF Queued, Submitted
<1>6. Len(finished) \in Nat
  BY DEF SampleInv, EngineInv
<1>7. pc' = "free" => collected' \in 0 .. Len(finished')
  BY <1>6 DEF SampleInv
<1>8. QED BY <1>1, <1>3, <1>4, <1>5, <1>7 DEF SampleInv

(* Every action keeps each sample in one place.                            *)
SamplesStaying ==
    \/ TakePendingPatch \/ StartDrain \/ PublishHead \/ PublishSounding \/ CountRender \/ FireScheduled \/ VoiceEnds
    \/ WriteCommand \/ Release \/ Bind \/ StorePatch \/ SequenceApplied \/ Quiet \/ WaitOver
    \/ NoteOn \/ ForgetWord \/ SilenceWord \/ SequenceNote \/ AudioOn \/ AudioOff \/ PatchWord \/ WaitWord
    \/ UNCHANGED vars

LEMMA SamplesStayStep ==
    ASSUME RingInv, TypeInv, SampleInv, SamplesStaying
    PROVE  SampleInv'
<1> USE DEF interpreterVars, ringVars, engineVars, sampleVars
<1> DEFINE Stay == /\ UNCHANGED <<plays, finished, freed, lost>>
                   /\ words' = words \/ words' = words + 1
                   /\ cur'.sample \in {0, cur.sample}
                   /\ cur'.sample # 0 => pc' \in {"free", "submit", "publish"}
                   /\ pc' = "free" => collected' = Len(finished) \/ (pc = "free" /\ collected' = collected)
<1>a. Queue' = Queue
  BY QueueStays DEF QueueActions, SamplesStaying
<1>b. /\ cur.sample # 0 => pc \in {"free", "submit", "publish"}
      /\ pc \notin Submitting => cur.sample = 0
      /\ cur.kind = "forget" => cur.sample = 0
  BY NoCommandIs DEF SampleInv, TypeInv, Commands
<1>1. ASSUME TakePendingPatch PROVE Stay
  BY <1>b, <1>1 DEF TakePendingPatch
<1>2. ASSUME StartDrain PROVE Stay
  BY <1>b, <1>2 DEF StartDrain
<1>3. ASSUME PublishHead PROVE Stay
  BY <1>b, <1>3 DEF PublishHead
<1>4. ASSUME PublishSounding PROVE Stay
  BY <1>b, <1>4 DEF PublishSounding
<1>5. ASSUME CountRender PROVE Stay
  BY <1>b, <1>5 DEF CountRender
<1>6. ASSUME FireScheduled PROVE Stay
  BY <1>b, <1>6 DEF FireScheduled
<1>7. ASSUME VoiceEnds PROVE Stay
  BY <1>b, <1>7 DEF VoiceEnds
<1>8. ASSUME WriteCommand PROVE Stay
  BY <1>b, <1>8 DEF WriteCommand
<1>9. ASSUME Release PROVE Stay
  BY <1>b, <1>9, NoCommandIs DEF Release
<1>10. ASSUME Bind PROVE Stay
  BY <1>b, <1>10 DEF Bind, Submitting
<1>11. ASSUME StorePatch PROVE Stay
  BY <1>b, <1>11 DEF StorePatch, Submitting
<1>12. ASSUME SequenceApplied PROVE Stay
  BY <1>b, <1>12 DEF SequenceApplied, Submitting
<1>13. ASSUME Quiet PROVE Stay
  BY <1>b, <1>13 DEF Quiet, Submitting
<1>14. ASSUME WaitOver PROVE Stay
  BY <1>b, <1>14 DEF WaitOver, Submitting, Waiting
<1>15. ASSUME NoteOn PROVE Stay
  <2>1. PICK s \in Slots : StartWord(Command("note", s))
    BY <1>15 DEF NoteOn
  <2>2. cur'.sample = 0
    BY <2>1, CommandIs DEF StartWord, Slots, Kinds
  <2>3. QED BY <2>1, <2>2, <1>15 DEF NoteOn, StartWord, CollectFinished, WordUnchanged
<1>16. ASSUME ForgetWord PROVE Stay
  <2>1. PICK s \in Slots : StartWord(Command("forget", s))
    BY <1>16 DEF ForgetWord
  <2>2. cur'.sample = 0
    BY <2>1, CommandIs DEF StartWord, Slots, Kinds
  <2>3. QED BY <2>1, <2>2, <1>16 DEF ForgetWord, StartWord, CollectFinished, WordUnchanged
<1>17. ASSUME SilenceWord PROVE Stay
  <2>1. cur'.sample = 0
    BY <1>17, CommandIs, SizesAssumption DEF SilenceWord, StartWord, Kinds
  <2>2. QED BY <2>1, <1>17 DEF SilenceWord, StartWord, CollectFinished, WordUnchanged
<1>18. ASSUME SequenceNote PROVE Stay
  <2>1. PICK s \in Slots : StartWord([Command("note", s) EXCEPT !.scheduled = TRUE])
    BY <1>18 DEF SequenceNote
  <2>2. Command("note", s) \in Commands /\ Command("note", s).sample = 0
    BY CommandIs DEF Slots, Kinds
  <2>3. cur'.sample = 0
    BY <2>1, <2>2 DEF StartWord, Commands, Forms
  <2>4. StartWord([Command("note", s) EXCEPT !.scheduled = TRUE]) /\ WordUnchanged /\ freed' = freed
    BY <2>1, <1>18 DEF SequenceNote
  <2>5. QED BY <2>3, <2>4 DEF StartWord, CollectFinished, WordUnchanged
<1>19. ASSUME AudioOn PROVE Stay
  BY <1>b, <1>19 DEF AudioOn, WordUnchanged, Submitting
<1>20. ASSUME AudioOff PROVE Stay
  BY <1>b, <1>20 DEF AudioOff, Submitting
<1>21. ASSUME PatchWord PROVE Stay
  BY <1>b, <1>21 DEF PatchWord, Submitting
<1>22. ASSUME WaitWord PROVE Stay
  BY <1>b, <1>22 DEF WaitWord, Submitting
<1>23. ASSUME UNCHANGED vars PROVE Stay
  BY <1>b, <1>23 DEF vars
<1>z. Stay
  BY <1>1, <1>2, <1>3, <1>4, <1>5, <1>6, <1>7, <1>8, <1>9, <1>10, <1>11, <1>12, <1>13, <1>14, <1>15, <1>16, <1>17, <1>18, <1>19, <1>20, <1>21, <1>22, <1>23 DEF SamplesStaying
<1> QED BY <1>a, <1>z, SamplesStay

LEMMA SampleStep ==
    ASSUME RingInv, TypeInv, SampleInv, [Next]_vars
    PROVE  SampleInv'
<1> USE DEF interpreterVars, ringVars, engineVars, sampleVars
<1>1. EngineInv /\ words \in Nat /\ cur \in Commands /\ Queue \in Seq(Commands)
  BY DEF SampleInv, TypeInv
<1>2. /\ cur.sample # 0 => /\ cur.sample \in Samples /\ cur.sample \notin EngineSamples
                           /\ cur.sample \notin Queued /\ pc \in {"free", "submit", "publish"}
      /\ Submitted \cap EngineSamples = {}
  BY DEF SampleInv, Submitted
<1>3. ASSUME QueueActions
      PROVE  /\ Queue' = Queue /\ Queued' = Queued
             /\ \A i, j \in 1 .. Len(Queue') : Queue'[i].sample = Queue'[j].sample /\ Queue'[i].sample # 0 => i = j
  BY <1>3, QueueStays, QueuedPut
<1>4. CASE SamplesStaying
  BY <1>4, SamplesStayStep
<1>5. CASE PlayEnds
  <2>1. EngineKept({}) /\ words' = words /\ UNCHANGED <<pc, cur, collected>>
    BY <1>1, <1>5, EndKeeps DEF PlayEnds
  <2>2. Queued' = Queued /\ Submitted' = Submitted /\ Samples' = Samples
    BY <1>3, <1>5, <2>1 DEF QueueActions, Submitted, Samples
  <2>3. pc' = "free" => collected' \in 0 .. Len(finished')
    BY <2>1 DEF SampleInv, EngineKept, EngineInv
  <2>4. QED BY <1>3, <1>5, <2>1, <2>2, <2>3 DEF SampleInv, EngineKept, QueueActions
<1>6. CASE FreeCollected \/ PollQuiet
  <2>1. PICK n \in 0 .. Len(finished) :
           /\ freed' = freed \cup {finished[i] : i \in 1 .. n}
           /\ finished' = SubSeq(finished, n + 1, Len(finished))
    <3>1. CASE FreeCollected
      BY <3>1 DEF FreeCollected, SampleInv
    <3>2. CASE PollQuiet
      <4>1. Len(finished) \in Nat
        BY <1>1 DEF EngineInv
      <4>2. SubSeq(finished, Len(finished) + 1, Len(finished)) = <<>>
        BY <4>1, SubSeqEmpty
      <4>3. Len(finished) \in 0 .. Len(finished)
        BY <4>1
      <4>4. QED BY <3>2, <4>2, <4>3 DEF PollQuiet
    <3>3. QED BY <1>6, <3>1, <3>2
  <2>2. UNCHANGED <<words, cur, lost, plays>> /\ pc' # "free" /\ (cur.sample # 0 => pc' = "submit")
    BY <1>2, <1>6 DEF FreeCollected, PollQuiet
  <2>3. EngineInv' /\ EngineSamples' \subseteq EngineSamples \cup {}
    BY <1>1, <2>1, <2>2, FreeKeeps
  <2>4. Queued' = Queued /\ Submitted' = Submitted /\ Samples' = Samples
    BY <1>3, <1>6, <2>2 DEF QueueActions, Submitted, Samples
  <2>5. QED BY <1>3, <1>6, <2>2, <2>3, <2>4 DEF SampleInv, QueueActions
<1>7. CASE Refuse
  <2>1. cur' = NoCommand /\ pc' = "idle" /\ UNCHANGED <<words, plays, finished, lost>>
    BY <1>7 DEF Refuse
  <2>2. cur'.sample = 0 /\ Submitted' = {} /\ Samples' = Samples
    BY <2>1, NoCommandIs DEF Submitted, Samples
  <2>3. freed' = freed \/ (freed' = freed \cup Submitted /\ Submitted \subseteq Samples)
    BY <1>1, <1>2, <1>7 DEF Refuse, Commands, Submitted
  <2>4. EngineInv' /\ EngineSamples' \subseteq EngineSamples \cup Submitted
    BY <1>1, <1>2, <2>1, <2>2, <2>3, Primes DEF EngineInv, EngineSamples, HandedBack
  <2>5. Queued' = Queued
    BY <1>3, <1>7 DEF QueueActions
  <2>6. QED BY <1>3, <1>7, <2>1, <2>2, <2>4, <2>5 DEF SampleInv, QueueActions
<1>8. CASE PlaySamples
  <2> DEFINE sample == words + 1
  <2>1. words' = words + 1 \/ words' = words
    BY <1>8 DEF PlaySamples, StartWord
  <2>2. sample \in Nat /\ sample # 0 /\ sample \notin Samples
    BY <1>1 DEF Samples
  <2>3. words' = sample /\ UNCHANGED <<plays, finished, lost>>
    BY <1>8 DEF PlaySamples, StartWord, WordUnchanged
  <2>4. Samples' = Samples \cup {sample}
    BY <1>1, <2>3 DEF Samples
  <2>5. plays \in Seq(Samples') /\ finished \in Seq(Samples')
    BY <1>1, <2>4, SeqMonotonic DEF EngineInv
  <2>6. Range(plays) \subseteq Samples /\ Range(finished) \subseteq Samples
    BY <1>1 DEF EngineInv, Range
  <2>7. Queued' = Queued
    BY <1>3, <1>8 DEF QueueActions
  <2>8. CASE StartWord([Command("play", 0) EXCEPT !.sample = sample]) /\ freed' = freed
    <3>1. Submitted' = {sample} /\ pc' \in {"free", "submit"} /\ collected' = Len(finished)
      BY <2>2, <2>8, PlayIs DEF StartWord, CollectFinished, Submitted
    <3>2. EngineInv' /\ EngineSamples' = EngineSamples /\ EngineSamples \subseteq Samples
      BY <1>1, <2>3, <2>4, <2>5, <2>6, <2>8, Primes DEF EngineInv, EngineSamples, HandedBack
    <3>3. pc' = "free" => collected' \in 0 .. Len(finished')
      BY <1>1, <2>3, <3>1 DEF EngineInv
    <3>4. QED BY <1>3, <1>8, <2>2, <2>4, <2>7, <3>1, <3>2, <3>3 DEF SampleInv, QueueActions
  <2>9. CASE freed' = freed \cup {sample} /\ UNCHANGED <<pc, cur, collected>>
    <3>1. Submitted' = {}
      BY <1>2, <1>8, <2>9 DEF PlaySamples, Submitted
    <3>2. EngineInv' /\ EngineSamples' = EngineSamples \cup {sample}
      BY <1>1, <2>2, <2>3, <2>4, <2>5, <2>6, <2>9, Primes DEF EngineInv, EngineSamples, HandedBack
    <3>3. pc = "idle"
      BY <1>8 DEF PlaySamples
    <3>4. QED BY <1>2, <1>3, <1>8, <2>2, <2>4, <2>7, <2>9, <3>1, <3>2, <3>3 DEF SampleInv, QueueActions
  <2>10. QED BY <1>8, <2>8, <2>9 DEF PlaySamples
<1>9. CASE ApplyOffline
  <2>1. EngineKept({cur.sample} \ {0})
    BY <1>1, <1>2, <1>9, ApplyKeeps DEF ApplyOffline
  <2>2. /\ cur'.sample = 0 /\ Submitted' = {} /\ words' = words
        /\ pc' = "free" => collected' = Len(finished)
    BY <1>9, AcceptedSample DEF ApplyOffline
  <2>3. Queued' = Queued /\ Samples' = Samples /\ Queued \cap Submitted = {}
    BY <1>3, <1>9, <2>2 DEF QueueActions, Samples, SampleInv
  <2>4. pc' = "free" => collected' \in 0 .. Len(finished')
    BY <1>1, <2>1, <2>2 DEF EngineKept, EngineInv
  <2>5. EngineInv' /\ EngineSamples' \subseteq EngineSamples \cup Submitted
    BY <2>1 DEF EngineKept, Submitted
  <2>6. QED BY <1>3, <1>9, <2>2, <2>3, <2>4, <2>5 DEF SampleInv, QueueActions
<1>10. CASE PublishCommand
  <2>1. Queue' = Append(Queue, cur)
    BY <1>10, Publishes
  <2>2. /\ Queued' \subseteq Queued \cup Submitted
        /\ \A i, j \in 1 .. Len(Queue') : Queue'[i].sample = Queue'[j].sample /\ Queue'[i].sample # 0 => i = j
    BY <2>1, QueuedPut
  <2>3. /\ cur'.sample = 0 /\ Submitted' = {}
        /\ pc' = "free" => collected' = Len(finished)
    BY <1>10, AcceptedSample DEF PublishCommand
  <2>4. UNCHANGED <<words, plays, finished, freed, lost>>
    BY <1>10 DEF PublishCommand
  <2>5. Samples' = Samples /\ EngineInv' /\ EngineSamples' = EngineSamples
    BY <1>1, <2>4, Primes DEF Samples, EngineInv, EngineSamples, HandedBack
  <2>6. pc' = "free" => collected' \in 0 .. Len(finished')
    BY <1>1, <2>3, <2>4 DEF EngineInv
  <2>7. QED BY <2>2, <2>3, <2>5, <2>6 DEF SampleInv
<1>11. CASE ApplyNext
  <2> DEFINE c == ring[dhead]
  <2>1. Len(Queue) > 0 /\ Queue[1] = c /\ Queue' = Tail(Queue)
    BY <1>11, AppliesHead
  <2>2. /\ Queued' \subseteq Queued /\ c.sample \notin Queued'
        /\ c.sample # 0 => c.sample \in Queued
        /\ \A i, j \in 1 .. Len(Queue') : Queue'[i].sample = Queue'[j].sample /\ Queue'[i].sample # 0 => i = j
    BY <2>1, QueuedTaken
  <2>3. c \in Commands
    BY <1>1, <2>1
  <2>4. UNCHANGED <<pc, words, cur, collected>> /\ Apply(c)
    BY <1>11 DEF ApplyNext
  <2>5. c.sample # 0 => c.sample \in Samples /\ c.sample \notin EngineSamples /\ c.sample \notin Submitted
    BY <2>2 DEF SampleInv
  <2>6. EngineKept({c.sample} \ {0})
    BY <1>1, <2>3, <2>4, <2>5, ApplyKeeps
  <2>7. Submitted' = Submitted /\ Samples' = Samples
    BY <2>4 DEF Submitted, Samples
  <2>8. pc' = "free" => collected' \in 0 .. Len(finished')
    BY <1>1, <2>4, <2>6 DEF SampleInv, EngineKept, EngineInv
  <2> HIDE DEF c
  <2>9. EngineInv' /\ EngineSamples' \subseteq EngineSamples \cup ({c.sample} \ {0})
    BY <2>6 DEF EngineKept
  <2>10. (Submitted \cup Queued') \cap EngineSamples' = {}
    BY <2>2, <2>5, <2>9 DEF SampleInv
  <2>11. QED BY <2>2, <2>4, <2>7, <2>8, <2>9, <2>10 DEF SampleInv
<1>12. CASE Close
  <2>1. /\ Range(finished) = {finished[i] : i \in 1 .. Len(finished)}
        /\ Range(plays) = {plays[i] : i \in 1 .. Len(plays)}
        /\ Range(plays) \subseteq Samples /\ Range(finished) \subseteq Samples
    BY <1>1 DEF EngineInv, Range
  <2>2. /\ freed' = freed \cup Range(finished) \cup Range(plays) /\ finished' = <<>> /\ plays' = <<>>
        /\ UNCHANGED <<words, cur, lost>> /\ pc' = "idle" /\ pc = "closing"
    BY <2>1, <1>12 DEF Close
  <2>3. Submitted' = Submitted /\ Submitted = {} /\ Samples' = Samples /\ Queued' = Queued
    BY <1>2, <1>3, <1>12, <2>2 DEF Submitted, Samples, QueueActions
  <2>4. /\ plays' \in Seq(Samples) /\ finished' \in Seq(Samples) /\ IsInjective(plays') /\ IsInjective(finished')
        /\ Range(plays') = {} /\ Range(finished') = {} /\ Len(finished') = 0
    BY <2>2, EmptyOnce
  <2>5. EngineInv' /\ EngineSamples' \subseteq EngineSamples
    BY <1>1, <2>1, <2>2, <2>3, <2>4, Primes, CapacityAssumption DEF EngineInv, EngineSamples, HandedBack
  <2>6. QED BY <1>2, <1>3, <1>12, <2>2, <2>3, <2>5 DEF SampleInv, QueueActions
<1>13. QED
  BY <1>4, <1>5, <1>6, <1>7, <1>8, <1>9, <1>10, <1>11, <1>12 DEF Next, Device, Polls, SamplesStaying

(* What follows of where a sample is.                                      *)
LEMMA HeldOnce ==
    ASSUME TypeInv, SampleInv
    PROVE  SampleHeldOnce
<1> SUFFICES ASSUME NEW sample \in 1 .. words
             PROVE  Cardinality(Holders(sample)) <= 1
  BY DEF SampleHeldOnce
<1>1. sample # 0 /\ sample \in Samples
  BY DEF TypeInv, Samples
<1> DEFINE inQueue == {j \in 1 .. Len(Queue) : Queue[j].sample = sample}
           inPlays == {j \in 1 .. Len(plays) : plays[j] = sample}
           inFinished == {j \in 1 .. Len(finished) : finished[j] = sample}
           AtMostOne(S) == \A x, y \in S : x = y
<1>2. AtMostOne(inQueue) /\ AtMostOne(inPlays) /\ AtMostOne(inFinished)
  BY <1>1 DEF SampleInv, EngineInv, IsInjective
<1>3. /\ cur.sample = sample => sample \in Submitted
      /\ inQueue # {} => sample \in Queued
      /\ inPlays # {} => sample \in Range(plays)
      /\ inFinished # {} => sample \in Range(finished)
  BY <1>1 DEF Submitted, Queued, Range, SampleInv, EngineInv
<1>4. /\ Submitted \cap (Queued \cup Range(plays) \cup Range(finished) \cup freed \cup lost) = {}
      /\ Queued \cap (Range(plays) \cup Range(finished) \cup freed \cup lost) = {}
      /\ Range(plays) \cap (Range(finished) \cup freed \cup lost) = {}
      /\ Range(finished) \cap (freed \cup lost) = {} /\ freed \cap lost = {}
  BY DEF SampleInv, EngineInv, EngineSamples, HandedBack
<1>5. /\ cur.sample = sample => inQueue = {} /\ inPlays = {} /\ inFinished = {} /\ sample \notin freed /\ sample \notin lost
      /\ inQueue # {} => inPlays = {} /\ inFinished = {} /\ sample \notin freed /\ sample \notin lost
      /\ inPlays # {} => inFinished = {} /\ sample \notin freed /\ sample \notin lost
      /\ inFinished # {} => sample \notin freed /\ sample \notin lost
      /\ sample \in freed => sample \notin lost
  BY <1>3, <1>4
<1> HIDE DEF inQueue, inPlays, inFinished
<1>6. Holders(sample) \subseteq
        (IF cur.sample = sample THEN {<<"submit", 0>>} ELSE {})
        \cup {<<"queue", i>> : i \in inQueue} \cup {<<"plays", i>> : i \in inPlays}
        \cup {<<"finished", i>> : i \in inFinished}
        \cup (IF sample \in freed THEN {<<"freed", 0>>} ELSE {}) \cup (IF sample \in lost THEN {<<"lost", 0>>} ELSE {})
  BY DEF Holders, inQueue, inPlays, inFinished
<1>7. \A x, y \in Holders(sample) : x = y
  BY <1>2, <1>5, <1>6
<1>8. CASE Holders(sample) = {}
  BY <1>8, FS_EmptySet
<1>9. CASE Holders(sample) # {}
  <2>1. PICK h : h \in Holders(sample)
    BY <1>9
  <2>2. Holders(sample) = {h}
    BY <2>1, <1>7
  <2>3. Cardinality({h}) = 1
    BY FS_Singleton
  <2>4. QED BY <2>2, <2>3
<1>10. QED BY <1>8, <1>9

(* Counting the sequenced events in the queue and in the schedule.         *)
One(b) == IF b THEN 1 ELSE 0

LEMMA AwaitingIs ==
    ASSUME TypeInv
    PROVE  /\ IsFiniteSet(Awaiting) /\ Cardinality(Awaiting) \in Nat
           /\ IsFiniteSet(DOMAIN schedule) /\ Scheduled \in Nat
<1>1. Len(Queue) \in Int /\ 1 \in Int
  BY DEF TypeInv
<1>2. IsFiniteSet(1 .. Len(Queue))
  BY <1>1, FS_Interval
<1>3. IsFiniteSet(Awaiting)
  BY <1>2, FS_Subset DEF Awaiting
<1>4. Cardinality(Awaiting) \in Nat
  BY <1>3, FS_CardinalityType
<1>5. QED BY <1>3, <1>4, FinitePlaces DEF TypeInv, Scheduled

LEMMA AwaitingPut ==
    ASSUME TypeInv, Queue' = Append(Queue, cur)
    PROVE  Cardinality(Awaiting') = Cardinality(Awaiting) + One(cur.scheduled)
<1> DEFINE n == Len(Queue)
<1>1. Queue \in Seq(Commands) /\ n \in Nat
  BY DEF TypeInv
<1>2. /\ Len(Queue') = n + 1 /\ Queue'[n + 1] = cur
      /\ \A i \in 1 .. n : Queue'[i] = Queue[i]
  BY <1>1
<1>3. Awaiting' = {i \in 1 .. n + 1 : Queue'[i].scheduled}
  BY <1>2 DEF Awaiting
<1>4. \A i \in 1 .. n + 1 : i \in 1 .. n \/ i = n + 1
  BY <1>1
<1>5. \A i \in 1 .. n : i \in 1 .. n + 1 /\ i # n + 1
  BY <1>1
<1>6. n + 1 \in 1 .. n + 1 /\ n + 1 \notin Awaiting
  BY <1>1 DEF Awaiting
<1> HIDE DEF n
<1>7. CASE cur.scheduled
  <2>1. Awaiting' = Awaiting \cup {n + 1}
    BY <1>2, <1>3, <1>4, <1>5, <1>6, <1>7 DEF Awaiting, n
  <2>2. Cardinality(Awaiting \cup {n + 1}) = Cardinality(Awaiting) + 1
    BY <1>6, AwaitingIs, FS_AddElement
  <2>3. QED BY <2>1, <2>2, <1>7 DEF One
<1>8. CASE ~cur.scheduled
  <2>1. Awaiting' = Awaiting
    BY <1>2, <1>3, <1>4, <1>5, <1>8 DEF Awaiting, n
  <2>2. QED BY <2>1, <1>8, AwaitingIs DEF One
<1>9. QED BY <1>7, <1>8

LEMMA AwaitingTaken ==
    ASSUME TypeInv, Queue' = Tail(Queue), Len(Queue) > 0
    PROVE  Cardinality(Awaiting) = Cardinality(Awaiting') + One(Queue[1].scheduled)
<1> DEFINE n == Len(Queue)
           rest == Awaiting \ {1}
           Down == [i \in rest |-> i - 1]
<1>1. Queue \in Seq(Commands) /\ n \in Nat
  BY DEF TypeInv
<1>2. Len(Queue') = n - 1 /\ \A i \in 1 .. n - 1 : Queue'[i] = Queue[i + 1]
  BY <1>1
<1>3. Awaiting' = {i \in 1 .. n - 1 : Queue[i + 1].scheduled}
  BY <1>2 DEF Awaiting
<1>4. \A i \in rest : i \in Int /\ i - 1 \in Awaiting'
  <2>1. SUFFICES ASSUME NEW i \in rest PROVE i \in Int /\ i - 1 \in Awaiting'
    OBVIOUS
  <2>2. i \in 1 .. n /\ i # 1 /\ Queue[i].scheduled
    BY DEF Awaiting
  <2>3. i \in Int /\ i - 1 \in 1 .. n - 1 /\ i - 1 + 1 = i
    BY <2>2, <1>1
  <2>4. QED BY <2>2, <2>3, <1>3
<1>5. \A j \in Awaiting' : j \in Int /\ j + 1 \in rest /\ j + 1 - 1 = j
  <2>1. SUFFICES ASSUME NEW j \in Awaiting' PROVE j \in Int /\ j + 1 \in rest /\ j + 1 - 1 = j
    OBVIOUS
  <2>2. j \in 1 .. n - 1 /\ Queue[j + 1].scheduled
    BY <1>3
  <2>3. j \in Int /\ j + 1 \in 1 .. n /\ j + 1 # 1 /\ j + 1 - 1 = j
    BY <2>2, <1>1
  <2>4. QED BY <2>2, <2>3 DEF Awaiting
<1> HIDE DEF n, rest
<1>6. Down \in [rest -> Awaiting']
  BY <1>4
<1>7. \A i, j \in rest : Down[i] = Down[j] => i = j
  BY <1>4
<1>8. \A j \in Awaiting' : \E i \in rest : Down[i] = j
  <2>1. SUFFICES ASSUME NEW j \in Awaiting' PROVE \E i \in rest : Down[i] = j
    OBVIOUS
  <2>2. j + 1 \in rest /\ Down[j + 1] = j
    BY <1>5
  <2>3. QED BY <2>2
<1>9. ExistsBijection(rest, Awaiting')
  <2> HIDE DEF Down
  <2>1. Down \in Injection(rest, Awaiting')
    BY <1>6, <1>7 DEF Injection, IsInjective
  <2>2. Down \in Surjection(rest, Awaiting')
    BY <1>6, <1>8 DEF Surjection
  <2>3. QED BY <2>1, <2>2 DEF ExistsBijection, Bijection
<1>10. IsFiniteSet(rest) /\ Cardinality(rest) = IF 1 \in Awaiting THEN Cardinality(Awaiting) - 1 ELSE Cardinality(Awaiting)
  BY AwaitingIs, FS_RemoveElement DEF rest
<1>11. Cardinality(Awaiting') = Cardinality(rest)
  BY <1>9, <1>10, FS_Bijection
<1>12. 1 \in Awaiting <=> Queue[1].scheduled
  BY <1>1 DEF Awaiting, n
<1>13. QED BY <1>10, <1>11, <1>12, AwaitingIs DEF One

LEMMA ApplyCounts ==
    ASSUME TypeInv, NEW c \in Commands, Apply(c)
    PROVE  \E n \in Nat : /\ applied' = applied + n
                          /\ Scheduled' = Scheduled + One(c.scheduled) - n
<1>1. applied \in Nat /\ Scheduled \in Nat /\ IsFiniteSet(DOMAIN schedule) /\ DOMAIN schedule \subseteq Places
  BY AwaitingIs DEF TypeInv
<1>2. CASE c.scheduled /\ ScheduleInsert(c)
  <2>1. CASE DOMAIN schedule = Places
    <3>1. applied' = applied + 1 /\ Scheduled' = Scheduled /\ One(c.scheduled) = 1
      BY <1>2, <2>1 DEF ScheduleInsert, Scheduled, One
    <3>2. Scheduled' = Scheduled + One(c.scheduled) - 1
      BY <3>1, <1>1
    <3>3. QED BY <3>1, <3>2
  <2>2. CASE DOMAIN schedule # Places
    <3> DEFINE free == CHOOSE p \in Places : p \notin DOMAIN schedule
    <3>1. free \notin DOMAIN schedule
      BY <2>2, FreePlace
    <3>2. DOMAIN schedule' = DOMAIN schedule \cup {free} /\ applied' = applied
      BY <1>2, <2>2 DEF ScheduleInsert
    <3> HIDE DEF free
    <3>3. Cardinality(DOMAIN schedule \cup {free}) = Cardinality(DOMAIN schedule) + 1
      BY <1>1, <3>1, FS_AddElement
    <3>4. Scheduled' = Scheduled + 1 /\ One(c.scheduled) = 1
      BY <1>2, <3>2, <3>3 DEF Scheduled, One
    <3>5. Scheduled' = Scheduled + One(c.scheduled) - 0 /\ applied' = applied + 0
      BY <3>2, <3>4, <1>1
    <3>6. QED BY <3>5
  <2>3. QED BY <2>1, <2>2
<1>3. CASE c.kind = "silence" /\ SilenceAll
  <2>1. applied' = applied + Scheduled /\ schedule' = <<>> /\ ~c.scheduled
    BY <1>3 DEF SilenceAll, ScheduleClear, Commands
  <2>2. Scheduled' = 0
    BY <2>1, EmptyScheduleIs, FS_EmptySet DEF Scheduled
  <2>3. Scheduled' = Scheduled + One(c.scheduled) - Scheduled
    BY <1>1, <2>1, <2>2 DEF One
  <2>4. QED BY <1>1, <2>1, <2>3
<1>4. CASE ~c.scheduled /\ UNCHANGED <<schedule, applied>>
  <2>1. Scheduled' = Scheduled /\ One(c.scheduled) = 0
    BY <1>4 DEF Scheduled, One
  <2>2. Scheduled' = Scheduled + One(c.scheduled) - 0 /\ applied' = applied + 0
    BY <1>1, <1>4, <2>1
  <2>3. QED BY <2>2
<1>5. CASE c.kind = "forget" /\ ForgetInstrument(c.slot)
  <2> DEFINE gone == EventsOf(c.slot)
  <2>1. applied' = applied + Cardinality(gone) /\ DOMAIN schedule' = DOMAIN schedule \ gone /\ ~c.scheduled
    BY <1>5 DEF ForgetInstrument, Restrict, Commands
  <2>2. gone \subseteq DOMAIN schedule
    BY DEF EventsOf
  <2> HIDE DEF gone
  <2>3. Cardinality(DOMAIN schedule \ gone) = Cardinality(DOMAIN schedule) - Cardinality(DOMAIN schedule \cap gone)
    BY <1>1, FS_Difference
  <2>4. DOMAIN schedule \cap gone = gone /\ Cardinality(gone) \in Nat
    BY <1>1, <2>2, FinitePlaces
  <2>5. Scheduled' = Scheduled - Cardinality(gone)
    BY <2>1, <2>3, <2>4 DEF Scheduled
  <2>6. One(c.scheduled) = 0
    BY <2>1 DEF One
  <2>7. Scheduled' = Scheduled + One(c.scheduled) - Cardinality(gone)
    BY <1>1, <2>4, <2>5, <2>6
  <2>8. QED BY <2>1, <2>4, <2>7
<1>6. c.kind = "play" => ~c.scheduled
  BY DEF Commands
<1>7. QED BY <1>2, <1>3, <1>4, <1>5, <1>6 DEF Apply

LEMMA AcceptedDue ==
    ASSUME TypeInv, Accepted
    PROVE  Due' = Due + One(cur.scheduled)
<1>1. /\ submitted \in Nat /\ cur \in Commands
      /\ cur.scheduled => cur.kind \in {"note", "off"}
      /\ cur.kind = "off" => cur.scheduled
  BY DEF TypeInv, Commands
<1>2. CASE cur.scheduled /\ cur.kind = "note"
  <2>1. submitted' = submitted /\ cur'.kind = "off"
    BY <1>1, <1>2 DEF Accepted, Commands, Forms
  <2>2. QED BY <2>1, <1>1, <1>2 DEF Due, One
<1>3. CASE ~(cur.scheduled /\ cur.kind = "note")
  <2>1. /\ submitted' = (IF cur.kind = "off" THEN submitted + 2 ELSE submitted)
        /\ cur'.kind # "off"
    BY <1>1, <1>3, NoCommandIs DEF Accepted
  <2>2. QED BY <2>1, <1>1, <1>3 DEF Due, One
<1>4. QED BY <1>2, <1>3

(* No action loses or repeats a sequenced event.                           *)
CountFrame == <<applied, schedule, submitted, torn>>

LEMMA CountStays ==
    ASSUME CountInv, UNCHANGED CountFrame, Queue' = Queue, cur'.kind = "off" <=> cur.kind = "off"
    PROVE  CountInv'
BY DEF CountInv, CountFrame, InFlight, Awaiting, Scheduled, Due

CountStaying ==
    \/ TakePendingPatch \/ StartDrain \/ PublishHead \/ PublishSounding \/ CountRender \/ PlayEnds \/ VoiceEnds
    \/ FreeCollected \/ WriteCommand \/ Release \/ Close \/ Bind \/ StorePatch \/ SequenceApplied \/ PollQuiet
    \/ Quiet \/ WaitOver
    \/ NoteOn \/ ForgetWord \/ SilenceWord \/ SequenceNote \/ AudioOn \/ PlaySamples \/ AudioOff \/ PatchWord \/ WaitWord
    \/ UNCHANGED vars

LEMMA CountStayStep ==
    ASSUME RingInv, TypeInv, CountInv, CountStaying
    PROVE  CountInv'
<1> USE DEF interpreterVars, ringVars, engineVars, sampleVars, CountFrame
<1> DEFINE Stay == UNCHANGED CountFrame /\ (cur'.kind = "off" <=> cur.kind = "off")
<1>a. Queue' = Queue
  BY QueueStays DEF QueueActions, CountStaying
<1>b. pc = "idle" => cur.kind = "none"
  BY NoCommandIs DEF TypeInv, Submitting
<1>1. ASSUME TakePendingPatch PROVE Stay
  BY <1>1 DEF TakePendingPatch
<1>2. ASSUME StartDrain PROVE Stay
  BY <1>2 DEF StartDrain
<1>3. ASSUME PublishHead PROVE Stay
  BY <1>3 DEF PublishHead
<1>4. ASSUME PublishSounding PROVE Stay
  BY <1>4 DEF PublishSounding
<1>5. ASSUME CountRender PROVE Stay
  BY <1>5 DEF CountRender
<1>6. ASSUME PlayEnds PROVE Stay
  BY <1>6 DEF PlayEnds
<1>7. ASSUME VoiceEnds PROVE Stay
  BY <1>7 DEF VoiceEnds
<1>8. ASSUME FreeCollected PROVE Stay
  BY <1>8 DEF FreeCollected
<1>9. ASSUME WriteCommand PROVE Stay
  BY <1>9 DEF WriteCommand
<1>10. ASSUME Release PROVE Stay
  <2>1. cur.kind = "forget" /\ cur' = NoCommand
    BY <1>10 DEF Release, TypeInv
  <2>2. QED BY <2>1, <1>10, NoCommandIs DEF Release
<1>11. ASSUME Close PROVE Stay
  BY <1>11 DEF Close
<1>12. ASSUME Bind PROVE Stay
  BY <1>12 DEF Bind
<1>13. ASSUME StorePatch PROVE Stay
  BY <1>13 DEF StorePatch
<1>14. ASSUME SequenceApplied PROVE Stay
  BY <1>14 DEF SequenceApplied
<1>15. ASSUME PollQuiet PROVE Stay
  BY <1>15 DEF PollQuiet
<1>16. ASSUME Quiet PROVE Stay
  BY <1>16 DEF Quiet
<1>17. ASSUME WaitOver PROVE Stay
  BY <1>17 DEF WaitOver
<1>18. ASSUME NoteOn PROVE Stay
  <2>1. PICK s \in Slots : StartWord(Command("note", s))
    BY <1>18 DEF NoteOn
  <2>2. cur'.kind = "note"
    BY <2>1, CommandIs DEF StartWord, Slots, Kinds
  <2>3. QED BY <2>2, <1>b, <1>18 DEF NoteOn, WordUnchanged
<1>19. ASSUME ForgetWord PROVE Stay
  <2>1. PICK s \in Slots : StartWord(Command("forget", s))
    BY <1>19 DEF ForgetWord
  <2>2. cur'.kind = "forget"
    BY <2>1, CommandIs DEF StartWord, Slots, Kinds
  <2>3. QED BY <2>2, <1>b, <1>19 DEF ForgetWord, WordUnchanged
<1>20. ASSUME SilenceWord PROVE Stay
  <2>1. cur'.kind = "silence"
    BY <1>20, CommandIs, SizesAssumption DEF SilenceWord, StartWord, Kinds
  <2>2. QED BY <2>1, <1>b, <1>20 DEF SilenceWord, WordUnchanged
<1>21. ASSUME SequenceNote PROVE Stay
  <2>1. PICK s \in Slots : StartWord([Command("note", s) EXCEPT !.scheduled = TRUE])
    BY <1>21 DEF SequenceNote
  <2>2. Command("note", s) \in Commands /\ Command("note", s).kind = "note"
    BY CommandIs DEF Slots, Kinds
  <2>3. cur'.kind = "note"
    BY <2>1, <2>2 DEF StartWord, Commands, Forms
  <2>4. WordUnchanged /\ pc = "idle"
    BY <1>21 DEF SequenceNote
  <2>5. QED BY <2>3, <2>4, <1>b DEF WordUnchanged
<1>22. ASSUME AudioOn PROVE Stay
  BY <1>22 DEF AudioOn, WordUnchanged
<1>23. ASSUME PlaySamples PROVE Stay
  <2>1. words + 1 \in Nat /\ words + 1 # 0
    BY DEF TypeInv
  <2>2. cur'.kind # "off"
    BY <2>1, <1>b, <1>23, PlayIs DEF PlaySamples, StartWord
  <2>3. QED BY <2>2, <1>b, <1>23 DEF PlaySamples, WordUnchanged
<1>24. ASSUME AudioOff PROVE Stay
  BY <1>24 DEF AudioOff
<1>25. ASSUME PatchWord PROVE Stay
  BY <1>25 DEF PatchWord
<1>26. ASSUME WaitWord PROVE Stay
  BY <1>26 DEF WaitWord
<1>27. ASSUME (UNCHANGED vars) PROVE Stay
  BY <1>27 DEF vars
<1>z. Stay
  BY <1>1, <1>2, <1>3, <1>4, <1>5, <1>6, <1>7, <1>8, <1>9, <1>10, <1>11, <1>12, <1>13, <1>14, <1>15, <1>16, <1>17, <1>18, <1>19, <1>20, <1>21, <1>22, <1>23, <1>24, <1>25, <1>26, <1>27 DEF CountStaying
<1> QED BY <1>a, <1>z, CountStays

LEMMA CountStep ==
    ASSUME RingInv, TypeInv, CountInv, [Next]_vars
    PROVE  CountInv'
<1> USE DEF interpreterVars, ringVars, engineVars, sampleVars
<1>d. TypeInv' /\ Cardinality(Awaiting') \in Nat /\ Scheduled' \in Nat /\ applied' \in Nat
  <2>1. TypeInv'
    BY TypeStep
  <2>2. Len(Queue') \in Nat /\ DOMAIN schedule' \subseteq Places /\ applied' \in Nat
    BY <2>1 DEF TypeInv
  <2>3. IsFiniteSet(1 .. Len(Queue'))
    BY <2>2, FS_Interval
  <2>4. IsFiniteSet(Awaiting')
    BY <2>3, FS_Subset DEF Awaiting
  <2>5. QED BY <2>1, <2>2, <2>4, FS_CardinalityType, FinitePlaces DEF Scheduled
<1> DEFINE Sum == applied + Cardinality(Awaiting) + Scheduled
<1>c. /\ CountInv <=> Sum >= Due /\ (~torn => Sum = Due)
      /\ CountInv' <=> Sum' >= Due' /\ (~torn' => Sum' = Due')
  <2>1. Cardinality(Awaiting) \in Nat /\ Scheduled \in Nat /\ applied \in Nat
    BY AwaitingIs DEF TypeInv
  <2>2. applied + InFlight = Sum
    BY <2>1 DEF InFlight
  <2>3. (applied + InFlight)' = Sum'
    <3>1. Cardinality(Awaiting') \in Nat /\ Scheduled' \in Nat /\ applied' \in Nat
      BY <1>d
    <3>2. QED BY <3>1 DEF InFlight
  <2>4. QED BY <2>2, <2>3 DEF CountInv
<1>1. /\ cur \in Commands /\ Queue \in Seq(Commands) /\ applied \in Nat /\ submitted \in Nat /\ torn \in BOOLEAN
      /\ Cardinality(Awaiting) \in Nat /\ Scheduled \in Nat /\ IsFiniteSet(DOMAIN schedule) /\ Due \in Nat
  BY AwaitingIs DEF TypeInv, Due
<1>2. \A b \in BOOLEAN : One(b) \in Nat
  BY DEF One
<1>3. ASSUME QueueActions
      PROVE  Queue' = Queue /\ Awaiting' = Awaiting
  BY <1>3, QueueStays DEF Awaiting
<1>4. CASE CountStaying
  BY <1>4, CountStayStep
<1>5. CASE FireScheduled
  <2>1. PICK p \in DOMAIN schedule : schedule' = Restrict(schedule, DOMAIN schedule \ {p})
    BY <1>5 DEF FireScheduled
  <2>2. Scheduled' = Scheduled - 1
    <3>1. DOMAIN schedule' = DOMAIN schedule \ {p}
      BY <2>1 DEF Restrict
    <3>2. Cardinality(DOMAIN schedule \ {p}) = Cardinality(DOMAIN schedule) - 1
      BY <1>1, FS_RemoveElement
    <3>3. QED BY <3>1, <3>2 DEF Scheduled
  <2>3. applied' = applied + 1 /\ UNCHANGED <<submitted, torn, cur>>
    BY <1>5 DEF FireScheduled
  <2>4. Awaiting' = Awaiting /\ Due' = Due
    BY <1>3, <1>5, <2>3 DEF QueueActions, Due
  <2>5. Sum' = Sum
    BY <1>1, <2>2, <2>3, <2>4
  <2>6. QED BY <1>c, <2>3, <2>4, <2>5
<1>6. CASE Refuse
  <2>1. UNCHANGED <<applied, schedule, submitted>> /\ cur'.kind # "off"
    BY <1>6, NoCommandIs DEF Refuse
  <2>2. Awaiting' = Awaiting /\ Scheduled' = Scheduled
    BY <1>3, <1>6, <2>1 DEF QueueActions, Scheduled
  <2>3. Due' = submitted
    BY <1>1, <2>1 DEF Due
  <2>4. Due >= submitted /\ (cur.kind # "off" => Due = submitted)
    BY <1>1 DEF Due
  <2>5. Sum' = Sum /\ (Sum >= Due => Sum >= submitted)
    BY <1>1, <2>1, <2>2, <2>4
  <2>6. ~torn' => ~torn /\ cur.kind # "off"
    BY <1>6 DEF Refuse
  <2>7. QED BY <1>c, <2>3, <2>4, <2>5, <2>6
<1>7. cur.scheduled \in BOOLEAN
  BY <1>1 DEF Commands, Forms
<1>8. CASE ApplyOffline
  <2>1. Apply(cur) /\ Accepted /\ torn' = torn
    BY <1>8 DEF ApplyOffline
  <2>2. PICK n \in Nat : applied' = applied + n /\ Scheduled' = Scheduled + One(cur.scheduled) - n
    BY <2>1, <1>1, ApplyCounts
  <2>4. Due' = Due + One(cur.scheduled) /\ Awaiting' = Awaiting
    BY <2>1, <1>3, <1>8, AcceptedDue DEF QueueActions
  <2>5. Sum' = Sum + One(cur.scheduled) /\ Sum \in Nat /\ One(cur.scheduled) \in Nat
    <3>1. One(cur.scheduled) \in Nat
      BY <1>2, <1>7
    <3>2. Sum' = Sum + One(cur.scheduled)
      BY <1>1, <2>2, <2>4, <3>1
    <3>3. QED BY <1>1, <3>1, <3>2
  <2>6. QED BY <1>1, <1>c, <2>1, <2>4, <2>5
<1>9. CASE PublishCommand
  <2>1. Accepted /\ UNCHANGED <<torn, applied, schedule>>
    BY <1>9 DEF PublishCommand
  <2>2. Cardinality(Awaiting') = Cardinality(Awaiting) + One(cur.scheduled)
    BY <1>9, Publishes, AwaitingPut
  <2>3. Due' = Due + One(cur.scheduled) /\ Scheduled' = Scheduled
    BY <2>1, AcceptedDue DEF Scheduled
  <2>4. Sum' = Sum + One(cur.scheduled) /\ Sum \in Nat /\ One(cur.scheduled) \in Nat
    BY <1>1, <1>2, <1>7, <2>1, <2>2, <2>3
  <2>5. QED BY <1>1, <1>c, <2>1, <2>3, <2>4
<1>10. CASE ApplyNext
  <2> DEFINE c == ring[dhead]
  <2>1. Len(Queue) > 0 /\ Queue[1] = c /\ Queue' = Tail(Queue)
    BY <1>10, AppliesHead
  <2>2. c \in Commands
    BY <1>1, <2>1
  <2>3. Apply(c) /\ UNCHANGED <<torn, submitted, cur>>
    BY <1>10 DEF ApplyNext
  <2>4. One(c.scheduled) \in Nat
    BY <2>2, <1>2 DEF Commands, Forms
  <2> HIDE DEF c
  <2>5. Cardinality(Awaiting') = Cardinality(Awaiting) - One(c.scheduled)
    BY <1>1, <1>d, <2>1, <2>4, AwaitingTaken
  <2>6. PICK n \in Nat : applied' = applied + n /\ Scheduled' = Scheduled + One(c.scheduled) - n
    BY <2>2, <2>3, ApplyCounts
  <2>7. Due' = Due
    BY <2>3 DEF Due
  <2>8. Sum' = Sum
    BY <1>1, <2>4, <2>5, <2>6
  <2>9. QED BY <1>c, <2>3, <2>7, <2>8
<1>11. QED
  BY <1>4, <1>5, <1>6, <1>8, <1>9, <1>10 DEF Next, Device, Polls, CountStaying

LEMMA CountHolds ==
    ASSUME TypeInv, CountInv
    PROVE  EventsCounted
<1>1. /\ Due >= submitted /\ submitted \in Nat /\ Due \in Nat
      /\ cur.kind # "off" => Due = submitted
  BY DEF Due, TypeInv
<1>2. applied + InFlight \in Nat
  BY AwaitingIs DEF TypeInv, InFlight
<1>3. QED BY <1>1, <1>2 DEF CountInv, EventsCounted

(* What a wait has seen.                                                   *)
LEMMA NothingToRead ==
    ASSUME RingInv, ReadFrom = tail
    PROVE  Queue = <<>>
<1>1. tail \in Indices
  BY DEF RingInv
<1>2. Distance(ReadFrom, tail) = 0
  BY <1>1, NoDistance
<1>3. QED BY <1>2 DEF Queue

LEMMA NoneScheduled ==
    ASSUME TypeInv, Cardinality(DOMAIN schedule) = 0
    PROVE  schedule = <<>>
<1>1. DOMAIN schedule = {}
  BY AwaitingIs, FS_EmptySet
<1>2. schedule \in [{} -> Events]
  BY <1>1 DEF TypeInv
<1>3. <<>> \in [{} -> Events]
  OBVIOUS
<1>4. QED BY <1>2, <1>3

LEMMA AllApplied ==
    ASSUME TypeInv, CountInv, pc = "sequence", applied >= submitted, ~torn
    PROVE  NoEvents
<1>1. Due = submitted
  BY DEF TypeInv, Submitting, NoCommand, Due
<1>2. applied + InFlight = submitted
  BY <1>1 DEF CountInv
<1>3. /\ applied \in Nat /\ submitted \in Nat /\ Cardinality(Awaiting) \in Nat /\ Scheduled \in Nat
      /\ IsFiniteSet(Awaiting)
  BY AwaitingIs DEF TypeInv
<1>4. Cardinality(Awaiting) = 0 /\ Scheduled = 0
  BY <1>2, <1>3 DEF InFlight
<1>5. QED BY <1>3, <1>4, NoneScheduled, FS_EmptySet DEF NoEvents, Scheduled

(* A step outside a wait, and one that a wait does not look at.            *)
QuietFrame == <<pc, live, dpc, passed, dtail, tail, sounding, plays, torn, schedule, voices>>

LEMMA QuietStays ==
    ASSUME QuietInv, UNCHANGED QuietFrame, Queue' = Queue
    PROVE  QuietInv'
BY DEF QuietInv, QuietFrame, QuietIsQuiet, AppliedSince, RenderedSince, NoEvents, Awaiting

LEMMA NotWaiting ==
    ASSUME pc' \notin Waits
    PROVE  QuietInv'
BY DEF QuietInv, QuietIsQuiet, Waits, Waiting

LEMMA OutsideWaits ==
    ASSUME RingInv, TypeInv,
           \/ FreeCollected \/ ApplyOffline \/ Refuse \/ WriteCommand \/ PublishCommand \/ Release \/ Close
           \/ Bind \/ StorePatch \/ WaitOver
           \/ NoteOn \/ ForgetWord \/ SilenceWord \/ SequenceNote \/ AudioOn \/ PlaySamples \/ AudioOff \/ PatchWord
    PROVE  pc' \notin Waits
<1> USE DEF Waits, Waiting
<1>1. CASE FreeCollected \/ Refuse \/ WriteCommand \/ Release \/ Close \/ Bind \/ StorePatch \/ WaitOver \/ AudioOff
  BY <1>1 DEF FreeCollected, Refuse, WriteCommand, Release, Close, Bind, StorePatch, WaitOver, AudioOff
<1>2. CASE ApplyOffline \/ PublishCommand
  BY <1>2 DEF ApplyOffline, PublishCommand, Accepted, CollectFinished
<1>3. CASE NoteOn \/ ForgetWord \/ SilenceWord \/ SequenceNote
  BY <1>3 DEF NoteOn, ForgetWord, SilenceWord, SequenceNote, StartWord, CollectFinished
<1>4. CASE AudioOn \/ PlaySamples \/ PatchWord
  BY <1>4 DEF AudioOn, PlaySamples, PatchWord, StartWord, CollectFinished
<1>5. QED BY <1>1, <1>2, <1>3, <1>4

LEMMA NoEventsApplied ==
    ASSUME RingInv, TypeInv, NoEvents, ApplyNext
    PROVE  NoEvents'
<1>1. /\ Len(Queue) \in Nat /\ Len(Queue) > 0 /\ Queue[1] = ring[dhead] /\ Queue' = Tail(Queue)
      /\ Queue \in Seq(Commands)
  BY AppliesHead DEF TypeInv
<1>2. \A i \in 1 .. Len(Queue) : ~Queue[i].scheduled
  BY DEF NoEvents, Awaiting
<1>3. Awaiting' = {}
  <2>1. Len(Queue') = Len(Queue) - 1 /\ \A i \in 1 .. Len(Queue) - 1 : Queue'[i] = Queue[i + 1]
    BY <1>1
  <2>2. \A i \in 1 .. Len(Queue) - 1 : i + 1 \in 1 .. Len(Queue)
    BY <1>1
  <2>3. QED BY <2>1, <2>2, <1>2 DEF Awaiting
<1>4. schedule' = <<>>
  <2>1. Apply(ring[dhead]) /\ ~ring[dhead].scheduled /\ schedule = <<>>
    BY <1>1, <1>2 DEF ApplyNext, NoEvents
  <2>2. DOMAIN schedule = {}
    BY <2>1, EmptyScheduleIs
  <2>3. \A S : Restrict(schedule, DOMAIN schedule \ S) = <<>>
    BY <2>2 DEF Restrict
  <2>4. QED BY <2>1, <2>3 DEF Apply, SilenceAll, ScheduleClear, ForgetInstrument
<1>5. QED BY <1>3, <1>4 DEF NoEvents

LEMMA QuietStep ==
    ASSUME RingInv, TypeInv, CountInv, QuietInv, [Next]_vars
    PROVE  QuietInv'
<1> USE DEF interpreterVars, ringVars, engineVars, sampleVars
<1>0. ASSUME QueueActions
      PROVE  Queue' = Queue /\ Awaiting' = Awaiting
  BY <1>0, QueueStays DEF Awaiting
<1>1. passed.wait \in 0 .. 2 /\ dpc \in {"idle", "patches", "drain", "render", "count"}
  BY DEF TypeInv
<1>2. CASE \/ FreeCollected \/ ApplyOffline \/ Refuse \/ WriteCommand \/ PublishCommand \/ Release \/ Close
           \/ Bind \/ StorePatch \/ WaitOver
           \/ NoteOn \/ ForgetWord \/ SilenceWord \/ SequenceNote \/ AudioOn \/ PlaySamples \/ AudioOff \/ PatchWord
  BY <1>2, OutsideWaits, NotWaiting
<1>3. CASE PollQuiet \/ UNCHANGED vars
  <2>1. UNCHANGED QuietFrame /\ Queue' = Queue
    BY <1>3, <1>0 DEF QueueActions, PollQuiet, QuietFrame, vars
  <2>2. QED BY <2>1, QuietStays
<1>4. CASE TakePendingPatch
  <2>1. /\ UNCHANGED <<pc, live, passed, dtail, tail, sounding, plays, torn, schedule, voices>>
        /\ dpc \in {"patches", "idle"} /\ dpc' = "patches"
    BY <1>4 DEF TakePendingPatch
  <2>2. Queue' = Queue /\ Awaiting' = Awaiting
    BY <1>0, <1>4 DEF QueueActions
  <2>3. QED BY <2>1, <2>2 DEF QuietInv, QuietIsQuiet, AppliedSince, RenderedSince, NoEvents
<1>5. CASE StartDrain
  <2>1. /\ UNCHANGED <<pc, live, passed, tail, sounding, plays, torn, schedule, voices>>
        /\ dpc = "patches" /\ dpc' = "drain" /\ dtail' = tail
    BY <1>5 DEF StartDrain
  <2>2. Queue' = Queue /\ Awaiting' = Awaiting
    BY <1>0, <1>5 DEF QueueActions
  <2>3. QED BY <2>1, <2>2 DEF QuietInv, QuietIsQuiet, AppliedSince, RenderedSince, NoEvents
<1>6. CASE ApplyNext
  <2>1. UNCHANGED <<pc, live, passed, dtail, tail, sounding, torn, dpc>> /\ dpc = "drain"
    BY <1>6 DEF ApplyNext
  <2>2. Queue # <<>>
    BY <1>6, AppliesHead
  <2>3. CASE pc \in Waits
    <3>1. passed.wait # 2 /\ pc \notin {"quieted", "over"}
      BY <2>2, <2>3 DEF QuietInv, QuietIsQuiet, AppliedSince
    <3>2. ~torn /\ pc = "rest" => NoEvents'
      BY <1>6, NoEventsApplied DEF QuietInv
    <3>3. QED BY <2>1, <2>3, <3>1, <3>2 DEF QuietInv, QuietIsQuiet, AppliedSince, RenderedSince
  <2>4. CASE pc \notin Waits
    BY <2>1, <2>4, NotWaiting
  <2>5. QED BY <2>3, <2>4
<1>7. CASE PublishHead
  <2>1. /\ UNCHANGED <<pc, live, passed, dtail, tail, sounding, plays, torn, schedule, voices>>
        /\ dpc = "drain" /\ dpc' \in {"render", "idle"} /\ dhead = dtail
    BY <1>7 DEF PublishHead
  <2>2. Queue' = Queue /\ Awaiting' = Awaiting
    BY <1>0, <1>7 DEF QueueActions
  <2>3. dtail = tail => Queue = <<>>
    BY <2>1, NothingToRead DEF ReadFrom
  <2>4. QED BY <2>1, <2>2, <2>3 DEF QuietInv, QuietIsQuiet, AppliedSince, RenderedSince, NoEvents
<1>8. CASE FireScheduled
  <2>1. /\ UNCHANGED <<pc, live, passed, dtail, tail, sounding, plays, torn, dpc>>
        /\ dpc = "render"
    BY <1>8 DEF FireScheduled
  <2>2. Queue' = Queue /\ Awaiting' = Awaiting
    BY <1>0, <1>8 DEF QueueActions
  <2>3. schedule # <<>>
    BY <1>8, EmptyScheduleIs DEF FireScheduled
  <2>4. QED BY <2>1, <2>2, <2>3 DEF QuietInv, QuietIsQuiet, AppliedSince, RenderedSince, NoEvents
<1>9. CASE PlayEnds
  <2>1. /\ UNCHANGED <<pc, live, passed, dtail, tail, sounding, torn, schedule, voices, dpc>>
        /\ dpc = "render" /\ plays # <<>>
    BY <1>9 DEF PlayEnds
  <2>2. Queue' = Queue /\ Awaiting' = Awaiting
    BY <1>0, <1>9 DEF QueueActions
  <2>3. QED BY <2>1, <2>2 DEF QuietInv, QuietIsQuiet, AppliedSince, RenderedSince, NoEvents
<1>10. CASE VoiceEnds
  <2>1. /\ UNCHANGED <<pc, live, passed, dtail, tail, sounding, plays, torn, schedule, dpc>>
        /\ dpc = "render" /\ voices # {}
    BY <1>10 DEF VoiceEnds
  <2>2. Queue' = Queue /\ Awaiting' = Awaiting
    BY <1>0, <1>10 DEF QueueActions
  <2>3. QED BY <2>1, <2>2 DEF QuietInv, QuietIsQuiet, AppliedSince, RenderedSince, NoEvents
<1>11. CASE PublishSounding
  <2>1. /\ UNCHANGED <<pc, live, passed, dtail, tail, plays, torn, schedule, voices>>
        /\ dpc = "render" /\ dpc' = "count" /\ sounding' = (plays # <<>> \/ voices # {})
    BY <1>11 DEF PublishSounding
  <2>2. Queue' = Queue /\ Awaiting' = Awaiting
    BY <1>0, <1>11 DEF QueueActions
  <2>3. QED BY <2>1, <2>2 DEF QuietInv, QuietIsQuiet, AppliedSince, RenderedSince, NoEvents
<1>12. CASE CountRender
  <2>1. /\ UNCHANGED <<pc, live, dtail, tail, sounding, plays, torn, schedule, voices>>
        /\ dpc = "count" /\ dpc' = "idle"
        /\ passed'.wait = 2 => passed.wait \in {1, 2}
        /\ passed'.wait \in 1 .. 2
    BY <1>1, <1>12 DEF CountRender, OneMore
  <2>2. Queue' = Queue /\ Awaiting' = Awaiting
    BY <1>0, <1>12 DEF QueueActions
  <2>3. QED BY <2>1, <2>2 DEF QuietInv, QuietIsQuiet, AppliedSince, RenderedSince, NoEvents
<1>13. CASE WaitWord
  <2>1. live' /\ pc' \in {"quiet", "sequence"} /\ passed'.wait = 0
    BY <1>13 DEF WaitWord, TypeInv
  <2>2. QED BY <2>1 DEF QuietInv, QuietIsQuiet, AppliedSince, RenderedSince
<1>14. CASE SequenceApplied
  <2>1. /\ pc = "sequence" /\ pc' = "rest" /\ passed'.wait = 0 /\ UNCHANGED <<live, torn, schedule>>
    BY <1>14 DEF SequenceApplied, TypeInv
  <2>2. ~torn' => NoEvents'
    <3>1. ~torn => NoEvents
      BY <1>14, AllApplied DEF SequenceApplied
    <3>2. QED BY <3>1, <2>1, <1>0, <1>14 DEF QueueActions, NoEvents
  <2>3. live'
    BY <2>1 DEF QuietInv, Waits, Waiting
  <2>4. QED BY <2>1, <2>2, <2>3 DEF QuietInv, QuietIsQuiet, AppliedSince, RenderedSince
<1>15. CASE Quiet
  <2>1. /\ pc \in Waits /\ passed.wait = 2 /\ ~sounding
        /\ UNCHANGED <<live, dpc, passed, dtail, tail, sounding, plays, torn, schedule, voices>>
        /\ \/ pc = "quiet" /\ pc' = "quieted"
           \/ pc = "rest" /\ pc' = "over"
    BY <1>1, <1>15 DEF Quiet, QuietSeen, Passed, Waits, Waiting
  <2>2. Queue' = Queue /\ Awaiting' = Awaiting
    BY <1>0, <1>15 DEF QueueActions
  <2>3. Queue = <<>> /\ plays = <<>> /\ live
    BY <2>1 DEF QuietInv, AppliedSince, RenderedSince
  <2>4. pc = "rest" /\ ~torn => NoEvents /\ voices = {}
    BY <2>1 DEF QuietInv, RenderedSince
  <2>5. QED BY <2>1, <2>2, <2>3, <2>4 DEF QuietInv, QuietIsQuiet, AppliedSince, RenderedSince, NoEvents
<1>16. QED
  BY <1>2, <1>3, <1>4, <1>5, <1>6, <1>7, <1>8, <1>9, <1>10, <1>11, <1>12, <1>13, <1>14, <1>15
  DEF Next, Device, Polls

(* What of an instrument is in the queue and in the engine.                *)
LEMMA InQueueStays ==
    ASSUME NEW s, Queue' = Queue
    PROVE  InQueue(s)' = InQueue(s) /\ Forgotten(s)' = Forgotten(s)
BY DEF InQueue, Forgotten

LEMMA InQueueIs ==
    ASSUME NEW s
    PROVE  /\ \A i \in 1 .. Len(Queue) : Queue[i].slot = s => Queue[i].patch.binding \in InQueue(s)
           /\ InQueue(s) = {} <=> \A i \in 1 .. Len(Queue) : Queue[i].slot # s
           /\ Forgotten(s) => InQueue(s) # {}
BY DEF InQueue, Forgotten

LEMMA InQueuePut ==
    ASSUME TypeInv, NEW s, Queue' = Append(Queue, cur)
    PROVE  /\ InQueue(s)' \subseteq InQueue(s) \cup (IF cur.slot = s THEN {cur.patch.binding} ELSE {})
           /\ Forgotten(s) /\ cur.slot # s => Forgotten(s)'
           /\ cur.kind = "forget" /\ cur.slot = s => Forgotten(s)'
<1> DEFINE n == Len(Queue)
<1>1. Queue \in Seq(Commands) /\ n \in Nat
  BY DEF TypeInv
<1>2. /\ Len(Queue') = n + 1 /\ Queue'[n + 1] = cur
      /\ \A i \in 1 .. n : Queue'[i] = Queue[i]
  BY <1>1
<1>3. \A i \in 1 .. n + 1 : i \in 1 .. n \/ i = n + 1
  BY <1>1
<1>4. /\ \A i \in 1 .. n : i \in 1 .. n + 1
      /\ n + 1 \in 1 .. n + 1 /\ n + 1 + 1 .. n + 1 = {}
      /\ \A i \in 1 .. n : \A j \in i + 1 .. n + 1 : j \in i + 1 .. n \/ j = n + 1
      /\ \A i \in 1 .. n : \A j \in i + 1 .. n : j \in 1 .. n
  BY <1>1
<1> HIDE DEF n
<1>5. InQueue(s)' \subseteq InQueue(s) \cup (IF cur.slot = s THEN {cur.patch.binding} ELSE {})
  <2>1. InQueue(s)' = {Queue'[i].patch.binding : i \in {j \in 1 .. n + 1 : Queue'[j].slot = s}}
    BY <1>2 DEF InQueue
  <2>2. InQueue(s) = {Queue[i].patch.binding : i \in {j \in 1 .. n : Queue[j].slot = s}}
    BY DEF InQueue, n
  <2>3. QED BY <2>1, <2>2, <1>2, <1>3
<1>6. ASSUME Forgotten(s), cur.slot # s PROVE Forgotten(s)'
  <2>1. PICK i \in 1 .. n : /\ Queue[i].kind = "forget" /\ Queue[i].slot = s
                            /\ \A j \in i + 1 .. n : Queue[j].slot # s
    BY <1>6 DEF Forgotten, n
  <2>2. \A j \in i + 1 .. n + 1 : Queue'[j].slot # s
    BY <2>1, <1>2, <1>4, <1>6
  <2>3. i \in 1 .. n + 1 /\ Queue'[i].kind = "forget" /\ Queue'[i].slot = s
    BY <2>1, <1>2, <1>4
  <2>4. QED BY <2>2, <2>3, <1>2 DEF Forgotten
<1>7. ASSUME cur.kind = "forget", cur.slot = s PROVE Forgotten(s)'
  BY <1>7, <1>2, <1>4 DEF Forgotten
<1>8. QED BY <1>5, <1>6, <1>7

LEMMA InQueueTaken ==
    ASSUME TypeInv, NEW s, Queue' = Tail(Queue), Len(Queue) > 0
    PROVE  /\ InQueue(s)' \subseteq InQueue(s)
           /\ Forgotten(s) => Forgotten(s)' \/ (Queue[1].kind = "forget" /\ Queue[1].slot = s /\ InQueue(s)' = {})
<1> DEFINE n == Len(Queue)
<1>1. Queue \in Seq(Commands) /\ n \in Nat
  BY DEF TypeInv
<1>2. Len(Queue') = n - 1 /\ \A i \in 1 .. n - 1 : Queue'[i] = Queue[i + 1]
  BY <1>1
<1>3. /\ \A i \in 1 .. n - 1 : i + 1 \in 1 .. n /\ i + 1 \in 1 + 1 .. n
      /\ \A i \in 1 .. n : i # 1 => i - 1 \in 1 .. n - 1 /\ i - 1 + 1 = i
      /\ \A i \in 1 .. n : \A j \in i - 1 + 1 .. n - 1 : j \in 1 .. n - 1 /\ j + 1 \in i + 1 .. n
  BY <1>1
<1> HIDE DEF n
<1>4. InQueue(s)' \subseteq InQueue(s)
  <2>1. InQueue(s)' = {Queue'[i].patch.binding : i \in {j \in 1 .. n - 1 : Queue'[j].slot = s}}
    BY <1>2 DEF InQueue
  <2>2. InQueue(s) = {Queue[i].patch.binding : i \in {j \in 1 .. n : Queue[j].slot = s}}
    BY DEF InQueue, n
  <2>3. QED BY <2>1, <2>2, <1>2, <1>3
<1>5. ASSUME Forgotten(s)
      PROVE  Forgotten(s)' \/ (Queue[1].kind = "forget" /\ Queue[1].slot = s /\ InQueue(s)' = {})
  <2>1. PICK i \in 1 .. n : /\ Queue[i].kind = "forget" /\ Queue[i].slot = s
                            /\ \A j \in i + 1 .. n : Queue[j].slot # s
    BY <1>5 DEF Forgotten, n
  <2>2. CASE i = 1
    <3>1. \A j \in 1 .. n - 1 : Queue'[j].slot # s
      BY <2>1, <2>2, <1>2, <1>3
    <3>2. InQueue(s)' = {}
      BY <3>1, <1>2 DEF InQueue
    <3>3. QED BY <3>2, <2>1, <2>2
  <2>3. CASE i # 1
    <3>1. i - 1 \in 1 .. n - 1 /\ Queue'[i - 1] = Queue[i]
      BY <2>3, <1>2, <1>3
    <3>2. \A j \in i - 1 + 1 .. n - 1 : Queue'[j].slot # s
      BY <2>1, <1>2, <1>3
    <3>3. QED BY <3>1, <3>2, <2>1, <1>2 DEF Forgotten
  <2>4. QED BY <2>2, <2>3
<1>6. QED BY <1>4, <1>5

LEMMA InEngineIs ==
    ASSUME NEW s
    PROVE  /\ \A v \in voices : v.slot = s => v.binding \in InEngine(s)
           /\ \A p \in DOMAIN schedule : schedule[p].slot = s => schedule[p].binding \in InEngine(s)
           /\ \A S : /\ \A v \in voices : v.slot = s => v.binding \in S
                     /\ \A p \in DOMAIN schedule : schedule[p].slot = s => schedule[p].binding \in S
                     => InEngine(s) \subseteq S
BY DEF InEngine, EventsOf

LEMMA InEngineStays ==
    ASSUME NEW s, UNCHANGED <<voices, schedule>>
    PROVE  InEngine(s)' = InEngine(s)
BY DEF InEngine, EventsOf

LEMMA InEngineNext ==
    ASSUME NEW s, NEW S,
           \A v \in voices' : v.slot = s => v.binding \in S,
           \A p \in DOMAIN schedule' : schedule'[p].slot = s => schedule'[p].binding \in S
    PROVE  InEngine(s)' \subseteq S
BY DEF InEngine, EventsOf

LEMMA InEngineShrinks ==
    ASSUME TypeInv, NEW s, FireScheduled \/ VoiceEnds
    PROVE  InEngine(s)' \subseteq InEngine(s)
<1>1. CASE FireScheduled
  <2>1. PICK p \in DOMAIN schedule :
           /\ schedule' = Restrict(schedule, DOMAIN schedule \ {p})
           /\ voices' = IF schedule[p].on THEN voices \cup {Voice(schedule[p])} ELSE voices
    BY <1>1 DEF FireScheduled
  <2>2. /\ DOMAIN schedule' \subseteq DOMAIN schedule
        /\ \A q \in DOMAIN schedule' : schedule'[q] = schedule[q]
    BY <2>1 DEF Restrict
  <2>3. \A v \in voices' : v.slot = s => v.binding \in InEngine(s)
    <3>1. Voice(schedule[p]).slot = schedule[p].slot /\ Voice(schedule[p]).binding = schedule[p].binding
      BY DEF Voice
    <3>2. QED BY <2>1, <3>1, InEngineIs
  <2>4. \A q \in DOMAIN schedule' : schedule'[q].slot = s => schedule'[q].binding \in InEngine(s)
    BY <2>2, InEngineIs
  <2>5. QED BY <2>3, <2>4, InEngineNext
<1>2. CASE VoiceEnds
  <2>1. voices' \subseteq voices /\ schedule' = schedule
    BY <1>2 DEF VoiceEnds
  <2>2. QED BY <2>1, InEngineIs, InEngineNext
<1>3. QED BY <1>1, <1>2

LEMMA InEngineApplied ==
    ASSUME TypeInv, NEW s, NEW c \in Commands, Apply(c)
    PROVE  /\ InEngine(s)' \subseteq InEngine(s) \cup (IF c.slot = s THEN {c.patch.binding} ELSE {})
           /\ c.kind = "forget" /\ c.slot = s => InEngine(s)' = {}
<1> DEFINE S == InEngine(s) \cup (IF c.slot = s THEN {c.patch.binding} ELSE {})
<1>0. /\ \A v \in voices : v.slot = s => v.binding \in S
      /\ \A p \in DOMAIN schedule : schedule[p].slot = s => schedule[p].binding \in S
  BY InEngineIs
<1>s. c.slot = s => c.patch.binding \in S
  OBVIOUS
<1>f. c.scheduled => c.kind # "forget"
  BY DEF Commands
<1> HIDE DEF S
<1>1. CASE c.scheduled /\ ScheduleInsert(c) /\ UNCHANGED <<voices, plays, sampleVars>>
  <2>1. CASE DOMAIN schedule = Places
    <3>1. schedule' = schedule /\ voices' = voices
      BY <1>1, <2>1 DEF ScheduleInsert
    <3>2. InEngine(s)' \subseteq S
      BY <3>1, <1>0, InEngineNext
    <3>3. QED BY <3>2, <1>1, <1>f DEF S
  <2>2. CASE DOMAIN schedule # Places
    <3> DEFINE free == CHOOSE p \in Places : p \notin DOMAIN schedule
    <3>1. /\ schedule' = [p \in DOMAIN schedule \cup {free} |-> IF p = free THEN Event(c) ELSE schedule[p]]
          /\ voices' = voices
      BY <1>1, <2>2 DEF ScheduleInsert
    <3>2. Event(c).slot = c.slot /\ Event(c).binding = c.patch.binding
      BY DEF Event
    <3> HIDE DEF free
    <3>3. \A p \in DOMAIN schedule' : schedule'[p].slot = s => schedule'[p].binding \in S
      BY <3>1, <3>2, <1>0, <1>s
    <3>4. InEngine(s)' \subseteq S
      BY <3>1, <3>3, <1>0, InEngineNext
    <3>5. QED BY <3>4, <1>1, <1>f DEF S
  <2>3. QED BY <2>1, <2>2
<1>2. CASE /\ c.kind = "note" /\ schedule' = schedule
           /\ voices' = voices \cup {Note(c)} \/ voices' = voices
  <2>1. Note(c).slot = c.slot /\ Note(c).binding = c.patch.binding
    BY DEF Note
  <2>2. \A v \in voices' : v.slot = s => v.binding \in S
    BY <2>1, <1>0, <1>2, <1>s
  <2>3. InEngine(s)' \subseteq S
    BY <2>2, <1>0, <1>2, InEngineNext
  <2>4. QED BY <2>3, <1>2 DEF S
<1>3. CASE c.kind = "silence" /\ SilenceAll
  <2>1. voices' = {} /\ schedule' = <<>>
    BY <1>3 DEF SilenceAll, ScheduleClear
  <2>2. DOMAIN schedule' = {}
    BY <2>1, EmptyScheduleIs
  <2>3. QED BY <2>1, <2>2, <1>3, InEngineNext
<1>4. CASE c.kind = "play" /\ UNCHANGED <<voices, schedule>>
  <2>1. InEngine(s)' \subseteq S
    BY <1>4, <1>0, InEngineNext
  <2>2. QED BY <2>1, <1>4 DEF S
<1>5. CASE c.kind = "forget" /\ ForgetInstrument(c.slot)
  <2>1. /\ voices' = {v \in voices : v.slot # c.slot}
        /\ schedule' = Restrict(schedule, DOMAIN schedule \ EventsOf(c.slot))
    BY <1>5 DEF ForgetInstrument
  <2>2. /\ DOMAIN schedule' \subseteq DOMAIN schedule
        /\ \A p \in DOMAIN schedule' : schedule'[p] = schedule[p] /\ schedule[p].slot # c.slot
    BY <2>1 DEF Restrict, EventsOf
  <2>3. InEngine(s)' \subseteq S
    BY <2>1, <2>2, <1>0, InEngineNext
  <2>4. c.slot = s => InEngine(s)' = {}
    BY <2>1, <2>2 DEF InEngine, EventsOf
  <2>5. QED BY <2>3, <2>4 DEF S
<1>6. QED BY <1>1, <1>2, <1>3, <1>4, <1>5 DEF Apply

(* A step that gives the slots nothing new.                                *)
SlotInv(s) == HeldInv(s) /\ PatchInv(s) /\ ReleasedInv(s)

LEMMA Numbers ==
    ASSUME TypeInv, NEW s \in Slots
    PROVE  /\ words \in Nat /\ wanted[s] \in Patch /\ instruments[s] \in Patch /\ storing.patch \in Patch
           /\ wanted[s].binding \in Nat /\ instruments[s].binding \in Nat /\ storing.patch.binding \in Nat
           /\ passed.released[s] \in 0 .. 2
BY DEF TypeInv, Patch

LEMMA SlotKept ==
    ASSUME TypeInv, NEW s \in Slots, SlotInv(s), Queue' = Queue, InEngine(s)' \subseteq InEngine(s),
           UNCHANGED <<bound, wanted, storing, pending, instruments, dhead, dtail>>,
           passed'.released = passed.released,
           words' \in {words, words + 1},
           dpc' = dpc \/ (dpc = "render" /\ dpc' = "count"),
           live => live',
           pc' = "store" => pc = "store",
           pc' = "release" => pc = "release" /\ cur' = cur,
           cur'.slot = s => cur'.patch.binding = wanted[s].binding /\ bound[s] # None
    PROVE  SlotInv(s)'
<1>1. /\ InQueue(s)' = InQueue(s) /\ Forgotten(s)' = Forgotten(s)
      /\ Clean(s) => Clean(s)'
  BY InQueueStays DEF Clean
<1>2. HeldInv(s)'
  BY <1>1 DEF SlotInv, HeldInv
<1>3. wanted[s].binding <= words' /\ \A b \in wanted[s].binding .. words : b \in wanted[s].binding .. words'
  <2>1. words <= words' /\ words' \in Nat /\ words \in Nat /\ wanted[s].binding \in Nat
    BY Numbers
  <2>2. wanted[s].binding <= words
    BY DEF SlotInv, PatchInv
  <2>3. QED BY <2>1, <2>2
<1>4. PatchInv(s)'
  BY <1>1, <1>3 DEF SlotInv, PatchInv, Storing
<1>5. ReleasedInv(s)'
  BY <1>1 DEF SlotInv, ReleasedInv, Releasing, NoneBehind, AppliedSince
<1>6. QED BY <1>2, <1>4, <1>5 DEF SlotInv

BindingFrame == <<bound, wanted, storing, pending, instruments, dhead, dtail, passed, words, dpc>>

LEMMA BindingKept ==
    ASSUME RingInv, TypeInv, BindingInv,
           \/ FireScheduled \/ VoiceEnds \/ PlayEnds \/ PublishSounding \/ FreeCollected \/ Refuse \/ WriteCommand
           \/ Close \/ SequenceApplied \/ PollQuiet \/ Quiet \/ WaitOver \/ WaitWord \/ AudioOn \/ UNCHANGED vars
    PROVE  BindingInv'
<1> USE DEF interpreterVars, ringVars, engineVars, sampleVars
<1> DEFINE Kept == /\ UNCHANGED <<bound, wanted, storing, pending, instruments, dhead, dtail>>
                   /\ passed'.released = passed.released
                   /\ words' \in {words, words + 1}
                   /\ dpc' = dpc \/ (dpc = "render" /\ dpc' = "count")
                   /\ live => live'
                   /\ pc' = "store" => pc = "store"
                   /\ pc' = "release" => pc = "release" /\ cur' = cur
                   /\ cur' = cur \/ cur' = NoCommand
                   /\ (\/ UNCHANGED <<voices, schedule>>
                       \/ FireScheduled \/ VoiceEnds)
<1>1. ASSUME FireScheduled PROVE Kept
  BY <1>1 DEF FireScheduled
<1>2. ASSUME VoiceEnds PROVE Kept
  BY <1>2 DEF VoiceEnds
<1>3. ASSUME PlayEnds PROVE Kept
  BY <1>3 DEF PlayEnds
<1>4. ASSUME PublishSounding PROVE Kept
  BY <1>4 DEF PublishSounding
<1>5. ASSUME FreeCollected PROVE Kept
  BY <1>5 DEF FreeCollected
<1>6. ASSUME Refuse PROVE Kept
  BY <1>6 DEF Refuse
<1>7. ASSUME WriteCommand PROVE Kept
  BY <1>7 DEF WriteCommand
<1>8. ASSUME Close PROVE Kept
  BY <1>8 DEF Close
<1>9. ASSUME SequenceApplied PROVE Kept
  BY <1>9 DEF SequenceApplied, TypeInv
<1>10. ASSUME PollQuiet PROVE Kept
  BY <1>10 DEF PollQuiet
<1>11. ASSUME Quiet PROVE Kept
  BY <1>11 DEF Quiet
<1>12. ASSUME WaitOver PROVE Kept
  BY <1>12 DEF WaitOver
<1>13. ASSUME WaitWord PROVE Kept
  BY <1>13 DEF WaitWord, TypeInv
<1>14. ASSUME AudioOn PROVE Kept
  BY <1>14 DEF AudioOn, WordUnchanged, OpenDevice
<1>15. ASSUME (UNCHANGED vars) PROVE Kept
  BY <1>15 DEF vars
<1>k. Kept
  BY <1>1, <1>2, <1>3, <1>4, <1>5, <1>6, <1>7, <1>8, <1>9, <1>10, <1>11, <1>12, <1>13, <1>14, <1>15
<1>q. Queue' = Queue
  BY QueueStays DEF QueueActions
<1> HIDE DEF Kept
<1>e. ASSUME NEW s PROVE InEngine(s)' \subseteq InEngine(s)
  BY <1>k, InEngineStays, InEngineShrinks DEF Kept
<1>c. ASSUME NEW s \in Slots PROVE cur'.slot = s => cur'.slot = cur.slot /\ cur' = cur
  BY <1>k, NoCommandIs DEF Kept, Slots
<1>s. ASSUME NEW s \in Slots PROVE SlotInv(s)'
  <2>1. SlotInv(s)
    BY DEF BindingInv, SlotInv
  <2>2. cur'.slot = s => cur'.patch.binding = wanted[s].binding /\ bound[s] # None
    BY <2>1, <1>c DEF SlotInv, HeldInv
  <2>3. QED BY <1>k, <1>q, <1>e, <2>1, <2>2, SlotKept DEF Kept
<1> QED BY <1>s DEF SlotInv, BindingInv

(* The words that give a command: of the patch stored last.                *)
LEMMA BindingGiven ==
    ASSUME RingInv, TypeInv, BindingInv, NoteOn \/ ForgetWord \/ SilenceWord \/ SequenceNote \/ PlaySamples
    PROVE  BindingInv'
<1> DEFINE OfLast == \A s \in Slots : cur'.slot = s => cur'.patch.binding = wanted[s].binding /\ bound[s] # None
<1>1. pc' \in {"idle", "free", "submit"} /\ words' = words + 1 /\ (live => live')
  BY DEF NoteOn, ForgetWord, SilenceWord, SequenceNote, PlaySamples, StartWord, CollectFinished, OpenDevice
<1>2. OfLast
  <2>1. ASSUME NoteOn PROVE OfLast
    <3>1. PICK s \in Slots : bound[s] # None /\ cur' = Command("note", s)
      BY <2>1 DEF NoteOn, StartWord
    <3>2. cur'.slot = s /\ cur'.patch = wanted[s]
      BY <3>1, CommandIs, SizesAssumption DEF Slots, Kinds
    <3>3. QED BY <3>1, <3>2
  <2>2. ASSUME ForgetWord PROVE OfLast
    <3>1. PICK s \in Slots : bound[s] # None /\ cur' = Command("forget", s)
      BY <2>2 DEF ForgetWord, StartWord
    <3>2. cur'.slot = s /\ cur'.patch = wanted[s]
      BY <3>1, CommandIs, SizesAssumption DEF Slots, Kinds
    <3>3. QED BY <3>1, <3>2
  <2>3. ASSUME SilenceWord PROVE OfLast
    <3>1. cur'.slot = 0
      BY <2>3, CommandIs, SizesAssumption DEF SilenceWord, StartWord, Kinds
    <3>2. QED BY <3>1 DEF Slots
  <2>4. ASSUME SequenceNote PROVE OfLast
    <3>1. PICK s \in Slots : bound[s] # None /\ cur' = [Command("note", s) EXCEPT !.scheduled = TRUE]
      BY <2>4 DEF SequenceNote, StartWord
    <3>2. Command("note", s) \in Commands /\ Command("note", s).slot = s /\ Command("note", s).patch = wanted[s]
      BY CommandIs, SizesAssumption DEF Slots, Kinds
    <3>3. cur'.slot = s /\ cur'.patch = wanted[s]
      BY <3>1, <3>2 DEF Commands, Forms
    <3>4. QED BY <3>1, <3>3
  <2>5. ASSUME PlaySamples PROVE OfLast
    <3>1. words + 1 \in Nat /\ words + 1 # 0
      BY DEF TypeInv
    <3>2. cur'.slot = 0 \/ (cur' = cur /\ pc = "idle")
      BY <2>5, <3>1, PlayIs DEF PlaySamples, StartWord
    <3>3. pc = "idle" => cur.slot = 0
      BY NoCommandIs DEF TypeInv, Submitting
    <3>4. QED BY <3>2, <3>3 DEF Slots
  <2>6. QED BY <2>1, <2>2, <2>3, <2>4, <2>5
<1>3. Queue' = Queue
  BY QueueStays DEF QueueActions
<1> HIDE DEF OfLast
<1>4. ASSUME NEW s \in Slots PROVE SlotInv(s)'
  <2>1. SlotInv(s)
    BY DEF BindingInv, SlotInv
  <2>2. cur'.slot = s => cur'.patch.binding = wanted[s].binding /\ bound[s] # None
    BY <1>2 DEF OfLast
  <2>3. UNCHANGED <<bound, wanted, storing, pending, instruments, dhead, dtail, voices, schedule, dpc, passed>>
    <3>1. WordUnchanged
      BY DEF NoteOn, ForgetWord, SilenceWord, SequenceNote, PlaySamples
    <3>2. QED BY <3>1 DEF WordUnchanged, engineVars
  <2>4. InEngine(s)' \subseteq InEngine(s)
    BY <2>3, InEngineStays
  <2>5. QED BY <1>1, <1>3, <2>1, <2>2, <2>3, <2>4, SlotKept
<1>5. QED BY <1>4 DEF SlotInv, BindingInv

(* The steps of a render before and after it sounds.                       *)
LEMMA BindingDrain ==
    ASSUME RingInv, TypeInv, BindingInv, StartDrain \/ PublishHead \/ CountRender
    PROVE  BindingInv'
<1> USE DEF interpreterVars, ringVars, engineVars, sampleVars
<1>1. Queue' = Queue
  BY QueueStays DEF QueueActions
<1>2. UNCHANGED <<pc, cur, words, bound, wanted, storing, pending, instruments, live, voices, schedule>>
  BY DEF StartDrain, PublishHead, CountRender
<1>3. SUFFICES ASSUME NEW s \in Slots PROVE SlotInv(s)'
  BY DEF SlotInv, BindingInv
<1>4. SlotInv(s) /\ InEngine(s)' = InEngine(s) /\ InQueue(s)' = InQueue(s) /\ Forgotten(s)' = Forgotten(s)
  BY <1>1, <1>2, InEngineStays, InQueueStays DEF BindingInv, SlotInv
<1>5. HeldInv(s)' /\ PatchInv(s)' /\ (Releasing(s)' => Clean(s)' \/ Forgotten(s)')
  BY <1>2, <1>4 DEF SlotInv, HeldInv, PatchInv, ReleasedInv, Releasing, Storing, Clean
<1>6. CASE StartDrain
  <2>1. dpc = "patches" /\ dpc' = "drain" /\ passed' = passed /\ dhead' = head /\ dtail' = tail
    BY <1>6 DEF StartDrain
  <2>2. Distance(dhead', dtail') = Len(Queue) /\ Len(Queue) \in Nat
    <3>1. Distance(head, tail) \in Nat
      BY DistanceType, CapacityAssumption DEF RingInv
    <3>2. QED BY <2>1, <3>1 DEF Queue, ReadFrom
  <2>3. NoneBehind(s)'
    BY <1>1, <2>2 DEF NoneBehind
  <2>4. QED BY <1>2, <1>4, <1>5, <2>1, <2>3 DEF SlotInv, ReleasedInv, AppliedSince
<1>7. CASE PublishHead
  <2>1. dpc = "drain" /\ dpc' \in {"render", "idle"} /\ passed' = passed /\ dhead = dtail
    BY <1>7 DEF PublishHead
  <2>2. Distance(dhead, dtail) = 0
    BY <2>1, NoDistance DEF RingInv
  <2>3. NoneBehind(s) => InQueue(s) = {}
    BY <2>2, InQueueIs DEF NoneBehind
  <2>4. QED BY <1>2, <1>4, <1>5, <2>1, <2>3 DEF SlotInv, ReleasedInv, AppliedSince
<1>8. CASE CountRender
  <2>1. /\ dpc = "count" /\ dpc' = "idle"
        /\ passed'.released[s] = OneMore(passed.released[s])
    BY <1>8 DEF CountRender, TypeInv
  <2>2. AppliedSince(passed.released[s])' => AppliedSince(passed.released[s])
    BY <2>1, Numbers DEF AppliedSince, OneMore
  <2>3. QED BY <1>2, <1>4, <1>5, <2>1, <2>2 DEF SlotInv, ReleasedInv
<1>9. QED BY <1>6, <1>7, <1>8

(* Patches move.                                                           *)
LEMMA BindingMoved ==
    ASSUME RingInv, TypeInv, BindingInv, TakePendingPatch \/ AudioOff \/ PatchWord
    PROVE  BindingInv'
<1> USE DEF interpreterVars, ringVars, engineVars, sampleVars
<1>1. Queue' = Queue
  BY QueueStays DEF QueueActions
<1>2. UNCHANGED <<cur, bound, wanted, voices, schedule, passed>>
  BY DEF TakePendingPatch, AudioOff, PatchWord
<1>3. SUFFICES ASSUME NEW s \in Slots PROVE SlotInv(s)'
  BY DEF SlotInv, BindingInv
<1>4. SlotInv(s) /\ InEngine(s)' = InEngine(s) /\ InQueue(s)' = InQueue(s) /\ Forgotten(s)' = Forgotten(s)
  BY <1>1, <1>2, InEngineStays, InQueueStays DEF BindingInv, SlotInv
<1>5. HeldInv(s)'
  BY <1>2, <1>4 DEF SlotInv, HeldInv
<1>6. CASE TakePendingPatch
  <2>1. /\ UNCHANGED <<pc, live, words, storing, dhead, dtail>> /\ dpc \in {"patches", "idle"} /\ dpc' = "patches"
        /\ instruments'[s] \in {instruments[s], wanted[s]} /\ pending'[s] \in {None, pending[s]}
    <3>1. PICK t \in toTake :
             /\ instruments' = [instruments EXCEPT ![t] = IF pending[t] = None THEN @ ELSE pending[t]]
             /\ pending' = [pending EXCEPT ![t] = None]
      BY <1>6 DEF TakePendingPatch, Lowest
    <3>2. instruments'[s] \in {instruments[s], pending[s]} /\ pending'[s] \in {None, pending[s]}
          /\ (pending[s] = None => instruments'[s] = instruments[s])
      BY <3>1 DEF TypeInv
    <3>3. pending[s] \in {None, wanted[s]}
      BY <1>4 DEF SlotInv, PatchInv
    <3>4. QED BY <1>6, <3>2, <3>3 DEF TakePendingPatch
  <2>2. PatchInv(s)'
    BY <1>2, <1>4, <2>1, Numbers DEF SlotInv, PatchInv, Storing, Clean
  <2>3. ReleasedInv(s)'
    BY <1>2, <1>4, <2>1 DEF SlotInv, ReleasedInv, Releasing, Clean, AppliedSince
  <2>4. QED BY <1>5, <2>2, <2>3 DEF SlotInv
<1>7. CASE AudioOff
  <2>1. /\ UNCHANGED <<words, storing>> /\ dpc = "idle" /\ dpc' = "drain" /\ pc = "idle" /\ pc' = "closing"
        /\ dhead' = head /\ dtail' = tail /\ pending'[s] = None
        /\ instruments'[s] \in {instruments[s], wanted[s]}
    <3>1. pending[s] \in {None, wanted[s]}
      BY <1>4 DEF SlotInv, PatchInv
    <3>2. QED BY <1>7, <3>1 DEF AudioOff
  <2>2. PatchInv(s)'
    BY <1>2, <1>4, <2>1, Numbers DEF SlotInv, PatchInv, Storing
  <2>3. NoneBehind(s)'
    <3>1. Distance(head, tail) \in Nat
      BY DistanceType, CapacityAssumption DEF RingInv
    <3>2. Distance(dhead', dtail') = Len(Queue) /\ Len(Queue) \in Nat
      BY <2>1, <3>1 DEF Queue, ReadFrom
    <3>3. QED BY <1>1, <3>2 DEF NoneBehind
  <2>4. ReleasedInv(s)'
    BY <1>2, <1>4, <2>1, <2>3 DEF SlotInv, ReleasedInv, Releasing, Clean, AppliedSince
  <2>5. QED BY <1>5, <2>2, <2>4 DEF SlotInv
<1>8. CASE PatchWord
  <2>1. /\ UNCHANGED <<live, pending, instruments, dpc, dhead, dtail>> /\ words' = words + 1 /\ pc = "idle"
        /\ pc' \in {"store", "bind"}
    BY <1>8 DEF PatchWord
  <2>2. Storing(s)' => bound[s] # None /\ storing'.patch.binding = wanted[s].binding
    <3>1. PICK name \in Names :
             \/ \E t \in Slots :
                  /\ bound[t] = name
                  /\ storing' = [name |-> name, slot |-> t, patch |-> [wanted[t] EXCEPT !.version = words']]
             \/ pc' = "bind"
      BY <1>8 DEF PatchWord
    <3>2. CASE pc' = "bind"
      BY <3>2 DEF Storing
    <3>3. ASSUME NEW t \in Slots, bound[t] = name,
                 storing' = [name |-> name, slot |-> t, patch |-> [wanted[t] EXCEPT !.version = words']]
          PROVE  storing'.slot = t /\ bound[t] # None /\ storing'.patch.binding = wanted[t].binding
      BY <3>3, Numbers, NamesAssumption DEF Patch
    <3>4. QED BY <3>1, <3>2, <3>3 DEF Storing
  <2>3. wanted[s].binding <= words' /\ wanted[s].binding \in wanted[s].binding .. words'
    BY <1>4, <2>1, Numbers DEF SlotInv, PatchInv
  <2>4. PatchInv(s)'
    BY <1>2, <1>4, <2>1, <2>2, <2>3 DEF SlotInv, PatchInv
  <2>5. ReleasedInv(s)'
    BY <1>1, <1>2, <1>4, <2>1 DEF SlotInv, ReleasedInv, Releasing, Clean, AppliedSince, NoneBehind
  <2>6. QED BY <1>5, <2>4, <2>5 DEF SlotInv
<1>9. QED BY <1>6, <1>7, <1>8

(* While the device is off and not closing nothing is queued.              *)
LEMMA OfflineEmpty ==
    ASSUME RingInv, ~live, pc # "closing"
    PROVE  Queue = <<>>
BY NothingToRead DEF RingInv, ReadFrom

(* Slots are released, bound and given a patch.                            *)
LEMMA BindingSlots ==
    ASSUME RingInv, TypeInv, BindingInv, Release \/ Bind \/ StorePatch
    PROVE  BindingInv'
<1> USE DEF interpreterVars, ringVars, engineVars, sampleVars
<1>1. Queue' = Queue
  BY QueueStays DEF QueueActions
<1>2. UNCHANGED <<words, live, dpc, dhead, dtail, voices, schedule>>
  BY DEF Release, Bind, StorePatch
<1>3. SUFFICES ASSUME NEW s \in Slots PROVE SlotInv(s)'
  BY DEF SlotInv, BindingInv
<1>4. SlotInv(s) /\ InEngine(s)' = InEngine(s) /\ InQueue(s)' = InQueue(s) /\ Forgotten(s)' = Forgotten(s)
  BY <1>1, <1>2, InEngineStays, InQueueStays DEF BindingInv, SlotInv
<1>5. NoneBehind(s)' = NoneBehind(s) /\ Clean(s)' = Clean(s)
  BY <1>1, <1>2, <1>4 DEF NoneBehind, Clean
<1>6. 0 \notin Slots
  BY DEF Slots
<1>7. CASE Release
  <2>1. /\ UNCHANGED <<wanted, storing, pending, instruments>>
        /\ pc = "release" /\ pc' = "idle" /\ cur'.slot = 0
        /\ bound' = [bound EXCEPT ![cur.slot] = None]
        /\ passed' = [passed EXCEPT !.released[cur.slot] = 0]
    BY <1>7, NoCommandIs DEF Release
  <2>2. HeldInv(s)' /\ PatchInv(s)'
    BY <1>2, <1>4, <1>6, <2>1 DEF SlotInv, HeldInv, PatchInv, Storing
  <2>3. ReleasedInv(s)'
    <3>1. CASE s = cur.slot
      <4>1. passed'.released[s] = 0
        BY <2>1, <3>1 DEF TypeInv
      <4>2. Clean(s) \/ Forgotten(s)
        BY <1>4, <2>1, <3>1 DEF SlotInv, ReleasedInv, Releasing
      <4>3. QED BY <1>4, <1>5, <4>1, <4>2 DEF ReleasedInv, AppliedSince
    <3>2. CASE s # cur.slot
      <4>1. passed'.released[s] = passed.released[s] /\ bound'[s] = bound[s]
        BY <2>1, <3>2 DEF TypeInv
      <4>2. QED BY <1>2, <1>4, <1>5, <2>1, <4>1 DEF SlotInv, ReleasedInv, AppliedSince, Releasing
    <3>3. QED BY <3>1, <3>2
  <2>4. QED BY <2>2, <2>3 DEF SlotInv
<1>8. CASE Bind
  <2>1. PICK t \in Slots :
           /\ Reusable(t)
           /\ bound' = [bound EXCEPT ![t] = storing.name]
           /\ storing' = [storing EXCEPT !.slot = t, !.patch = [binding |-> words, version |-> words]]
    BY <1>8 DEF Bind, Lowest
  <2>2. /\ UNCHANGED <<cur, wanted, pending, instruments, passed>> /\ pc = "bind" /\ pc' = "store"
        /\ storing.name # None /\ cur.slot = 0
    BY <1>8, NoCommandIs DEF Bind, TypeInv, Submitting
  <2>3. storing'.slot = t /\ storing'.patch.binding = words
    BY <2>1 DEF TypeInv
  <2>4. bound'[s] = IF s = t THEN storing.name ELSE bound[s]
    BY <2>1 DEF TypeInv
  <2>5. HeldInv(s)' /\ ReleasedInv(s)'
    BY <1>2, <1>4, <1>5, <1>6, <2>2, <2>4 DEF SlotInv, HeldInv, ReleasedInv, AppliedSince, Releasing
  <2>6. Storing(s)' => bound'[s] # None /\ words \in wanted[s].binding .. words /\ Clean(s)
    <3>1. SUFFICES ASSUME s = t PROVE words \in wanted[s].binding .. words /\ Clean(s)
      BY <2>2, <2>3, <2>4 DEF Storing
    <3>2. words \in wanted[s].binding .. words
      BY <1>4, Numbers DEF SlotInv, PatchInv
    <3>3. bound[s] = None /\ (~live \/ passed.released[s] = 2)
      BY <2>1, <3>1, Numbers DEF Reusable, Passed
    <3>4. InQueue(s) = {}
      <4>1. CASE ~live
        <5>1. Queue = <<>>
          BY <2>2, <4>1, OfflineEmpty
        <5>2. QED BY <5>1 DEF InQueue
      <4>2. CASE passed.released[s] = 2
        BY <1>4, <3>3, <4>2 DEF SlotInv, ReleasedInv, AppliedSince
      <4>3. QED BY <3>3, <4>1, <4>2
    <3>5. Clean(s)
      BY <1>4, <3>3, <3>4, InQueueIs DEF SlotInv, ReleasedInv, Releasing
    <3>6. QED BY <3>2, <3>5
  <2>7. PatchInv(s)'
    BY <1>2, <1>4, <1>5, <2>2, <2>3, <2>6 DEF SlotInv, PatchInv
  <2>8. QED BY <2>5, <2>7 DEF SlotInv
<1>9. CASE StorePatch
  <2> DEFINE t == storing.slot
  <2>1. /\ UNCHANGED <<cur, bound, passed>> /\ pc = "store" /\ pc' = "idle" /\ cur.slot = 0
        /\ wanted' = [wanted EXCEPT ![t] = storing.patch]
        /\ \/ ~live /\ instruments' = [instruments EXCEPT ![t] = storing.patch] /\ pending' = pending
           \/ live /\ pending' = [pending EXCEPT ![t] = storing.patch] /\ instruments' = instruments
    BY <1>9, NoCommandIs DEF StorePatch, TypeInv, Submitting
  <2>2. ReleasedInv(s)'
    BY <1>2, <1>4, <1>5, <1>6, <2>1 DEF SlotInv, ReleasedInv, AppliedSince, Releasing
  <2>3. CASE s = t
    <3>1. /\ storing.patch.binding \in wanted[s].binding .. words
          /\ storing.patch.binding = wanted[s].binding \/ Clean(s)
      BY <1>4, <2>1, <2>3 DEF SlotInv, PatchInv, Storing
    <3>2. wanted'[s] = storing.patch
      BY <2>1, <2>3 DEF TypeInv
    <3>3. HeldInv(s)'
      BY <1>4, <1>6, <2>1, <3>1, <3>2 DEF SlotInv, HeldInv, Clean
    <3>4. /\ pending'[s] \in {None, wanted'[s]} /\ (~live => pending'[s] = None)
          /\ instruments'[s] \in {instruments[s], storing.patch}
      BY <1>4, <2>1, <2>3, <3>2 DEF TypeInv, SlotInv, PatchInv
    <3>5. instruments'[s].binding <= storing.patch.binding /\ storing.patch.binding <= words
      <4>1. instruments[s].binding <= wanted[s].binding
        BY <1>4 DEF SlotInv, PatchInv
      <4>2. instruments[s].binding <= storing.patch.binding /\ storing.patch.binding <= words
        BY <3>1, <4>1, Numbers
      <4>3. storing.patch.binding <= storing.patch.binding
        BY Numbers
      <4>4. QED BY <3>4, <4>2, <4>3
    <3>6. PatchInv(s)'
      BY <1>2, <2>1, <3>2, <3>4, <3>5 DEF PatchInv, Storing
    <3>7. QED BY <2>2, <3>3, <3>6 DEF SlotInv
  <2>4. CASE s # t
    <3>1. wanted'[s] = wanted[s] /\ pending'[s] = pending[s] /\ instruments'[s] = instruments[s]
      BY <2>1, <2>4 DEF TypeInv
    <3>2. HeldInv(s)' /\ PatchInv(s)'
      BY <1>2, <1>4, <1>6, <2>1, <3>1 DEF SlotInv, HeldInv, PatchInv, Storing
    <3>3. QED BY <2>2, <3>2 DEF SlotInv
  <2>5. QED BY <2>3, <2>4
<1>10. QED BY <1>7, <1>8, <1>9

(* Commands are put in the queue and applied.                              *)
LEMMA BindingPut ==
    ASSUME RingInv, TypeInv, BindingInv, PublishCommand \/ ApplyOffline
    PROVE  BindingInv'
<1> USE DEF interpreterVars, ringVars, engineVars, sampleVars
<1>1. /\ UNCHANGED <<words, bound, wanted, storing, passed, live, dhead, dtail, pending, dpc>>
      /\ instruments' = instruments /\ Accepted /\ pc \in {"submit", "publish"} /\ cur \in Commands
  BY DEF PublishCommand, ApplyOffline, Apply, TypeInv
<1>2. SUFFICES ASSUME NEW s \in Slots PROVE SlotInv(s)'
  BY DEF SlotInv, BindingInv
<1>3. SlotInv(s)
  BY DEF BindingInv, SlotInv
<1>4. /\ pc' \in {"free", "submit", "release", "idle"}
      /\ cur'.slot = s => cur.slot = s /\ cur'.patch = cur.patch
      /\ pc' = "release" /\ cur'.slot = s => cur.kind = "forget" /\ cur.slot = s
  <2>1. CASE cur.scheduled /\ cur.kind = "note"
    BY <1>1, <2>1 DEF Accepted, CollectFinished, Commands, Forms
  <2>2. CASE ~(cur.scheduled /\ cur.kind = "note")
    BY <1>1, <2>2, NoCommandIs DEF Accepted, Slots
  <2>3. QED BY <2>1, <2>2
<1>5. cur.slot = s => cur.patch.binding = wanted[s].binding /\ bound[s] # None
  BY <1>3 DEF SlotInv, HeldInv
<1> DEFINE given == IF cur.slot = s THEN {cur.patch.binding} ELSE {}
<1>6. /\ InEngine(s)' \cup InQueue(s)' \subseteq InEngine(s) \cup InQueue(s) \cup given
      /\ cur.slot # s => /\ InQueue(s)' \subseteq InQueue(s) /\ (Clean(s) => Clean(s)')
                         /\ (Forgotten(s) => Forgotten(s)') /\ (NoneBehind(s) => NoneBehind(s)')
      /\ cur.kind = "forget" /\ cur.slot = s => Clean(s)' \/ Forgotten(s)'
  <2>1. CASE PublishCommand
    <3>1. Queue' = Append(Queue, cur) /\ InEngine(s)' = InEngine(s)
      BY <2>1, Publishes, InEngineStays DEF PublishCommand
    <3>2. /\ InQueue(s)' \subseteq InQueue(s) \cup given
          /\ Forgotten(s) /\ cur.slot # s => Forgotten(s)'
          /\ cur.kind = "forget" /\ cur.slot = s => Forgotten(s)'
      BY <3>1, InQueuePut
    <3>3. cur.slot # s /\ NoneBehind(s) => NoneBehind(s)'
      <4> DEFINE d == Distance(dhead, dtail)
                 n == Len(Queue)
      <4>1. /\ Queue \in Seq(Commands) /\ n \in Nat /\ d \in Nat
        BY CapacityAssumption, DistanceType DEF TypeInv, RingInv
      <4>2. Len(Queue') = n + 1 /\ Queue'[n + 1] = cur /\ \A i \in 1 .. n : Queue'[i] = Queue[i]
        BY <3>1, <4>1
      <4>3. \A i \in d + 1 .. n + 1 : (i \in d + 1 .. n /\ i \in 1 .. n) \/ i = n + 1
        BY <4>1
      <4>4. d' = d
        BY <1>1
      <4>5. SUFFICES ASSUME cur.slot # s, NoneBehind(s) PROVE \A i \in d + 1 .. n + 1 : Queue'[i].slot # s
        BY <4>2, <4>4 DEF NoneBehind
      <4>6. QED BY <4>2, <4>3, <4>5 DEF NoneBehind
    <3>4. QED BY <3>1, <3>2, <3>3 DEF Clean
  <2>2. CASE ApplyOffline
    <3>1. Queue' = Queue /\ Queue = <<>>
      BY <2>2, QueueStays, OfflineEmpty DEF ApplyOffline, QueueActions
    <3>2. /\ InEngine(s)' \subseteq InEngine(s) \cup given
          /\ cur.kind = "forget" /\ cur.slot = s => InEngine(s)' = {}
      BY <1>1, <2>2, InEngineApplied DEF ApplyOffline
    <3>3. InQueue(s)' = {} /\ InQueue(s) = {} /\ Forgotten(s)' = Forgotten(s)
      BY <3>1, InQueueStays DEF InQueue
    <3>4. NoneBehind(s)' = NoneBehind(s)
      BY <1>1, <3>1 DEF NoneBehind
    <3>5. QED BY <3>2, <3>3, <3>4 DEF Clean
  <2>3. QED BY <2>1, <2>2
<1> HIDE DEF given
<1>7. HeldInv(s)'
  <2>1. given \subseteq {wanted[s].binding}
    BY <1>5 DEF given
  <2>2. QED BY <1>1, <1>3, <1>4, <1>5, <1>6, <2>1 DEF SlotInv, HeldInv
<1>8. PatchInv(s)'
  <2>1. ~Storing(s)'
    BY <1>4 DEF Storing
  <2>2. QED BY <1>1, <1>3, <2>1 DEF SlotInv, PatchInv
<1>9. ReleasedInv(s)'
  <2>1. Releasing(s)' => Clean(s)' \/ Forgotten(s)'
    <3>1. CASE pc' = "release" /\ cur'.slot = s
      BY <1>4, <1>6, <3>1
    <3>2. CASE bound[s] = None
      <4>1. cur.slot # s
        BY <1>5, <3>2
      <4>2. QED BY <1>3, <1>6, <3>2, <4>1 DEF SlotInv, ReleasedInv, Releasing
    <3>3. QED BY <1>1, <3>1, <3>2 DEF Releasing
  <2>2. bound[s] = None => cur.slot # s
    BY <1>5
  <2>3. QED BY <1>1, <1>3, <1>6, <2>1, <2>2 DEF SlotInv, ReleasedInv, AppliedSince
<1>10. QED BY <1>7, <1>8, <1>9 DEF SlotInv

LEMMA BindingApplied ==
    ASSUME RingInv, TypeInv, BindingInv, ApplyNext
    PROVE  BindingInv'
<1> USE DEF interpreterVars, ringVars, engineVars, sampleVars
<1> DEFINE c == ring[dhead]
<1>1. /\ UNCHANGED <<pc, cur, words, bound, wanted, storing, passed, live, dtail, pending, dpc, instruments>>
      /\ Apply(c) /\ dpc = "drain"
  BY DEF ApplyNext, Apply
<1>2. /\ Len(Queue) \in Nat /\ Len(Queue) > 0 /\ Queue[1] = c /\ Queue' = Tail(Queue) /\ Queue \in Seq(Commands)
  BY AppliesHead DEF TypeInv
<1>3. c \in Commands
  BY <1>2
<1> HIDE DEF c
<1>4. SUFFICES ASSUME NEW s \in Slots PROVE SlotInv(s)'
  BY DEF SlotInv, BindingInv
<1>5. SlotInv(s)
  BY DEF BindingInv, SlotInv
<1>6. /\ InQueue(s)' \subseteq InQueue(s)
      /\ Forgotten(s) => Forgotten(s)' \/ (c.kind = "forget" /\ c.slot = s /\ InQueue(s)' = {})
  BY <1>2, InQueueTaken
<1>7. /\ InEngine(s)' \subseteq InEngine(s) \cup InQueue(s)
      /\ c.kind = "forget" /\ c.slot = s => InEngine(s)' = {}
  <2>1. /\ InEngine(s)' \subseteq InEngine(s) \cup (IF c.slot = s THEN {c.patch.binding} ELSE {})
        /\ c.kind = "forget" /\ c.slot = s => InEngine(s)' = {}
    BY <1>1, <1>3, InEngineApplied
  <2>2. 1 \in 1 .. Len(Queue)
    BY <1>2
  <2>3. c.slot = s => c.patch.binding \in InQueue(s)
    BY <1>2, <2>2, InQueueIs
  <2>4. QED BY <2>1, <2>3
<1>8. (Clean(s) => Clean(s)') /\ (Clean(s) \/ Forgotten(s) => Clean(s)' \/ Forgotten(s)')
  BY <1>6, <1>7 DEF Clean
<1>9. NoneBehind(s) => NoneBehind(s)'
  <2> DEFINE d == Distance(dhead, dtail)
             n == Len(Queue)
  <2>1. d' = d - 1 /\ d \in Nat /\ n \in Nat /\ n > 0
    <3>1. dhead \in Indices /\ dtail \in Indices /\ dhead # dtail /\ dhead' = NextIndex(dhead) /\ dtail' = dtail
      BY DEF RingInv, ApplyNext
    <3>2. Distance(NextIndex(dhead), dtail) = Distance(dhead, dtail) - 1
      BY <3>1, HeadMoves
    <3>3. d \in Nat
      BY <3>1, DistanceType, CapacityAssumption
    <3>4. QED BY <1>2, <3>1, <3>2, <3>3
  <2>2. Len(Queue') = n - 1 /\ \A i \in 1 .. n - 1 : Queue'[i] = Queue[i + 1]
    BY <1>2
  <2> HIDE DEF n
  <2>3. d # 0
    BY NoDistance DEF RingInv, ApplyNext
  <2>4. SUFFICES ASSUME NoneBehind(s) PROVE \A i \in d' + 1 .. n - 1 : Queue'[i].slot # s
    BY <2>2 DEF NoneBehind
  <2> HIDE DEF d
  <2>5. \A i \in d' + 1 .. n - 1 : i \in 1 .. n - 1 /\ i + 1 \in d + 1 .. n
    <3>1. \A i \in d - 1 + 1 .. n - 1 : i \in 1 .. n - 1 /\ i + 1 \in d + 1 .. n
      BY <2>1, <2>3
    <3>2. QED BY <2>1, <3>1
  <2>6. \A i \in d + 1 .. n : Queue[i].slot # s
    BY <2>4 DEF NoneBehind, d, n
  <2>7. QED BY <2>2, <2>5, <2>6
<1>10. HeldInv(s)'
  BY <1>1, <1>5, <1>6, <1>7 DEF SlotInv, HeldInv
<1>11. PatchInv(s)'
  BY <1>1, <1>5, <1>8 DEF SlotInv, PatchInv, Storing
<1>12. ReleasedInv(s)'
  BY <1>1, <1>5, <1>6, <1>8, <1>9 DEF SlotInv, ReleasedInv, AppliedSince, Releasing
<1>13. QED BY <1>10, <1>11, <1>12 DEF SlotInv

LEMMA BindingStep ==
    ASSUME RingInv, TypeInv, BindingInv, [Next]_vars
    PROVE  BindingInv'
BY BindingKept, BindingGiven, BindingDrain, BindingMoved, BindingSlots, BindingPut, BindingApplied
   DEF Next, Device, Polls

LEMMA BindingHolds ==
    ASSUME TypeInv, BindingInv
    PROVE  OldInstrumentGone
<1>1. SUFFICES ASSUME NEW s \in Slots
               PROVE  LET binding == instruments[s].binding IN
                      /\ \A v \in voices : v.slot = s => v.binding >= binding
                      /\ \A p \in DOMAIN schedule : schedule[p].slot = s => schedule[p].binding >= binding
                      /\ \A i \in 1 .. Len(Queue) : Queue[i].slot = s /\ Queue[i].kind # "none" =>
                                                     Queue[i].patch.binding >= binding
  BY DEF OldInstrumentGone
<1>2. InEngine(s) \cup InQueue(s) \subseteq {wanted[s].binding} /\ instruments[s].binding <= wanted[s].binding
  BY DEF BindingInv, HeldInv, PatchInv
<1>3. wanted[s].binding >= instruments[s].binding
  BY <1>2, Numbers
<1>4. QED BY <1>2, <1>3, InEngineIs, InQueueIs

LEMMA InitInv == Init => IInv
<1> SUFFICES ASSUME Init PROVE IInv
  OBVIOUS
<1>1. RingInv /\ Queue = <<>>
  BY Initially
<1>2. Queue \in Seq(Commands) /\ Len(Queue) = 0 /\ DOMAIN schedule = {} /\ schedule = <<>>
  BY <1>1, EmptyScheduleIs DEF Init
<1>3. NoPatch \in Patch /\ NoPatch.binding = 0
  BY DEF NoPatch, Patch
<1>4. 0 \in 0 .. MaxInstruments
  BY SizesAssumption
<1>5. TypeInv
  <2>1. NoStore \in [name : Names \cup {None}, slot : 0 .. MaxInstruments, patch : Patch]
    BY <1>3, <1>4 DEF NoStore
  <2>2. passed \in [wait : 0 .. 2, released : [Slots -> 0 .. 2]]
    BY DEF Init
  <2>3. wanted \in [Slots -> Patch] /\ instruments \in [Slots -> Patch] /\ pending \in [Slots -> Patch \cup {None}]
    BY <1>3 DEF Init
  <2>4. schedule \in [DOMAIN schedule -> Events]
    BY <1>2, EmptyScheduleIs
  <2>5. bound = [s \in Slots |-> bound[s]]
    BY DEF Init
  <2>6. QED BY <1>2, <2>1, <2>2, <2>3, <2>4, <2>5, NoCommandIs DEF Init, TypeInv
<1>6. SampleInv
  <2>1. plays = <<>> /\ finished = <<>> /\ freed = {} /\ lost = {} /\ cur.sample = 0 /\ pc = "idle"
    BY NoCommandIs DEF Init
  <2>2. EngineInv
    <3>1. Len(finished) < Capacity
      BY <2>1, CapacityAssumption
    <3>2. QED BY <2>1, <3>1, EmptyOnce DEF EngineInv, HandedBack
  <2>3. EngineSamples = {}
    BY <2>1, EmptyOnce DEF EngineSamples, HandedBack
  <2>4. Submitted = {} /\ Queued = {}
    BY <1>2, <2>1 DEF Submitted, Queued
  <2>5. QED BY <1>2, <2>1, <2>2, <2>3, <2>4 DEF SampleInv
<1>7. CountInv
  <2>1. Awaiting = {} /\ Scheduled = 0
    BY <1>2, FS_EmptySet DEF Awaiting, Scheduled
  <2>2. InFlight = 0
    BY <2>1, FS_EmptySet DEF InFlight
  <2>3. applied = 0 /\ Due = 0
    BY NoCommandIs DEF Init, Due
  <2>4. QED BY <2>2, <2>3 DEF CountInv
<1>8. QuietInv
  BY DEF Init, QuietInv, QuietIsQuiet, Waits, Waiting
<1>9. BindingInv
  <2>1. SUFFICES ASSUME NEW s \in Slots PROVE SlotInv(s)
    BY DEF BindingInv, SlotInv
  <2>2. InEngine(s) = {} /\ InQueue(s) = {}
    BY <1>2 DEF Init, InEngine, InQueue, EventsOf
  <2>3. /\ wanted[s] = NoPatch /\ instruments[s] = NoPatch /\ pending[s] = None /\ words = 0
        /\ cur.slot = 0 /\ 0 \notin Slots /\ pc = "idle" /\ dpc = "idle"
    BY NoCommandIs DEF Init, Slots
  <2>4. HeldInv(s) /\ PatchInv(s)
    BY <2>2, <2>3, <1>3 DEF HeldInv, PatchInv, Storing
  <2>5. ReleasedInv(s)
    BY <2>2, <2>3 DEF ReleasedInv, Clean
  <2>6. QED BY <2>4, <2>5 DEF SlotInv
<1>10. QED BY <1>1, <1>5, <1>6, <1>7, <1>8, <1>9 DEF IInv

(* The inductive invariant: the ring, where the samples are, the count of  *)
(* the sequenced events, what a wait has seen, and whose patch is where.   *)
THEOREM SynthInvariance == Spec => []IInv
<1>1. Init => IInv BY InitInv
<1>2. IInv /\ [Next]_vars => IInv'
  <2>1. SUFFICES ASSUME IInv, [Next]_vars PROVE IInv'
    OBVIOUS
  <2>2. RingInv /\ TypeInv /\ SampleInv /\ CountInv /\ QuietInv /\ BindingInv
    BY <2>1 DEF IInv
  <2>3. RingInv' /\ TypeInv'
    BY <2>1, <2>2, Step, TypeStep
  <2>4. SampleInv' /\ CountInv'
    BY <2>1, <2>2, SampleStep, CountStep
  <2>5. QuietInv' /\ BindingInv'
    BY <2>1, <2>2, QuietStep, BindingStep
  <2>6. QED BY <2>3, <2>4, <2>5 DEF IInv
<1>3. QED BY <1>1, <1>2, PTL DEF Spec

(* A copy of samples given to play-samples is freed once, and not while    *)
(* the queue or a play still holds it (play_finished, synth_silence_all,   *)
(* synth_collect_finished, and p_play_samples when the ring is full).      *)
THEOREM SamplesFreedOnce == Spec => []SampleHeldOnce
<1>1. IInv => SampleHeldOnce BY HeldOnce DEF IInv
<1>2. QED BY <1>1, SynthInvariance, PTL

(* No sequenced event is dropped from the count that wait-sequence reads,  *)
(* and none but those of a note queued by half is counted twice: fired,    *)
(* turned away, cleared or forgotten, each counts once (schedule_insert,   *)
(* schedule_fire_due, schedule_clear, synth_forget_instrument).            *)
THEOREM EventsAreCounted == Spec => []EventsCounted
<1>1. IInv => EventsCounted BY CountHolds DEF IInv
<1>2. QED BY <1>1, SynthInvariance, PTL

(* A wait that is not interrupted returns in silence: the queue is empty   *)
(* and every play has ended, after wait-sequence also every event and      *)
(* every voice (synth_wait_quiet, p_wait_sequence).                        *)
THEOREM WaitsEndInSilence == Spec => []QuietIsQuiet
<1>1. IInv => QuietIsQuiet BY DEF IInv, QuietInv
<1>2. QED BY <1>1, SynthInvariance, PTL

(* A slot that is given to another instrument holds nothing of the earlier *)
(* one when the new patch arrives (synth_forget_instrument,                *)
(* instrument_slot_reusable, p_instrument_patch_store).                    *)
THEOREM SlotsChangeHands == Spec => []OldInstrumentGone
<1>1. IInv => OldInstrumentGone BY BindingHolds DEF IInv
<1>2. QED BY <1>1, SynthInvariance, PTL
==============================================================================
