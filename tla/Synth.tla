-------------------------------- MODULE Synth --------------------------------
(***************************************************************************)
(* The interpreter and the audio device's thread (synth.c, audio.c).  The  *)
(* words put commands in a ring that the device thread drains at the start *)
(* of each buffer; patches pass by the ring, through one pending place per *)
(* instrument; the sample buffers of finished plays come back through a    *)
(* second ring.  A step is one atomic access of the source to what the     *)
(* threads share; each index of a ring has one writer, so that a value     *)
(* read late is a value read earlier.                                      *)
(*                                                                         *)
(* Sound is left out: a voice, a play and a scheduled event end or fire at *)
(* some render, and "note" stands for every command that uses a patch      *)
(* (note-on, note-off, parameters).                                        *)
(***************************************************************************)
EXTENDS Integers, Sequences, FiniteSets, Functions

CONSTANTS
    Capacity,       \* SYNTH_QUEUE_CAPACITY, of both rings
    MaxInstruments, \* SYNTH_MAX_INSTRUMENTS
    Names,          \* the instruments' names
    MaxPlays,       \* SYNTH_MAX_PLAYS
    MaxScheduled,   \* SYNTH_MAX_SCHEDULED
    MaxWords,       \* bound: audio words the program executes, audio-on and audio-off not counted
    None            \* no name, no pending patch

Slots == 1 .. MaxInstruments
Places == 1 .. MaxScheduled
Lowest(S) == {s \in S : \A t \in S : s <= t}

ASSUME CapacityAssumption == Capacity \in Nat /\ Capacity > 1
ASSUME SizesAssumption == MaxInstruments \in Nat /\ MaxScheduled \in Nat
ASSUME NamesAssumption == None \notin Names

VARIABLES
    (* the interpreter's *)
    pc,             \* where it is in the word it executes
    cur,            \* the command it submits
    words,          \* words executed, which also numbers patches, bindings and samples
    bound,          \* synth_instrument_bound, _names: slot -> name or None
    wanted,         \* slot -> the patch the program stored last
    submitted,      \* synth_n_scheduled_submitted
    storing,        \* [name, slot, patch] while instrument-patch! executes
    collected,      \* finished buffers seen by synth_collect_finished
    passed,         \* renders since the wait began, and since a slot was released
    (* shared *)
    live, ring, head, tail, pending, sounding, finished, applied,
    (* the device thread's, or what stands in for it while the device is off *)
    dpc, toTake, dhead, dtail,
    instruments,    \* synth_instruments: slot -> patch
    voices,         \* the patches' bindings that sound: set of [slot, binding]
    plays,          \* synth_plays: sequence of samples
    schedule,       \* synth_schedule: place -> [slot, binding, on], the places in no order
    (* history *)
    freed, lost,    \* samples freed; samples dropped with the ring full
    torn            \* a sequenced note was put in the ring by half

interpreterVars == <<cur, words, bound, wanted, submitted, storing, collected, torn>>
ringVars == <<ring, head, tail, dhead, dtail>>
engineVars == <<instruments, voices, plays, schedule, applied>>
sampleVars == <<finished, freed, lost>>
vars == <<pc, interpreterVars, passed, live, ringVars, pending, sounding, sampleVars,
          dpc, toTake, engineVars>>

Patch == [binding : Nat, version : Nat]
NoPatch == [binding |-> 0, version |-> 0]
NoStore == [name |-> None, slot |-> 0, patch |-> NoPatch]
NoCommand == [kind |-> "none", slot |-> 0, patch |-> NoPatch, sample |-> 0, scheduled |-> FALSE]
Command(kind, slot) ==
    [kind |-> kind, slot |-> slot, patch |-> IF slot = 0 THEN NoPatch ELSE wanted[slot],
     sample |-> 0, scheduled |-> FALSE]

NextIndexUnwrapped(i) == i + 1
NextIndex(i) == (i + 1) % Capacity
RingFullUnchecked == FALSE
RingFull == NextIndex(tail) = head

(* At the start the program has given one instrument its patch, offline.   *)
Init ==
    /\ pc = "idle" /\ cur = NoCommand /\ words = 0 /\ submitted = 0
    /\ bound = [s \in Slots |-> IF s = 1 THEN CHOOSE n \in Names : TRUE ELSE None]
    /\ wanted = [s \in Slots |-> NoPatch]
    /\ storing = NoStore
    /\ collected = 0
    /\ passed = [wait |-> 0, released |-> [s \in Slots |-> 2]]
    /\ live = FALSE
    /\ ring = [i \in 0 .. Capacity - 1 |-> NoCommand] /\ head = 0 /\ tail = 0
    /\ pending = [s \in Slots |-> None] /\ sounding = FALSE /\ finished = <<>> /\ applied = 0
    /\ dpc = "idle" /\ toTake = Slots /\ dhead = 0 /\ dtail = 0
    /\ instruments = [s \in Slots |-> NoPatch]
    /\ voices = {} /\ plays = <<>> /\ schedule = <<>>
    /\ freed = {} /\ lost = {} /\ torn = FALSE

------------------------------------------------------------------------------
(* play_finished: freed while the synthesizer is offline, handed back to   *)
(* the interpreter while it is live, dropped when the ring is full.        *)
PlayFinishedTwice(sample) ==
    freed' = freed \cup {sample} /\ finished' = Append(finished, sample) /\ lost' = lost
PlayFinished(sample) ==
    IF ~live THEN freed' = freed \cup {sample} /\ UNCHANGED <<finished, lost>>
    ELSE IF Len(finished) = Capacity - 1 THEN lost' = lost \cup {sample} /\ UNCHANGED <<finished, freed>>
    ELSE finished' = Append(finished, sample) /\ UNCHANGED <<freed, lost>>

Voice(e) == [slot |-> e.slot, binding |-> e.binding]
Note(c) == [slot |-> c.slot, binding |-> c.patch.binding]
Event(c) == [slot |-> c.slot, binding |-> c.patch.binding, on |-> c.kind = "note"]

Scheduled == Cardinality(DOMAIN schedule)      \* synth_n_scheduled
ScheduleInsert(c) ==
    IF DOMAIN schedule = Places
    THEN applied' = applied + 1 /\ schedule' = schedule
    ELSE LET free == CHOOSE p \in Places : p \notin DOMAIN schedule
         IN  /\ schedule' = [p \in DOMAIN schedule \cup {free} |-> IF p = free THEN Event(c) ELSE schedule[p]]
             /\ applied' = applied

ScheduleClearUncounted == applied' = applied /\ schedule' = <<>>
ScheduleClear == applied' = applied + Scheduled /\ schedule' = <<>>

(* synth_silence_all hands back every play at once; the ring of finished   *)
(* buffers takes what it has room for.                                     *)
SilenceAll ==
    /\ voices' = {} /\ plays' = <<>>
    /\ ScheduleClear
    /\ LET room == Capacity - 1 - Len(finished)
           kept == IF room < Len(plays) THEN room ELSE Len(plays)
       IN  IF live
           THEN /\ finished' = finished \o SubSeq(plays, 1, kept)
                /\ lost' = lost \cup {plays[i] : i \in kept + 1 .. Len(plays)}
                /\ freed' = freed
           ELSE freed' = freed \cup {plays[i] : i \in 1 .. Len(plays)} /\ UNCHANGED <<finished, lost>>

EventsOf(slot) == {p \in DOMAIN schedule : schedule[p].slot = slot}
ForgetInstrumentUncounted(slot) ==
    /\ voices' = {v \in voices : v.slot # slot}
    /\ schedule' = Restrict(schedule, DOMAIN schedule \ EventsOf(slot))
    /\ applied' = applied
ForgetInstrument(slot) ==
    /\ voices' = {v \in voices : v.slot # slot}
    /\ schedule' = Restrict(schedule, DOMAIN schedule \ EventsOf(slot))
    /\ applied' = applied + Cardinality(EventsOf(slot))

Apply(c) ==
    /\ instruments' = instruments
    /\ \/ /\ c.scheduled
          /\ ScheduleInsert(c)
          /\ UNCHANGED <<voices, plays, sampleVars>>
       \/ /\ c.kind = "note" /\ ~c.scheduled
          /\ \/ voices' = voices \cup {Note(c)}
             \/ voices' = voices
          /\ UNCHANGED <<plays, schedule, applied, sampleVars>>
       \/ c.kind = "silence" /\ SilenceAll
       \/ /\ c.kind = "play"
          /\ \/ Len(plays) < MaxPlays /\ plays' = Append(plays, c.sample) /\ UNCHANGED sampleVars
             \/ Len(plays) = MaxPlays /\ PlayFinished(c.sample) /\ plays' = plays
          /\ UNCHANGED <<voices, schedule, applied>>
       \/ /\ c.kind = "forget"
          /\ ForgetInstrument(c.slot)
          /\ UNCHANGED <<plays, sampleVars>>

------------------------------------------------------------------------------
(* The device thread: synth_device_render.                                 *)
TakePendingPatch ==
    /\ dpc = "patches" \/ (dpc = "idle" /\ live)
    /\ toTake # {}
    /\ dpc' = "patches"
    /\ \E s \in Lowest(toTake) :
       /\ toTake' = toTake \ {s}
       /\ instruments' = [instruments EXCEPT ![s] = IF pending[s] = None THEN @ ELSE pending[s]]
       /\ pending' = [pending EXCEPT ![s] = None]
    /\ UNCHANGED <<pc, interpreterVars, passed, live, ringVars, sounding, sampleVars, voices, plays, schedule,
                   applied>>

StartDrain ==
    /\ dpc = "patches" /\ toTake = {}
    /\ dhead' = head /\ dtail' = tail
    /\ dpc' = "drain"
    /\ UNCHANGED <<pc, interpreterVars, passed, live, ring, head, tail, pending, sounding, sampleVars,
                   toTake, engineVars>>

ApplyNext ==
    /\ dpc = "drain" /\ dhead # dtail
    /\ Apply(ring[dhead])
    /\ dhead' = NextIndex(dhead)
    /\ UNCHANGED <<pc, interpreterVars, passed, live, ring, head, tail, dtail, pending, sounding, dpc, toTake>>

PublishHead ==
    /\ dpc = "drain" /\ dhead = dtail
    /\ head' = dhead
    /\ dpc' = IF live THEN "render" ELSE "idle"
    /\ UNCHANGED <<pc, interpreterVars, passed, live, ring, tail, dhead, dtail, pending, sounding, sampleVars,
                   toTake, engineVars>>

(* synth_render: scheduled events that are due fire, plays reach their     *)
(* last frame, voices fall silent, then the loop over the frames is over.  *)
FireScheduled ==
    /\ dpc = "render"
    /\ \E p \in DOMAIN schedule :
         /\ schedule' = Restrict(schedule, DOMAIN schedule \ {p})
         /\ voices' = IF schedule[p].on THEN voices \cup {Voice(schedule[p])} ELSE voices
    /\ applied' = applied + 1
    /\ UNCHANGED <<pc, interpreterVars, passed, live, ringVars, pending, sounding, sampleVars,
                   dpc, toTake, instruments, plays>>

PlayEnds ==
    /\ dpc = "render"
    /\ \E i \in 1 .. Len(plays) :
         /\ PlayFinished(plays[i])
         /\ plays' = SubSeq(plays, 1, i - 1) \o SubSeq(plays, i + 1, Len(plays))
    /\ UNCHANGED <<pc, interpreterVars, passed, live, ringVars, pending, sounding, dpc, toTake,
                   instruments, voices, schedule, applied>>

VoiceEnds ==
    /\ dpc = "render"
    /\ \E v \in voices : voices' = voices \ {v}
    /\ UNCHANGED <<pc, interpreterVars, passed, live, ringVars, pending, sounding, sampleVars, dpc, toTake,
                   instruments, plays, schedule, applied>>

PublishSounding ==
    /\ dpc = "render"
    /\ sounding' = (plays # <<>> \/ voices # {})     \* only whether it is 0 is read
    /\ dpc' = "count"
    /\ UNCHANGED <<pc, interpreterVars, passed, live, ringVars, pending, sampleVars, toTake, engineVars>>

(* synth_n_device_renders is only read to be compared with an earlier      *)
(* value of itself plus one, so what is kept is the difference, up to 2.   *)
OneMore(n) == IF n = 2 THEN 2 ELSE n + 1
CountRender ==
    /\ dpc = "count"
    /\ passed' = [wait |-> OneMore(passed.wait), released |-> [s \in Slots |-> OneMore(passed.released[s])]]
    /\ dpc' = "idle" /\ toTake' = Slots
    /\ UNCHANGED <<pc, interpreterVars, live, ringVars, pending, sounding, sampleVars, engineVars>>

Device == TakePendingPatch \/ StartDrain \/ ApplyNext \/ PublishHead
          \/ PublishSounding \/ CountRender

------------------------------------------------------------------------------
(* synth_submit: finished buffers are freed, then the command is applied   *)
(* at once or put in the ring, unless it is full.                          *)
CollectFinished ==
    /\ collected' = Len(finished)
    /\ pc' = IF finished = <<>> THEN "submit" ELSE "free"
StartWord(c) ==
    /\ words < MaxWords /\ words' = words + 1
    /\ cur' = c
    /\ CollectFinished

FreeCollected ==
    /\ pc = "free"
    /\ freed' = freed \cup {finished[i] : i \in 1 .. collected}
    /\ finished' = SubSeq(finished, collected + 1, Len(finished))
    /\ pc' = "submit"
    /\ UNCHANGED <<interpreterVars, passed, live, ringVars, pending, sounding, lost, dpc, toTake, engineVars>>

(* What follows a command that was accepted: forget-instrument releases    *)
(* the slot; a sequenced note's second event, then its count.              *)
Accepted ==
    IF cur.scheduled /\ cur.kind = "note"
    THEN /\ CollectFinished
         /\ cur' = [cur EXCEPT !.kind = "off"] /\ submitted' = submitted
    ELSE /\ collected' = collected
         /\ pc' = IF cur.kind = "forget" THEN "release" ELSE "idle"
         /\ cur' = IF cur.kind = "forget" THEN cur ELSE NoCommand
         /\ submitted' = IF cur.kind = "off" THEN submitted + 2 ELSE submitted

ApplyOffline ==
    /\ pc = "submit" /\ ~live
    /\ Apply(cur) /\ Accepted
    /\ UNCHANGED <<words, bound, wanted, storing, torn, passed, live, ringVars, pending, sounding,
                   dpc, toTake>>

Refuse ==
    /\ pc = "submit" /\ live /\ RingFull
    /\ pc' = "idle" /\ cur' = NoCommand
    /\ torn' = (torn \/ cur.kind = "off")
    /\ freed' = IF cur.kind = "play" THEN freed \cup {cur.sample} ELSE freed
    /\ UNCHANGED <<words, bound, wanted, submitted, storing, collected, passed, live, ringVars, pending,
                   sounding, finished, lost, dpc, toTake, engineVars>>

WriteCommand ==
    /\ pc = "submit" /\ live /\ ~RingFull
    /\ ring' = [ring EXCEPT ![tail] = cur]
    /\ pc' = "publish"
    /\ UNCHANGED <<interpreterVars, passed, live, head, tail, dhead, dtail, pending, sounding, sampleVars,
                   dpc, toTake, engineVars>>

PublishCommand ==
    /\ pc = "publish"
    /\ tail' = NextIndex(tail)
    /\ Accepted
    /\ UNCHANGED <<words, bound, wanted, storing, torn, passed, live, ring, head, dhead, dtail, pending,
                   sounding, sampleVars, dpc, toTake, engineVars>>

Release ==
    /\ pc = "release"
    /\ bound' = [bound EXCEPT ![cur.slot] = None]
    /\ passed' = [passed EXCEPT !.released[cur.slot] = 0]
    /\ cur' = NoCommand /\ pc' = "idle"
    /\ UNCHANGED <<words, wanted, submitted, storing, torn, collected, live, ringVars, pending, sounding, sampleVars,
                   dpc, toTake, engineVars>>

(* The words that submit one command, or two.                              *)
WordUnchanged == UNCHANGED <<bound, wanted, submitted, storing, torn, passed, pending, sounding, finished,
                             lost, ring, dhead, dtail, dpc, toTake, engineVars>>
NoteOn ==
    /\ pc = "idle"
    /\ \E s \in Slots : bound[s] # None /\ StartWord(Command("note", s))
    /\ WordUnchanged /\ UNCHANGED <<live, head, tail, freed>>
ForgetWord ==
    /\ pc = "idle"
    /\ \E s \in Slots : bound[s] # None /\ StartWord(Command("forget", s))
    /\ WordUnchanged /\ UNCHANGED <<live, head, tail, freed>>
SilenceWord ==
    /\ pc = "idle"
    /\ StartWord(Command("silence", 0))
    /\ WordUnchanged /\ UNCHANGED <<live, head, tail, freed>>
SequenceNote ==
    /\ pc = "idle"
    /\ submitted - applied + 2 <= MaxScheduled
    /\ \E s \in Slots : bound[s] # None /\ StartWord([Command("note", s) EXCEPT !.scheduled = TRUE])
    /\ WordUnchanged /\ UNCHANGED <<live, head, tail, freed>>

(* audio-on, and play-samples, which opens the device first: the indices   *)
(* of the command ring are set back, and the device may fail to open.      *)
OpenDevice(opened) ==
    IF live THEN opened /\ UNCHANGED <<live, head, tail>>
    ELSE head' = 0 /\ tail' = 0 /\ live' = opened
AudioOn ==
    /\ pc = "idle" /\ ~live
    /\ \E opened \in BOOLEAN : OpenDevice(opened)
    /\ WordUnchanged /\ UNCHANGED <<pc, cur, words, collected, freed>>
PlaySamples ==
    /\ pc = "idle"
    /\ LET sample == words + 1 IN
       \/ OpenDevice(TRUE) /\ StartWord([Command("play", 0) EXCEPT !.sample = sample]) /\ freed' = freed
       \/ /\ ~live /\ OpenDevice(FALSE)
          /\ words < MaxWords /\ words' = words + 1
          /\ freed' = freed \cup {sample} /\ UNCHANGED <<pc, cur, collected>>
    /\ WordUnchanged

(* audio-off: the device is closed, which waits for its callback, then the *)
(* interpreter takes the patches, drains the ring and frees the samples.   *)
AudioOff ==
    /\ pc = "idle" /\ live /\ dpc = "idle"
    /\ live' = FALSE
    /\ instruments' = [s \in Slots |-> IF pending[s] = None THEN instruments[s] ELSE pending[s]]
    /\ pending' = [s \in Slots |-> None]
    /\ dhead' = head /\ dtail' = tail
    /\ dpc' = "drain" /\ pc' = "closing"
    /\ UNCHANGED <<cur, words, bound, wanted, submitted, storing, torn, collected, passed, ring, head, tail, sounding,
                   sampleVars, toTake, voices, plays, schedule, applied>>
Close ==
    /\ pc = "closing" /\ dpc = "idle"
    /\ freed' = freed \cup {finished[i] : i \in 1 .. Len(finished)} \cup {plays[i] : i \in 1 .. Len(plays)}
    /\ finished' = <<>> /\ plays' = <<>>
    /\ pc' = "idle"
    /\ UNCHANGED <<interpreterVars, passed, live, ringVars, pending, sounding, lost, dpc, toTake,
                   instruments, voices, schedule, applied>>

(* instrument-patch!: the slot of the name, or one that is free and whose  *)
(* forget-instrument the device has surely applied; then the patch goes to *)
(* the engine, or to the pending place once it is empty.                   *)
Passed(n) == n > 1
ReusableAtOnce(s) == bound[s] = None /\ (~live \/ passed.released[s] > 0)
Reusable(s) == bound[s] = None /\ (~live \/ Passed(passed.released[s]))

PatchWord ==
    /\ pc = "idle" /\ words < MaxWords /\ words' = words + 1
    /\ \E name \in Names :
         \/ \E s \in Slots :
              /\ bound[s] = name
              /\ storing' = [name |-> name, slot |-> s, patch |-> [wanted[s] EXCEPT !.version = words']]
              /\ pc' = "store"
         \/ /\ \A s \in Slots : bound[s] # name
            /\ \E s \in Slots : bound[s] = None
            /\ storing' = [NoStore EXCEPT !.name = name]
            /\ pc' = "bind"
    /\ UNCHANGED <<cur, bound, wanted, submitted, torn, collected, passed, live, ringVars, pending, sounding,
                   sampleVars, dpc, toTake, engineVars>>
Bind ==
    /\ pc = "bind"
    /\ \E s \in Lowest({x \in Slots : Reusable(x)}) :
       /\ bound' = [bound EXCEPT ![s] = storing.name]
       /\ storing' = [storing EXCEPT !.slot = s, !.patch = [binding |-> words, version |-> words]]
    /\ pc' = "store"
    /\ UNCHANGED <<cur, words, wanted, submitted, torn, collected, passed, live, ringVars, pending, sounding,
                   sampleVars, dpc, toTake, engineVars>>
StorePatch ==
    /\ pc = "store"
    /\ LET s == storing.slot IN
       /\ wanted' = [wanted EXCEPT ![s] = storing.patch]
       /\ \/ ~live /\ instruments' = [instruments EXCEPT ![s] = storing.patch] /\ pending' = pending
          \/ /\ live /\ pending[s] = None
             /\ pending' = [pending EXCEPT ![s] = storing.patch] /\ instruments' = instruments
    /\ storing' = NoStore /\ pc' = "idle"
    /\ UNCHANGED <<cur, words, bound, submitted, torn, collected, passed, live, ringVars, sounding, sampleVars,
                   dpc, toTake, voices, plays, schedule, applied>>

(* wait-audio and wait-sequence poll what the device publishes.            *)
Waiting == {"quiet", "sequence", "rest"}
WaitWord ==
    /\ pc = "idle" /\ live /\ words < MaxWords /\ words' = words + 1
    /\ pc' \in {"quiet", "sequence"}
    /\ passed' = [passed EXCEPT !.wait = 0]
    /\ UNCHANGED <<cur, bound, wanted, submitted, storing, torn, collected, live, ringVars, pending, sounding,
                   sampleVars, dpc, toTake, engineVars>>
SequenceApplied ==
    /\ pc = "sequence" /\ applied >= submitted
    /\ pc' = "rest"
    /\ passed' = [passed EXCEPT !.wait = 0]
    /\ UNCHANGED <<interpreterVars, live, ringVars, pending, sounding, sampleVars, dpc, toTake, engineVars>>
PollQuiet ==
    /\ pc \in {"quiet", "rest"} /\ finished # <<>>
    /\ freed' = freed \cup {finished[i] : i \in 1 .. Len(finished)}
    /\ finished' = <<>>
    /\ UNCHANGED <<pc, interpreterVars, passed, live, ringVars, pending, sounding, lost, dpc, toTake, engineVars>>
QuietSeenEarly == head = tail /\ passed.wait > 0 /\ ~sounding
QuietSeen == head = tail /\ Passed(passed.wait) /\ ~sounding
Quiet ==
    /\ pc \in {"quiet", "rest"} /\ QuietSeen
    /\ pc' = IF pc = "quiet" THEN "quieted" ELSE "over"
    /\ UNCHANGED <<interpreterVars, passed, live, ringVars, pending, sounding, sampleVars, dpc, toTake, engineVars>>
WaitOver ==
    /\ pc \in Waiting \cup {"quieted", "over"}     \* or interrupted by Ctrl-C
    /\ pc' = "idle"
    /\ UNCHANGED <<interpreterVars, passed, live, ringVars, pending, sounding, sampleVars, dpc, toTake, engineVars>>

Polls == FreeCollected \/ ApplyOffline \/ Refuse \/ WriteCommand \/ PublishCommand
         \/ Release \/ Close \/ Bind \/ StorePatch \/ SequenceApplied \/ PollQuiet \/ Quiet

Next ==
    \/ Device \/ FireScheduled \/ PlayEnds \/ VoiceEnds
    \/ Polls \/ WaitOver
    \/ NoteOn \/ ForgetWord \/ SilenceWord \/ SequenceNote \/ AudioOn \/ PlaySamples \/ AudioOff
    \/ PatchWord \/ WaitWord

(* The device calls back for ever; a render that goes on reaches the time  *)
(* of a scheduled event and the end of a play; the interpreter's own steps *)
(* are taken.                                                              *)
Fairness == WF_vars(Device) /\ SF_vars(FireScheduled) /\ SF_vars(PlayEnds) /\ WF_vars(Polls)

Spec == Init /\ [][Next]_vars /\ Fairness

------------------------------------------------------------------------------
Indices == 0 .. Capacity - 1

(* The commands in the ring that are not yet applied: from the device      *)
(* thread's own place while it drains, to the interpreter's.               *)
Distance(from, to) == IF from <= to THEN to - from ELSE to - from + Capacity
Ahead(from, i) == IF from + i < Capacity THEN from + i ELSE from + i - Capacity
ReadFrom == IF dpc = "drain" THEN dhead ELSE head
Queue == [i \in 1 .. Distance(ReadFrom, tail) |-> ring[Ahead(ReadFrom, i - 1)]]

(* The ring: types, the order of the four indices round it, and what is    *)
(* left in it while the device is off.                                     *)
RingInv ==
    /\ live \in BOOLEAN
    /\ head \in Indices /\ tail \in Indices /\ dhead \in Indices /\ dtail \in Indices
    /\ ring = [i \in Indices |-> ring[i]]
    /\ dpc = "drain" => /\ Distance(head, dhead) + Distance(dhead, tail) = Distance(head, tail)
                        /\ Distance(dhead, dtail) + Distance(dtail, tail) = Distance(dhead, tail)
    /\ ~live => dpc = "idle" \/ (dpc = "drain" /\ pc = "closing")
    /\ ~live /\ dpc = "idle" => head = tail
    /\ ~live /\ dpc = "drain" => dtail = tail
    /\ pc = "closing" => ~live
    /\ pc = "publish" => live /\ ~RingFull /\ ring[tail] = cur

Fifo == INSTANCE CommandQueue WITH Room <- Capacity - 1, queue <- Queue, given <- cur
CommandsInOrder == Fifo!Spec

(* A copy of the samples given to play-samples is in one place at a time,  *)
(* so that it is freed once and not while the device may still play it.    *)
Holders(sample) ==
    (IF cur.sample = sample /\ pc # "idle" THEN {<<"submit", 0>>} ELSE {})
    \cup {<<"queue", i>> : i \in {j \in 1 .. Len(Queue) : Queue[j].sample = sample}}
    \cup {<<"plays", i>> : i \in {j \in 1 .. Len(plays) : plays[j] = sample}}
    \cup {<<"finished", i>> : i \in {j \in 1 .. Len(finished) : finished[j] = sample}}
    \cup (IF sample \in freed THEN {<<"freed", 0>>} ELSE {})
    \cup (IF sample \in lost THEN {<<"lost", 0>>} ELSE {})
SampleHeldOnce == \A sample \in 1 .. words : Cardinality(Holders(sample)) <= 1

(* wait-audio returns, unless interrupted, only when every command the     *)
(* program has given is applied and every play has ended; wait-sequence    *)
(* also only when every queued note has sounded and every voice is silent  *)
(* (unless a note was queued by half, which it then miscounts).            *)
QuietIsQuiet ==
    /\ pc \in {"quieted", "over"} => Queue = <<>> /\ plays = <<>>
    /\ pc = "over" /\ ~torn => schedule = <<>> /\ voices = {}

(* Once the patch of an instrument has reached the engine, nothing of the  *)
(* instrument that had its slot before sounds, is scheduled or is still to *)
(* be applied: a note never sounds with the patch of a later instrument.   *)
OldInstrumentGone ==
    \A s \in Slots : LET binding == instruments[s].binding IN
       /\ \A v \in voices : v.slot = s => v.binding >= binding
       /\ \A p \in DOMAIN schedule : schedule[p].slot = s => schedule[p].binding >= binding
       /\ \A i \in 1 .. Len(Queue) : Queue[i].slot = s /\ Queue[i].kind # "none" =>
                                      Queue[i].patch.binding >= binding

(* Every sequencer event put in the schedule is counted as applied once,   *)
(* when it fires, is dropped or is cleared: wait-sequence counts on it to  *)
(* end neither early nor never.  A note queued by half, because the ring   *)
(* was full for its end, can make the count of those applied run ahead.    *)
Awaiting == {i \in 1 .. Len(Queue) : Queue[i].scheduled}
InFlight == Cardinality(Awaiting) + Scheduled
EventsCounted ==
    /\ applied + InFlight >= submitted
    /\ ~torn /\ cur.kind # "off" => applied + InFlight = submitted

(* Every wait of a word on the device ends, unless a voice sounds on.      *)
WaitingOnDevice == pc \in {"bind", "store", "quiet", "sequence", "rest", "closing"}
WaitsEnd == WaitingOnDevice ~> (~WaitingOnDevice \/ voices # {})

(* A note sounds with the patch stored last before it.                     *)
NoteSoundsWithItsPatch ==
    dpc = "drain" /\ dhead # dtail /\ ring[dhead].kind = "note" =>
       instruments[ring[dhead].slot].version >= ring[dhead].patch.version

------------------------------------------------------------------------------
(* The inductive invariant of the four safety properties above.            *)
Kinds == {"none", "note", "off", "play", "silence", "forget"}
Forms == [kind : Kinds, slot : 0 .. MaxInstruments, patch : Patch, sample : Nat, scheduled : BOOLEAN]
Commands ==
    {c \in Forms :
        /\ c.sample # 0 <=> c.kind = "play"
        /\ c.scheduled => c.kind \in {"note", "off"}
        /\ c.kind = "off" => c.scheduled
        /\ c.slot # 0 <=> c.kind \in {"note", "off", "forget"}}
Events == [slot : Slots, binding : Nat, on : BOOLEAN]
Submitting == {"free", "submit", "publish", "release"}
Waits == Waiting \cup {"quieted", "over"}

TypeInv ==
    /\ pc \in Submitting \cup Waits \cup {"idle", "closing", "bind", "store"}
    /\ dpc \in {"idle", "patches", "drain", "render", "count"}
    /\ words \in Nat /\ submitted \in Nat /\ applied \in Nat
    /\ torn \in BOOLEAN /\ sounding \in BOOLEAN
    /\ cur \in Commands /\ Queue \in Seq(Commands)
    /\ pc \notin Submitting => cur = NoCommand
    /\ pc = "release" => cur.kind = "forget"
    /\ wanted \in [Slots -> Patch] /\ instruments \in [Slots -> Patch]
    /\ bound = [s \in Slots |-> bound[s]] /\ pending \in [Slots -> Patch \cup {None}]
    /\ storing \in [name : Names \cup {None}, slot : 0 .. MaxInstruments, patch : Patch]
    /\ pc = "bind" => storing.name # None
    /\ pc = "store" => storing.slot \in Slots
    /\ passed \in [wait : 0 .. 2, released : [Slots -> 0 .. 2]]
    /\ voices \subseteq [slot : Slots, binding : Nat]
    /\ DOMAIN schedule \subseteq Places
    /\ schedule \in [DOMAIN schedule -> Events]

(* A sample is in one of the six places, and once in each.                 *)
Samples == 1 .. words
Submitted == {cur.sample} \ {0}
Queued == {Queue[i].sample : i \in 1 .. Len(Queue)} \ {0}
HandedBack == Range(finished) \cup freed \cup lost
EngineSamples == Range(plays) \cup HandedBack
EngineInv ==
    /\ plays \in Seq(Samples) /\ IsInjective(plays) /\ Range(plays) \cap HandedBack = {}
    /\ finished \in Seq(Samples) /\ IsInjective(finished) /\ Range(finished) \cap (freed \cup lost) = {}
    /\ Len(finished) < Capacity
    /\ freed \subseteq Samples /\ lost \subseteq Samples /\ freed \cap lost = {}
SampleInv ==
    /\ EngineInv
    /\ Submitted \subseteq Samples /\ Queued \subseteq Samples /\ Submitted \cap Queued = {}
    /\ (Submitted \cup Queued) \cap EngineSamples = {}
    /\ \A i, j \in 1 .. Len(Queue) : Queue[i].sample = Queue[j].sample /\ Queue[i].sample # 0 => i = j
    /\ cur.sample # 0 => pc \in {"free", "submit", "publish"}
    /\ pc = "free" => collected \in 0 .. Len(finished)

(* The events counted, and the one a sequenced note has still to queue.    *)
Due == submitted + (IF cur.kind = "off" THEN 1 ELSE 0)
CountInv ==
    /\ applied + InFlight >= Due
    /\ ~torn => applied + InFlight = Due

(* What a whole render since the wait began has emptied.                   *)
RenderedSince(n) == n = 2 \/ (n = 1 /\ dpc = "count")
AppliedSince(n) == n = 2 \/ (n = 1 /\ dpc \in {"render", "count"})
NoEvents == schedule = <<>> /\ Awaiting = {}
QuietInv ==
    /\ pc \in Waits => live
    /\ pc \in Waits /\ passed.wait = 1 /\ dpc = "drain" => dtail = tail
    /\ pc \in Waits /\ AppliedSince(passed.wait) => Queue = <<>>
    /\ pc \in Waits /\ RenderedSince(passed.wait) => sounding \/ plays = <<>>
    /\ pc \in {"rest", "over"} /\ ~torn => NoEvents
    /\ pc = "rest" /\ ~torn /\ RenderedSince(passed.wait) => sounding \/ voices = {}
    /\ QuietIsQuiet

(* What a slot holds is of the binding stored last; a released slot holds  *)
(* nothing, or a forget that will empty it; nothing, once that is applied. *)
InEngine(s) == {v.binding : v \in {u \in voices : u.slot = s}} \cup {schedule[p].binding : p \in EventsOf(s)}
InQueue(s) == {Queue[i].patch.binding : i \in {j \in 1 .. Len(Queue) : Queue[j].slot = s}}
Clean(s) == InEngine(s) = {} /\ InQueue(s) = {}
Forgotten(s) == \E i \in 1 .. Len(Queue) : /\ Queue[i].kind = "forget" /\ Queue[i].slot = s
                                           /\ \A j \in i + 1 .. Len(Queue) : Queue[j].slot # s
NoneBehind(s) == \A i \in Distance(dhead, dtail) + 1 .. Len(Queue) : Queue[i].slot # s
Storing(s) == pc = "store" /\ storing.slot = s
Releasing(s) == bound[s] = None \/ (pc = "release" /\ cur.slot = s)
HeldInv(s) ==
    /\ InEngine(s) \cup InQueue(s) \subseteq {wanted[s].binding}
    /\ cur.slot = s => cur.patch.binding = wanted[s].binding /\ bound[s] # None
PatchInv(s) ==
    /\ pending[s] \in {None, wanted[s]}
    /\ ~live => pending[s] = None
    /\ instruments[s].binding <= wanted[s].binding /\ wanted[s].binding <= words
    /\ Storing(s) => /\ bound[s] # None
                     /\ storing.patch.binding \in wanted[s].binding .. words
                     /\ storing.patch.binding = wanted[s].binding \/ Clean(s)
ReleasedInv(s) ==
    /\ Releasing(s) => Clean(s) \/ Forgotten(s)
    /\ bound[s] = None /\ passed.released[s] = 1 /\ dpc = "drain" => NoneBehind(s)
    /\ bound[s] = None /\ AppliedSince(passed.released[s]) => InQueue(s) = {}
BindingInv == \A s \in Slots : HeldInv(s) /\ PatchInv(s) /\ ReleasedInv(s)

IInv == RingInv /\ TypeInv /\ SampleInv /\ CountInv /\ QuietInv /\ BindingInv
==============================================================================
