------------------------------- MODULE Embedded -------------------------------
(***************************************************************************)
(* The I/O thread of the embedded output API (src/src/aout/embedded/):     *)
(* in every turn it asks the device which period it plays, executes the    *)
(* commands in the pipe, and mixes all channels into the periods of a ring *)
(* in the device's memory.                                                 *)
(*                                                                         *)
(* A slot of a period holds the set of <<sample, frame>> whose values were *)
(* added up in it: reading into a slot replaces the set, mixing adds to    *)
(* it, and the empty set is silence.  References to samples and the pipe   *)
(* itself are as in RhAudio.                                               *)
(***************************************************************************)
EXTENDS Integers, Sequences, FiniteSetsExt

CONSTANTS
  Samples,          \* the samples the application plays
  Frames,           \* Frames[s]: the length of s
  Unit,             \* Unit[s]: it delivers frames in multiples of this
  CanMix,           \* the samples that have a mix(), which is optional
  NULL,             \* no sample
  InitialChannels,  \* the channels that setup creates
  Periods,          \* device->driver.periods
  Period,           \* the frames of a period
  IoctlFails,       \* AUDIO_IOCTL_PERIOD may fail
  MaxMoved,         \* bound: the periods the device plays during one turn
  MaxUsed           \* bound: the channels that have a sample at a time

ASSUME EmbeddedAssumptions ==
  /\ IsFiniteSet(Samples) /\ NULL \notin Samples /\ CanMix \subseteq Samples
  /\ Frames \in [Samples -> Nat] /\ Unit \in [Samples -> Nat \ {0}]
  /\ InitialChannels \in Nat
  /\ Periods \in Nat \ {0} /\ Period \in Nat \ {0}
  /\ \A s \in Samples : Period % Unit[s] = 0
  /\ IoctlFails \in BOOLEAN /\ MaxMoved \in Nat /\ MaxUsed \in Nat

VARIABLES
  src,      \* the state of each sample
  chans,    \* the channels in the bucket: their sample and status_flags
  told,     \* the samples whose last event was STARTED
  table,    \* table[h][i]: slot i of period h of the ring
  pc,       \* where the I/O thread is
  dev,      \* the period the device plays
  moved,    \* the periods it has gone on since the ioctl
  current,  \* the period it played then, as the ioctl told
  head,     \* the period to be filled
  tail,     \* counts the periods of a turn
  idx,      \* the channel the loop over the bucket is at
  mixed,    \* the samples transferred to this period: sounds_playing is their number
  dst       \* transfer(): the slots of the period that are filled

device == <<dev, moved>>
turn == <<current, head, tail, device>>
vars == <<src, chans, told, table, pc, turn, idx, mixed, dst>>

Smp == INSTANCE Sample WITH Asks <- {}, MayFail <- FALSE

Ring == 0..(Periods - 1)
Free == [sample |-> NULL, status |-> "stopped"]


\* _is_channel_playing.
Playing(c) == c.sample # NULL /\ c.status \in {"playing", "looping"}

\* _impl_setup: the device's memory is silent; and rh_aout_create_embedded.
Init ==
  /\ src = [s \in Samples |-> Smp!AtStart(Frames[s], Unit[s])]
  /\ chans = [i \in 1..InitialChannels |-> Free]
  /\ told = {}
  /\ table = [h \in Ring |-> [i \in 1..Period |-> {}]]
  /\ pc = "ioctl" /\ dev = 0 /\ moved = 0 /\ current = 0 /\ head = 0 /\ tail = 0
  /\ idx = 1 /\ mixed = <<>> /\ dst = 0

-----------------------------------------------------------------------------
(* The device, the beginning of a turn, and the commands.                  *)

\* The device plays on to the next period while the thread is in its turn.
DevicePlays ==
  /\ pc # "ioctl" /\ moved < MaxMoved
  /\ dev' = (dev + 1) % Periods /\ moved' = moved + 1
  /\ UNCHANGED <<src, chans, told, table, pc, current, head, tail, idx, mixed, dst>>

\* (Mutant of Ioctl: head goes on where the last turn ended.)
IoctlKeepsHead ==
  /\ pc = "ioctl"
  /\ dev' \in Ring /\ moved' = 0
  /\ current' \in {dev'} \cup (IF IoctlFails THEN {Periods} ELSE {})
  /\ tail' = head /\ UNCHANGED head
  /\ pc' = "cmds"
  /\ UNCHANGED <<src, chans, told, table, idx, mixed, dst>>

\* The period the device plays, which is any by then.  The test for an error never holds, as `ret` is
\* unsigned: -1 is taken for an address, and gives a period that does not exist.
Ioctl ==
  /\ pc = "ioctl"
  /\ dev' \in Ring /\ moved' = 0
  /\ current' \in {dev'} \cup (IF IoctlFails THEN {Periods} ELSE {})
  /\ head' = 0 /\ tail' = 0
  /\ pc' = "cmds"
  /\ UNCHANGED <<src, chans, told, table, idx, mixed, dst>>

\* The channels that have s, or NULL, and what a search for it finds: the first.
Holding(s) == {i \in DOMAIN chans : chans[i].sample = s}
FirstAt(s) == IF Holding(s) = {} THEN 0 ELSE Min(Holding(s))

\* The application stops a sample before it plays too many of them.
Allowed(s) == FirstAt(s) # 0 \/ Cardinality(DOMAIN chans \ Holding(NULL)) < MaxUsed

\* aout_embedded_play and aout_embedded_loop: STARTED, unless it plays.
Start(s) == told' = told \cup {s}

\* (Mutant of Play: a free channel is taken although the sample has one.)
PlayTwice(s, m) ==
  /\ pc = "cmds" /\ Allowed(s)
  /\ LET free == FirstAt(NULL)
         new  == [sample |-> s, status |-> m]
     IN  chans' = IF free # 0 THEN [chans EXCEPT ![free] = new] ELSE Append(chans, new)
  /\ Start(s)
  /\ UNCHANGED <<src, table, pc, turn, idx, mixed, dst>>

\* PLAY or LOOP: on the channel that has the sample, or else on the first one that is
\* free, or else on a new one.  open() checks nothing and does nothing.
Play(s, m) ==
  /\ pc = "cmds" /\ Allowed(s)
  /\ LET bound == FirstAt(s)
         free  == FirstAt(NULL)
         new   == [sample |-> s, status |-> m]
     IN  chans' = IF bound # 0 THEN [chans EXCEPT ![bound] = new]
                  ELSE IF free # 0 THEN [chans EXCEPT ![free] = new]
                  ELSE Append(chans, new)
  /\ Start(s)
  /\ UNCHANGED <<src, table, pc, turn, idx, mixed, dst>>

\* (Mutant of StopChannel: the application is not told.)
StopSilently(i) ==
  LET s == chans[i].sample IN
  /\ told' = told
  /\ src' = IF chans[i].status = "stopped" THEN src ELSE [src EXCEPT ![s] = Smp!AfterReset(@)]

\* aout_embedded_stop: STOPPED and a reset, unless the channel is stopped.
StopChannel(i) ==
  LET s == chans[i].sample IN
  IF chans[i].status = "stopped" THEN UNCHANGED <<told, src>>
  ELSE told' = told \ {s} /\ src' = [src EXCEPT ![s] = Smp!AfterReset(@)]

\* STOP: the channel is stopped and free; a sample that has none is left alone.
Stop(s) ==
  /\ pc = "cmds" /\ FirstAt(s) # 0
  /\ StopChannel(FirstAt(s))
  /\ chans' = [chans EXCEPT ![FirstAt(s)] = Free]
  /\ UNCHANGED <<table, pc, turn, idx, mixed, dst>>

\* The do loop's head.
BeginPeriod(t) ==
  /\ tail' = (t + 1) % Periods
  /\ idx' = 1 /\ mixed' = <<>>
  /\ pc' = "channel"

\* The pipe is empty.
CommandsDone ==
  /\ pc = "cmds"
  /\ BeginPeriod(tail)
  /\ UNCHANGED <<src, chans, told, table, current, head, device, dst>>

-----------------------------------------------------------------------------
(* A period: the loop over the channels, and transfer().                   *)

SkipChannel ==
  /\ pc = "channel" /\ idx <= Len(chans) /\ ~Playing(chans[idx])
  /\ idx' = idx + 1
  /\ UNCHANGED <<src, chans, told, table, pc, turn, mixed, dst>>

EnterChannel ==
  /\ pc = "channel" /\ idx <= Len(chans) /\ Playing(chans[idx])
  /\ pc' = "transfer"
  /\ UNCHANGED <<src, chans, told, table, turn, idx, mixed, dst>>

InTransfer == pc = "transfer" /\ dst < Period
Now == chans[idx].sample
AtEnd(e) == src[Now].end = e

\* transfer() returns; dst is a local of it, as idx and mixed are of the loops.
Leave ==
  /\ mixed' = Append(mixed, Now)
  /\ idx' = idx + 1 /\ dst' = 0
  /\ pc' = "channel"

\* memset: the rest of the period is silent, unless another channel has filled it.
SilencedRest ==
  IF mixed # <<>> THEN table
  ELSE [table EXCEPT ![head] = [i \in 1..Period |-> IF i > dst THEN {} ELSE @[i]]]

Rewind ==
  /\ InTransfer /\ AtEnd(TRUE) /\ chans[idx].status = "looping"
  /\ src' = [src EXCEPT ![Now] = Smp!AfterReset(@)]
  /\ UNCHANGED <<chans, told, table, pc, turn, idx, mixed, dst>>

\* (Mutant of StopAtEnd: what the period held before stays in its rest.)
StopNoSilence ==
  /\ InTransfer /\ AtEnd(TRUE) /\ chans[idx].status = "playing"
  /\ StopChannel(idx)
  /\ chans' = [chans EXCEPT ![idx].status = "stopped"]
  /\ Leave
  /\ UNCHANGED <<table, turn>>

\* The sample ends: aout_embedded_stop; the channel keeps it.
StopAtEnd ==
  /\ InTransfer /\ AtEnd(TRUE) /\ chans[idx].status = "playing"
  /\ StopChannel(idx)
  /\ chans' = [chans EXCEPT ![idx].status = "stopped"]
  /\ table' = SilencedRest
  /\ Leave
  /\ UNCHANGED turn

\* read() or mix(): the frames up to t's position go to the next slots.
Put(t, adds) ==
  LET p == src[Now].pos
      k == t.pos - p
  IN  /\ src' = [src EXCEPT ![Now] = t]
      /\ table' = [table EXCEPT ![head] =
                     [i \in 1..Period |->
                        IF i \notin (dst + 1)..(dst + k) THEN @[i]
                        ELSE {<<Now, p + i - dst>>} \cup (IF adds THEN @[i] ELSE {})]]
      /\ dst' = dst + k

\* The first channel of a period reads into it.
Read ==
  /\ InTransfer /\ AtEnd(FALSE) /\ mixed = <<>>
  /\ \E t \in Smp!AfterRead(src[Now], Period - dst) : Put(t, FALSE)
  /\ UNCHANGED <<chans, told, pc, turn, idx, mixed>>

\* The others mix.
Mix ==
  /\ InTransfer /\ AtEnd(FALSE) /\ mixed # <<>> /\ Now \in CanMix
  /\ \E t \in Smp!AfterRead(src[Now], Period - dst) : Put(t, TRUE)
  /\ UNCHANGED <<chans, told, pc, turn, idx, mixed>>


\* A sample without a mix() is stopped.
CannotMix ==
  /\ InTransfer /\ AtEnd(FALSE) /\ mixed # <<>> /\ Now \notin CanMix
  /\ StopChannel(idx)
  /\ chans' = [chans EXCEPT ![idx].status = "stopped"]
  /\ Leave
  /\ UNCHANGED <<table, turn>>

LeaveChannel ==
  /\ pc = "transfer" /\ dst = Period
  /\ Leave
  /\ UNCHANGED <<src, chans, told, table, turn>>

\* All channels have been looked at; a period without any of them is silent.
EndChannels ==
  /\ pc = "channel" /\ idx > Len(chans)
  /\ table' = IF mixed # <<>> THEN table ELSE [table EXCEPT ![head] = [i \in 1..Period |-> {}]]
  /\ pc' = "next"
  /\ UNCHANGED <<src, chans, told, turn, idx, mixed, dst>>

\* The end of the do loop.
NextPeriod ==
  /\ pc = "next"
  /\ head' = (head + 1) % Periods
  /\ IF tail = current THEN pc' = "ioctl" /\ idx' = 1 /\ mixed' = <<>> /\ UNCHANGED tail
     ELSE BeginPeriod(tail)
  /\ UNCHANGED <<src, chans, told, table, current, device, dst>>

Turn ==
  \/ Ioctl \/ CommandsDone \/ SkipChannel \/ EnterChannel \/ Rewind \/ StopAtEnd \/ Read \/ Mix
  \/ CannotMix \/ LeaveChannel \/ EndChannels \/ NextPeriod

Next ==
  \/ \E s \in Samples, m \in {"playing", "looping"} : Play(s, m)
  \/ \E s \in Samples : Stop(s)
  \/ Turn \/ DevicePlays

Spec == Init /\ [][Next]_vars

\* The I/O thread runs; the application pauses now and then, so that the pipe is
\* found empty.
FairSpec == Spec /\ WF_vars(Turn)

-----------------------------------------------------------------------------
(* Properties.                                                             *)

\* The frames of s.
Marks(s) == {s} \X (1..Frames[s])

\* Every variable stays in its type, and the pool grows only for a sample that has
\* no channel.
TypeOK ==
  /\ DOMAIN src = Samples
  /\ \A s \in Samples : src[s] \in [length : {Frames[s]}, unit : {Unit[s]}, pos : 0..Frames[s],
                                    end : BOOLEAN, fresh : BOOLEAN]
  /\ chans \in Seq([sample : Samples \cup {NULL}, status : {"stopped", "playing", "looping"}])
  /\ Len(chans) <= InitialChannels \/ Len(chans) <= Cardinality(Samples)
  /\ told \subseteq Samples
  /\ table \in [Ring -> [1..Period -> SUBSET UNION {Marks(s) : s \in Samples}]]
  /\ pc \in {"ioctl", "cmds", "channel", "transfer", "next"}
  /\ dev \in Ring /\ moved \in 0..MaxMoved
  /\ current \in 0..Periods /\ head \in Ring /\ tail \in Ring
  /\ idx \in 1..(Len(chans) + 1) /\ mixed \in Seq(Samples) /\ dst \in 0..Period

\* Every STARTED is followed by one STOPPED, also when a sample ends within a
\* period or cannot be mixed: the application believes that exactly those samples
\* play that a channel plays.
Told == told = {chans[i].sample : i \in {j \in DOMAIN chans : Playing(chans[j])}}

Follows(s, p) == IF p = Frames[s] THEN 1 ELSE p + 1

\* A period that has been mixed holds of every sample that was transferred the
\* frames that follow one another, one in a slot, from the period's begin and up to
\* where the sample is now; only a sample that ended, or has no mix() and was not the
\* first, fills less.  It holds nothing else, whatever it held before: each
\* channel finds what those before it left, and fills what it leaves unread.
MixExact ==
  pc = "next" => \A s \in Samples :
    LET at(i)  == {p \in 1..Frames[s] : <<s, p>> \in table[head][i]}
        filled == Cardinality({i \in 1..Period : at(i) # {}})
    IN  IF s \notin Range(mixed) THEN filled = 0
        ELSE /\ \A i \in 1..filled : Cardinality(at(i)) = 1
             /\ \A i \in 2..filled : at(i) = {Follows(s, p) : p \in at(i - 1)}
             /\ IF s \in told THEN filled = Period /\ at(Period) = {src[s].pos}
                ELSE /\ filled # 0 => at(filled) = {Frames[s]}
                     /\ s \notin CanMix /\ s # mixed[1] => filled = 0

\* A period is written to while the device plays it only if the turn began at the
\* first of the ring (then it writes to all of them, that one included), or if the
\* device has come round to the first one since, or the ioctl has failed; otherwise
\* head stays behind the device, however far that goes on while the turn lasts.
PlayedLeftAlone ==
  [][\A h \in Ring : h = dev /\ table'[h] # table[h] =>
       current = 0 \/ current + moved >= Periods \/ current = Periods]_vars

\* transfer() never comes to the end of a looping sample without frames.
Endless == pc = "transfer" /\ chans[idx].status = "looping" /\ Frames[Now] = 0


\* A sample that does not loop comes to its end, as wait() relies on, unless a
\* looping one without frames keeps the thread.
PlayingEnds ==
  \A s \in Samples :
    LET plays == \E i \in DOMAIN chans : chans[i] = [sample |-> s, status |-> "playing"]
    IN  plays ~> ~plays \/ Endless
=============================================================================
