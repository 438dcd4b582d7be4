------------------------------ MODULE AlsaChannel ------------------------------
(***************************************************************************)
(* One channel of the ALSA output API: src/src/aout/alsa/{open,close,      *)
(* settings,sample,start,stop,update}.c, driven by the commands of         *)
(* alsa_api.c, between a sample that is read (Sample) and a PCM device     *)
(* that plays on its own.                                                  *)
(*                                                                         *)
(* The I/O thread runs update() step by step, so that the device can       *)
(* empty, fail or go away between any two of its calls.  The device is     *)
(* modelled from how the code uses alsa-lib: PCM states that the code      *)
(* recovers from are "XRUN", those it cannot recover from are "GONE".      *)
(***************************************************************************)
EXTENDS Integers, Sequences

CONSTANTS
  Samples,     \* the samples the channel may be given
  Frames,      \* Frames[s]: the length of s in frames
  Unit,        \* Unit[s]: it delivers them in multiples of this
  Format,      \* Format[s]: its channels, rate, sample size and endianness
  NULL,        \* no sample, no format
  Period,      \* instance->period_size, in frames
  Buffer,      \* instance->buffer_size, in frames (three periods in the code)
  Modes,       \* the access modes the device may offer: "mmap", "rw"
  OpenFails,   \* the steps of open() that may fail: "pcm", "hw", "sw"
  CanVanish,   \* the device may fail for good
  SlowDevice   \* update() is fast: while it makes progress the device plays nothing

ASSUME ChannelAssumptions ==
  /\ NULL \notin Samples
  /\ Frames \in [Samples -> Nat] /\ Unit \in [Samples -> Nat \ {0}]
  /\ DOMAIN Format = Samples
  /\ \A s \in Samples : Format[s] # NULL
  /\ Period \in Nat \ {0} /\ Buffer \in Nat /\ Period <= Buffer
  /\ Modes \subseteq {"mmap", "rw"} /\ Modes # {}
  /\ OpenFails \subseteq {"pcm", "hw", "sw"}
  /\ CanVanish \in BOOLEAN /\ SlowDevice \in BOOLEAN

VARIABLES
  src,     \* the state of each sample
  sample,  \* instance->audio_sample
  status,  \* instance->status_flags
  format,  \* instance->channels, samplerate, samplesize, bigendian
  fields,  \* those of handle, hwparams, swparams, imp_buffer that are not NULL
  live,    \* those of them that point to something allocated
  mode,    \* instance->imp_flags
  pcm,     \* the state of the device
  queue,   \* the frames in its buffer
  offset,  \* where in the buffer the next frame goes
  heard,   \* the frame it played last
  glitch,  \* frames were lost since the sample was started
  told,    \* the samples whose last event was STARTED
  pc,      \* where update() is
  avail,   \* transfer(): frames the device can take
  size     \* transfer(): frames of the period still to be transferred

resources == <<format, fields, live, mode>>
device    == <<pcm, queue, offset, heard, glitch>>
local     == <<avail, size>>
vars      == <<src, sample, status, resources, device, told, pc, local>>

Smp == INSTANCE Sample WITH Asks <- {}, MayFail <- FALSE

Active == status \in {"playing", "looping"}

\* rh_aout_create_alsa: calloc.
Init ==
  /\ src = [s \in Samples |-> Smp!AtStart(Frames[s], Unit[s])]
  /\ sample = NULL /\ status = "stopped"
  /\ format = NULL /\ fields = {} /\ live = {} /\ mode = "none"
  /\ pcm = "GONE" /\ queue = <<>> /\ offset = 0 /\ heard = 0 /\ glitch = FALSE
  /\ told = {} /\ pc = "idle" /\ avail = 0 /\ size = 0

-----------------------------------------------------------------------------
(* Opening and starting: the commands PLAY and LOOP.                       *)

\* What open() has allocated, with and without a buffer of its own.
Allocated(m) ==
  {"handle", "hwparams", "swparams"} \cup (IF m = "rw" THEN {"imp_buffer"} ELSE {})

\* aout_alsa_close_api_nolock frees what the fields point to: what is left.
Closed == live \ fields

\* _aout_alsa_open: the format is stored first; each error path frees what was
\* allocated, but leaves the fields as they are.  Nobody may use the device then
\* (Usable), nor close it (Dangling): what the program does is undefined.
DoOpen(f) ==
  /\ format' = f
  /\ \E m \in Modes :
       \/ /\ fields' = Allocated(m) /\ live' = Closed \cup Allocated(m)
          /\ pcm' = "PREPARED" /\ mode' = m
       \/ /\ "pcm" \in OpenFails
          /\ fields' = {} /\ live' = Closed
          /\ pcm' = "GONE" /\ UNCHANGED mode
       \/ /\ "hw" \in OpenFails
          /\ fields' = {"handle", "hwparams"} /\ live' = Closed
          /\ pcm' = "GONE" /\ mode' \in {mode, m}
       \/ /\ "sw" \in OpenFails
          /\ fields' = {"handle", "hwparams", "swparams"} /\ live' = Closed
          /\ pcm' = "GONE" /\ mode' = m

\* (Mutant of Open: the channel keeps the format it was opened with.)
OpenOnce(f) ==
  IF format # NULL THEN UNCHANGED <<resources, pcm, queue, offset>>
  ELSE DoOpen(f) /\ queue' = <<>> /\ offset' = 0

\* aout_alsa_open: a channel of the right format is left alone, another closed first.
Open(f) ==
  IF format = f THEN UNCHANGED <<resources, pcm, queue, offset>>
  ELSE DoOpen(f) /\ queue' = <<>> /\ offset' = 0

\* aout_alsa_play and aout_alsa_loop.
Start(s, m) ==
  /\ status' = m
  /\ told' = IF Active THEN told ELSE told \cup {s}

\* PLAY or LOOP of the sample the channel has.
PlayAgain(s, m) ==
  /\ pc = "idle" /\ sample = s
  /\ Start(s, m)
  /\ heard' = IF Active THEN heard ELSE src[s].pos
  /\ glitch' = IF Active THEN glitch ELSE queue # <<>>
  /\ UNCHANGED <<src, sample, resources, pcm, queue, offset, pc, local>>

Usable   == "handle" \in live
Dangling == fields \ live # {}

\* PLAY or LOOP of a sample that is given to the channel, which is free.  The
\* result of open() is ignored.
PlayNew(s, m) ==
  /\ pc = "idle" /\ sample = NULL
  /\ Dangling => format = Format[s]
  /\ sample' = s
  /\ Open(Format[s])
  /\ Start(s, m)
  /\ heard' = src[s].pos /\ glitch' = (queue' # <<>>)
  /\ UNCHANGED <<src, pc, local>>

-----------------------------------------------------------------------------
(* Stopping: the command STOP, the end of the sample, and errors.          *)

\* snd_pcm_drop.
Drop ==
  /\ pcm' = IF pcm = "GONE" THEN "GONE" ELSE "SETUP"
  /\ queue' = <<>> /\ offset' = 0

\* aout_alsa_stop of a channel that plays.
Halt ==
  /\ Usable
  /\ Drop
  /\ status' = "stopped" /\ told' = told \ {sample}
  /\ src' = [src EXCEPT ![sample] = Smp!AfterReset(@)]

\* stop() of alsa_api.c: aout_alsa_stop, then set_sample(NULL).
Stop ==
  /\ pc = "idle" /\ sample # NULL
  /\ IF Active THEN Halt ELSE UNCHANGED <<pcm, queue, offset, status, told, src>>
  /\ sample' = NULL
  /\ UNCHANGED <<resources, heard, glitch, pc, local>>

\* (Mutant of Error: the application is not told.)
ErrorSilently ==
  /\ told' = told
  /\ status' = "stopped" /\ sample' = NULL

\* error(): STOPPED, if the channel plays, and the channel is free.
Error ==
  /\ told' = IF Active THEN told \ {sample} ELSE told
  /\ status' = "stopped" /\ sample' = NULL

-----------------------------------------------------------------------------
(* The device.                                                             *)

Follows(p) == IF p = src[sample].length THEN 1 ELSE p + 1

\* snd_pcm_recover: the device is prepared anew, what it had is lost.
Recover ==
  /\ pcm # "GONE"
  /\ pcm' = "PREPARED" /\ queue' = <<>> /\ offset' = 0
  /\ glitch' = (glitch \/ queue # <<>>)

\* The frames left before the ring buffer ends are fewer than the sample delivers at
\* a time: update() goes round without any progress, however long it takes.
Fruitless == pc = "chunk" /\ mode = "mmap" /\ sample # NULL /\ Buffer - offset < Unit[sample]

\* A frame is played; a device that runs empty stops with an underrun.
Tick ==
  /\ pcm = "RUNNING" /\ (SlowDevice => pc = "idle" \/ Fruitless)
  /\ IF queue = <<>> THEN UNCHANGED <<queue, heard>> ELSE heard' = Head(queue) /\ queue' = Tail(queue)
  /\ pcm' = IF queue' = <<>> THEN "XRUN" ELSE "RUNNING"
  /\ UNCHANGED <<src, sample, status, resources, offset, glitch, told, pc, local>>

\* The device overruns its deadline with frames in its buffer, as after a suspend.
Suspend ==
  /\ pcm = "RUNNING" /\ ~SlowDevice
  /\ pcm' = "XRUN"
  /\ UNCHANGED <<src, sample, status, resources, queue, offset, heard, glitch, told, pc, local>>

\* The device is unplugged.
Vanish ==
  /\ CanVanish /\ Usable
  /\ pcm' = "GONE" /\ queue' = <<>> /\ glitch' = TRUE
  /\ UNCHANGED <<src, sample, status, resources, offset, heard, told, pc, local>>

-----------------------------------------------------------------------------
(* update(): transfer() and the start of the device.                       *)

Goto(label) == pc' = label

\* aout_alsa_update of a channel that plays; of another one it does nothing.
Update ==
  /\ pc = "idle" /\ Active /\ Usable
  /\ Goto("prepare")
  /\ UNCHANGED <<src, sample, status, resources, device, told, local>>

\* The head of transfer's loop, and prepare_for_transfer, whose result is ignored.
Prepare ==
  /\ pc = "prepare"
  /\ Goto("avail")
  /\ \/ pcm = "SETUP" /\ pcm' = "PREPARED" /\ UNCHANGED <<queue, offset, glitch>>
     \/ pcm = "XRUN" /\ Recover
     \/ pcm \notin {"SETUP", "XRUN"} /\ UNCHANGED <<pcm, queue, offset, glitch>>
  /\ UNCHANGED <<src, sample, status, resources, heard, told, local>>

\* snd_pcm_avail_update.
AvailUpdate ==
  /\ pc = "avail" /\ pcm \in {"PREPARED", "RUNNING"}
  /\ avail' = Buffer - Len(queue)
  /\ Goto("atend")
  /\ UNCHANGED <<src, sample, status, resources, device, told, size>>

\* ... fails: the device is recovered and asked again, or the transfer ends.
AvailFails ==
  /\ pc = "avail" /\ pcm \in {"XRUN", "GONE"}
  /\ \/ Recover /\ UNCHANGED <<sample, status, told, pc>>
     \/ pcm = "GONE" /\ Error /\ Goto("idle") /\ UNCHANGED <<pcm, queue, offset, glitch>>
  /\ UNCHANGED <<src, resources, heard, local>>

AtEnd(e) == pc = "atend" /\ src[sample].end = e

\* A looping sample is reset, and the loop goes on.
Rewind ==
  /\ AtEnd(TRUE) /\ status = "looping"
  /\ src' = [src EXCEPT ![sample] = Smp!AfterReset(@)]
  /\ Goto("prepare")
  /\ UNCHANGED <<sample, status, resources, device, told, local>>

\* (Mutant of Finish: it stops as soon as a period has been played.)
FinishEarly ==
  /\ AtEnd(TRUE) /\ status = "playing" /\ avail >= Period
  /\ Halt
  /\ Goto("idle")
  /\ UNCHANGED <<sample, resources, heard, glitch, local>>

\* The sample has been read and the device has drained: aout_alsa_stop.
Finish ==
  /\ AtEnd(TRUE) /\ status = "playing" /\ avail >= Buffer
  /\ Halt
  /\ Goto("idle")
  /\ UNCHANGED <<sample, resources, heard, glitch, local>>

\* It has been read and the device is draining, or it has no room for a period.
NothingToDo ==
  /\ \/ AtEnd(TRUE) /\ status = "playing" /\ avail < Buffer
     \/ AtEnd(FALSE) /\ avail < Period
  /\ Goto("start")
  /\ UNCHANGED <<src, sample, status, resources, device, told, local>>

\* (Mutant of BeginPeriod: whether a period fits is not tested.)
BeginPeriodAlways ==
  /\ AtEnd(FALSE)
  /\ size' = Period
  /\ Goto("chunk")
  /\ UNCHANGED <<src, sample, status, resources, device, told, avail>>

BeginPeriod ==
  /\ AtEnd(FALSE) /\ avail >= Period
  /\ size' = Period
  /\ Goto("chunk")
  /\ UNCHANGED <<src, sample, status, resources, device, told, avail>>

\* The k frames that follow the first p of the sample.
Chunk(p, k) == [i \in 1..k |-> p + i]


\* The inner loop of transfer() after a chunk of k frames.
AfterChunk(k) ==
  /\ size' = size - k
  /\ Goto(IF size' = 0 THEN "start" ELSE IF k = 0 THEN "prepare" ELSE "chunk")

\* The frames read at a time: what snd_pcm_mmap_begin grants ends with the ring
\* buffer of the device.
Room == IF mode = "rw" \/ size <= Buffer - offset THEN size ELSE Buffer - offset

\* (Mutant of Transfer: all frames asked for are committed.)
TransferCommitsAll ==
  /\ pc = "chunk" /\ pcm \in {"PREPARED", "RUNNING"}
  /\ \E t \in Smp!AfterRead(src[sample], Room) :
       /\ src' = [src EXCEPT ![sample] = t]
       /\ queue' = queue \o Chunk(src[sample].pos, Room)
       /\ offset' = (offset + Room) % Buffer
       /\ AfterChunk(Room)
  /\ pcm' = IF mode = "rw" /\ Len(queue') >= Buffer - Period THEN "RUNNING" ELSE pcm
  /\ UNCHANGED <<sample, status, resources, heard, glitch, told, avail>>

\* direct_transfer and indirect_transfer when the device takes the frames.  A write
\* starts the device once its buffer is full but for a period (aout_alsa_sw_settings).
Transfer ==
  /\ pc = "chunk" /\ pcm \in {"PREPARED", "RUNNING"}
  /\ \E t \in Smp!AfterRead(src[sample], Room) :
       LET k == t.pos - src[sample].pos IN
       /\ src' = [src EXCEPT ![sample] = t]
       /\ queue' = queue \o Chunk(src[sample].pos, k)
       /\ offset' = (offset + k) % Buffer
       /\ AfterChunk(k)
  /\ pcm' = IF mode = "rw" /\ Len(queue') >= Buffer - Period THEN "RUNNING" ELSE pcm
  /\ UNCHANGED <<sample, status, resources, heard, glitch, told, avail>>

\* direct_transfer when snd_pcm_mmap_begin fails and the device recovers.
TransferNothing ==
  /\ pc = "chunk" /\ pcm = "XRUN" /\ mode = "mmap"
  /\ Recover
  /\ AfterChunk(0)
  /\ UNCHANGED <<src, sample, status, resources, heard, told, avail>>

\* The frames have been read, the device refuses them and recovers: they are lost.
\* direct_transfer counts them as transferred, indirect_transfer does not.
TransferLoses ==
  /\ pc = "chunk" /\ pcm = "XRUN"
  /\ pcm' = "PREPARED" /\ queue' = <<>> /\ offset' = 0
  /\ \E t \in Smp!AfterRead(src[sample], Room) :
       LET k == t.pos - src[sample].pos IN
       /\ src' = [src EXCEPT ![sample] = t]
       /\ glitch' = (glitch \/ queue # <<>> \/ k > 0)
       /\ AfterChunk(IF mode = "rw" THEN 0 ELSE k)
  /\ UNCHANGED <<sample, status, resources, heard, told, avail>>

\* The device does not recover: error() returns -1, which is taken for a count of
\* frames.  The loop goes on, without a sample, with one frame more (size is
\* bounded by Period + 1).
TransferFails ==
  /\ pc = "chunk" /\ pcm = "GONE"
  /\ \/ UNCHANGED src
     \/ sample # NULL /\ \E t \in Smp!AfterRead(src[sample], Room) : src' = [src EXCEPT ![sample] = t]
  /\ Error
  /\ glitch' = TRUE
  /\ size' = IF size > Period THEN size ELSE size + 1
  /\ UNCHANGED <<resources, pcm, queue, offset, heard, pc, avail>>

\* (Mutant of StartDevice: the device is never started.)
StartNothing ==
  /\ pc = "start"
  /\ Goto("idle")
  /\ UNCHANGED <<src, sample, status, resources, device, told, local>>

\* aout_alsa_update after transfer(): snd_pcm_start of a device that is prepared.
StartDevice ==
  /\ pc = "start"
  /\ pcm' = IF pcm = "PREPARED" THEN "RUNNING" ELSE pcm
  /\ Goto("idle")
  /\ UNCHANGED <<src, sample, status, resources, queue, offset, heard, glitch, told, local>>

\* ... which may fail if it has nothing to play.
StartFails ==
  /\ pc = "start" /\ pcm = "PREPARED" /\ queue = <<>>
  /\ Error
  /\ Goto("idle")
  /\ UNCHANGED <<src, resources, device, local>>

UpdateStep ==
  \/ Update \/ Prepare \/ AvailUpdate \/ AvailFails \/ Rewind \/ Finish \/ NothingToDo
  \/ BeginPeriod \/ Transfer \/ TransferNothing \/ TransferLoses \/ TransferFails
  \/ StartDevice \/ StartFails

Next ==
  \/ \E s \in Samples, m \in {"playing", "looping"} : PlayAgain(s, m) \/ PlayNew(s, m)
  \/ Stop \/ Tick \/ Suspend \/ Vanish \/ UpdateStep

Spec == Init /\ [][Next]_vars

\* The I/O thread comes back to a channel that plays, and a running device plays.
FairSpec == Spec /\ WF_vars(UpdateStep) /\ SF_vars(Tick)

-----------------------------------------------------------------------------
(* Properties.                                                             *)

Resources == {"handle", "hwparams", "swparams", "imp_buffer"}

\* Every variable stays in its type; the device never gets more than it can hold.
TypeOK ==
  /\ \A s \in Samples : src[s] \in [length : {Frames[s]}, unit : {Unit[s]}, pos : 0..Frames[s], end : BOOLEAN,
                                    fresh : BOOLEAN]
  /\ sample \in Samples \cup {NULL} /\ status \in {"stopped", "playing", "looping"}
  /\ format \in {Format[s] : s \in Samples} \cup {NULL}
  /\ fields \subseteq Resources /\ live \subseteq Resources
  /\ mode \in {"none", "mmap", "rw"}
  /\ pcm \in {"SETUP", "PREPARED", "RUNNING", "XRUN", "GONE"}
  /\ queue \in Seq(Nat) /\ Len(queue) <= Buffer /\ offset \in 0..Buffer
  /\ heard \in Nat /\ glitch \in BOOLEAN /\ told \subseteq Samples
  /\ pc \in {"idle", "prepare", "avail", "atend", "chunk", "start"}
  /\ avail \in 0..Buffer /\ size \in 0..(Period + 1)

\* Every STARTED is followed by one STOPPED, on every error path too: the
\* application believes that a sample plays exactly while the channel plays it.
Told == told = IF Active THEN {sample} ELSE {}

\* A channel that plays has its device open in the format of its sample, with a
\* buffer if the device cannot be written to directly, whatever it played before,
\* unless the device refused to open.  What open() allocated has an owner: nothing
\* leaks when a channel is opened again in another format or mode, nor when one of
\* the steps of open() fails.
OpenInFormat ==
  /\ Active => /\ format = Format[sample]
               /\ Usable => live = Allocated(mode)
               /\ ~Usable => live = {} /\ pcm = "GONE"
  /\ live \subseteq fields

\* Unless the device lost frames, what it has in its buffer continues what it has
\* played, and the sample continues that, also from the end of a loop to its
\* beginning, however the reads and the periods cut it.
Seamless ==
  Active /\ ~glitch =>
    LET played == <<heard>> \o queue
        last   == played[Len(played)]
    IN  /\ \A i \in 1..Len(queue) : queue[i] = Follows(played[i])
        /\ src[sample].pos = last \/ (src[sample].pos = 0 /\ last = src[sample].length)

\* A sample that ends by itself has been heard to its last frame: the device is
\* not dropped while it drains.
PlayedOut ==
  [][pc = "atend" /\ Active /\ status' = "stopped" =>
       queue = <<>> /\ (~glitch => heard = src[sample].length)]_vars

\* A sample that does not loop comes to its end, as wait() relies on: what the
\* device was given is played, also when it is less than a period, or when the
\* frames do not fit where the device's ring buffer ends.
PlayingEnds == status = "playing" ~> status # "playing"

=============================================================================
