------------------------------- MODULE RhAudio -------------------------------
(***************************************************************************)
(* The playback path of rh_audio: the front end (src/src/rh_audio.c), the  *)
(* command pipe and I/O thread of the ALSA output API                      *)
(* (src/src/aout/alsa/alsa_api.c), the channels' play, loop, stop and      *)
(* set_sample (src/src/aout/alsa/{start,stop,sample}.c) and the reference  *)
(* counter of the audio samples (src/src/asmp/i_ffmpeg.c, i_s5prom.c).     *)
(*                                                                         *)
(* A handle stands for an audio_instance together with the sample          *)
(* (rh_asmp) that open() creates for it: the callback data of that sample  *)
(* is the instance.  Application threads call the functions of rh_audio.h; *)
(* every critical section of the code is one step, and so is everything    *)
(* the I/O thread does between two points where another thread could see   *)
(* a difference.                                                           *)
(***************************************************************************)
EXTENDS Integers, Sequences, FiniteSets

CONSTANTS
  Handles,          \* the audio instances an application may create
  Threads,          \* the application's threads
  Users,            \* Users[h]: the threads that call functions on handle h
  Calls,            \* the functions they call on it, all of them or some
  NULL,             \* no handle, no sample
  PipeCapacity,     \* commands that fit in the pipe before write() blocks
  InitialChannels,  \* channels created by setup (3 in the code)
  WaitBeforeClose,  \* the application calls wait() before close(), as test.c
  ChecksOpen,       \* the application uses an instance only if open() succeeded
  MaxSync           \* bound: no request on a handle with this many syncs pending

ASSUME Assumptions ==
  /\ IsFiniteSet(Handles) /\ IsFiniteSet(Threads)
  /\ NULL \notin Handles
  /\ Users \in [Handles -> SUBSET Threads]
  /\ Calls \subseteq {"play", "loop", "stop", "wait", "is_playing"}
  /\ PipeCapacity \in Nat \ {0}
  /\ InitialChannels \in Nat /\ MaxSync \in Nat \ {0}
  /\ WaitBeforeClose \in BOOLEAN /\ ChecksOpen \in BOOLEAN

VARIABLES
  api,      \* the output API: "down", "up", or "joining" inside shutdown
  thread,   \* api_instance->thread is not 0
  inst,     \* the audio_instance: "none", "created", "open", "closed"
  settled,  \* the application's last completed call on the handle was wait()
  ref,      \* reference counter of the handle's sample, 0 once freed
  playing,  \* instance->is_playing
  sync,     \* instance->audio_cmd_sync
  pc,       \* where each application thread is
  op,       \* the function it is in
  hnd,      \* the handle it called it on
  pipe,     \* the commands in the pipe
  chans,    \* the channels in the bucket
  ioPc,     \* where the I/O thread is
  ioCmd,    \* the command it is executing
  ioIdx     \* the channel its loop is at

appVars == <<inst, settled, pc, op, hnd>>
ioVars  == <<thread, ioPc, ioCmd, ioIdx>>
vars    == <<api, thread, inst, settled, ref, playing, sync, pc, op, hnd,
             pipe, chans, ioPc, ioCmd, ioIdx>>

Requests == {"play", "loop", "stop"}
Queries  == {"wait", "is_playing"}

\* struct io_command_struct.
Commands == [op : Requests \cup {"sync"}, h : Handles] \cup [op : {"exit"}, h : {NULL}]
NoCmd    == [op |-> "none", h |-> NULL]

\* struct aout_instance: the sample it plays, NULL if the channel is free.
Status   == {"stopped", "playing", "looping"}
Channels == [sample : Handles \cup {NULL}, status : Status]
FreeChannel == [sample |-> NULL, status |-> "stopped"]

BoundTo(h) == {c \in DOMAIN chans : chans[c].sample = h}
Active(c)  == chans[c].status \in {"playing", "looping"}

\* The channel the search loops of stop() and _play() find.
FirstBound(h) == CHOOSE c \in BoundTo(h) : \A d \in BoundTo(h) : c <= d

Init ==
  /\ api = "down" /\ thread = FALSE
  /\ inst = [h \in Handles |-> "none"]
  /\ settled = [h \in Handles |-> TRUE]
  /\ ref = [h \in Handles |-> 0]
  /\ playing = [h \in Handles |-> FALSE]
  /\ sync = [h \in Handles |-> 0]
  /\ pc = [t \in Threads |-> "idle"]
  /\ op = [t \in Threads |-> "none"]
  /\ hnd = [t \in Threads |-> NULL]
  /\ pipe = <<>> /\ chans = <<>>
  /\ ioPc = "none" /\ ioCmd = NoCmd /\ ioIdx = 1

-----------------------------------------------------------------------------
(* Callbacks: what an output event does to the instance, rh_audio.c.       *)

\* Threads blocked on one of the instance's condition variables test again.
Wake(h, from, to) ==
  pc' = [t \in Threads |-> IF pc[t] = from /\ hnd[t] = h THEN to ELSE pc[t]]

\* RH_ASMP_OUTPUT_EVENT_STARTED: _set_is_playing(self, 1).
Started(h) == playing' = [playing EXCEPT ![h] = TRUE] /\ UNCHANGED pc

\* (Mutant of Stopped: the broadcast is forgotten.)
StoppedSilently(h) == playing' = [playing EXCEPT ![h] = FALSE] /\ UNCHANGED pc

\* RH_ASMP_OUTPUT_EVENT_STOPPED: _set_is_playing(self, 0), with its broadcast.
Stopped(h) ==
  /\ playing' = [playing EXCEPT ![h] = FALSE]
  /\ Wake(h, "await_stop_blk", "await_stop")

\* (Mutants of RecvSync: the count is reset, or the broadcast is forgotten.)
RecvSyncReset(h) ==
  /\ sync' = [sync EXCEPT ![h] = 0]
  /\ Wake(h, "await_sync_blk", "await_sync")

RecvSyncSilently(h) == sync' = [sync EXCEPT ![h] = @ - 1] /\ UNCHANGED pc

\* RH_ASMP_OUTPUT_EVENT_SYNC: _recv_sync_command.
RecvSync(h) ==
  /\ sync' = [sync EXCEPT ![h] = @ - 1]
  /\ IF sync[h] = 1 THEN Wake(h, "await_sync_blk", "await_sync") ELSE UNCHANGED pc

-----------------------------------------------------------------------------
(* The application: setup, create, open, close, shutdown.                  *)

Idle(t) == pc[t] = "idle"
Busy(h) == \E t \in Threads : hnd[t] = h

\* rh_audio_setup_api: pipe, channels and the I/O thread.
Setup ==
  /\ api = "down"
  /\ api' = "up" /\ thread' = TRUE /\ ioPc' = "pipe"
  /\ chans' = [c \in 1..InitialChannels |-> FreeChannel]
  /\ UNCHANGED <<appVars, ref, playing, sync, pipe, ioCmd, ioIdx>>

\* rh_audio_create.
Create(t, h) ==
  /\ api = "up" /\ Idle(t) /\ t \in Users[h] /\ inst[h] = "none"
  /\ inst' = [inst EXCEPT ![h] = "created"]
  /\ UNCHANGED <<api, ioVars, settled, ref, playing, sync, pc, op, hnd, pipe, chans>>

\* _impl_open when it succeeds; when it fails it closes the sample it created
\* and leaves the instance as it was.
Open(t, h) ==
  /\ api = "up" /\ Idle(t) /\ t \in Users[h] /\ inst[h] = "created"
  /\ inst' = [inst EXCEPT ![h] = "open"]
  /\ ref' = [ref EXCEPT ![h] = 1]
  /\ UNCHANGED <<api, ioVars, settled, playing, sync, pc, op, hnd, pipe, chans>>

\* _impl_close: drop the sample's reference and free the instance.  The caller
\* keeps other threads out of the instance it closes.
Close(t, h) ==
  /\ api = "up" /\ Idle(t) /\ t \in Users[h] /\ inst[h] \in {"created", "open"}
  /\ ~Busy(h) /\ (WaitBeforeClose => settled[h])
  /\ inst' = [inst EXCEPT ![h] = "closed"]
  /\ ref' = IF inst[h] = "open" THEN [ref EXCEPT ![h] = @ - 1] ELSE ref
  /\ UNCHANGED <<api, ioVars, settled, playing, sync, pc, op, hnd, pipe, chans>>

\* (Mutant of ShutdownSend: the EXIT command is not sent.)
ShutdownNoExit ==
  /\ api = "up" /\ Len(pipe) < PipeCapacity
  /\ \A t \in Threads : Idle(t)
  /\ \A h \in Handles : inst[h] \in {"none", "closed"}
  /\ api' = "joining"
  /\ UNCHANGED <<ioVars, appVars, ref, playing, sync, pipe, chans>>

\* _impl_shutdown up to the loop that waits for the thread.  The application
\* has closed its instances first (test.cpp:52).
ShutdownSend ==
  /\ api = "up" /\ Len(pipe) < PipeCapacity
  /\ \A t \in Threads : Idle(t)
  /\ \A h \in Handles : inst[h] \in {"none", "closed"}
  /\ api' = "joining"
  /\ pipe' = Append(pipe, [op |-> "exit", h |-> NULL])
  /\ UNCHANGED <<ioVars, appVars, ref, playing, sync, chans>>

\* (Mutant of ShutdownFree: the channels keep their samples.)
ShutdownLeak ==
  /\ api = "joining" /\ ~thread
  /\ api' = "down" /\ pipe' = <<>> /\ chans' = <<>>
  /\ ioPc' = "none" /\ ioCmd' = NoCmd /\ ioIdx' = 1
  /\ UNCHANGED <<thread, appVars, ref, playing, sync>>

\* The rest of _impl_shutdown: close_all_channels drops the channels' references,
\* then the bucket, the pipe and the instance are freed.
ShutdownFree ==
  /\ api = "joining" /\ ~thread
  /\ api' = "down" /\ pipe' = <<>> /\ chans' = <<>>
  /\ ref' = [h \in Handles |-> ref[h] - Cardinality(BoundTo(h))]
  /\ ioPc' = "none" /\ ioCmd' = NoCmd /\ ioIdx' = 1
  /\ UNCHANGED <<thread, appVars, playing, sync>>

-----------------------------------------------------------------------------
(* The application's threads inside a call.                                *)

Usable(h) == inst[h] = "open" \/ (inst[h] = "created" /\ ~ChecksOpen)

Goto(t, label) == pc' = [pc EXCEPT ![t] = label] /\ UNCHANGED <<op, hnd>>

Return(t) ==
  /\ pc' = [pc EXCEPT ![t] = "idle"]
  /\ op' = [op EXCEPT ![t] = "none"]
  /\ hnd' = [hnd EXCEPT ![t] = NULL]

\* Entry of _impl_play, _impl_loop, _impl_stop, _impl_wait, _impl_is_playing.
Call(t, h, o) ==
  /\ api = "up" /\ Idle(t) /\ t \in Users[h] /\ Usable(h)
  /\ o \in Requests => sync[h] < MaxSync
  /\ pc' = [pc EXCEPT ![t] = IF o \in Requests THEN "cmd_ref" ELSE "await_sync"]
  /\ op' = [op EXCEPT ![t] = o]
  /\ hnd' = [hnd EXCEPT ![t] = h]
  /\ settled' = [settled EXCEPT ![h] = @ /\ o \notin Requests]
  /\ UNCHANGED <<api, ioVars, inst, ref, playing, sync, pipe, chans>>

\* (Mutant of AddRef: the pipe's reference is not taken.)
AddNoRef(t) ==
  /\ pc[t] \in {"cmd_ref", "sync_ref"} /\ inst[hnd[t]] = "open"
  /\ Goto(t, IF pc[t] = "cmd_ref" THEN "cmd_send" ELSE "sync_send")
  /\ UNCHANGED <<api, ioVars, inst, settled, ref, playing, sync, pipe, chans>>

\* The output API's _impl_play, _impl_loop, _impl_stop and _impl_sync: a
\* reference for the command pipe ...
AddRef(t) ==
  /\ pc[t] \in {"cmd_ref", "sync_ref"} /\ inst[hnd[t]] = "open"
  /\ ref' = [ref EXCEPT ![hnd[t]] = @ + 1]
  /\ Goto(t, IF pc[t] = "cmd_ref" THEN "cmd_send" ELSE "sync_send")
  /\ UNCHANGED <<api, ioVars, inst, settled, playing, sync, pipe, chans>>

\* ... unless the instance has no sample: nothing is sent.
NoSample(t) ==
  /\ pc[t] \in {"cmd_ref", "sync_ref"} /\ inst[hnd[t]] # "open"
  /\ IF pc[t] = "cmd_ref" THEN Goto(t, "sync_inc") ELSE Return(t)
  /\ UNCHANGED <<api, ioVars, inst, settled, ref, playing, sync, pipe, chans>>

\* pipe_send: the write end blocks while the pipe is full.
PipeSend(t) ==
  /\ pc[t] \in {"cmd_send", "sync_send"} /\ Len(pipe) < PipeCapacity
  /\ IF pc[t] = "cmd_send"
       THEN pipe' = Append(pipe, [op |-> op[t], h |-> hnd[t]]) /\ Goto(t, "sync_inc")
       ELSE pipe' = Append(pipe, [op |-> "sync", h |-> hnd[t]]) /\ Return(t)
  /\ UNCHANGED <<api, ioVars, inst, settled, ref, playing, sync, chans>>

\* _send_sync_command, its critical section.
SyncInc(t) ==
  /\ pc[t] = "sync_inc"
  /\ sync' = [sync EXCEPT ![hnd[t]] = @ + 1]
  /\ Goto(t, "sync_ref")
  /\ UNCHANGED <<api, ioVars, inst, settled, ref, playing, pipe, chans>>

\* (Mutant of AwaitSync: wait() looks at is_playing without synchronising first.)
AwaitNoSync(t) ==
  /\ pc[t] = "await_sync"
  /\ IF op[t] = "wait" THEN Goto(t, "await_stop") ELSE Return(t)
  /\ UNCHANGED <<api, ioVars, inst, settled, ref, playing, sync, pipe, chans>>

\* _wait_for_sync: one evaluation of its while condition.
AwaitSync(t) ==
  /\ pc[t] = "await_sync"
  /\ CASE sync[hnd[t]] # 0 -> Goto(t, "await_sync_blk")
       [] sync[hnd[t]] = 0 /\ op[t] = "wait" -> Goto(t, "await_stop")
       [] OTHER -> Return(t)
  /\ UNCHANGED <<api, ioVars, inst, settled, ref, playing, sync, pipe, chans>>

\* _impl_wait after the synchronisation: one evaluation of its while condition.
AwaitStop(t) ==
  /\ pc[t] = "await_stop"
  /\ IF playing[hnd[t]]
       THEN Goto(t, "await_stop_blk") /\ UNCHANGED settled
       ELSE Return(t) /\ settled' = [settled EXCEPT ![hnd[t]] = TRUE]
  /\ UNCHANGED <<api, ioVars, inst, ref, playing, sync, pipe, chans>>

\* (Mutant of SpuriousWakeup: an if where the code has a while.)
WakeupReturns(t) ==
  /\ \/ pc[t] = "await_sync_blk" /\ Goto(t, "await_sync")
     \/ pc[t] = "await_stop_blk" /\ Return(t)
  /\ UNCHANGED <<api, ioVars, inst, settled, ref, playing, sync, pipe, chans>>

\* pthread_cond_wait may return without a broadcast.
SpuriousWakeup(t) ==
  /\ \/ pc[t] = "await_sync_blk" /\ Goto(t, "await_sync")
     \/ pc[t] = "await_stop_blk" /\ Goto(t, "await_stop")
  /\ UNCHANGED <<api, ioVars, inst, settled, ref, playing, sync, pipe, chans>>

-----------------------------------------------------------------------------
(* The I/O thread: process_cmd_pipe.                                       *)

\* pipe_recv of a command.
Recv ==
  /\ ioPc = "pipe" /\ pipe # <<>>
  /\ ioCmd' = Head(pipe) /\ pipe' = Tail(pipe) /\ ioPc' = "exec"
  /\ UNCHANGED <<api, thread, appVars, ref, playing, sync, chans, ioIdx>>

\* pipe_recv of nothing: process_cmd_pipe returns to api_main_loop.
PipeEmpty ==
  /\ ioPc = "pipe" /\ pipe = <<>>
  /\ ioPc' = "update" /\ ioIdx' = 1
  /\ UNCHANGED <<api, thread, appVars, ref, playing, sync, pipe, chans, ioCmd>>

Exec(o) == ioPc = "exec" /\ ioCmd.op \in o

\* aout_alsa_play and aout_alsa_loop on channel c, which plays h.
Start(c, h) ==
  LET mode == IF ioCmd.op = "loop" THEN "looping" ELSE "playing" IN
  /\ chans' = [chans EXCEPT ![c] = [sample |-> h, status |-> mode]]
  /\ IF Active(c) THEN UNCHANGED <<playing, pc>> ELSE Started(h)

\* _play when the sample has a channel.
PlayBound ==
  /\ Exec({"play", "loop"}) /\ BoundTo(ioCmd.h) # {}
  /\ Start(FirstBound(ioCmd.h), ioCmd.h)
  /\ ioPc' = "unref"
  /\ UNCHANGED <<api, thread, inst, settled, op, hnd, ref, sync, pipe, ioCmd, ioIdx>>

\* (Mutants of PlayFree: no reference for the channel; the sample's own channel is
\* not looked for.)
PlayFreeNoRef ==
  /\ Exec({"play", "loop"}) /\ BoundTo(ioCmd.h) = {} /\ BoundTo(NULL) # {}
  /\ Start(FirstBound(NULL), ioCmd.h)
  /\ ioPc' = "unref"
  /\ UNCHANGED <<api, thread, inst, settled, op, hnd, ref, sync, pipe, ioCmd, ioIdx>>

PlayAnyFree ==
  /\ Exec({"play", "loop"}) /\ BoundTo(NULL) # {}
  /\ Start(FirstBound(NULL), ioCmd.h)
  /\ ref' = [ref EXCEPT ![ioCmd.h] = @ + 1]
  /\ ioPc' = "unref"
  /\ UNCHANGED <<api, thread, inst, settled, op, hnd, sync, pipe, ioCmd, ioIdx>>

\* _play when it has none: the first free channel takes it, with a reference.
PlayFree ==
  /\ Exec({"play", "loop"}) /\ BoundTo(ioCmd.h) = {} /\ BoundTo(NULL) # {}
  /\ Start(FirstBound(NULL), ioCmd.h)
  /\ ref' = [ref EXCEPT ![ioCmd.h] = @ + 1]
  /\ ioPc' = "unref"
  /\ UNCHANGED <<api, thread, inst, settled, op, hnd, sync, pipe, ioCmd, ioIdx>>

\* (Mutant of PlayGrow: a channel is added though one is free.)
PlayGrowEarly ==
  /\ Exec({"play", "loop"}) /\ BoundTo(ioCmd.h) = {}
  /\ chans' = Append(chans, FreeChannel)
  /\ UNCHANGED <<api, ioVars, appVars, ref, playing, sync, pipe>>

\* _play when no channel is free: add_channels(self, 1), then the loop again.
PlayGrow ==
  /\ Exec({"play", "loop"}) /\ BoundTo(ioCmd.h) = {} /\ BoundTo(NULL) = {}
  /\ chans' = Append(chans, FreeChannel)
  /\ UNCHANGED <<api, ioVars, appVars, ref, playing, sync, pipe>>

\* ... or add_channels fails and the command is dropped.
PlayNoChannel ==
  /\ Exec({"play", "loop"}) /\ BoundTo(ioCmd.h) = {} /\ BoundTo(NULL) = {}
  /\ ioPc' = "unref_err"
  /\ UNCHANGED <<api, thread, appVars, ref, playing, sync, pipe, chans, ioCmd, ioIdx>>

\* (Mutant of StopChannel: no event for the application.)
StopNoEvent(c) ==
  /\ chans' = [chans EXCEPT ![c].status = "stopped"]
  /\ UNCHANGED <<playing, pc>>

\* aout_alsa_stop on channel c.
StopChannel(c) ==
  /\ chans' = [chans EXCEPT ![c].status = "stopped"]
  /\ IF Active(c) THEN Stopped(chans[c].sample) ELSE UNCHANGED <<playing, pc>>

\* stop(): stop the sample's channel; set_sample(NULL) follows.
StopBound ==
  /\ Exec({"stop"}) /\ BoundTo(ioCmd.h) # {}
  /\ StopChannel(FirstBound(ioCmd.h))
  /\ ioIdx' = FirstBound(ioCmd.h) /\ ioPc' = "unbind"
  /\ UNCHANGED <<api, thread, inst, settled, op, hnd, ref, sync, pipe, ioCmd>>

\* stop() of a sample no channel plays.
StopUnbound ==
  /\ Exec({"stop"}) /\ BoundTo(ioCmd.h) = {}
  /\ ioPc' = "unref"
  /\ UNCHANGED <<api, thread, appVars, ref, playing, sync, pipe, chans, ioCmd, ioIdx>>

\* aout_alsa_set_sample(channel, NULL), from stop() or from error() in an update.
\* An error() inside a transfer is taken for a count of frames, and transfer() goes
\* on with a device that has failed: update() never returns (update.c:196).
Unbind ==
  /\ ioPc \in {"unbind", "fail"}
  /\ ref' = [ref EXCEPT ![chans[ioIdx].sample] = @ - 1]
  /\ chans' = [chans EXCEPT ![ioIdx].sample = NULL]
  /\ \/ ioPc = "unbind" /\ ioPc' = "unref" /\ ioIdx' = 1
     \/ ioPc = "fail" /\ ioPc' \in {"update", "spin"} /\ ioIdx' = ioIdx + 1
  /\ UNCHANGED <<api, thread, appVars, playing, sync, pipe, ioCmd>>

\* recv_sync_cmd.
ExecSync ==
  /\ Exec({"sync"})
  /\ RecvSync(ioCmd.h)
  /\ ioPc' = "unref"
  /\ UNCHANGED <<api, thread, inst, settled, op, hnd, ref, playing, pipe, chans, ioCmd, ioIdx>>

\* The reference created for the command pipe is freed.  After an error
\* process_cmd_pipe returns, else it reads the next command.
Unref ==
  /\ ioPc \in {"unref", "unref_err"}
  /\ ref' = [ref EXCEPT ![ioCmd.h] = @ - 1]
  /\ ioCmd' = NoCmd
  /\ ioPc' = IF ioPc = "unref" THEN "pipe" ELSE "update"
  /\ ioIdx' = 1
  /\ UNCHANGED <<api, thread, appVars, playing, sync, pipe, chans>>

\* EXIT_COMMAND: the thread clears its id and exits.
ExecExit ==
  /\ Exec({"exit"})
  /\ thread' = FALSE /\ ioPc' = "none" /\ ioCmd' = NoCmd
  /\ UNCHANGED <<api, appVars, ref, playing, sync, pipe, chans, ioIdx>>

-----------------------------------------------------------------------------
(* The I/O thread: the update of every channel, api_main_loop.             *)

AtChannel == ioPc = "update" /\ ioIdx \in DOMAIN chans

\* aout_alsa_update with nothing to tell the application.
UpdateNext ==
  /\ AtChannel
  /\ ioIdx' = ioIdx + 1
  /\ UNCHANGED <<api, thread, appVars, ref, playing, sync, pipe, chans, ioPc, ioCmd>>

\* The sample is at its end, it does not loop, or its reset fails, and the device
\* has drained.
UpdateEnd(h) ==
  /\ AtChannel /\ chans[ioIdx].sample = h /\ Active(ioIdx)
  /\ StopChannel(ioIdx)
  /\ ioIdx' = ioIdx + 1
  /\ UNCHANGED <<api, thread, inst, settled, op, hnd, ref, sync, pipe, ioPc, ioCmd>>

\* error(): the device failed while the channel was playing.  The application is
\* told STOPPED ...
UpdateFail ==
  /\ AtChannel /\ Active(ioIdx)
  /\ StopChannel(ioIdx)
  /\ ioPc' = "error"
  /\ UNCHANGED <<api, thread, inst, settled, op, hnd, ref, sync, pipe, ioCmd, ioIdx>>

\* ... and then ERROR, which _on_output_event does nothing about; the channel's
\* sample is dropped next.
ErrorEvent ==
  /\ ioPc = "error"
  /\ ioPc' = "fail"
  /\ UNCHANGED <<api, thread, appVars, ref, playing, sync, pipe, chans, ioCmd, ioIdx>>

\* A sample without frames that loops: it is reset and at its end for ever.
UpdateLoops ==
  /\ AtChannel /\ chans[ioIdx].status = "looping"
  /\ ioPc' = "spin"
  /\ UNCHANGED <<api, thread, appVars, ref, playing, sync, pipe, chans, ioCmd, ioIdx>>

\* update() does not return: it goes round transfer()'s loops and does nothing else.
Spin == ioPc = "spin" /\ UNCHANGED vars

\* (Mutant of UpdateDone: the pipe is not polled again.)
UpdateForever ==
  /\ ioPc = "update" /\ ioIdx \notin DOMAIN chans
  /\ ioIdx' = 1
  /\ UNCHANGED <<api, thread, appVars, ref, playing, sync, pipe, chans, ioPc, ioCmd>>

\* All channels updated: poll and read the pipe again.
UpdateDone ==
  /\ ioPc = "update" /\ ioIdx \notin DOMAIN chans
  /\ ioPc' = "pipe" /\ ioIdx' = 1
  /\ UNCHANGED <<api, thread, appVars, ref, playing, sync, pipe, chans, ioCmd>>

-----------------------------------------------------------------------------
ThreadStep(t) ==
  AddRef(t) \/ NoSample(t) \/ PipeSend(t) \/ SyncInc(t) \/ AwaitSync(t) \/ AwaitStop(t)

AppStep ==
  \/ Setup \/ ShutdownSend \/ ShutdownFree
  \/ \E t \in Threads, h \in Handles :
       \/ Create(t, h) \/ Open(t, h) \/ Close(t, h)
       \/ \E o \in Calls : Call(t, h, o)
  \/ \E t \in Threads : ThreadStep(t) \/ SpuriousWakeup(t)

CommandStep ==
  \/ Recv \/ PipeEmpty \/ PlayBound \/ PlayFree \/ PlayGrow \/ PlayNoChannel
  \/ StopBound \/ StopUnbound \/ Unbind \/ ExecSync \/ Unref \/ ExecExit

UpdateStep ==
  \/ UpdateNext \/ (\E h \in Handles : UpdateEnd(h)) \/ UpdateFail \/ ErrorEvent
  \/ UpdateLoops \/ Spin \/ UpdateDone

IoStep == CommandStep \/ UpdateStep

Next == AppStep \/ IoStep

Spec == Init /\ [][Next]_vars

\* The scheduler runs the I/O thread and every thread inside a call; a writer of
\* a full pipe gets its turn when the pipe is emptied again and again; samples
\* are finite and the device plays them, so a playing channel that is updated
\* again and again without looping reaches its end.
Fairness ==
  /\ WF_vars(IoStep) /\ WF_vars(ShutdownFree)
  /\ \A t \in Threads : SF_vars(ThreadStep(t))
  /\ \A h \in Handles : SF_vars(UpdateEnd(h) /\ chans[ioIdx].status = "playing")

FairSpec == Spec /\ Fairness

-----------------------------------------------------------------------------
(* What the references and the counters stand for.                         *)

InCall(h)    == {t \in Threads : hnd[t] = h /\ pc[t] \in {"cmd_send", "sync_send"}}
InPipe(h)    == {i \in DOMAIN pipe : pipe[i].h = h}
SyncsOf(h)   == {i \in InPipe(h) : pipe[i].op = "sync"}
Syncing(h)   == {t \in Threads : hnd[t] = h /\ pc[t] \in {"sync_ref", "sync_send"}}
Executing(h) == ioPc = "exec" /\ ioCmd.h = h
One(b)       == IF b THEN 1 ELSE 0

Holders(h) ==
  One(inst[h] = "open") + Cardinality(InCall(h)) + Cardinality(InPipe(h))
    + One(ioCmd.h = h) + Cardinality(BoundTo(h))

\* No command and no playing channel will call back the instance of h.
Quiet(h) == InPipe(h) = {} /\ ~Executing(h) /\ \A c \in BoundTo(h) : ~Active(c)

\* The events that may still be sent to the instance of h: those of its commands and
\* of its playing channel, and the ERROR of error() when STOPPED has been sent.
Events(h) ==
  {e \in {"STARTED", "STOPPED", "SYNC", "ERROR"} :
     ~Quiet(h) \/ (e = "ERROR" /\ ioPc = "error" /\ ioIdx \in BoundTo(h))}

-----------------------------------------------------------------------------
(* Invariants.                                                             *)

Labels == {"idle", "cmd_ref", "cmd_send", "sync_inc", "sync_ref", "sync_send",
           "await_sync", "await_sync_blk", "await_stop", "await_stop_blk"}

\* Every variable stays in its type, and the pipe within its capacity.
TypeOK ==
  /\ api \in {"down", "up", "joining"} /\ thread \in BOOLEAN
  /\ inst \in [Handles -> {"none", "created", "open", "closed"}]
  /\ settled \in [Handles -> BOOLEAN]
  /\ ref \in [Handles -> Int] /\ playing \in [Handles -> BOOLEAN]
  /\ sync \in [Handles -> Int]
  /\ pc \in [Threads -> Labels]
  /\ op \in [Threads -> Requests \cup Queries \cup {"none"}]
  /\ hnd \in [Threads -> Handles \cup {NULL}]
  /\ pipe \in Seq(Commands) /\ Len(pipe) <= PipeCapacity
  /\ chans \in Seq(Channels)
  /\ ioPc \in {"none", "pipe", "exec", "unbind", "unref", "unref_err", "update", "error", "fail",
              "spin"}
  /\ ioCmd \in Commands \cup {NoCmd} /\ ioIdx \in Nat \ {0}

\* The reference counter of a sample counts its holders exactly: the open
\* instance, the calls between addref and the write to the pipe, the commands in
\* the pipe, the command the I/O thread executes and the channel that plays it.
\* So addref and close in alsa_api.c and sample.c balance on every path, and a
\* sample is freed exactly when its last holder lets go.
RefExact == \A h \in Handles : ref[h] = Holders(h)

\* A sample that anything can still dereference has not been freed, whatever the
\* threads do: close() of an instance whose commands are in the pipe, or whose
\* sample a channel plays, frees the sample later.
SampleLive ==
  \A h \in Handles :
    (inst[h] = "open" \/ InCall(h) # {} \/ InPipe(h) # {} \/ ioCmd.h = h \/ BoundTo(h) # {})
      => ref[h] > 0

\* A sample is never assigned to two channels: the search loops of _play and
\* stop stop at the first one, a second would play on for ever.
OneChannel == \A h \in Handles, c, d \in DOMAIN chans : {c, d} \subseteq BoundTo(h) => c = d

\* instance->is_playing, which the I/O thread sets by callback, says whether a
\* channel plays the sample.
PlayingAgrees ==
  \A h \in Handles : inst[h] = "open" => (playing[h] <=> \E c \in BoundTo(h) : Active(c))

\* The synchronisations of h that have yet to be received.
Outstanding(h) ==
  Cardinality(Syncing(h)) + Cardinality(SyncsOf(h)) + One(Executing(h) /\ ioCmd.op = "sync")

\* audio_cmd_sync never falls below the number of synchronisations that have
\* yet to be received, so a waiting thread is not released early; it is exactly
\* that number if only opened instances are used, so it is released at last.
SyncExact ==
  \A h \in Handles :
    sync[h] >= Outstanding(h) /\ (ChecksOpen => sync[h] = Outstanding(h))

\* _play adds a channel only when each of the others is bound to a sample of its
\* own and the sample to be played to none: the pool then has as many channels as
\* samples are bound.  Bound is not the same as playing: a sample that came to its
\* end keeps its channel, also when its instance is closed, until it is stopped,
\* its device fails, or shutdown; so the pool does grow with every file that is
\* played to its end.
PoolGrowsWhenBound ==
  [][ioPc = "exec" /\ Len(chans') > Len(chans) =>
       /\ BoundTo(ioCmd.h) = {}
       /\ Len(chans') = Cardinality({h \in Handles : BoundTo(h) # {}}) + 1]_vars

\* The shutdown of alsa_api.c leaves nothing behind: when the pipe is closed and
\* the bucket freed, no command was left unread and every sample is freed.
ShutdownReleasesAll ==
  /\ api = "joining" /\ ~thread => pipe = <<>>
  /\ api = "down" => \A h \in Handles : ref[h] = 0

\* close() frees the instance, which is the callback data of the sample: no
\* command in the pipe and no playing channel may call it back after that.  It
\* holds for an application that waits before it closes a handle of its own, but
\* for one event: error() sends STOPPED, which ends the wait(), and then ERROR,
\* which may find the instance freed (update.c:20); _on_output_event is given
\* the pointer and does not use it (rh_audio.c:149).
ClosedIsQuiet == \A h \in Handles : inst[h] = "closed" => Events(h) \subseteq {"ERROR"}

-----------------------------------------------------------------------------
(* What makes RefExact inductive.                                          *)

\* A thread inside a call knows its handle and its request.
CallInv ==
  \A t \in Threads :
    /\ pc[t] = "idle" <=> hnd[t] = NULL
    /\ pc[t] \in {"cmd_ref", "cmd_send"} => op[t] \in Requests

\* The I/O thread holds a command exactly while it executes one.
IoInv ==
  /\ ioPc = "exec" => ioCmd \in Commands
  /\ ioPc \in {"unbind", "unref", "unref_err"} => ioCmd.h \in Handles
  /\ ioPc \in {"none", "pipe", "update", "error", "fail", "spin"} => ioCmd = NoCmd

\* EXIT is the last command ever sent, and the thread it ends reads no more.
ShutdownInv ==
  /\ thread <=> ioPc # "none"
  /\ api = "up" => thread
  /\ api \in {"down", "joining"} =>
       (\A t \in Threads : pc[t] = "idle") /\ \A h \in Handles : inst[h] \in {"none", "closed"}
  /\ \A i \in DOMAIN pipe : pipe[i].op = "exit" => i = Len(pipe) /\ api = "joining"
  /\ ioCmd.op = "exit" => ioPc = "exec" /\ api = "joining" /\ pipe = <<>>
  /\ ~thread => pipe = <<>>
  /\ api = "down" => ~thread /\ chans = <<>>

\* Only a channel that has a sample plays; the one whose sample is about to be
\* dropped has one and is silent.
ChannelInv ==
  /\ \A c \in DOMAIN chans : Active(c) => chans[c].sample # NULL
  /\ ioPc \in {"unbind", "error", "fail"} =>
       ioIdx \in DOMAIN chans /\ chans[ioIdx].sample # NULL /\ ~Active(ioIdx)

\* A sample that has not been created yet is referred to by nothing.
FreshInv == \A h \in Handles : inst[h] \in {"none", "created"} => ref[h] = 0

IInv == TypeOK /\ CallInv /\ IoInv /\ ShutdownInv /\ ChannelInv /\ FreshInv /\ RefExact

-----------------------------------------------------------------------------
(* Refinement: with one thread per handle, this is a Player.               *)

\* The requests on h among the commands s.
RequestsOf(s, h) ==
  LET made[n \in 0..Len(s)] ==
        IF n = 0 THEN <<>>
        ELSE IF s[n].h = h /\ s[n].op \in Requests THEN Append(made[n - 1], s[n].op)
        ELSE made[n - 1]
  IN  made[Len(s)]

PendingOf(h) == RequestsOf(IF ioPc = "exec" THEN <<ioCmd>> \o pipe ELSE pipe, h)

P == INSTANCE Player WITH
       pending <- [h \in Handles |-> PendingOf(h)],
       waiting <- [t \in Threads |-> IF op[t] = "wait" THEN hnd[t] ELSE NULL]

\* Requests on a handle are carried out in the order they were made, each once,
\* and wait() returns only when all of them are done and the sample is silent.
IsPlayer == P!Spec

-----------------------------------------------------------------------------
(* Liveness.                                                               *)

AwaitingSync(t) == pc[t] \in {"await_sync", "await_sync_blk"}
AwaitingStop(t) == pc[t] \in {"await_stop", "await_stop_blk"}
Looping(h)      == \E c \in BoundTo(h) : chans[c].status = "looping"

\* The I/O thread is in an update() that does not return.
Hung == ioPc = "spin"

\* Requests on h are made again and again, for ever.
Flooded(h) == []<><<\E t \in Threads : SyncInc(t) /\ hnd[t] = h>>_vars

\* A thread that waits for the commands of its handle to be executed, in wait() or
\* is_playing(), is released, unless update() hangs, other threads make requests on
\* the handle without end, or a request was made before open() succeeded: that one
\* counted a synchronisation nobody will answer.
SyncReturns ==
  \A h \in Handles : \A t \in Users[h] :
    \/ Flooded(h)
    \/ AwaitingSync(t) /\ hnd[t] = h ~> ~AwaitingSync(t) \/ Hung \/ sync[h] > Outstanding(h)

\* play(), loop() and stop() return, however full the pipe is, unless update()
\* hangs.
RequestReturns == \A t \in Threads : op[t] \in Requests ~> op[t] \notin Requests \/ Hung

\* process_cmd_pipe, which reads until the pipe is empty, always finds a command that
\* was written meanwhile, and never gets to the channels again (alsa_api.c:315).
KeptFromChannels == []<><<\E t \in Threads : PipeSend(t)>>_vars /\ <>[](ioPc # "update")

\* wait() on a sample that does not loop returns once it has been played, unless
\* update() hangs, other threads make requests on the handle without end, or the
\* I/O thread is kept from the channels by commands without end.
WaitReturns ==
  \/ KeptFromChannels
  \/ \A h \in Handles : \A t \in Users[h] :
       \/ Flooded(h)
       \/ AwaitingStop(t) /\ hnd[t] = h ~> ~AwaitingStop(t) \/ Hung \/ Looping(h)

\* Shutdown, which spins until the I/O thread is gone, completes, unless update()
\* hangs.
ShutdownCompletes == api = "joining" ~> api = "down" \/ Hung
=============================================================================
