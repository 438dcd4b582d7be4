---------------------------- MODULE RhAudioProofs ----------------------------
(***************************************************************************)
(* Theorems about RhAudio, for any number of handles, threads and channels *)
(* and any capacity of the pipe: first the types and what the I/O thread   *)
(* and shutdown know (the control invariant), then that the reference      *)
(* counters count exactly their holders, what the channels play and what   *)
(* the application is told of it, and, for an application with one thread  *)
(* per handle, that a closed instance is left alone and that the system is *)
(* a Player.                                                               *)
(***************************************************************************)
EXTENDS RhAudio, Counting

\* Next with the actions of ThreadStep, CommandStep and UpdateStep spelled out.
LEMMA NextCases ==
  ASSUME Next
  PROVE  \/ Setup \/ ShutdownSend \/ ShutdownFree
         \/ \E t \in Threads, h \in Handles :
              Create(t, h) \/ Open(t, h) \/ Close(t, h) \/ \E o \in Calls : Call(t, h, o)
         \/ \E t \in Threads :
              \/ AddRef(t) \/ NoSample(t) \/ PipeSend(t) \/ SyncInc(t) \/ AwaitSync(t)
              \/ AwaitStop(t) \/ SpuriousWakeup(t)
         \/ Recv \/ PipeEmpty \/ PlayBound \/ PlayFree \/ PlayGrow \/ PlayNoChannel
         \/ StopBound \/ StopUnbound \/ Unbind \/ ExecSync \/ Unref \/ ExecExit
         \/ UpdateNext \/ (\E h \in Handles : UpdateEnd(h)) \/ UpdateFail \/ ErrorEvent
         \/ UpdateLoops \/ Spin \/ UpdateDone
BY DEF Next, AppStep, IoStep, ThreadStep, CommandStep, UpdateStep

-----------------------------------------------------------------------------
(* Type correctness.                                                       *)

TypeInv == TypeOK /\ CallInv

\* The channel a search loop finds is one that plays the sample it looks for.
LEMMA FirstBoundIsBound ==
  ASSUME NEW h, chans \in Seq(Channels), BoundTo(h) # {}
  PROVE  FirstBound(h) \in BoundTo(h)
<1>1. BoundTo(h) \subseteq Nat
  BY DEF BoundTo
<1>2. \E c \in BoundTo(h) : \A d \in BoundTo(h) : c <= d
  BY <1>1, LeastElement
<1> QED BY <1>2 DEF FirstBound

\* A sample has finitely many channels.
LEMMA BoundFinite ==
  ASSUME NEW h, chans \in Seq(Channels)
  PROVE  IsFiniteSet(BoundTo(h)) /\ Cardinality(BoundTo(h)) \in Nat
<1>1. BoundTo(h) \in SUBSET (1..Len(chans))
  BY DEF BoundTo
<1>2. IsFiniteSet(1..Len(chans))
  BY FS_Interval
<1> QED BY <1>1, <1>2, FS_Subset, FS_CardinalityType

\* Playing a channel keeps the types.
LEMMA StartTypes ==
  ASSUME TypeInv, NEW c \in DOMAIN chans, NEW h \in Handles, Start(c, h)
  PROVE  /\ chans' \in Seq(Channels) /\ playing' \in [Handles -> BOOLEAN] /\ pc' = pc
<1> USE DEF TypeInv, TypeOK
<1>1. chans' \in Seq(Channels)
  <2>1. \A m \in {"looping", "playing"} : [sample |-> h, status |-> m] \in Channels
    BY DEF Channels, Status
  <2> QED BY <2>1, ExceptSeq DEF Start
<1>2. playing' \in [Handles -> BOOLEAN] /\ pc' = pc
  BY DEF Start, Started
<1> QED BY <1>1, <1>2

\* So does stopping one, which may wake threads but starts none.
LEMMA StopTypes ==
  ASSUME TypeInv, NEW c \in DOMAIN chans, StopChannel(c)
  PROVE  /\ chans' \in Seq(Channels) /\ playing' \in [Handles -> BOOLEAN]
         /\ pc' = pc \/ \E h : Wake(h, "await_stop_blk", "await_stop")
<1> USE DEF TypeInv, TypeOK
<1>1. chans' \in Seq(Channels)
  <2>1. chans[c] \in Channels
    OBVIOUS
  <2>4. [chans[c] EXCEPT !.status = "stopped"] \in Channels
    BY <2>1 DEF Channels, Status
  <2>2. chans' = [chans EXCEPT ![c] = [chans[c] EXCEPT !.status = "stopped"]]
    BY DEF StopChannel
  <2>3. c \in 1..Len(chans)
    OBVIOUS
  <2> QED BY <2>4, <2>2, <2>3, ExceptSeq
<1>2. CASE Active(c)
  BY <1>1, <1>2 DEF StopChannel, Stopped
<1>3. CASE ~Active(c)
  BY <1>1, <1>3 DEF StopChannel
<1> QED BY <1>2, <1>3

\* Waking threads keeps what a thread knows.
LEMMA WakeTypes ==
  ASSUME TypeInv, NEW h, NEW from \in {"await_sync_blk", "await_stop_blk"},
         NEW to \in {"await_sync", "await_stop"}, Wake(h, from, to)
  PROVE  /\ DOMAIN pc' = Threads
         /\ \A t \in Threads : pc'[t] = pc[t] \/ (pc[t] = from /\ pc'[t] = to)
BY DEF TypeInv, TypeOK, Wake

\* A counter that goes down by one stays an integer.
LEMMA StepTypes ==
  ASSUME NEW S, NEW f \in [S -> Int], NEW x
  PROVE  [f EXCEPT ![x] = @ - 1] \in [S -> Int]
<1>1. CASE x \in S
  BY <1>1
<1>2. CASE x \notin S
  BY <1>2
<1> QED BY <1>1, <1>2

\* A thread that goes on inside its call keeps CallInv.
LEMMA GotoTypes ==
  ASSUME TypeInv, NEW t \in Threads, pc[t] # "idle", NEW label \in Labels \ {"idle", "cmd_ref"},
         label = "cmd_send" => pc[t] = "cmd_ref", Goto(t, label)
  PROVE  pc' \in [Threads -> Labels] /\ op' = op /\ hnd' = hnd /\ CallInv'
<1>1. pc' \in [Threads -> Labels] /\ op' = op /\ hnd' = hnd
  BY DEF TypeInv, TypeOK, Goto
<1>2. \A u \in Threads : pc'[u] = IF u = t THEN label ELSE pc[u]
  BY DEF TypeInv, TypeOK, Goto
<1> QED BY <1>1, <1>2 DEF TypeInv, CallInv

\* A thread that returns from its call keeps the types.
LEMMA ReturnTypes ==
  ASSUME TypeInv, NEW t \in Threads, Return(t)
  PROVE  /\ pc' \in [Threads -> Labels] /\ CallInv'
         /\ op' \in [Threads -> Requests \cup Queries \cup {"none"}]
         /\ hnd' \in [Threads -> Handles \cup {NULL}]
<1>1. /\ pc' \in [Threads -> Labels]
      /\ op' \in [Threads -> Requests \cup Queries \cup {"none"}]
      /\ hnd' \in [Threads -> Handles \cup {NULL}]
  BY DEF TypeInv, TypeOK, Return, Labels
<1>2. \A u \in Threads : pc'[u] = (IF u = t THEN "idle" ELSE pc[u])
                        /\ hnd'[u] = (IF u = t THEN NULL ELSE hnd[u])
                        /\ op'[u] = (IF u = t THEN "none" ELSE op[u])
  BY DEF TypeInv, TypeOK, Return
<1> QED BY <1>1, <1>2 DEF TypeInv, CallInv

\* So does a command that is written to a pipe with room for it.
LEMMA SendTypes ==
  ASSUME TypeOK, NEW cmd \in Commands, Len(pipe) < PipeCapacity, pipe' = Append(pipe, cmd)
  PROVE  pipe' \in Seq(Commands) /\ Len(pipe') <= PipeCapacity
<1>1. pipe \in Seq(Commands) /\ PipeCapacity \in Nat
  BY Assumptions DEF TypeOK
<1> QED BY <1>1, AppendProperties

\* Every step of the application keeps the types.
LEMMA AppTypes ==
  ASSUME TypeInv, AppStep
  PROVE  TypeInv'
<1> USE Assumptions DEF TypeInv, TypeOK, appVars, ioVars
<1>1. CASE Setup
  <2>1. [c \in 1..InitialChannels |-> FreeChannel] \in Seq(Channels)
    BY DEF FreeChannel, Channels, Status
  <2> QED BY <1>1, <2>1 DEF Setup, CallInv
<1>2. CASE ShutdownSend
  <2>1. [op |-> "exit", h |-> NULL] \in Commands
    BY DEF Commands
  <2> QED BY <1>2, <2>1, AppendProperties DEF ShutdownSend, CallInv
<1>3. CASE ShutdownFree
  <2>1. \A h \in Handles : Cardinality(BoundTo(h)) \in Int
    BY BoundFinite
  <2> QED BY <1>3, <2>1 DEF ShutdownFree, NoCmd, CallInv
<1>4. ASSUME NEW t \in Threads, NEW h \in Handles,
             Create(t, h) \/ Open(t, h) \/ Close(t, h)
      PROVE  TypeInv'
  <2>1. CASE Create(t, h)
    BY <2>1 DEF Create, CallInv
  <2>2. CASE Open(t, h)
    BY <2>2 DEF Open, CallInv
  <2>3. CASE Close(t, h)
    BY <2>3 DEF Close, CallInv
  <2> QED BY <1>4, <2>1, <2>2, <2>3
<1>5. ASSUME NEW t \in Threads, NEW h \in Handles, NEW o \in Calls, Call(t, h, o)
      PROVE  TypeInv'
  BY <1>5 DEF Call, Idle, CallInv, Labels, Requests, Queries
<1>6. ASSUME NEW t \in Threads, AddRef(t) \/ NoSample(t) \/ SyncInc(t)
      PROVE  TypeInv'
  <2>1. CASE AddRef(t)
    <3>1. Goto(t, IF pc[t] = "cmd_ref" THEN "cmd_send" ELSE "sync_send")
      BY <2>1 DEF AddRef
    <3>2. pc[t] # "idle"
      BY <2>1 DEF AddRef
    <3>3. pc' \in [Threads -> Labels] /\ op' = op /\ hnd' = hnd /\ CallInv'
      BY <2>1, <3>1, <3>2, GotoTypes DEF AddRef, Labels
    <3>4. hnd[t] \in Handles
      BY <3>2 DEF CallInv
    <3>5. ref' \in [Handles -> Int]
      BY <2>1, <3>4 DEF AddRef
    <3> QED BY <2>1, <3>3, <3>5 DEF AddRef
  <2>2. CASE NoSample(t)
    BY <2>2, GotoTypes, ReturnTypes DEF NoSample, Labels
  <2>3. CASE SyncInc(t)
    <3>1. pc' \in [Threads -> Labels] /\ op' = op /\ hnd' = hnd /\ CallInv'
      BY <2>3, GotoTypes DEF SyncInc, Labels
    <3>2. hnd[t] \in Handles
      BY <2>3 DEF SyncInc, CallInv
    <3>3. sync' \in [Handles -> Int]
      BY <2>3, <3>2 DEF SyncInc
    <3> QED BY <2>3, <3>1, <3>3 DEF SyncInc
  <2> QED BY <1>6, <2>1, <2>2, <2>3
<1>7. ASSUME NEW t \in Threads, PipeSend(t)
      PROVE  TypeInv'
  <2>1. CASE pc[t] = "cmd_send"
    <3>1. [op |-> op[t], h |-> hnd[t]] \in Commands
      BY <2>1 DEF Commands, CallInv, Labels
    <3>2. pipe' \in Seq(Commands) /\ Len(pipe') <= PipeCapacity
      BY <1>7, <2>1, <3>1, SendTypes DEF PipeSend
    <3> QED BY <1>7, <2>1, <3>2, GotoTypes DEF PipeSend, Labels
  <2>2. CASE pc[t] = "sync_send"
    <3>1. [op |-> "sync", h |-> hnd[t]] \in Commands
      BY <2>2 DEF Commands, CallInv
    <3>2. pipe' \in Seq(Commands) /\ Len(pipe') <= PipeCapacity
      BY <1>7, <2>2, <3>1, SendTypes DEF PipeSend
    <3> QED BY <1>7, <2>2, <3>2, ReturnTypes DEF PipeSend
  <2> QED BY <1>7, <2>1, <2>2 DEF PipeSend
<1>8. ASSUME NEW t \in Threads, AwaitSync(t) \/ AwaitStop(t) \/ SpuriousWakeup(t)
      PROVE  TypeInv'
  <2>0. ASSUME UNCHANGED <<api, ioVars, inst, ref, playing, sync, pipe, chans>>,
               settled' \in [Handles -> BOOLEAN], pc[t] # "idle",
               \/ Return(t)
               \/ \E l \in {"await_sync", "await_sync_blk", "await_stop", "await_stop_blk"} :
                    Goto(t, l)
        PROVE  TypeInv'
    <3>1. /\ pc' \in [Threads -> Labels] /\ CallInv'
          /\ op' \in [Threads -> Requests \cup Queries \cup {"none"}]
          /\ hnd' \in [Threads -> Handles \cup {NULL}]
      BY <2>0, GotoTypes, ReturnTypes DEF Labels
    <3> QED BY <2>0, <3>1
  <2>1. CASE AwaitSync(t)
    BY <2>0, <2>1 DEF AwaitSync
  <2>2. CASE AwaitStop(t)
    <3>1. settled' \in [Handles -> BOOLEAN]
      BY <2>2 DEF AwaitStop
    <3> QED BY <2>0, <2>2, <3>1 DEF AwaitStop
  <2>3. CASE SpuriousWakeup(t)
    BY <2>0, <2>3 DEF SpuriousWakeup
  <2> QED BY <1>8, <2>1, <2>2, <2>3
<1> QED BY <1>1, <1>2, <1>3, <1>4, <1>5, <1>6, <1>7, <1>8 DEF AppStep, ThreadStep

\* So does every step of the I/O thread.
LEMMA IoTypes ==
  ASSUME TypeInv, IoStep
  PROVE  TypeInv'
<1> USE Assumptions DEF appVars, ioVars, Requests, Queries
<1>0. ASSUME UNCHANGED <<api, inst, settled, op, hnd>>, ref' \in [Handles -> Int],
             sync' \in [Handles -> Int], playing' \in [Handles -> BOOLEAN],
             pc' \in [Threads -> Labels] /\ \A t \in Threads :
               pc'[t] = pc[t] \/ (pc[t] = "await_stop_blk" /\ pc'[t] = "await_stop")
                              \/ (pc[t] = "await_sync_blk" /\ pc'[t] = "await_sync"),
             thread' \in BOOLEAN, pipe' \in Seq(Commands), Len(pipe') <= PipeCapacity,
             chans' \in Seq(Channels),
             ioPc' \in {"none", "pipe", "exec", "unbind", "unref", "unref_err", "update", "error",
                       "fail", "spin"},
             ioCmd' \in Commands \cup {NoCmd}, ioIdx' \in Nat \ {0}
      PROVE  TypeInv'
  <2>1. TypeOK'
    BY <1>0 DEF TypeInv, TypeOK, Labels
  <2>2. CallInv'
    BY <1>0 DEF TypeInv, TypeOK, CallInv
  <2> QED BY <2>1, <2>2 DEF TypeInv
<1> USE DEF TypeInv, TypeOK
<1>1. ASSUME Recv \/ PipeEmpty PROVE TypeInv'
  <2>1. CASE Recv
    <3>1. Head(pipe) \in Commands /\ Tail(pipe) \in Seq(Commands) /\ Len(Tail(pipe)) <= Len(pipe)
      BY <2>1, HeadTailProperties DEF Recv
    <3> QED BY <1>0, <2>1, <3>1 DEF Recv, Labels
  <2>2. CASE PipeEmpty
    BY <1>0, <2>2 DEF PipeEmpty, Labels
  <2> QED BY <1>1, <2>1, <2>2
<1>2. ASSUME PlayBound \/ PlayFree PROVE TypeInv'
  <2>1. ioCmd.h \in Handles
    BY <1>2 DEF PlayBound, PlayFree, Exec, Commands, NoCmd
  <2>2. CASE PlayBound
    <3>1. FirstBound(ioCmd.h) \in DOMAIN chans
      BY <2>2, FirstBoundIsBound DEF PlayBound, BoundTo
    <3>2. chans' \in Seq(Channels) /\ playing' \in [Handles -> BOOLEAN] /\ pc' = pc
      BY <2>1, <2>2, <3>1, StartTypes DEF PlayBound
    <3> QED BY <1>0, <2>2, <3>2 DEF PlayBound, Labels
  <2>3. CASE PlayFree
    <3>1. FirstBound(NULL) \in DOMAIN chans
      BY <2>3, FirstBoundIsBound DEF PlayFree, BoundTo
    <3>2. chans' \in Seq(Channels) /\ playing' \in [Handles -> BOOLEAN] /\ pc' = pc
      BY <2>1, <2>3, <3>1, StartTypes DEF PlayFree
    <3>3. ref' \in [Handles -> Int]
      BY <2>1, <2>3 DEF PlayFree
    <3> QED BY <1>0, <2>3, <3>2, <3>3 DEF PlayFree, Labels
  <2> QED BY <1>2, <2>2, <2>3
<1>3. CASE PlayGrow
  <2>1. FreeChannel \in Channels
    BY DEF FreeChannel, Channels, Status
  <2>2. Append(chans, FreeChannel) \in Seq(Channels)
    BY <2>1, AppendProperties
  <2> QED BY <1>0, <1>3, <2>2 DEF PlayGrow, Labels
<1>4. CASE PlayNoChannel
  BY <1>0, <1>4 DEF PlayNoChannel, Labels
<1>5. ASSUME NEW c \in DOMAIN chans, StopChannel(c),
             UNCHANGED <<api, thread, inst, settled, op, hnd, ref, sync, pipe, ioCmd>>,
             ioPc' \in {"unbind", "update", "error"}, ioIdx' \in Nat \ {0}
      PROVE  TypeInv'
  <2>1. chans' \in Seq(Channels) /\ playing' \in [Handles -> BOOLEAN]
    BY <1>5, StopTypes
  <2>2. pc' \in [Threads -> Labels] /\ \A t \in Threads :
          pc'[t] = pc[t] \/ (pc[t] = "await_stop_blk" /\ pc'[t] = "await_stop")
    <3>1. CASE Active(c)
      BY <1>5, <3>1 DEF StopChannel, Stopped, Wake, Labels
    <3>2. CASE ~Active(c)
      BY <1>5, <3>2 DEF StopChannel
    <3> QED BY <3>1, <3>2
  <2> QED BY <1>0, <1>5, <2>1, <2>2
<1>6. CASE StopBound
  <2>1. FirstBound(ioCmd.h) \in DOMAIN chans
    BY <1>6, FirstBoundIsBound DEF StopBound, BoundTo
  <2> QED BY <1>5, <1>6, <2>1 DEF StopBound
<1>7. CASE StopUnbound
  BY <1>0, <1>7 DEF StopUnbound, Labels
<1>8. CASE Unbind
  <2>1. chans' \in Seq(Channels)
    <3>1. CASE ioIdx \in DOMAIN chans
      <4>0. chans[ioIdx] \in Channels
        BY <3>1
      <4>1. [chans[ioIdx] EXCEPT !.sample = NULL] \in Channels
        BY <4>0 DEF Channels
      <4>2. chans' = [chans EXCEPT ![ioIdx] = [chans[ioIdx] EXCEPT !.sample = NULL]]
        BY <1>8 DEF Unbind
      <4>3. ioIdx \in 1..Len(chans)
        BY <3>1
      <4> QED BY <4>1, <4>2, <4>3, ExceptSeq
    <3>2. CASE ioIdx \notin DOMAIN chans
      <4>1. chans \in [1..Len(chans) -> Channels] /\ DOMAIN chans = 1..Len(chans)
        OBVIOUS
      <4>2. chans' = chans
        BY <1>8, <3>2, <4>1 DEF Unbind
      <4> QED BY <4>2
    <3> QED BY <3>1, <3>2
  <2>2. ref' \in [Handles -> Int]
    BY <1>8, StepTypes DEF Unbind
  <2>3. ioPc' \in {"unref", "update", "spin"} /\ ioIdx' \in Nat \ {0}
    BY <1>8 DEF Unbind
  <2>4. UNCHANGED <<api, thread, appVars, playing, sync, pipe, ioCmd>>
    BY <1>8 DEF Unbind
  <2> QED BY <1>0, <2>1, <2>2, <2>3, <2>4
<1>9. CASE ExecSync
  <2>1. sync' \in [Handles -> Int]
    BY <1>9, StepTypes DEF ExecSync, RecvSync
  <2>2. pc' \in [Threads -> Labels] /\ \A t \in Threads :
          pc'[t] = pc[t] \/ (pc[t] = "await_sync_blk" /\ pc'[t] = "await_sync")
    <3>1. CASE sync[ioCmd.h] = 1
      BY <1>9, <3>1 DEF ExecSync, RecvSync, Wake, Labels
    <3>2. CASE sync[ioCmd.h] # 1
      BY <1>9, <3>2 DEF ExecSync, RecvSync
    <3> QED BY <3>1, <3>2
  <2> QED BY <1>0, <1>9, <2>1, <2>2 DEF ExecSync
<1>10. CASE Unref
  <2>1. ref' \in [Handles -> Int]
    BY <1>10, StepTypes DEF Unref
  <2> QED BY <1>0, <1>10, <2>1 DEF Unref, Labels
<1>11. CASE ExecExit
  BY <1>0, <1>11 DEF ExecExit, Labels
<1>12. CASE UpdateNext \/ ErrorEvent \/ UpdateLoops
  BY <1>0, <1>12 DEF UpdateNext, ErrorEvent, UpdateLoops, Labels
<1>13. CASE \E h \in Handles : UpdateEnd(h)
  BY <1>5, <1>13 DEF UpdateEnd, AtChannel
<1>14. CASE UpdateFail
  BY <1>5, <1>14 DEF UpdateFail, AtChannel
<1>15. CASE UpdateDone \/ Spin
  BY <1>0, <1>15 DEF UpdateDone, Spin, vars, Labels
<1> QED
  BY <1>1, <1>2, <1>3, <1>4, <1>6, <1>7, <1>8, <1>9, <1>10, <1>11, <1>12, <1>13, <1>14, <1>15
  DEF IoStep, CommandStep, UpdateStep

\* The types hold of the initial states.
LEMMA InitTypes ==
  ASSUME Init
  PROVE  TypeInv
<1>1. /\ inst \in [Handles -> {"none", "created", "open", "closed"}]
      /\ settled \in [Handles -> BOOLEAN] /\ playing \in [Handles -> BOOLEAN]
      /\ ref \in [Handles -> Int] /\ sync \in [Handles -> Int]
  BY DEF Init
<1>2. /\ pc \in [Threads -> Labels] /\ op \in [Threads -> Requests \cup Queries \cup {"none"}]
      /\ hnd \in [Threads -> Handles \cup {NULL}] /\ CallInv
  BY DEF Init, Labels, CallInv
<1>3. pipe \in Seq(Commands) /\ Len(pipe) <= PipeCapacity /\ chans \in Seq(Channels)
  BY Assumptions DEF Init
<1>4. thread \in BOOLEAN
  BY Zenon DEF Init
<1>5. /\ api \in {"down", "up", "joining"}
      /\ ioPc \in {"none", "pipe", "exec", "unbind", "unref", "unref_err", "update", "error",
                  "fail", "spin"}
      /\ ioCmd \in Commands \cup {NoCmd} /\ ioIdx \in Nat \ {0}
  BY DEF Init
<1> QED BY <1>1, <1>2, <1>3, <1>4, <1>5 DEF TypeInv, TypeOK

\* Whatever the application's threads and the I/O thread do, every variable
\* keeps its type and pipe_send never puts more in the pipe than it holds.
THEOREM TypeCorrect == Spec => []TypeOK
<1>1. Init => TypeInv
  BY InitTypes
<1>2. TypeInv /\ [Next]_vars => TypeInv'
  <2>1. ASSUME TypeInv, UNCHANGED vars PROVE TypeInv'
    BY <2>1 DEF TypeInv, TypeOK, CallInv, vars
  <2> QED BY <2>1, AppTypes, IoTypes DEF Next
<1>3. TypeInv => TypeOK
  BY DEF TypeInv
<1> QED BY <1>1, <1>2, <1>3, PTL DEF Spec

-----------------------------------------------------------------------------
(* The reference counters: first the control invariant, then the counters. *)

ControlInv == TypeInv /\ IoInv /\ ShutdownInv /\ ChannelInv

\* A command of the application names a handle.
LEMMA CommandHandle ==
  ASSUME NEW cmd \in Commands \cup {NoCmd}, cmd.op \in Requests \cup {"sync"}
  PROVE  cmd \in Commands /\ cmd.h \in Handles
BY DEF Commands, NoCmd, Requests

\* Commands are sent only while the API is up.
LEMMA CallWhileUp ==
  ASSUME TypeInv, ShutdownInv, NEW t \in Threads, pc[t] # "idle"
  PROVE  api = "up"
BY DEF TypeInv, TypeOK, ShutdownInv

\* A step that leaves the I/O thread, the channels and shutdown alone, and at
\* most appends a request to the pipe of a live API, keeps the control invariant.
LEMMA ControlFrame ==
  ASSUME ControlInv, TypeInv', UNCHANGED <<api, thread, chans, ioPc, ioCmd, ioIdx>>,
         \/ pipe' = pipe
         \/ api = "up" /\ \E cmd \in Commands : cmd.op # "exit" /\ pipe' = Append(pipe, cmd),
         api = "up" \/ UNCHANGED <<pc, inst>>
  PROVE  ControlInv'
<1> USE DEF ControlInv
<1>1. IoInv' /\ ChannelInv'
  BY DEF IoInv, ChannelInv, Active
<1>2. ShutdownInv'
  <2>1. CASE pipe' = pipe
    BY <2>1 DEF ShutdownInv, TypeInv, TypeOK
  <2>2. ASSUME api = "up", NEW cmd \in Commands, cmd.op # "exit", pipe' = Append(pipe, cmd)
        PROVE  ShutdownInv'
    <3>1. \A i \in DOMAIN pipe : pipe[i].op # "exit"
      BY <2>2 DEF ShutdownInv
    <3>2. \A i \in DOMAIN pipe' : pipe'[i].op # "exit"
      BY <2>2, <3>1 DEF TypeInv, TypeOK
    <3> QED BY <2>2, <3>2 DEF ShutdownInv, TypeInv, TypeOK
  <2> QED BY <2>1, <2>2
<1> QED BY <1>1, <1>2

\* The application's steps keep the control invariant.
LEMMA AppControl ==
  ASSUME ControlInv, AppStep
  PROVE  ControlInv'
<1> USE DEF ControlInv, appVars, ioVars
<1>0. TypeInv'
  BY AppTypes
<1>1. CASE Setup
  <2>1. thread = FALSE /\ pipe = <<>>
    BY <1>1 DEF Setup, ShutdownInv, TypeInv, TypeOK
  <2>2. ioCmd = NoCmd
    BY <1>1, <2>1 DEF ShutdownInv, IoInv
  <2>3. IoInv'
    BY <1>1, <2>2 DEF Setup, IoInv
  <2>4. ChannelInv'
    BY <1>1 DEF Setup, ChannelInv, Active, FreeChannel
  <2>5. ShutdownInv'
    BY <1>1, <2>1, <2>2 DEF Setup, ShutdownInv, NoCmd
  <2> QED BY <1>0, <2>3, <2>4, <2>5
<1>2. CASE ShutdownSend
  <2>1. IoInv' /\ ChannelInv'
    BY <1>2 DEF ShutdownSend, IoInv, ChannelInv, Active
  <2>2. \A i \in DOMAIN pipe : pipe[i].op # "exit"
    BY <1>2 DEF ShutdownSend, ShutdownInv
  <2>3. \A i \in DOMAIN pipe' : pipe'[i].op = "exit" => i = Len(pipe')
    BY <1>2, <2>2 DEF ShutdownSend, TypeInv, TypeOK
  <2>4. ShutdownInv'
    BY <1>2, <2>3 DEF ShutdownSend, ShutdownInv, TypeInv, TypeOK, Idle
  <2> QED BY <1>0, <2>1, <2>4
<1>3. CASE ShutdownFree
  <2>1. IoInv' /\ ChannelInv'
    BY <1>3 DEF ShutdownFree, IoInv, ChannelInv, NoCmd
  <2>2. ShutdownInv'
    BY <1>3 DEF ShutdownFree, ShutdownInv, NoCmd
  <2> QED BY <1>0, <2>1, <2>2
<1>4. ASSUME NEW t \in Threads, NEW h \in Handles,
             \/ Create(t, h) \/ Open(t, h) \/ Close(t, h)
             \/ \E o \in Calls : Call(t, h, o)
      PROVE  ControlInv'
  BY <1>0, <1>4, ControlFrame DEF Create, Open, Close, Call
<1>5. ASSUME NEW t \in Threads, ThreadStep(t) \/ SpuriousWakeup(t)
      PROVE  ControlInv'
  <2>1. pc[t] # "idle"
    BY <1>5 DEF ThreadStep, AddRef, NoSample, PipeSend, SyncInc, AwaitSync, AwaitStop,
                SpuriousWakeup
  <2>2. api = "up"
    BY <2>1, CallWhileUp
  <2>3. CASE PipeSend(t)
    <3>1. hnd[t] \in Handles
      BY <2>1 DEF TypeInv, TypeOK, CallInv
    <3>2. CASE pc[t] = "cmd_send"
      <4>1. op[t] \in Requests
        BY <3>2 DEF TypeInv, CallInv
      <4>2. [op |-> op[t], h |-> hnd[t]] \in Commands /\ op[t] # "exit"
        BY <3>1, <4>1 DEF Commands, Requests
      <4> QED BY <1>0, <2>2, <2>3, <3>2, <4>2, ControlFrame DEF PipeSend
    <3>3. CASE pc[t] = "sync_send"
      <4>1. [op |-> "sync", h |-> hnd[t]] \in Commands
        BY <3>1 DEF Commands
      <4> QED BY <1>0, <2>2, <2>3, <3>3, <4>1, ControlFrame DEF PipeSend
    <3> QED BY <2>3, <3>2, <3>3 DEF PipeSend
  <2>4. CASE AddRef(t) \/ NoSample(t) \/ SyncInc(t)
    BY <1>0, <2>2, <2>4, ControlFrame DEF AddRef, NoSample, SyncInc
  <2>5. CASE AwaitSync(t) \/ AwaitStop(t) \/ SpuriousWakeup(t)
    BY <1>0, <2>2, <2>5, ControlFrame DEF AwaitSync, AwaitStop, SpuriousWakeup
  <2> QED BY <1>5, <2>3, <2>4, <2>5 DEF ThreadStep
<1> QED BY <1>1, <1>2, <1>3, <1>4, <1>5 DEF AppStep

\* While the I/O thread is somewhere, the API is not down and the thread is alive.
LEMMA IoAlive ==
  ASSUME ControlInv, ioPc # "none"
  PROVE  thread /\ api \in {"up", "joining"}
BY DEF ControlInv, ShutdownInv, TypeInv, TypeOK

\* A step of the I/O thread that reads nothing and goes on without exiting keeps
\* ShutdownInv.
LEMMA IoShutdown ==
  ASSUME ControlInv, ioPc # "none", ioPc' # "none", UNCHANGED <<api, thread, inst, pipe>>,
         ioCmd' = NoCmd \/ (ioCmd' = ioCmd /\ (ioCmd.op # "exit" \/ ioPc' = "exec")),
         \A t \in Threads : pc[t] = "idle" => pc'[t] = "idle"
  PROVE  ShutdownInv'
<1>1. thread /\ api \in {"up", "joining"}
  BY IoAlive
<1> QED BY <1>1 DEF ControlInv, ShutdownInv, NoCmd

\* Starting or stopping a channel leaves idle threads idle.
LEMMA ChannelPc ==
  ASSUME TypeInv, NEW c, NEW h, Start(c, h) \/ StopChannel(c)
  PROVE  \A t \in Threads : pc[t] = "idle" => pc'[t] = "idle"
<1>1. CASE Start(c, h)
  BY <1>1 DEF Start, Started
<1>2. CASE StopChannel(c)
  BY <1>2 DEF StopChannel, Stopped, Wake
<1> QED BY <1>1, <1>2

\* Playing a sample on a channel keeps the channels' invariant.
LEMMA StartChannels ==
  ASSUME TypeInv, ChannelInv, NEW c \in DOMAIN chans, NEW h \in Handles, Start(c, h),
         ioPc' = "unref"
  PROVE  ChannelInv'
<1>1. chans \in Seq(Channels)
  BY DEF TypeInv, TypeOK
<1>2. DOMAIN chans' = DOMAIN chans /\ chans'[c].sample = h
      /\ \A d \in DOMAIN chans : d # c => chans'[d] = chans[d]
  BY <1>1 DEF Start
<1> QED BY <1>2, Assumptions DEF ChannelInv, Active

\* So does stopping one that has a sample.
LEMMA StopChannels ==
  ASSUME TypeInv, ChannelInv, NEW c \in DOMAIN chans, chans[c].sample # NULL, StopChannel(c),
         ioPc' \in {"unbind", "error", "fail"} => ioIdx' = c
  PROVE  ChannelInv'
<1>1. chans \in Seq(Channels) /\ chans[c] \in Channels
  BY DEF TypeInv, TypeOK
<1>2. /\ DOMAIN chans' = DOMAIN chans
      /\ chans'[c].sample = chans[c].sample /\ chans'[c].status = "stopped"
      /\ \A d \in DOMAIN chans : d # c => chans'[d] = chans[d]
  BY <1>1 DEF StopChannel, Channels
<1> QED BY <1>2 DEF ChannelInv, Active

\* The I/O thread's steps keep the control invariant.
LEMMA IoControl ==
  ASSUME ControlInv, IoStep
  PROVE  ControlInv'
<1> USE DEF ControlInv, appVars, ioVars
<1>0. TypeInv'
  BY IoTypes
<1>1. CASE Recv
  <2>1. IoInv' /\ ChannelInv'
    BY <1>1, HeadTailProperties DEF Recv, IoInv, ChannelInv, Active, TypeInv, TypeOK
  <2>2. /\ Len(Tail(pipe)) = Len(pipe) - 1 /\ Head(pipe) = pipe[1]
        /\ \A i \in DOMAIN Tail(pipe) : i + 1 \in DOMAIN pipe /\ Tail(pipe)[i] = pipe[i + 1]
    BY <1>1 DEF Recv, TypeInv, TypeOK
  <2>3. \A i \in DOMAIN pipe' : pipe'[i].op = "exit" => i = Len(pipe') /\ api' = "joining"
    BY <1>1, <2>2 DEF Recv, ShutdownInv, TypeInv, TypeOK
  <2>4. Head(pipe).op = "exit" => api = "joining" /\ Tail(pipe) = <<>>
    <3>1. 1 \in DOMAIN pipe /\ Head(pipe) = pipe[1]
      BY <1>1, <2>2 DEF Recv, TypeInv, TypeOK
    <3>2. Head(pipe).op = "exit" => Len(pipe) = 1 /\ api = "joining"
      BY <3>1 DEF ShutdownInv
    <3>3. Tail(pipe) \in Seq(Commands)
      BY <1>1, HeadTailProperties DEF Recv, TypeInv, TypeOK
    <3>4. Len(Tail(pipe)) = 0 => Tail(pipe) = <<>>
      BY <3>3, EmptySeq
    <3>5. Head(pipe).op = "exit" => Len(Tail(pipe)) = 0
      BY <2>2, <3>2
    <3> QED BY <3>2, <3>4, <3>5
  <2>5. thread /\ api # "down"
    BY <1>1, IoAlive DEF Recv
  <2>6. ShutdownInv'
    BY <1>1, <2>3, <2>4, <2>5 DEF Recv, ShutdownInv
  <2> QED BY <1>0, <2>1, <2>6
<1>2. CASE PipeEmpty \/ UpdateNext \/ ErrorEvent \/ UpdateLoops \/ Spin \/ UpdateDone
  <2>1. IoInv' /\ ChannelInv'
    BY <1>2 DEF PipeEmpty, UpdateNext, ErrorEvent, UpdateLoops, Spin, vars, UpdateDone, AtChannel,
                IoInv, ChannelInv, Active
  <2>2. ShutdownInv'
    BY <1>2, IoShutdown DEF PipeEmpty, UpdateNext, ErrorEvent, UpdateLoops, Spin, vars, UpdateDone,
                            AtChannel, IoInv
  <2> QED BY <1>0, <2>1, <2>2
<1>3. CASE PlayBound \/ PlayFree
  <2>1. ioCmd.op \in Requests /\ ioPc = "exec" /\ ioPc' = "unref"
    BY <1>3 DEF PlayBound, PlayFree, Exec, Requests
  <2>2. ioCmd.h \in Handles
    BY <2>1, CommandHandle DEF TypeInv, TypeOK
  <2>3. PICK c \in DOMAIN chans : Start(c, ioCmd.h)
    BY <1>3, FirstBoundIsBound DEF PlayBound, PlayFree, BoundTo, TypeInv, TypeOK
  <2>4. ChannelInv'
    BY <2>1, <2>2, <2>3, StartChannels
  <2>5. IoInv'
    BY <1>3, <2>1, <2>2 DEF PlayBound, PlayFree, IoInv
  <2>6. ShutdownInv'
    BY <1>3, <2>1, <2>3, ChannelPc, IoShutdown DEF PlayBound, PlayFree, Requests
  <2> QED BY <1>0, <2>4, <2>5, <2>6
<1>4. CASE PlayGrow
  <2>1. IoInv'
    BY <1>4 DEF PlayGrow, IoInv
  <2>2. ShutdownInv'
    BY <1>4, IoShutdown DEF PlayGrow, Exec
  <2>3. ChannelInv'
    BY <1>4 DEF PlayGrow, Exec, ChannelInv, Active, FreeChannel, TypeInv, TypeOK
  <2> QED BY <1>0, <2>1, <2>2, <2>3
<1>5. CASE PlayNoChannel \/ StopUnbound
  <2>1. ioCmd.op \in Requests /\ ioPc = "exec" /\ ioPc' \in {"unref", "unref_err"}
    BY <1>5 DEF PlayNoChannel, StopUnbound, Exec, Requests
  <2>2. ioCmd.h \in Handles
    BY <2>1, CommandHandle DEF TypeInv, TypeOK
  <2>3. IoInv' /\ ChannelInv'
    BY <1>5, <2>1, <2>2 DEF PlayNoChannel, StopUnbound, IoInv, ChannelInv, Active
  <2>4. ShutdownInv'
    BY <1>5, <2>1, IoShutdown DEF PlayNoChannel, StopUnbound, Requests
  <2> QED BY <1>0, <2>3, <2>4
<1>6. CASE StopBound
  <2>1. ioCmd.op \in Requests /\ ioPc = "exec" /\ ioPc' = "unbind"
    BY <1>6 DEF StopBound, Exec, Requests
  <2>2. ioCmd.h \in Handles
    BY <2>1, CommandHandle DEF TypeInv, TypeOK
  <2>3. FirstBound(ioCmd.h) \in DOMAIN chans /\ chans[FirstBound(ioCmd.h)].sample = ioCmd.h
    BY <1>6, FirstBoundIsBound DEF StopBound, BoundTo, TypeInv, TypeOK
  <2>4. ChannelInv'
    BY <1>6, <2>2, <2>3, StopChannels, Assumptions DEF StopBound
  <2>5. IoInv'
    BY <1>6, <2>2 DEF StopBound, IoInv
  <2>6. ShutdownInv'
    BY <1>6, <2>1, ChannelPc, IoShutdown DEF StopBound, Requests
  <2> QED BY <1>0, <2>4, <2>5, <2>6
<1>7. CASE Unbind
  <2>1. ioIdx \in DOMAIN chans /\ ~Active(ioIdx)
    BY <1>7 DEF Unbind, ChannelInv
  <2>2. ioPc' \in {"unref", "update", "spin"}
    BY <1>7 DEF Unbind
  <2>3. IoInv'
    BY <1>7 DEF Unbind, IoInv
  <2>4. chans \in Seq(Channels) /\ chans[ioIdx] \in Channels
    BY <2>1 DEF TypeInv, TypeOK
  <2>5. /\ DOMAIN chans' = DOMAIN chans /\ chans'[ioIdx].status = chans[ioIdx].status
        /\ \A d \in DOMAIN chans : d # ioIdx => chans'[d] = chans[d]
    BY <1>7, <2>1, <2>4 DEF Unbind, Channels
  <2>6. ChannelInv'
    BY <2>1, <2>2, <2>5 DEF ChannelInv, Active
  <2>7. ShutdownInv'
    BY <1>7, <2>2, IoShutdown DEF Unbind, ShutdownInv
  <2> QED BY <1>0, <2>3, <2>6, <2>7
<1>8. CASE ExecSync
  <2>1. ioCmd.h \in Handles
    BY <1>8, CommandHandle DEF ExecSync, Exec, TypeInv, TypeOK
  <2>2. \A t \in Threads : pc[t] = "idle" => pc'[t] = "idle"
    BY <1>8 DEF ExecSync, RecvSync, Wake, TypeInv, TypeOK
  <2>3. IoInv' /\ ChannelInv'
    BY <1>8, <2>1 DEF ExecSync, IoInv, ChannelInv, Active
  <2>4. ShutdownInv'
    BY <1>8, <2>2, IoShutdown DEF ExecSync, Exec
  <2> QED BY <1>0, <2>3, <2>4
<1>9. CASE Unref
  <2>1. IoInv' /\ ChannelInv'
    BY <1>9 DEF Unref, IoInv, ChannelInv, Active
  <2>2. ShutdownInv'
    BY <1>9, IoShutdown DEF Unref
  <2> QED BY <1>0, <2>1, <2>2
<1>10. CASE ExecExit
  <2>1. IoInv' /\ ChannelInv'
    BY <1>10 DEF ExecExit, IoInv, ChannelInv, Active
  <2>2. api = "joining" /\ pipe = <<>>
    BY <1>10 DEF ExecExit, Exec, ShutdownInv
  <2>3. ShutdownInv'
    BY <1>10, <2>2 DEF ExecExit, ShutdownInv, NoCmd
  <2> QED BY <1>0, <2>1, <2>3
<1>11. CASE (\E h \in Handles : UpdateEnd(h)) \/ UpdateFail
  <2>1. /\ ioPc = "update" /\ ioIdx \in DOMAIN chans /\ Active(ioIdx) /\ StopChannel(ioIdx)
        /\ ioPc' \in {"update", "error"} /\ (ioPc' = "error" => ioIdx' = ioIdx)
    <3>1. ASSUME NEW h \in Handles, UpdateEnd(h) PROVE Active(ioIdx)
      BY <3>1 DEF UpdateEnd, Active
    <3> QED BY <1>11, <3>1 DEF UpdateEnd, UpdateFail, AtChannel
  <2>2. ChannelInv'
    BY <2>1, StopChannels DEF ChannelInv
  <2>3. IoInv'
    BY <1>11, <2>1 DEF UpdateEnd, UpdateFail, IoInv
  <2>4. ShutdownInv'
    BY <1>11, <2>1, ChannelPc, IoShutdown DEF UpdateEnd, UpdateFail, IoInv
  <2> QED BY <1>0, <2>2, <2>3, <2>4
<1> QED BY <1>1, <1>2, <1>3, <1>4, <1>5, <1>6, <1>7, <1>8, <1>9, <1>10, <1>11
        DEF IoStep, CommandStep, UpdateStep

\* The control invariant holds of every state.
LEMMA ControlCorrect == Spec => []ControlInv
<1>1. Init => ControlInv
  <2>1. ASSUME Init PROVE ControlInv
    <3>1. IoInv /\ ShutdownInv /\ ChannelInv
      BY <2>1 DEF Init, IoInv, ShutdownInv, ChannelInv, NoCmd
    <3> QED BY <2>1, <3>1, InitTypes DEF ControlInv
  <2> QED BY <2>1
<1>2. ControlInv /\ [Next]_vars => ControlInv'
  <2>1. ASSUME ControlInv, UNCHANGED vars PROVE ControlInv'
    BY <2>1 DEF ControlInv, TypeInv, TypeOK, CallInv, IoInv, ShutdownInv, ChannelInv, Active, vars
  <2> QED BY <2>1, AppControl, IoControl DEF Next
<1> QED BY <1>1, <1>2, PTL DEF Spec

-----------------------------------------------------------------------------
(* The counters.                                                           *)

Mine(h) == {cmd \in Commands : cmd.h = h}

\* What Holders counts is finite.
LEMMA HoldersFinite ==
  ASSUME TypeInv, NEW h
  PROVE  /\ IsFiniteSet(InCall(h)) /\ Cardinality(InCall(h)) \in Nat
         /\ Cardinality(InPipe(h)) \in Nat /\ InPipe(h) = At(pipe, Mine(h))
         /\ IsFiniteSet(BoundTo(h)) /\ Cardinality(BoundTo(h)) \in Nat
<1>1. IsFiniteSet(InCall(h)) /\ Cardinality(InCall(h)) \in Nat
  BY FS_Subset, FS_CardinalityType, Assumptions DEF InCall
<1>2. InPipe(h) = At(pipe, Mine(h))
  BY DEF InPipe, At, Mine, TypeInv, TypeOK
<1>3. Cardinality(At(pipe, Mine(h))) \in Nat
  BY AtFinite DEF TypeInv, TypeOK
<1> QED BY <1>1, <1>2, <1>3, BoundFinite DEF TypeInv, TypeOK

\* Writing a command to the pipe adds it to the commands of its handle.
LEMMA PipeGrows ==
  ASSUME TypeInv, TypeInv', NEW cmd \in Commands, pipe' = Append(pipe, cmd), NEW h
  PROVE  Cardinality(InPipe(h))' = Cardinality(InPipe(h)) + One(cmd.h = h)
<1>1. Cardinality(At(Append(pipe, cmd), Mine(h)))
        = Cardinality(At(pipe, Mine(h))) + (IF cmd \in Mine(h) THEN 1 ELSE 0)
  BY AtAppend DEF TypeInv, TypeOK
<1>2. InPipe(h) = At(pipe, Mine(h)) /\ InPipe(h)' = At(pipe, Mine(h))'
  BY HoldersFinite DEF InPipe, At, Mine, TypeInv, TypeOK
<1>3. At(pipe, Mine(h))' = At(Append(pipe, cmd), Mine(h))
  BY DEF At
<1> QED BY <1>1, <1>2, <1>3 DEF One, Mine

\* Reading one takes it away.
LEMMA PipeShrinks ==
  ASSUME TypeInv, TypeInv', pipe # <<>>, pipe' = Tail(pipe), NEW h
  PROVE  Cardinality(InPipe(h)) = Cardinality(InPipe(h))' + One(Head(pipe).h = h)
<1>1. Cardinality(At(pipe, Mine(h)))
        = Cardinality(At(Tail(pipe), Mine(h))) + (IF Head(pipe) \in Mine(h) THEN 1 ELSE 0)
  BY AtTail DEF TypeInv, TypeOK
<1>2. InPipe(h) = At(pipe, Mine(h)) /\ InPipe(h)' = At(pipe, Mine(h))'
  BY HoldersFinite DEF InPipe, At, Mine, TypeInv, TypeOK
<1>3. At(pipe, Mine(h))' = At(Tail(pipe), Mine(h))
  BY DEF At
<1>4. Head(pipe) \in Commands
  BY HeadTailProperties DEF TypeInv, TypeOK
<1> QED BY <1>1, <1>2, <1>3, <1>4 DEF One, Mine

\* A channel that changes its sample leaves the channels of the one and joins those
\* of the other.
LEMMA BoundMoves ==
  ASSUME TypeInv, NEW c \in DOMAIN chans, DOMAIN chans' = DOMAIN chans,
         \A d \in DOMAIN chans : d # c => chans'[d].sample = chans[d].sample, NEW h
  PROVE  Cardinality(BoundTo(h))' = Cardinality(BoundTo(h)) - One(chans[c].sample = h)
                                      + One(chans'[c].sample = h)
<1>0. IsFiniteSet(BoundTo(h)) /\ Cardinality(BoundTo(h)) \in Nat
  BY HoldersFinite
<1> DEFINE Rest == BoundTo(h) \ {c}
<1>1. IsFiniteSet(Rest) /\ Cardinality(Rest) = Cardinality(BoundTo(h)) - One(chans[c].sample = h)
  <2>1. Cardinality(Rest) = IF c \in BoundTo(h) THEN Cardinality(BoundTo(h)) - 1
                                                ELSE Cardinality(BoundTo(h))
    BY <1>0, FS_RemoveElement
  <2>2. c \in BoundTo(h) <=> chans[c].sample = h
    BY DEF BoundTo
  <2>3. IsFiniteSet(Rest)
    BY <1>0, FS_Subset
  <2> HIDE DEF Rest
  <2> QED BY <1>0, <2>1, <2>2, <2>3 DEF One
<1>2. BoundTo(h)' = IF chans'[c].sample = h THEN Rest \cup {c} ELSE Rest
  BY DEF BoundTo
<1>3. Cardinality(Rest \cup {c}) = Cardinality(Rest) + 1
  <2>1. c \notin Rest
    OBVIOUS
  <2> HIDE DEF Rest
  <2> QED BY <1>1, <2>1, FS_AddElement
<1>4. Cardinality(BoundTo(h)') = Cardinality(Rest) + One(chans'[c].sample = h)
  <2>1. Cardinality(Rest) \in Nat
    BY <1>1, FS_CardinalityType
  <2> HIDE DEF Rest
  <2> QED BY <1>2, <1>3, <2>1 DEF One
<1> QED BY <1>1, <1>4

\* A step in which the counter and the holders of each handle change by the same
\* number keeps the counters exact.
LEMMA RefBalance ==
  ASSUME RefExact, TypeInv, TypeInv',
         \A h \in Handles :
           ref'[h] - ref[h] = One(inst'[h] = "open") - One(inst[h] = "open")
              + Cardinality(InCall(h))' - Cardinality(InCall(h))
              + Cardinality(InPipe(h))' - Cardinality(InPipe(h))
              + One(ioCmd'.h = h) - One(ioCmd.h = h)
              + Cardinality(BoundTo(h))' - Cardinality(BoundTo(h))
  PROVE  RefExact'
<1>1. \A h \in Handles : /\ Cardinality(InCall(h)) \in Nat /\ Cardinality(InCall(h))' \in Nat
                         /\ Cardinality(InPipe(h)) \in Nat /\ Cardinality(InPipe(h))' \in Nat
                         /\ Cardinality(BoundTo(h)) \in Nat /\ Cardinality(BoundTo(h))' \in Nat
                         /\ ref[h] \in Int /\ ref'[h] \in Int
  <2>1. \A h \in Handles : /\ Cardinality(InCall(h)) \in Nat
                           /\ Cardinality(InPipe(h)) \in Nat
                           /\ Cardinality(BoundTo(h)) \in Nat
    BY HoldersFinite
  <2>2. \A h \in Handles : /\ Cardinality(InCall(h))' \in Nat
                           /\ Cardinality(InPipe(h))' \in Nat
                           /\ Cardinality(BoundTo(h))' \in Nat
    <3> SUFFICES ASSUME NEW h \in Handles
                 PROVE  /\ Cardinality(InCall(h))' \in Nat /\ Cardinality(InPipe(h))' \in Nat
                        /\ Cardinality(BoundTo(h))' \in Nat
      OBVIOUS
    <3>1. Cardinality(InCall(h)') \in Nat
      <4>1. InCall(h)' \in SUBSET Threads
        BY DEF InCall
      <4> QED BY <4>1, FS_Subset, FS_CardinalityType, Assumptions
    <3>2. Cardinality(InPipe(h)') \in Nat
      <4>1. InPipe(h)' = At(pipe', Mine(h)) /\ pipe' \in Seq(Commands)
        BY DEF InPipe, At, Mine, TypeInv, TypeOK
      <4> QED BY <4>1, AtFinite
    <3>3. Cardinality(BoundTo(h)') \in Nat
      <4>1. BoundTo(h)' \in SUBSET (1..Len(chans'))
        BY DEF BoundTo, TypeInv, TypeOK
      <4>2. IsFiniteSet(1..Len(chans'))
        BY FS_Interval DEF TypeInv, TypeOK
      <4> QED BY <4>1, <4>2, FS_Subset, FS_CardinalityType
    <3> QED BY <3>1, <3>2, <3>3
  <2> QED BY <2>1, <2>2 DEF TypeInv, TypeOK
<1>2. \A h \in Handles : Holders(h) = One(inst[h] = "open") + Cardinality(InCall(h))
         + Cardinality(InPipe(h)) + One(ioCmd.h = h) + Cardinality(BoundTo(h))
  BY DEF Holders
<1> QED BY <1>1, <1>2 DEF RefExact, Holders, One

\* A step that moves none of the holders and touches no counter.
LEMMA RefSame ==
  ASSUME RefExact, TypeInv, TypeInv', UNCHANGED <<ref, inst, hnd, pipe>>,
         \A t \in Threads : pc'[t] \in {"cmd_send", "sync_send"}
                              <=> pc[t] \in {"cmd_send", "sync_send"},
         \A h \in Handles : One(ioCmd'.h = h) = One(ioCmd.h = h) /\ BoundTo(h)' = BoundTo(h)
  PROVE  RefExact'
<1>1. \A h \in Handles : InCall(h)' = InCall(h) /\ InPipe(h)' = InPipe(h)
  BY DEF InCall, InPipe
<1>2. \A h \in Handles : Holders(h)' = Holders(h)
  BY <1>1 DEF Holders
<1> QED BY <1>2 DEF RefExact

\* Stopping a channel moves no sample and no thread that is about to send.
LEMMA StopHolders ==
  ASSUME TypeInv, NEW c \in DOMAIN chans, StopChannel(c)
  PROVE  /\ \A h \in Handles : BoundTo(h)' = BoundTo(h)
         /\ \A t \in Threads : pc'[t] \in {"cmd_send", "sync_send"}
                                 <=> pc[t] \in {"cmd_send", "sync_send"}
<1>1. \A h \in Handles : BoundTo(h)' = BoundTo(h)
  <2>1. chans \in Seq(Channels) /\ chans[c] \in Channels
    BY DEF TypeInv, TypeOK
  <2>2. /\ DOMAIN chans' = DOMAIN chans /\ chans'[c].sample = chans[c].sample
        /\ \A d \in DOMAIN chans : d # c => chans'[d] = chans[d]
    BY <2>1 DEF StopChannel, Channels
  <2> QED BY <2>2 DEF BoundTo
<1>2. \A t \in Threads : pc'[t] \in {"cmd_send", "sync_send"}
                           <=> pc[t] \in {"cmd_send", "sync_send"}
  BY DEF StopChannel, Stopped, Wake, TypeInv, TypeOK
<1> QED BY <1>1, <1>2

\* The application's steps keep the counters exact.
LEMMA AppRefs ==
  ASSUME ControlInv, ControlInv', RefExact, FreshInv, AppStep
  PROVE  RefExact'
<1> USE Assumptions DEF appVars, ioVars
<1>0. TypeInv /\ TypeInv' /\ IoInv /\ ShutdownInv
  BY DEF ControlInv
<1>1. CASE Setup
  <2>1. \A h \in Handles : BoundTo(h) = {} /\ BoundTo(h)' = {}
    <3>1. chans = <<>>
      BY <1>0, <1>1 DEF Setup, ShutdownInv
    <3> QED BY <1>1, <3>1 DEF Setup, BoundTo, FreeChannel
  <2> QED BY <1>0, <1>1, <2>1, RefSame DEF Setup
<1>2. CASE ShutdownSend
  <2>1. [op |-> "exit", h |-> NULL] \in Commands
    BY DEF Commands
  <2>2. \A h \in Handles : Cardinality(InPipe(h))' = Cardinality(InPipe(h)) + One(NULL = h)
    BY <1>0, <1>2, <2>1, PipeGrows DEF ShutdownSend
  <2>3. \A h \in Handles : InCall(h)' = InCall(h) /\ BoundTo(h)' = BoundTo(h)
    BY <1>2 DEF ShutdownSend, InCall, BoundTo
  <2>4. \A h \in Handles : Cardinality(InPipe(h))' = Cardinality(InPipe(h))
    BY <1>0, <2>2, HoldersFinite DEF One
  <2>5. \A h \in Handles : Holders(h)' = Holders(h)
    BY <1>2, <2>3, <2>4 DEF ShutdownSend, Holders
  <2> QED BY <1>2, <2>5 DEF ShutdownSend, RefExact
<1>3. CASE ShutdownFree
  <2>1. pipe = <<>> /\ ioCmd = NoCmd
    BY <1>0, <1>3 DEF ShutdownFree, ShutdownInv, IoInv
  <2>2. \A h \in Handles : InCall(h)' = InCall(h) /\ InPipe(h)' = InPipe(h)
    BY <1>3, <2>1 DEF ShutdownFree, InCall, InPipe
  <2>3. \A h \in Handles : Cardinality(BoundTo(h)') = 0
    <3>1. \A h \in Handles : BoundTo(h)' = {}
      BY <1>3 DEF ShutdownFree, BoundTo
    <3> QED BY <3>1, FS_EmptySet
  <2>4. \A h \in Handles : ref'[h] - ref[h] = Cardinality(BoundTo(h))' - Cardinality(BoundTo(h))
    BY <1>0, <1>3, <2>3, HoldersFinite DEF ShutdownFree, TypeInv, TypeOK
  <2>5. \A h \in Handles : Cardinality(InCall(h)) \in Nat /\ Cardinality(InPipe(h)) \in Nat
                           /\ Cardinality(BoundTo(h)) \in Nat
    BY <1>0, HoldersFinite
  <2> QED BY <1>0, <1>3, <2>1, <2>2, <2>3, <2>4, <2>5, RefBalance DEF ShutdownFree, One
<1>4. ASSUME NEW t \in Threads, NEW h \in Handles, Create(t, h) \/ Open(t, h) \/ Close(t, h)
      PROVE  RefExact'
  <2>1. \A k \in Handles : InCall(k)' = InCall(k) /\ InPipe(k)' = InPipe(k)
                           /\ BoundTo(k)' = BoundTo(k) /\ ioCmd'.h = ioCmd.h
    BY <1>4 DEF Create, Open, Close, InCall, InPipe, BoundTo
  <2>2. \A k \in Handles : Cardinality(InCall(k)) \in Nat /\ Cardinality(InPipe(k)) \in Nat
                           /\ Cardinality(BoundTo(k)) \in Nat
    BY <1>0, HoldersFinite
  <2>3. inst \in [Handles -> {"none", "created", "open", "closed"}] /\ ref \in [Handles -> Int]
    BY <1>0 DEF TypeInv, TypeOK
  <2>4. CASE Create(t, h)
    <3>1. \A k \in Handles : ref'[k] = ref[k] /\ One(inst'[k] = "open") = One(inst[k] = "open")
      BY <2>3, <2>4 DEF Create, One
    <3> QED BY <1>0, <2>1, <2>2, <2>3, <3>1, RefBalance DEF One
  <2>5. CASE Open(t, h)
    <3>0. ref[h] = 0
      BY <2>5 DEF Open, FreshInv
    <3>1. \A k \in Handles : ref'[k] - ref[k] = One(inst'[k] = "open") - One(inst[k] = "open")
      BY <2>3, <2>5, <3>0 DEF Open, One
    <3> QED BY <1>0, <2>1, <2>2, <2>3, <3>1, RefBalance DEF One
  <2>6. CASE Close(t, h)
    <3>1. \A k \in Handles : ref'[k] - ref[k] = One(inst'[k] = "open") - One(inst[k] = "open")
      BY <2>3, <2>6 DEF Close, One
    <3> QED BY <1>0, <2>1, <2>2, <2>3, <3>1, RefBalance DEF One
  <2> QED BY <1>4, <2>4, <2>5, <2>6
<1>5. ASSUME NEW t \in Threads, NEW h \in Handles, NEW o \in Calls, Call(t, h, o)
      PROVE  RefExact'
  <2>1. \A k \in Handles : InCall(k)' = InCall(k)
    BY <1>0, <1>5 DEF Call, Idle, InCall, TypeInv, TypeOK
  <2>2. \A k \in Handles : Holders(k)' = Holders(k)
    BY <1>5, <2>1 DEF Call, Holders, InPipe, BoundTo
  <2> QED BY <1>5, <2>2 DEF Call, RefExact
<1>6. ASSUME NEW t \in Threads, AddRef(t)
      PROVE  RefExact'
  <2>1. hnd[t] \in Handles /\ t \notin InCall(hnd[t])
    BY <1>0, <1>6 DEF AddRef, InCall, TypeInv, TypeOK, CallInv
  <2>2. \A k \in Handles : InCall(k)' = IF k = hnd[t] THEN InCall(k) \cup {t} ELSE InCall(k)
    BY <1>0, <1>6 DEF AddRef, Goto, InCall, TypeInv, TypeOK
  <2>3. \A k \in Handles : /\ IsFiniteSet(InCall(k)) /\ Cardinality(InCall(k)) \in Nat
                           /\ Cardinality(InPipe(k)) \in Nat /\ Cardinality(BoundTo(k)) \in Nat
    BY <1>0, HoldersFinite
  <2>4. Cardinality(InCall(hnd[t]) \cup {t}) = Cardinality(InCall(hnd[t])) + 1
    BY <2>1, <2>3, FS_AddElement
  <2>5. \A k \in Handles : Cardinality(InCall(k)') = Cardinality(InCall(k)) + One(k = hnd[t])
    BY <2>2, <2>3, <2>4 DEF One
  <2>6. \A k \in Handles : ref'[k] = ref[k] + One(k = hnd[t]) /\ ref[k] \in Int
    BY <1>0, <1>6, <2>1 DEF AddRef, One, TypeInv, TypeOK
  <2>7. \A k \in Handles : InPipe(k)' = InPipe(k) /\ BoundTo(k)' = BoundTo(k)
                           /\ ioCmd' = ioCmd /\ inst' = inst
    BY <1>6 DEF AddRef, InPipe, BoundTo
  <2> QED BY <1>0, <2>3, <2>5, <2>6, <2>7, RefBalance DEF One
<1>7. ASSUME NEW t \in Threads, NEW cmd \in Commands, pc[t] \in {"cmd_send", "sync_send"},
             cmd.h = hnd[t], pipe' = Append(pipe, cmd), Return(t) \/ Goto(t, "sync_inc"),
             UNCHANGED <<inst, ref, chans, ioCmd>>
      PROVE  RefExact'
  <2>1. hnd[t] \in Handles /\ t \in InCall(hnd[t])
    BY <1>0, <1>7 DEF InCall, TypeInv, TypeOK, CallInv
  <2>2. \A k \in Handles : InCall(k)' = IF k = hnd[t] THEN InCall(k) \ {t} ELSE InCall(k)
    BY <1>0, <1>7 DEF Goto, Return, InCall, TypeInv, TypeOK
  <2>3. \A k \in Handles : /\ IsFiniteSet(InCall(k)) /\ Cardinality(InCall(k)) \in Nat
                           /\ Cardinality(InPipe(k)) \in Nat /\ Cardinality(BoundTo(k)) \in Nat
    BY <1>0, HoldersFinite
  <2>4. Cardinality(InCall(hnd[t]) \ {t}) = Cardinality(InCall(hnd[t])) - 1
    <3>1. IsFiniteSet(InCall(hnd[t]))
      BY <2>1, <2>3
    <3> QED BY <2>1, <3>1, FS_RemoveElement
  <2>5. \A k \in Handles : Cardinality(InCall(k)') = Cardinality(InCall(k)) - One(k = hnd[t])
    <3>1. \A k \in Handles : k = hnd[t] => InCall(k)' = InCall(hnd[t]) \ {t}
      BY <2>2
    <3>2. \A k \in Handles : k # hnd[t] => InCall(k)' = InCall(k)
      BY <2>2
    <3>3. ASSUME NEW k \in Handles, k = hnd[t]
          PROVE  Cardinality(InCall(k)') = Cardinality(InCall(k)) - 1
      BY <2>4, <3>1, <3>3
    <3>4. ASSUME NEW k \in Handles, k # hnd[t]
          PROVE  Cardinality(InCall(k)') = Cardinality(InCall(k))
      BY <3>2, <3>4
    <3> QED BY <2>3, <3>3, <3>4 DEF One
  <2>6. \A k \in Handles : Cardinality(InPipe(k))' = Cardinality(InPipe(k)) + One(hnd[t] = k)
    BY <1>0, <1>7, PipeGrows
  <2>7. \A k \in Handles : BoundTo(k)' = BoundTo(k) /\ ref[k] \in Int
    BY <1>0, <1>7 DEF BoundTo, TypeInv, TypeOK
  <2> QED BY <1>0, <1>7, <2>3, <2>5, <2>6, <2>7, RefBalance DEF One
<1>8. ASSUME NEW t \in Threads, PipeSend(t)
      PROVE  RefExact'
  <2>1. hnd[t] \in Handles
    BY <1>0, <1>8 DEF PipeSend, TypeInv, TypeOK, CallInv
  <2>2. CASE pc[t] = "cmd_send"
    <3>1. [op |-> op[t], h |-> hnd[t]] \in Commands
      BY <1>0, <2>1, <2>2 DEF Commands, TypeInv, CallInv
    <3> QED BY <1>7, <1>8, <2>2, <3>1 DEF PipeSend
  <2>3. CASE pc[t] = "sync_send"
    <3>1. [op |-> "sync", h |-> hnd[t]] \in Commands
      BY <2>1 DEF Commands
    <3> QED BY <1>7, <1>8, <2>3, <3>1 DEF PipeSend
  <2> QED BY <1>8, <2>2, <2>3 DEF PipeSend
<1>9. ASSUME NEW t \in Threads, Goto(t, "sync_inc") \/ Goto(t, "sync_ref") \/ Return(t)
               \/ \E l \in {"await_sync", "await_sync_blk", "await_stop", "await_stop_blk"} :
                    Goto(t, l),
             pc[t] \notin {"cmd_send", "sync_send"},
             UNCHANGED <<inst, ref, pipe, chans, ioCmd>>
      PROVE  RefExact'
  <2>1. \A k \in Handles : InCall(k)' = InCall(k)
    BY <1>0, <1>9 DEF Goto, Return, InCall, TypeInv, TypeOK
  <2>2. \A k \in Handles : Holders(k)' = Holders(k)
    BY <1>9, <2>1 DEF Holders, InPipe, BoundTo
  <2> QED BY <1>9, <2>2 DEF RefExact
<1>10. ASSUME NEW t \in Threads, NoSample(t) \/ SyncInc(t)
       PROVE  RefExact'
  BY <1>9, <1>10 DEF NoSample, SyncInc
<1>11. ASSUME NEW t \in Threads, AwaitSync(t) \/ AwaitStop(t) \/ SpuriousWakeup(t)
       PROVE  RefExact'
  BY <1>9, <1>11 DEF AwaitSync, AwaitStop, SpuriousWakeup
<1> QED BY <1>1, <1>2, <1>3, <1>4, <1>5, <1>6, <1>8, <1>10, <1>11 DEF AppStep, ThreadStep

\* The I/O thread's steps keep the counters exact.
LEMMA IoRefs ==
  ASSUME ControlInv, ControlInv', RefExact, IoStep
  PROVE  RefExact'
<1> USE Assumptions DEF appVars, ioVars
<1>0. TypeInv /\ TypeInv' /\ IoInv /\ ChannelInv
  BY DEF ControlInv
<1>a. /\ \A h \in Handles : /\ Cardinality(InCall(h)) \in Nat /\ Cardinality(InPipe(h)) \in Nat
                            /\ Cardinality(BoundTo(h)) \in Nat /\ ref[h] \in Int
      /\ \A h \in Handles : h # NULL
  BY <1>0, HoldersFinite DEF TypeInv, TypeOK
<1>b. ASSUME UNCHANGED <<hnd, pc>> PROVE \A h \in Handles : InCall(h)' = InCall(h)
  BY <1>b DEF InCall
<1>c. ASSUME UNCHANGED chans PROVE \A h \in Handles : BoundTo(h)' = BoundTo(h)
  BY <1>c DEF BoundTo
<1>d. ASSUME UNCHANGED pipe PROVE \A h \in Handles : InPipe(h)' = InPipe(h)
  BY <1>d DEF InPipe
<1>1. CASE Recv
  <2>1. \A h \in Handles :
          Cardinality(InPipe(h)) = Cardinality(InPipe(h))' + One(Head(pipe).h = h)
    BY <1>0, <1>1, PipeShrinks DEF Recv
  <2>2. (\A h \in Handles : ioCmd.h # h) /\ ioCmd' = Head(pipe)
    BY <1>0, <1>1 DEF Recv, IoInv, NoCmd
  <2>3. \A h \in Handles : Cardinality(InPipe(h)') \in Int
    <3>2. pipe' \in Seq(Commands)
      BY <1>0 DEF TypeInv, TypeOK
    <3>3. \A h \in Handles : InPipe(h)' = At(pipe', Mine(h))
      BY <3>2 DEF InPipe, At, Mine
    <3> QED BY <3>2, <3>3, AtFinite
  <2>4. UNCHANGED <<ref, inst, hnd, pc, chans>>
    BY <1>1 DEF Recv
  <2>5. ASSUME NEW h \in Handles PROVE Holders(h)' = Holders(h)
    <3> DEFINE calls == Cardinality(InCall(h))    bound == Cardinality(BoundTo(h))
               before == Cardinality(InPipe(h))   after == Cardinality(InPipe(h)')
               open == One(inst[h] = "open")
    <3>1. Holders(h) = open + calls + before + 0 + bound
      BY <2>2 DEF Holders, One
    <3>2. Holders(h)' = open + calls + after + One(Head(pipe).h = h) + bound
      <4>1. InCall(h)' = InCall(h) /\ BoundTo(h)' = BoundTo(h)
        BY <1>b, <1>c, <2>4
      <4> QED BY <2>2, <2>4, <4>1 DEF Holders
    <3>3. before = after + One(Head(pipe).h = h)
      BY <2>1
    <3>4. calls \in Nat /\ bound \in Nat /\ before \in Nat /\ after \in Int /\ open \in Nat
      BY <1>a, <2>3 DEF One
    <3>5. One(Head(pipe).h = h) \in Nat
      BY DEF One
    <3> HIDE DEF calls, bound, before, after, open
    <3> QED BY <3>1, <3>2, <3>3, <3>4, <3>5
  <2> QED BY <2>4, <2>5 DEF RefExact
<1>2. CASE PipeEmpty \/ UpdateNext \/ ErrorEvent \/ UpdateLoops \/ Spin \/ UpdateDone
  BY <1>0, <1>2, <1>c, RefSame
  DEF PipeEmpty, UpdateNext, ErrorEvent, UpdateLoops, Spin, vars, UpdateDone
<1>12. CASE PlayNoChannel \/ StopUnbound
  BY <1>0, <1>12, <1>c, RefSame DEF PlayNoChannel, StopUnbound
<1>3. CASE PlayBound
  <2>1. FirstBound(ioCmd.h) \in BoundTo(ioCmd.h) /\ chans \in Seq(Channels)
    BY <1>0, <1>3, FirstBoundIsBound DEF PlayBound, TypeInv, TypeOK
  <2>2. \A h \in Handles : BoundTo(h)' = BoundTo(h)
    BY <1>3, <2>1 DEF PlayBound, Start, BoundTo
  <2> QED BY <1>0, <1>3, <2>2, RefSame DEF PlayBound, Start, Started
<1>4. CASE PlayFree
  <2>1. FirstBound(NULL) \in BoundTo(NULL) /\ chans \in Seq(Channels)
    BY <1>0, <1>4, FirstBoundIsBound DEF PlayFree, TypeInv, TypeOK
  <2>2. PICK c \in DOMAIN chans : Start(c, ioCmd.h) /\ chans[c].sample = NULL
    BY <1>4, <2>1 DEF PlayFree, BoundTo
  <2>3. /\ DOMAIN chans' = DOMAIN chans /\ chans'[c].sample = ioCmd.h
        /\ \A d \in DOMAIN chans : d # c => chans'[d].sample = chans[d].sample
    BY <2>1, <2>2 DEF Start
  <2>4. \A h \in Handles : Cardinality(BoundTo(h))' = Cardinality(BoundTo(h)) - One(NULL = h)
                                                        + One(ioCmd.h = h)
    BY <1>0, <2>2, <2>3, BoundMoves
  <2>5. \A h \in Handles : Cardinality(BoundTo(h))' = Cardinality(BoundTo(h)) + One(ioCmd.h = h)
    BY <1>a, <2>4 DEF One
  <2>6. \A h \in Handles : ref'[h] = ref[h] + One(ioCmd.h = h)
    <3>1. ref' = [ref EXCEPT ![ioCmd.h] = @ + 1] /\ ref \in [Handles -> Int]
      BY <1>0, <1>4 DEF PlayFree, TypeInv, TypeOK
    <3> QED BY <3>1 DEF One
  <2>7. \A h \in Handles : InCall(h)' = InCall(h) /\ InPipe(h)' = InPipe(h)
    BY <1>4, <1>b, <1>d, <2>2 DEF PlayFree, Start, Started
  <2> QED BY <1>0, <1>4, <1>a, <2>5, <2>6, <2>7, RefBalance DEF PlayFree, One
<1>5. CASE PlayGrow
  <2>1. \A h \in Handles : BoundTo(h)' = BoundTo(h)
    BY <1>0, <1>5 DEF PlayGrow, BoundTo, FreeChannel, TypeInv, TypeOK
  <2> QED BY <1>0, <1>5, <2>1, RefSame DEF PlayGrow
<1>6. CASE StopBound
  <2>1. FirstBound(ioCmd.h) \in DOMAIN chans
    BY <1>0, <1>6, FirstBoundIsBound DEF StopBound, BoundTo, TypeInv, TypeOK
  <2> QED BY <1>0, <1>6, <2>1, StopHolders, RefSame DEF StopBound
<1>7. CASE Unbind
  <2>1. ioIdx \in DOMAIN chans /\ chans[ioIdx].sample # NULL /\ chans \in Seq(Channels)
        /\ chans[ioIdx] \in Channels
    BY <1>0, <1>7 DEF Unbind, ChannelInv, TypeInv, TypeOK
  <2>2. /\ DOMAIN chans' = DOMAIN chans /\ chans'[ioIdx].sample = NULL
        /\ \A d \in DOMAIN chans : d # ioIdx => chans'[d].sample = chans[d].sample
    BY <1>7, <2>1 DEF Unbind, Channels
  <2>3. \A h \in Handles : Cardinality(BoundTo(h))'
          = Cardinality(BoundTo(h)) - One(chans[ioIdx].sample = h) + One(NULL = h)
    BY <1>0, <2>1, <2>2, BoundMoves
  <2>4. \A h \in Handles : Cardinality(BoundTo(h))'
          = Cardinality(BoundTo(h)) - One(chans[ioIdx].sample = h)
    BY <1>a, <2>3 DEF One
  <2>5. \A h \in Handles : ref'[h] = ref[h] - One(chans[ioIdx].sample = h)
    <3>1. chans[ioIdx].sample \in Handles
      BY <2>1 DEF Channels
    <3>2. ref' = [ref EXCEPT ![chans[ioIdx].sample] = @ - 1] /\ ref \in [Handles -> Int]
      BY <1>0, <1>7 DEF Unbind, TypeInv, TypeOK
    <3> QED BY <3>1, <3>2 DEF One
  <2>6. \A h \in Handles : InCall(h)' = InCall(h) /\ InPipe(h)' = InPipe(h)
    BY <1>7, <1>b, <1>d DEF Unbind
  <2> QED BY <1>0, <1>7, <1>a, <2>4, <2>5, <2>6, RefBalance DEF Unbind, One
<1>8. CASE ExecSync
  <2>1. \A t \in Threads : pc'[t] \in {"cmd_send", "sync_send"}
                             <=> pc[t] \in {"cmd_send", "sync_send"}
    BY <1>0, <1>8 DEF ExecSync, RecvSync, Wake, TypeInv, TypeOK
  <2> QED BY <1>0, <1>8, <1>c, <2>1, RefSame DEF ExecSync
<1>9. CASE Unref
  <2>1. ioCmd'.h = NULL
    BY <1>9 DEF Unref, NoCmd
  <2>2. \A h \in Handles : ref'[h] = ref[h] - One(ioCmd.h = h)
    <3>1. ref' = [ref EXCEPT ![ioCmd.h] = @ - 1] /\ ref \in [Handles -> Int]
      BY <1>0, <1>9 DEF Unref, TypeInv, TypeOK
    <3> QED BY <3>1 DEF One
  <2> QED BY <1>0, <1>9, <1>a, <1>b, <1>c, <1>d, <2>1, <2>2, RefBalance DEF Unref, One
<1>10. CASE ExecExit
  <2>1. ioCmd.h = NULL /\ ioCmd'.h = NULL
    BY <1>0, <1>10 DEF ExecExit, Exec, Commands, NoCmd, Requests, TypeInv, TypeOK
  <2> QED BY <1>0, <1>10, <1>c, <2>1, RefSame DEF ExecExit
<1>11. CASE (\E h \in Handles : UpdateEnd(h)) \/ UpdateFail
  BY <1>0, <1>11, StopHolders, RefSame DEF UpdateEnd, UpdateFail, AtChannel
<1> QED BY <1>1, <1>2, <1>3, <1>4, <1>5, <1>6, <1>7, <1>8, <1>9, <1>10, <1>11, <1>12
        DEF IoStep, CommandStep, UpdateStep

\* Exact counters keep every sample that is still in use.
LEMMA ExactIsLive ==
  ASSUME TypeInv, RefExact
  PROVE  SampleLive
<1> SUFFICES ASSUME NEW h \in Handles,
                    inst[h] = "open" \/ InCall(h) # {} \/ InPipe(h) # {} \/ ioCmd.h = h
                      \/ BoundTo(h) # {}
             PROVE  ref[h] > 0
  BY DEF SampleLive
<1>1. /\ IsFiniteSet(InCall(h)) /\ Cardinality(InCall(h)) \in Nat
      /\ IsFiniteSet(InPipe(h)) /\ Cardinality(InPipe(h)) \in Nat
      /\ IsFiniteSet(BoundTo(h)) /\ Cardinality(BoundTo(h)) \in Nat
  BY HoldersFinite, AtFinite DEF TypeInv, TypeOK
<1>2. /\ InCall(h) # {} => Cardinality(InCall(h)) > 0
      /\ InPipe(h) # {} => Cardinality(InPipe(h)) > 0
      /\ BoundTo(h) # {} => Cardinality(BoundTo(h)) > 0
  BY <1>1, FS_EmptySet
<1> QED BY <1>1, <1>2 DEF RefExact, Holders, One

\* No step refers to a sample that does not exist yet.
LEMMA FreshKept ==
  ASSUME ControlInv, RefExact, FreshInv, AppStep \/ IoStep
  PROVE  FreshInv'
<1> USE DEF appVars, ioVars
<1>0. TypeInv /\ SampleLive /\ ref \in [Handles -> Int]
      /\ inst \in [Handles -> {"none", "created", "open", "closed"}]
  BY ExactIsLive DEF ControlInv, TypeInv, TypeOK
<1>1. CASE UNCHANGED <<inst, ref>>
  BY <1>1 DEF FreshInv
<1>2. ASSUME NEW t \in Threads, NEW h \in Handles, Create(t, h) \/ Open(t, h) \/ Close(t, h)
      PROVE  FreshInv'
  BY <1>0, <1>2 DEF Create, Open, Close, FreshInv
<1>3. ASSUME NEW t \in Threads, AddRef(t) PROVE FreshInv'
  BY <1>0, <1>3 DEF AddRef, FreshInv
<1>4. ASSUME NEW k, ref[k] > 0, ref' = [ref EXCEPT ![k] = @ + 1] \/ ref' = [ref EXCEPT ![k] = @ - 1],
             inst' = inst
      PROVE  FreshInv'
  BY <1>0, <1>4 DEF FreshInv
<1>5. CASE ShutdownFree
  <2>1. ASSUME NEW h \in Handles, inst[h] \in {"none", "created"} PROVE ref'[h] = 0
    <3>1. BoundTo(h) = {}
      BY <1>0, <2>1 DEF FreshInv, SampleLive
    <3> QED BY <1>5, <2>1, <3>1, FS_EmptySet DEF ShutdownFree, FreshInv
  <2> QED BY <1>5, <2>1 DEF ShutdownFree, FreshInv
<1>6. CASE PlayFree \/ Unref
  <2>1. ioCmd.h \in Handles
    <3>1. CASE PlayFree
      BY <1>0, <3>1, CommandHandle DEF PlayFree, Exec, Requests, TypeInv, TypeOK
    <3>2. CASE Unref
      BY <3>2 DEF Unref, ControlInv, IoInv
    <3> QED BY <1>6, <3>1, <3>2
  <2>2. ref[ioCmd.h] > 0
    BY <1>0, <2>1 DEF SampleLive
  <2> QED BY <1>4, <1>6, <2>2 DEF PlayFree, Unref
<1>7. CASE Unbind
  <2>1. ioIdx \in DOMAIN chans /\ chans[ioIdx].sample \in Handles
    <3>1. ioIdx \in DOMAIN chans /\ chans[ioIdx].sample # NULL /\ chans[ioIdx] \in Channels
      BY <1>0, <1>7 DEF Unbind, ControlInv, ChannelInv, TypeInv, TypeOK
    <3> QED BY <3>1 DEF Channels
  <2>2. BoundTo(chans[ioIdx].sample) # {}
    BY <2>1 DEF BoundTo
  <2>3. ref[chans[ioIdx].sample] > 0
    BY <1>0, <2>1, <2>2 DEF SampleLive
  <2> QED BY <1>4, <1>7, <2>3 DEF Unbind
<1>8. ASSUME NEW t \in Threads, NEW h \in Handles, NEW o \in Calls, Call(t, h, o)
      PROVE  FreshInv'
  BY <1>1, <1>8 DEF Call
<1>9. ASSUME NEW t \in Threads, ThreadStep(t) \/ SpuriousWakeup(t), ~AddRef(t) PROVE FreshInv'
  BY <1>1, <1>9 DEF ThreadStep, NoSample, PipeSend, SyncInc, AwaitSync, AwaitStop, SpuriousWakeup
<1>10. CASE Setup \/ ShutdownSend
  BY <1>1, <1>10 DEF Setup, ShutdownSend
<1>11. CASE AppStep
  BY <1>2, <1>3, <1>5, <1>8, <1>9, <1>10, <1>11 DEF AppStep
<1>12. CASE IoStep
  <2>1. CASE CommandStep
    BY <1>1, <1>6, <1>7, <2>1 DEF CommandStep, Recv, PipeEmpty, PlayBound, PlayGrow,
       PlayNoChannel, StopBound, StopUnbound, ExecSync, ExecExit
  <2>2. CASE UpdateStep
    BY <1>1, <2>2 DEF UpdateStep, UpdateNext, UpdateEnd, UpdateFail, ErrorEvent, UpdateLoops, Spin,
                      vars, UpdateDone
  <2> QED BY <1>12, <2>1, <2>2 DEF IoStep
<1> QED BY <1>11, <1>12

\* The invariant the runs check, for any instance of the constants.
THEOREM IInvCorrect == Spec => []IInv
<1> DEFINE Inv == ControlInv /\ RefExact /\ FreshInv
<1>1. Init => RefExact /\ FreshInv
  <2>1. ASSUME Init, NEW h \in Handles PROVE ref[h] = 0 /\ Holders(h) = 0
    <3>1. InCall(h) = {} /\ InPipe(h) = {} /\ BoundTo(h) = {} /\ ioCmd.h # h /\ inst[h] # "open"
      BY <2>1, Assumptions DEF Init, InCall, InPipe, BoundTo, NoCmd
    <3> QED BY <2>1, <3>1, FS_EmptySet DEF Init, Holders, One
  <2> QED BY <2>1 DEF RefExact, FreshInv
<1>2. ControlInv /\ ControlInv' /\ RefExact /\ FreshInv /\ [Next]_vars => RefExact' /\ FreshInv'
  <2>1. ASSUME RefExact, FreshInv, UNCHANGED vars PROVE RefExact' /\ FreshInv'
    BY <2>1 DEF RefExact, FreshInv, Holders, InCall, InPipe, BoundTo, vars
  <2> QED BY <2>1, AppRefs, IoRefs, FreshKept DEF Next
<1>3. ControlInv /\ RefExact /\ FreshInv => IInv
  BY DEF ControlInv, TypeInv, IInv
<1> QED BY <1>1, <1>2, <1>3, ControlCorrect, PTL DEF Spec

\* Every sample's reference counter counts its holders exactly, in every state.
THEOREM RefExactCorrect == Spec => []RefExact
<1>1. IInv => RefExact
  BY DEF IInv
<1> QED BY <1>1, IInvCorrect, PTL

\* Nothing ever refers to a sample that has been freed.
THEOREM SampleLiveCorrect == Spec => []SampleLive
<1>1. IInv => SampleLive
  BY ExactIsLive DEF IInv, TypeInv
<1> QED BY <1>1, IInvCorrect, PTL

\* Shutdown leaves no command unread and no sample allocated.
THEOREM ShutdownCorrect == Spec => []ShutdownReleasesAll
<1>1. IInv => ShutdownReleasesAll
  <2>1. ASSUME IInv, api = "down", NEW h \in Handles PROVE Holders(h) = 0
    <3>1. ~thread /\ pipe = <<>> /\ chans = <<>> /\ inst[h] # "open"
      BY <2>1 DEF IInv, ShutdownInv
    <3>2. ioCmd.h # h
      BY <2>1, <3>1, Assumptions DEF IInv, IoInv, ShutdownInv, NoCmd
    <3>3. InCall(h) = {} /\ InPipe(h) = {} /\ BoundTo(h) = {}
      BY <2>1, <3>1 DEF IInv, ShutdownInv, InCall, InPipe, BoundTo
    <3> QED BY <3>1, <3>2, <3>3, FS_EmptySet DEF Holders, One
  <2>2. ASSUME IInv PROVE ShutdownReleasesAll
    BY <2>1, <2>2 DEF IInv, RefExact, ShutdownInv, ShutdownReleasesAll
  <2> QED BY <2>2
<1> QED BY <1>1, IInvCorrect, PTL

-----------------------------------------------------------------------------
(* What the channels play and what the application is told of it: no       *)
(* sample has two channels, is_playing agrees with them, the pool grows    *)
(* only as far as it must, and the count of synchronisations is that of    *)
(* those on their way.                                                     *)

Used == {h \in Handles : inst[h] \in {"open", "closed"}}

\* Until the instance is closed and nothing refers to its sample any more ...
Reached(h) == inst[h] # "closed" \/ ref[h] > 0

\* ... is_playing says what the channels do.
Agrees ==
  \A h \in Handles :
    Reached(h) => (playing[h] <=> \E c \in DOMAIN chans : chans[c].sample = h /\ Active(c))

-----------------------------------------------------------------------------
(* The ways in which the channels change.                                  *)

Same == chans' = chans /\ playing' = playing

\* Setup and shutdown.
Renewed ==
  /\ ioPc # "exec" /\ \A h \in Handles : inst'[h] = inst[h]
  /\ \/ chans = <<>> /\ chans' = [c \in 1..InitialChannels |-> FreeChannel] /\ playing' = playing
     \/ /\ api' = "down" /\ chans' = <<>> /\ playing' = playing
        /\ \A h \in Handles : inst[h] \in {"none", "closed"}

\* Channel c, which is free or has h, plays h: a command says so.
Plays(c, h, m) ==
  /\ Executing(h) /\ inst' = inst /\ c \in DOMAIN chans /\ h \in Used /\ m \in {"playing", "looping"}
  /\ chans[c].sample = h \/ (BoundTo(h) = {} /\ chans[c].sample = NULL)
  /\ chans' = [chans EXCEPT ![c] = [sample |-> h, status |-> m]]
  /\ playing' = IF Active(c) THEN playing ELSE [playing EXCEPT ![h] = TRUE]

\* No channel is free, and none has h: there is a new one.
Grows(h) ==
  /\ Executing(h) /\ inst' = inst /\ h \in Used /\ BoundTo(h) = {} /\ BoundTo(NULL) = {}
  /\ chans' = Append(chans, FreeChannel) /\ playing' = playing

Stops(c) ==
  /\ inst' = inst /\ c \in DOMAIN chans /\ chans[c].sample \in Handles
  /\ chans' = [chans EXCEPT ![c].status = "stopped"]
  /\ playing' = IF Active(c) THEN [playing EXCEPT ![chans[c].sample] = FALSE] ELSE playing

Frees(c) ==
  /\ inst' = inst /\ c \in DOMAIN chans /\ ~Active(c)
  /\ chans' = [chans EXCEPT ![c].sample = NULL] /\ playing' = playing

ChannelChange ==
  \/ Same \/ Renewed
  \/ \E c \in DOMAIN chans, h \in Handles, m \in {"playing", "looping"} : Plays(c, h, m)
  \/ \E h \in Handles : Grows(h)
  \/ \E c \in DOMAIN chans : Stops(c) \/ Frees(c)

\* What anything refers to has been opened.
LEMMA ReferredIsUsed ==
  ASSUME IInv, NEW h \in Handles, ioCmd.h = h \/ BoundTo(h) # {}
  PROVE  h \in Used
<1>1. ref[h] > 0
  BY ExactIsLive DEF IInv, TypeInv, SampleLive
<1>2. inst[h] \in {"none", "created", "open", "closed"}
  BY DEF IInv, TypeOK
<1> QED BY <1>1, <1>2 DEF IInv, FreshInv, Used

\* The commands of the I/O thread change the channels in these ways.
LEMMA CommandChanges ==
  ASSUME IInv, CommandStep
  PROVE  ChannelChange
<1> USE Assumptions
<1>0. TypeInv /\ ChannelInv /\ chans \in Seq(Channels)
  BY DEF IInv, TypeInv, TypeOK
<1>1. CASE Recv \/ PipeEmpty \/ PlayNoChannel \/ StopUnbound \/ ExecSync \/ Unref \/ ExecExit
  BY <1>1 DEF Recv, PipeEmpty, PlayNoChannel, StopUnbound, ExecSync, Unref, ExecExit, ChannelChange,
     Same
<1>2. CASE PlayBound \/ PlayFree \/ PlayGrow \/ StopBound
  <2>1. ioCmd.h \in Handles
    <3>1. ioCmd.op \in Requests
      BY <1>2 DEF PlayBound, PlayFree, PlayGrow, StopBound, Exec, Requests
    <3> QED BY <1>0, <3>1, CommandHandle DEF TypeInv, TypeOK
  <2>2. ioCmd.h \in Used
    BY <2>1, ReferredIsUsed
  <2>3. CASE PlayBound
    <3>1. FirstBound(ioCmd.h) \in DOMAIN chans /\ chans[FirstBound(ioCmd.h)].sample = ioCmd.h
      BY <1>0, <2>3, FirstBoundIsBound DEF PlayBound, BoundTo
    <3>2. PICK m \in {"playing", "looping"} : Plays(FirstBound(ioCmd.h), ioCmd.h, m)
      <4> DEFINE m == IF ioCmd.op = "loop" THEN "looping" ELSE "playing"
      <4>1. Plays(FirstBound(ioCmd.h), ioCmd.h, m)
        BY <2>2, <2>3, <3>1 DEF PlayBound, Exec, Executing, Start, Started, Plays
      <4>2. m \in {"playing", "looping"}
        OBVIOUS
      <4> QED BY <4>1, <4>2
    <3> QED BY <2>1, <3>1, <3>2 DEF ChannelChange
  <2>4. CASE PlayFree
    <3>1. FirstBound(NULL) \in DOMAIN chans /\ chans[FirstBound(NULL)].sample = NULL
      BY <1>0, <2>4, FirstBoundIsBound DEF PlayFree, BoundTo
    <3>2. PICK m \in {"playing", "looping"} : Plays(FirstBound(NULL), ioCmd.h, m)
      <4> DEFINE m == IF ioCmd.op = "loop" THEN "looping" ELSE "playing"
      <4>1. Plays(FirstBound(NULL), ioCmd.h, m)
        BY <2>2, <2>4, <3>1 DEF PlayFree, Exec, Executing, Start, Started, Plays
      <4>2. m \in {"playing", "looping"}
        OBVIOUS
      <4> QED BY <4>1, <4>2
    <3> QED BY <2>1, <3>1, <3>2 DEF ChannelChange
  <2>5. CASE PlayGrow
    BY <2>1, <2>2, <2>5 DEF PlayGrow, Exec, Executing, Grows, ChannelChange, appVars
  <2>6. CASE StopBound
    <3>1. FirstBound(ioCmd.h) \in DOMAIN chans /\ chans[FirstBound(ioCmd.h)].sample = ioCmd.h
      BY <1>0, <2>6, FirstBoundIsBound DEF StopBound, BoundTo
    <3>2. Stops(FirstBound(ioCmd.h))
      BY <2>1, <2>6, <3>1 DEF StopBound, StopChannel, Stopped, Stops
    <3> QED BY <3>1, <3>2 DEF ChannelChange
  <2> QED BY <1>2, <2>3, <2>4, <2>5, <2>6
<1>3. CASE Unbind
  <2>1. ioIdx \in DOMAIN chans /\ ~Active(ioIdx)
    BY <1>0, <1>3 DEF Unbind, ChannelInv
  <2> QED BY <1>3, <2>1 DEF Unbind, Frees, ChannelChange, appVars
<1> QED BY <1>1, <1>2, <1>3 DEF CommandStep

LEMMA NextChanges ==
  ASSUME IInv, Next
  PROVE  ChannelChange
<1> USE DEF appVars
<1>0. TypeInv /\ ChannelInv /\ chans \in Seq(Channels)
  BY DEF IInv, TypeInv, TypeOK
<1>1. CASE Setup
  BY <1>1 DEF Setup, Renewed, ChannelChange, IInv, ShutdownInv
<1>2. CASE ShutdownFree
  BY <1>2 DEF ShutdownFree, Renewed, ChannelChange, IInv, ShutdownInv
<1>3. CASE ShutdownSend
  BY <1>3 DEF ShutdownSend, Same, ChannelChange
<1>4. ASSUME NEW t \in Threads, NEW h \in Handles,
             Create(t, h) \/ Open(t, h) \/ Close(t, h) \/ \E o \in Calls : Call(t, h, o)
      PROVE  ChannelChange
  BY <1>4 DEF Create, Open, Close, Call, Same, ChannelChange
<1>5. ASSUME NEW t \in Threads, ThreadStep(t) \/ SpuriousWakeup(t)
      PROVE  ChannelChange
  BY <1>5 DEF ThreadStep, AddRef, NoSample, PipeSend, SyncInc, AwaitSync, AwaitStop, SpuriousWakeup,
     Same, ChannelChange
<1>6. CASE UpdateNext \/ ErrorEvent \/ UpdateLoops \/ Spin \/ UpdateDone
  BY <1>6 DEF UpdateNext, ErrorEvent, UpdateLoops, Spin, vars, UpdateDone, Same, ChannelChange
<1>7. CASE (\E h \in Handles : UpdateEnd(h)) \/ UpdateFail
  <2>1. ioIdx \in DOMAIN chans /\ Active(ioIdx) /\ StopChannel(ioIdx) /\ inst' = inst
    <3>1. ASSUME NEW h \in Handles, UpdateEnd(h) PROVE Active(ioIdx)
      BY <3>1 DEF UpdateEnd, Active
    <3> QED BY <1>7, <3>1 DEF UpdateEnd, UpdateFail, AtChannel
  <2>2. chans[ioIdx].sample \in Handles
    <3>1. chans[ioIdx] \in Channels /\ chans[ioIdx].sample # NULL
      BY <1>0, <2>1 DEF ChannelInv
    <3> QED BY <3>1 DEF Channels
  <2>3. Stops(ioIdx)
    BY <2>1, <2>2 DEF StopChannel, Stopped, Stops
  <2> QED BY <2>1, <2>3 DEF ChannelChange
<1>8. CASE CommandStep
  BY <1>8, CommandChanges
<1> QED BY <1>1, <1>2, <1>3, <1>4, <1>5, <1>6, <1>7, <1>8
        DEF Next, AppStep, IoStep, UpdateStep

\* An instance that has been opened stays opened, or is closed for good.
LEMMA InstForward ==
  ASSUME IInv, [Next]_vars
  PROVE  \A h \in Handles : /\ inst[h] = "closed" => inst'[h] = "closed"
                            /\ h \in Used => inst'[h] \in {"open", "closed"}
<1> USE DEF appVars, Used
<1>0. inst \in [Handles -> {"none", "created", "open", "closed"}]
  BY DEF IInv, TypeOK
<1>1. CASE inst' = inst
  BY <1>1
<1>2. ASSUME NEW t \in Threads, NEW h \in Handles, Create(t, h) \/ Open(t, h) \/ Close(t, h)
      PROVE  \A k \in Handles : /\ inst[k] = "closed" => inst'[k] = "closed"
                                /\ k \in Used => inst'[k] \in {"open", "closed"}
  BY <1>0, <1>2 DEF Create, Open, Close
<1>3. CASE AppStep
  <2>1. CASE Setup \/ ShutdownSend \/ ShutdownFree
    BY <1>1, <2>1 DEF Setup, ShutdownSend, ShutdownFree
  <2>2. ASSUME NEW t \in Threads, NEW h \in Handles, NEW o \in Calls, Call(t, h, o)
        PROVE  inst' = inst
    BY <2>2 DEF Call
  <2>3. ASSUME NEW t \in Threads, ThreadStep(t) \/ SpuriousWakeup(t) PROVE inst' = inst
    BY <2>3 DEF ThreadStep, AddRef, NoSample, PipeSend, SyncInc, AwaitSync, AwaitStop, SpuriousWakeup
  <2> QED BY <1>1, <1>2, <1>3, <2>1, <2>2, <2>3 DEF AppStep
<1>4. CASE IoStep
  <2>1. CASE CommandStep
    BY <2>1 DEF CommandStep, Recv, PipeEmpty, PlayBound, PlayFree, PlayGrow, PlayNoChannel,
       StopBound, StopUnbound, Unbind, ExecSync, Unref, ExecExit
  <2>2. CASE UpdateStep
    BY <2>2 DEF UpdateStep, UpdateNext, UpdateEnd, UpdateFail, ErrorEvent, UpdateLoops, Spin,
                vars, UpdateDone
  <2> QED BY <1>1, <1>4, <2>1, <2>2 DEF IoStep
<1> QED BY <1>1, <1>3, <1>4 DEF Next, vars

\* Nothing reaches a closed instance again.
LEMMA ReachedBefore ==
  ASSUME IInv, ShutdownReleasesAll', [Next]_vars, NEW h \in Handles, Reached(h)'
  PROVE  Reached(h)
<1> USE DEF appVars, ioVars
<1>0. /\ inst \in [Handles -> {"none", "created", "open", "closed"}] /\ ref \in [Handles -> Int]
      /\ SampleLive /\ (ioCmd.h = h => ref[h] > 0)
  BY ExactIsLive DEF IInv, TypeInv, TypeOK, SampleLive
<1> SUFFICES ASSUME inst[h] = "closed", ~(ref[h] > 0) PROVE inst'[h] = "closed" /\ ~(ref'[h] > 0)
  BY DEF Reached
<1>1. inst'[h] = "closed"
  BY InstForward
<1>2. ~(ref'[h] > 0)
  <2>1. CASE UNCHANGED ref
    BY <2>1
  <2>2. CASE ShutdownFree
    BY <2>2 DEF ShutdownFree, ShutdownReleasesAll
  <2>3. ASSUME NEW t \in Threads, NEW k \in Handles,
               Create(t, k) \/ Open(t, k) \/ Close(t, k) \/ \E o \in Calls : Call(t, k, o)
        PROVE  ~(ref'[h] > 0)
    BY <1>0, <2>3 DEF Create, Open, Close, Call
  <2>4. ASSUME NEW t \in Threads, AddRef(t) PROVE ~(ref'[h] > 0)
    BY <1>0, <2>4 DEF AddRef
  <2>5. ASSUME NEW t \in Threads, ThreadStep(t) \/ SpuriousWakeup(t), ~AddRef(t) PROVE UNCHANGED ref
    BY <2>5 DEF ThreadStep, NoSample, PipeSend, SyncInc, AwaitSync, AwaitStop, SpuriousWakeup
  <2>6. CASE Unbind \/ Unref
    <3>1. PICK k : ref' = [ref EXCEPT ![k] = @ - 1]
      BY <2>6 DEF Unbind, Unref
    <3> QED BY <1>0, <3>1
  <2>7. CASE PlayFree
    BY <1>0, <2>7 DEF PlayFree
  <2>8. CASE CommandStep /\ ~Unbind /\ ~Unref /\ ~PlayFree
    BY <2>1, <2>8 DEF CommandStep, Recv, PipeEmpty, PlayBound, PlayGrow, PlayNoChannel,
       StopBound, StopUnbound, ExecSync, ExecExit
  <2>9. CASE UpdateStep
    BY <2>1, <2>9 DEF UpdateStep, UpdateNext, UpdateEnd, UpdateFail, ErrorEvent, UpdateLoops, Spin,
                      vars, UpdateDone
  <2>10. CASE Setup \/ ShutdownSend
    BY <2>1, <2>10 DEF Setup, ShutdownSend
  <2>11. CASE UNCHANGED vars
    BY <2>1, <2>11 DEF vars
  <2> QED BY <2>1, <2>2, <2>3, <2>4, <2>5, <2>6, <2>7, <2>8, <2>9, <2>10, <2>11
          DEF Next, AppStep, IoStep
<1> QED BY <1>1, <1>2

-----------------------------------------------------------------------------
(* One channel for a sample, and what is_playing says.                     *)

\* The channels after a change, one by one.
LEMMA PlaysChannels ==
  ASSUME IInv, NEW c \in DOMAIN chans, NEW h \in Handles, NEW m \in {"playing", "looping"},
         Plays(c, h, m)
  PROVE  /\ DOMAIN chans' = DOMAIN chans /\ chans'[c].sample = h /\ Active(c)'
         /\ \A d \in DOMAIN chans : d # c => chans'[d] = chans[d]
<1>1. chans \in Seq(Channels)
  BY DEF IInv, TypeOK
<1> QED BY <1>1 DEF Plays, Active

LEMMA StopsChannels ==
  ASSUME IInv, NEW c \in DOMAIN chans, Stops(c)
  PROVE  /\ DOMAIN chans' = DOMAIN chans /\ chans'[c].sample = chans[c].sample /\ ~Active(c)'
         /\ \A d \in DOMAIN chans : d # c => chans'[d] = chans[d]
<1>1. chans \in Seq(Channels) /\ chans[c] \in Channels
  BY DEF IInv, TypeOK
<1> QED BY <1>1 DEF Stops, Active, Channels

LEMMA FreesChannels ==
  ASSUME IInv, NEW c \in DOMAIN chans, Frees(c)
  PROVE  /\ DOMAIN chans' = DOMAIN chans /\ chans'[c].sample = NULL /\ ~Active(c)'
         /\ \A d \in DOMAIN chans : d # c => chans'[d] = chans[d]
<1>1. chans \in Seq(Channels) /\ chans[c] \in Channels
  BY DEF IInv, TypeOK
<1> QED BY <1>1 DEF Frees, Active, Channels

LEMMA GrowsChannels ==
  ASSUME IInv, NEW h \in Handles, Grows(h)
  PROVE  /\ DOMAIN chans' = DOMAIN chans \cup {Len(chans) + 1}
         /\ chans'[Len(chans) + 1] = FreeChannel /\ Len(chans') = Len(chans) + 1
         /\ \A d \in DOMAIN chans : chans'[d] = chans[d]
<1>1. chans \in Seq(Channels) /\ Len(chans) \in Nat
  BY LenProperties DEF IInv, TypeOK
<1> QED BY <1>1 DEF Grows

\* No two channels have the same sample.
Single == \A c, d \in DOMAIN chans : chans[c].sample \in Handles /\ chans[c].sample = chans[d].sample => c = d

LEMMA SingleKept ==
  ASSUME IInv, Single, ChannelChange
  PROVE  Single'
<1> USE Assumptions
<1>1. CASE Same
  BY <1>1 DEF Same, Single
<1>2. CASE Renewed
  <2>1. \A c \in DOMAIN chans' : chans'[c].sample = NULL
    BY <1>2 DEF Renewed, FreeChannel
  <2> QED BY <2>1 DEF Single
<1>3. ASSUME NEW c \in DOMAIN chans, NEW h \in Handles, NEW m \in {"playing", "looping"}, Plays(c, h, m)
      PROVE  Single'
  <2>1. \A d \in DOMAIN chans : d # c => chans[d].sample # h
    BY <1>3 DEF Plays, Single, BoundTo
  <2> QED BY <1>3, <2>1, PlaysChannels DEF Single
<1>4. ASSUME NEW h \in Handles, Grows(h) PROVE Single'
  BY <1>4, GrowsChannels DEF Single, FreeChannel
<1>5. ASSUME NEW c \in DOMAIN chans, Stops(c) PROVE Single'
  BY <1>5, StopsChannels DEF Single
<1>6. ASSUME NEW c \in DOMAIN chans, Frees(c) PROVE Single'
  BY <1>6, FreesChannels DEF Single
<1> QED BY <1>1, <1>2, <1>3, <1>4, <1>5, <1>6 DEF ChannelChange

\* A change of the channels changes is_playing with them.
LEMMA AgreesKept ==
  ASSUME IInv, Single, Agrees, ShutdownReleasesAll', ChannelChange, [Next]_vars
  PROVE  Agrees'
<1> USE Assumptions
<1>0. /\ \A h \in Handles : Reached(h)' => Reached(h)
      /\ playing \in [Handles -> BOOLEAN]
      /\ \A c \in DOMAIN chans : Active(c) => chans[c].sample # NULL
  BY ReachedBefore DEF IInv, TypeOK, ChannelInv
<1>1. CASE Same
  BY <1>0, <1>1 DEF Same, Agrees, Active
<1>2. CASE Renewed
  <2>1. CASE chans = <<>> /\ chans' = [c \in 1..InitialChannels |-> FreeChannel] /\ playing' = playing
    <3>1. \A c \in DOMAIN chans' : chans'[c].sample = NULL
      BY <2>1 DEF FreeChannel
    <3> QED BY <1>0, <2>1, <3>1 DEF Agrees
  <2>2. CASE /\ api' = "down" /\ chans' = <<>> /\ playing' = playing
              /\ \A h \in Handles : inst[h] \in {"none", "closed"}
    <3> SUFFICES ASSUME NEW h \in Handles, Reached(h)' PROVE ~playing[h]
      BY <2>2 DEF Agrees
    <3>1. inst[h] = "none"
      <4>1. ref'[h] = 0
        BY <2>2 DEF ShutdownReleasesAll
      <4>2. inst'[h] # "closed"
        BY <4>1 DEF Reached
      <4>3. inst[h] # "closed"
        BY <4>2, InstForward
      <4> QED BY <2>2, <4>3
    <3>2. BoundTo(h) = {}
      BY <3>1, ReferredIsUsed DEF Used
    <3> QED BY <1>0, <3>2 DEF Agrees, BoundTo
  <2> QED BY <1>2, <2>1, <2>2 DEF Renewed
<1>3. ASSUME NEW c \in DOMAIN chans, NEW h \in Handles, NEW m \in {"playing", "looping"}, Plays(c, h, m)
      PROVE  Agrees'
  <2>1. inst' = inst /\ (Active(c) => chans[c].sample = h)
    BY <1>0, <1>3 DEF Plays
  <2> SUFFICES ASSUME NEW k \in Handles, Reached(k)
               PROVE  playing'[k] <=> \E d \in DOMAIN chans' : chans'[d].sample = k /\ Active(d)'
    BY <1>0, <2>1 DEF Agrees
  <2>2. CASE k = h
    <3>1. playing'[h] = TRUE
      BY <1>0, <1>3, <2>1, <2>2 DEF Plays, Agrees
    <3> QED BY <1>3, <2>2, <3>1, PlaysChannels
  <2>3. CASE k # h
    <3>1. playing'[k] = playing[k]
      BY <1>0, <1>3, <2>3 DEF Plays
    <3>2. ~(chans[c].sample = k /\ Active(c))
      BY <2>1, <2>3
    <3>3. \A d \in DOMAIN chans : d # c => (Active(d)' <=> Active(d))
      BY <1>3, PlaysChannels DEF Active
    <3> QED BY <1>3, <2>3, <3>1, <3>2, <3>3, PlaysChannels DEF Agrees
  <2> QED BY <2>2, <2>3
<1>4. ASSUME NEW h \in Handles, Grows(h) PROVE Agrees'
  <2>1. inst' = inst /\ playing' = playing
    BY <1>4 DEF Grows
  <2>2. \A d \in DOMAIN chans : chans'[d] = chans[d] /\ (Active(d)' <=> Active(d))
    BY <1>4, GrowsChannels DEF Active
  <2>3. chans'[Len(chans) + 1].sample = NULL
    BY <1>4, GrowsChannels DEF FreeChannel
  <2> QED BY <1>0, <1>4, <2>1, <2>2, <2>3, GrowsChannels DEF Agrees
<1>5. ASSUME NEW c \in DOMAIN chans, Stops(c) PROVE Agrees'
  <2>1. inst' = inst /\ chans[c].sample \in Handles
    BY <1>5 DEF Stops
  <2> SUFFICES ASSUME NEW k \in Handles, Reached(k)
               PROVE  playing'[k] <=> \E d \in DOMAIN chans' : chans'[d].sample = k /\ Active(d)'
    BY <1>0, <2>1 DEF Agrees
  <2>0. \A d \in DOMAIN chans : d # c => (Active(d)' <=> Active(d))
    BY <1>5, StopsChannels DEF Active
  <2>2. CASE k = chans[c].sample
    <3>1. \A d \in DOMAIN chans : d # c => chans[d].sample # k
      BY <2>2 DEF Single
    <3>2. playing'[k] = FALSE
      <4>1. CASE Active(c)
        BY <1>0, <1>5, <2>2, <4>1 DEF Stops
      <4>2. CASE ~Active(c)
        BY <1>0, <1>5, <2>2, <3>1, <4>2 DEF Stops, Agrees
      <4> QED BY <4>1, <4>2
    <3>3. ~\E d \in DOMAIN chans' : chans'[d].sample = k /\ Active(d)'
      BY <1>5, <3>1, StopsChannels
    <3> QED BY <3>2, <3>3
  <2>3. CASE k # chans[c].sample
    <3>1. playing'[k] = playing[k]
      BY <1>0, <1>5, <2>3 DEF Stops
    <3> QED BY <1>5, <2>0, <2>3, <3>1, StopsChannels DEF Agrees
  <2> QED BY <2>2, <2>3
<1>6. ASSUME NEW c \in DOMAIN chans, Frees(c) PROVE Agrees'
  <2>1. inst' = inst /\ playing' = playing /\ ~Active(c)
    BY <1>6 DEF Frees
  <2>2. \A d \in DOMAIN chans : d # c => (Active(d)' <=> Active(d))
    BY <1>6, FreesChannels DEF Active
  <2> QED BY <1>0, <1>6, <2>1, <2>2, FreesChannels DEF Agrees
<1> QED BY <1>1, <1>2, <1>3, <1>4, <1>5, <1>6 DEF ChannelChange

\* The invariant of the channels, in every state.
LEMMA ChannelsCorrect == Spec => [](Single /\ Agrees)
<1>1. Init => Single /\ Agrees
  BY DEF Init, Single, Agrees
<1>2. IInv /\ Single /\ Agrees /\ ShutdownReleasesAll' /\ [Next]_vars => (Single /\ Agrees)'
  <2> SUFFICES ASSUME IInv, Single, Agrees, ShutdownReleasesAll', [Next]_vars PROVE Single' /\ Agrees'
    OBVIOUS
  <2>1. ChannelChange
    <3>1. CASE Next
      BY <3>1, NextChanges
    <3>2. CASE UNCHANGED vars
      BY <3>2 DEF vars, Same, ChannelChange
    <3> QED BY <3>1, <3>2
  <2> QED BY <2>1, SingleKept, AgreesKept
<1> QED BY <1>1, <1>2, IInvCorrect, ShutdownCorrect, PTL DEF Spec

\* A sample is never assigned to two channels, however requests, errors and ends of
\* samples interleave.
THEOREM OneChannelCorrect == Spec => []OneChannel
<1>1. Single => OneChannel
  BY DEF Single, OneChannel, BoundTo
<1> QED BY <1>1, ChannelsCorrect, PTL

\* is_playing agrees with the channels as long as the instance is open.
THEOREM PlayingAgreesCorrect == Spec => []PlayingAgrees
<1>1. Agrees => PlayingAgrees
  BY DEF Agrees, Reached, PlayingAgrees, BoundTo
<1> QED BY <1>1, ChannelsCorrect, PTL

-----------------------------------------------------------------------------
(* The size of the pool.                                                   *)

\* When no channel is free there are as many channels as samples that have one.
LEMMA FullPool ==
  ASSUME chans \in Seq(Channels), Single, BoundTo(NULL) = {}
  PROVE  Len(chans) = Cardinality({h \in Handles : BoundTo(h) # {}})
<1> DEFINE Bound == {h \in Handles : BoundTo(h) # {}}
           f == [c \in 1..Len(chans) |-> chans[c].sample]
<1>1. Len(chans) \in Nat /\ DOMAIN chans = 1..Len(chans)
  BY LenProperties
<1>2. ASSUME NEW c \in 1..Len(chans) PROVE chans[c].sample \in Bound
  <2>1. chans[c].sample # NULL /\ chans[c] \in Channels
    BY <1>1, <1>2 DEF BoundTo
  <2>2. chans[c].sample \in Handles
    BY <2>1 DEF Channels
  <2>3. c \in BoundTo(chans[c].sample)
    BY <1>1, <1>2 DEF BoundTo
  <2> QED BY <2>2, <2>3
<1>3. f \in Injection(1..Len(chans), Bound)
  <2>1. \A c, d \in 1..Len(chans) : f[c] = f[d] => c = d
    BY <1>1, <1>2 DEF Single
  <2> QED BY <1>2, <2>1 DEF Injection, IsInjective
<1>4. f \in Surjection(1..Len(chans), Bound)
  <2>1. ASSUME NEW h \in Bound PROVE \E c \in 1..Len(chans) : f[c] = h
    BY <1>1, <2>1 DEF BoundTo
  <2> QED BY <1>2, <2>1 DEF Surjection
<1>5. f \in Bijection(1..Len(chans), Bound)
  BY <1>3, <1>4 DEF Bijection
<1>6. IsFiniteSet(1..Len(chans)) /\ Cardinality(1..Len(chans)) = Len(chans)
  BY <1>1, FS_Interval
<1> QED BY <1>5, <1>6, FS_Bijection DEF ExistsBijection

\* A channel is added only when each of the others is bound to a sample of its own,
\* so a free channel is always used first and no sample gets a second one.
THEOREM PoolGrowsCorrect == Spec => PoolGrowsWhenBound
<1> DEFINE Growth == ioPc = "exec" /\ Len(chans') > Len(chans) =>
             /\ BoundTo(ioCmd.h) = {}
             /\ Len(chans') = Cardinality({h \in Handles : BoundTo(h) # {}}) + 1
<1>1. IInv /\ Single /\ [Next]_vars => Growth
  <2> SUFFICES ASSUME IInv, Single, [Next]_vars PROVE Growth
    OBVIOUS
  <2>1. chans \in Seq(Channels) /\ Len(chans) \in Nat
    BY LenProperties DEF IInv, TypeOK
  <2>2. CASE Len(chans') = Len(chans)
    BY <2>1, <2>2
  <2>3. ASSUME NEW h \in Handles, Grows(h) PROVE Growth
    <3>1. Len(chans) = Cardinality({k \in Handles : BoundTo(k) # {}})
      BY <2>1, <2>3, FullPool DEF Grows
    <3>2. Len(chans') = Len(chans) + 1 /\ ioCmd.h = h /\ BoundTo(h) = {}
      BY <2>1, <2>3, GrowsChannels DEF Grows, Executing
    <3> HIDE DEF Growth
    <3>3. BoundTo(ioCmd.h) = {}
      BY <3>2
    <3> QED BY <3>1, <3>2, <3>3 DEF Growth
  <2>4. CASE UNCHANGED vars
    BY <2>2, <2>4 DEF vars
  <2>5. CASE Next
    <3>1. ChannelChange
      BY <2>5, NextChanges
    <3>2. CASE Same \/ Renewed
      BY <2>2, <3>2 DEF Same, Renewed
    <3>3. ASSUME NEW c \in DOMAIN chans, NEW k \in Handles, NEW m \in {"playing", "looping"},
                 Plays(c, k, m)
          PROVE  Growth
      BY <2>1, <2>2, <3>3 DEF Plays
    <3>4. ASSUME NEW c \in DOMAIN chans, Stops(c) \/ Frees(c) PROVE Growth
      BY <2>1, <2>2, <3>4 DEF Stops, Frees
    <3> QED BY <2>3, <3>1, <3>2, <3>3, <3>4 DEF ChannelChange
  <2> QED BY <2>4, <2>5
<1> QED BY <1>1, IInvCorrect, ChannelsCorrect, PTL DEF Spec, PoolGrowsWhenBound

-----------------------------------------------------------------------------
(* The count of synchronisations.                                          *)

\* A call is made on an instance that exists, and that is open if the application
\* sees to it.
CallsOpen ==
  \A t \in Threads : hnd[t] \in Handles =>
    inst[hnd[t]] \in {"created", "open"} /\ (ChecksOpen => inst[hnd[t]] = "open")

SyncCmd(h)  == {cmd \in Commands : cmd.h = h /\ cmd.op = "sync"}
ExecOf(h)   == One(Executing(h) /\ ioCmd.op = "sync")
SyncLabels  == {"sync_ref", "sync_send"}

\* What Outstanding counts is finite.
LEMMA OutstandingFinite ==
  ASSUME TypeInv, NEW h
  PROVE  /\ IsFiniteSet(Syncing(h)) /\ Cardinality(Syncing(h)) \in Nat
         /\ SyncsOf(h) = At(pipe, SyncCmd(h)) /\ Cardinality(SyncsOf(h)) \in Nat
         /\ ExecOf(h) \in 0..1
         /\ Outstanding(h) = Cardinality(Syncing(h)) + Cardinality(SyncsOf(h)) + ExecOf(h)
         /\ Outstanding(h) \in Nat
<1>1. IsFiniteSet(Syncing(h)) /\ Cardinality(Syncing(h)) \in Nat
  BY FS_Subset, FS_CardinalityType, Assumptions DEF Syncing
<1>2. SyncsOf(h) = At(pipe, SyncCmd(h))
  BY DEF SyncsOf, InPipe, At, SyncCmd, TypeInv, TypeOK
<1>3. Cardinality(SyncsOf(h)) \in Nat
  BY <1>2, AtFinite DEF TypeInv, TypeOK
<1>4. ExecOf(h) \in 0..1
  BY DEF ExecOf, One
<1>5. Outstanding(h) = Cardinality(Syncing(h)) + Cardinality(SyncsOf(h)) + ExecOf(h)
  BY DEF Outstanding, ExecOf
<1> QED BY <1>1, <1>2, <1>3, <1>4, <1>5

\* A step after which the count is still at least, or exactly, what is outstanding:
\* it moves the three terms and the count by numbers that add up.
LEMMA SyncBalance ==
  ASSUME SyncExact, TypeInv, TypeInv',
         \A h \in Handles :
           /\ sync'[h] - sync[h] >= Cardinality(Syncing(h)') - Cardinality(Syncing(h))
                 + Cardinality(SyncsOf(h)') - Cardinality(SyncsOf(h)) + ExecOf(h)' - ExecOf(h)
           /\ ChecksOpen =>
                sync'[h] - sync[h] = Cardinality(Syncing(h)') - Cardinality(Syncing(h))
                 + Cardinality(SyncsOf(h)') - Cardinality(SyncsOf(h)) + ExecOf(h)' - ExecOf(h)
  PROVE  SyncExact'
<1> SUFFICES ASSUME NEW h \in Handles
             PROVE  sync'[h] >= Outstanding(h)' /\ (ChecksOpen => sync'[h] = Outstanding(h)')
  BY DEF SyncExact
<1>1. /\ Cardinality(Syncing(h)) \in Nat /\ Cardinality(SyncsOf(h)) \in Nat /\ ExecOf(h) \in 0..1
      /\ Outstanding(h) = Cardinality(Syncing(h)) + Cardinality(SyncsOf(h)) + ExecOf(h)
  BY OutstandingFinite
<1>2. /\ Cardinality(Syncing(h)') \in Nat /\ Cardinality(SyncsOf(h)') \in Nat /\ ExecOf(h)' \in 0..1
      /\ Outstanding(h)' = Cardinality(Syncing(h)') + Cardinality(SyncsOf(h)') + ExecOf(h)'
  <2>1. Cardinality(Syncing(h)') \in Nat
    <3>1. Syncing(h)' \in SUBSET Threads
      BY DEF Syncing
    <3> QED BY <3>1, FS_Subset, FS_CardinalityType, Assumptions
  <2>2. Cardinality(SyncsOf(h)') \in Nat
    <3>1. pipe' \in Seq(Commands)
      BY DEF TypeInv, TypeOK
    <3>2. SyncsOf(h)' = At(pipe', SyncCmd(h))
      BY <3>1 DEF SyncsOf, InPipe, At, SyncCmd
    <3> QED BY <3>1, <3>2, AtFinite
  <2>3. ExecOf(h)' \in 0..1
    BY DEF ExecOf, One
  <2>4. Outstanding(h)' = Cardinality(Syncing(h)') + Cardinality(SyncsOf(h)') + ExecOf(h)'
    BY DEF Outstanding, ExecOf
  <2> QED BY <2>1, <2>2, <2>3, <2>4
<1>3. sync[h] \in Int /\ sync'[h] \in Int
  BY DEF TypeInv, TypeOK
<1>4. sync[h] >= Outstanding(h) /\ (ChecksOpen => sync[h] = Outstanding(h))
  BY DEF SyncExact
<1> HIDE DEF SyncExact
<1> QED BY <1>1, <1>2, <1>3, <1>4

\* A step that starts and ends no synchronisation.
LEMMA SyncSame ==
  ASSUME SyncExact, TypeInv, TypeInv', UNCHANGED <<sync, pipe>>,
         \A t \in Threads : /\ pc'[t] \in SyncLabels <=> pc[t] \in SyncLabels
                            /\ pc[t] \in SyncLabels => hnd'[t] = hnd[t],
         \A h \in Handles : ExecOf(h)' = ExecOf(h)
  PROVE  SyncExact'
<1>1. \A h \in Handles : Syncing(h)' = Syncing(h)
  BY DEF Syncing, SyncLabels
<1>2. \A h \in Handles : SyncsOf(h)' = SyncsOf(h)
  BY DEF SyncsOf, InPipe
<1>3. \A h \in Handles : Outstanding(h)' = Outstanding(h)
  BY <1>1, <1>2 DEF Outstanding, ExecOf
<1> QED BY <1>3 DEF SyncExact

\* Writing a command to the pipe, and reading one.
LEMMA SyncsGrow ==
  ASSUME TypeInv, NEW cmd \in Commands, pipe' = Append(pipe, cmd), NEW h
  PROVE  Cardinality(SyncsOf(h)') = Cardinality(SyncsOf(h)) + One(cmd.h = h /\ cmd.op = "sync")
<1>1. pipe \in Seq(Commands) /\ pipe' \in Seq(Commands)
  BY DEF TypeInv, TypeOK
<1>2. Cardinality(At(Append(pipe, cmd), SyncCmd(h)))
        = Cardinality(At(pipe, SyncCmd(h))) + (IF cmd \in SyncCmd(h) THEN 1 ELSE 0)
  BY <1>1, AtAppend
<1>3. SyncsOf(h) = At(pipe, SyncCmd(h)) /\ SyncsOf(h)' = At(Append(pipe, cmd), SyncCmd(h))
  BY <1>1 DEF SyncsOf, InPipe, At, SyncCmd
<1> QED BY <1>2, <1>3 DEF One, SyncCmd

LEMMA SyncsShrink ==
  ASSUME TypeInv, pipe # <<>>, pipe' = Tail(pipe), NEW h
  PROVE  Cardinality(SyncsOf(h)) = Cardinality(SyncsOf(h)') + One(Head(pipe).h = h /\ Head(pipe).op = "sync")
<1>1. pipe \in Seq(Commands) /\ pipe' \in Seq(Commands) /\ Head(pipe) \in Commands
  BY HeadTailProperties DEF TypeInv, TypeOK
<1>2. Cardinality(At(pipe, SyncCmd(h)))
        = Cardinality(At(Tail(pipe), SyncCmd(h))) + (IF Head(pipe) \in SyncCmd(h) THEN 1 ELSE 0)
  BY <1>1, AtTail
<1>3. SyncsOf(h) = At(pipe, SyncCmd(h)) /\ SyncsOf(h)' = At(Tail(pipe), SyncCmd(h))
  BY <1>1 DEF SyncsOf, InPipe, At, SyncCmd
<1> QED BY <1>1, <1>2, <1>3 DEF One, SyncCmd

\* A thread begins to synchronise, or has sent its command or given it up.
LEMMA SyncingJoins ==
  ASSUME TypeInv, NEW t \in Threads, pc[t] \notin SyncLabels, hnd' = hnd,
         pc' = [pc EXCEPT ![t] = "sync_ref"], NEW h
  PROVE  Cardinality(Syncing(h)') = Cardinality(Syncing(h)) + One(hnd[t] = h)
<1>1. IsFiniteSet(Syncing(h)) /\ Cardinality(Syncing(h)) \in Nat
  BY OutstandingFinite
<1>2. pc \in [Threads -> Labels]
  BY DEF TypeInv, TypeOK
<1>3. t \notin Syncing(h) /\ Syncing(h)' = IF hnd[t] = h THEN Syncing(h) \cup {t} ELSE Syncing(h)
  BY <1>2 DEF Syncing, SyncLabels
<1>4. Cardinality(Syncing(h) \cup {t}) = Cardinality(Syncing(h)) + 1
  BY <1>1, <1>3, FS_AddElement
<1>5. CASE hnd[t] = h
  BY <1>1, <1>3, <1>4, <1>5 DEF One
<1>6. CASE hnd[t] # h
  BY <1>1, <1>3, <1>6 DEF One
<1> QED BY <1>5, <1>6

LEMMA SyncingLeaves ==
  ASSUME TypeInv, NEW t \in Threads, pc[t] \in SyncLabels, Return(t), NEW h \in Handles
  PROVE  Cardinality(Syncing(h)') = Cardinality(Syncing(h)) - One(hnd[t] = h)
<1>1. IsFiniteSet(Syncing(h)) /\ Cardinality(Syncing(h)) \in Nat
  BY OutstandingFinite
<1>2. pc \in [Threads -> Labels] /\ hnd \in [Threads -> Handles \cup {NULL}]
  BY DEF TypeInv, TypeOK
<1>3. Syncing(h)' = Syncing(h) \ {t}
  BY <1>2 DEF Syncing, SyncLabels, Return
<1>4. t \in Syncing(h) <=> hnd[t] = h
  BY DEF Syncing, SyncLabels
<1>5. Cardinality(Syncing(h) \ {t})
        = IF t \in Syncing(h) THEN Cardinality(Syncing(h)) - 1 ELSE Cardinality(Syncing(h))
  BY <1>1, FS_RemoveElement
<1>6. CASE hnd[t] = h
  BY <1>1, <1>3, <1>4, <1>5, <1>6 DEF One
<1>7. CASE hnd[t] # h
  BY <1>1, <1>3, <1>4, <1>5, <1>7 DEF One
<1> QED BY <1>6, <1>7

\* Nothing moves a thread between the functions it is in and the instances it uses
\* but the calls and their returns.
LEMMA CallsOpenStep ==
  ASSUME TypeInv, CallsOpen, [Next]_vars
  PROVE  CallsOpen'
<1> USE DEF TypeInv, TypeOK
<1>1. CASE UNCHANGED <<inst, hnd>>
  BY <1>1 DEF CallsOpen
<1>2. CASE UNCHANGED inst /\ \E t \in Threads : Return(t)
  BY <1>2, Assumptions DEF CallsOpen, Return
<1>3. ASSUME NEW t \in Threads, NEW h \in Handles, Create(t, h) \/ Open(t, h) \/ Close(t, h)
      PROVE  CallsOpen'
  BY <1>3 DEF CallsOpen, Create, Open, Close, Busy
<1>4. ASSUME NEW t \in Threads, NEW h \in Handles, NEW o \in Calls, Call(t, h, o)
      PROVE  CallsOpen'
  BY <1>4 DEF CallsOpen, Call, Usable
<1>5. ASSUME NEW t \in Threads, ThreadStep(t) \/ SpuriousWakeup(t)
      PROVE  CallsOpen'
  BY <1>1, <1>2, <1>5 DEF ThreadStep, AddRef, NoSample, PipeSend, SyncInc, AwaitSync, AwaitStop,
                          SpuriousWakeup, Goto
<1>6. CASE Setup \/ ShutdownSend \/ ShutdownFree
  BY <1>1, <1>6 DEF Setup, ShutdownSend, ShutdownFree, appVars
<1>7. CASE CommandStep
  BY <1>1, <1>7 DEF CommandStep, Recv, PipeEmpty, PlayBound, PlayFree, PlayGrow, PlayNoChannel,
                    StopBound, StopUnbound, Unbind, ExecSync, Unref, ExecExit, appVars
<1>8. CASE UpdateStep
  BY <1>1, <1>8 DEF UpdateStep, UpdateNext, UpdateEnd, UpdateFail, ErrorEvent, UpdateLoops, Spin,
                    vars, UpdateDone, appVars
<1>9. CASE UNCHANGED vars
  BY <1>1, <1>9 DEF vars
<1> QED BY <1>3, <1>4, <1>5, <1>6, <1>7, <1>8, <1>9 DEF Next, AppStep, IoStep

\* The I/O thread's steps, when the command it executes is no synchronisation.
LEMMA SyncIo ==
  ASSUME SyncExact, TypeInv, TypeInv', UNCHANGED <<sync, pipe, hnd>>,
         pc' = pc \/ (\E h : Wake(h, "await_stop_blk", "await_stop")),
         ioPc = "exec" => ioCmd.op # "sync",
         ioPc' = "exec" => ioCmd'.op # "sync"
  PROVE  SyncExact'
<1>1. \A t \in Threads : pc'[t] \in SyncLabels <=> pc[t] \in SyncLabels
  BY DEF Wake, SyncLabels
<1>2. \A h \in Handles : ExecOf(h)' = ExecOf(h)
  BY DEF ExecOf, Executing, One
<1> QED BY <1>1, <1>2, SyncSame

\* The application's steps that move no thread into or out of a synchronisation.
LEMMA SyncApp ==
  ASSUME SyncExact, TypeInv, TypeInv', UNCHANGED <<sync, pipe, ioPc, ioCmd>>,
         \A t \in Threads : /\ pc'[t] \in SyncLabels <=> pc[t] \in SyncLabels
                            /\ pc[t] \in SyncLabels => hnd'[t] = hnd[t]
  PROVE  SyncExact'
<1>1. \A h \in Handles : ExecOf(h)' = ExecOf(h)
  BY DEF ExecOf, Executing, One
<1> QED BY <1>1, SyncSame

\* What a step of a thread inside a call does to the count.
LEMMA SyncThread ==
  ASSUME SyncExact, TypeInv, TypeInv', CallsOpen, NEW t \in Threads,
         ThreadStep(t) \/ SpuriousWakeup(t)
  PROVE  SyncExact'
<1> USE DEF Goto, ioVars
<1>0. /\ pc \in [Threads -> Labels] /\ hnd \in [Threads -> Handles \cup {NULL}]
      /\ sync \in [Handles -> Int]
  BY DEF TypeInv, TypeOK
<1>1. pc[t] # "idle" => hnd[t] \in Handles
  BY <1>0 DEF TypeInv, CallInv
<1>2. CASE AddRef(t)
  BY <1>0, <1>2, SyncApp DEF AddRef, SyncLabels
<1>3. CASE AwaitSync(t)
  BY <1>0, <1>3, SyncApp DEF AwaitSync, Return, SyncLabels
<1>4. CASE AwaitStop(t)
  BY <1>0, <1>4, SyncApp DEF AwaitStop, Return, SyncLabels
<1>5. CASE SpuriousWakeup(t)
  BY <1>0, <1>5, SyncApp DEF SpuriousWakeup, SyncLabels
<1>6. CASE SyncInc(t)
  <2>1. \A h \in Handles : Cardinality(Syncing(h)') = Cardinality(Syncing(h)) + One(hnd[t] = h)
    BY <1>6, SyncingJoins DEF SyncInc, SyncLabels
  <2>2. \A h \in Handles : SyncsOf(h)' = SyncsOf(h) /\ ExecOf(h)' = ExecOf(h)
    BY <1>6 DEF SyncInc, SyncsOf, InPipe, ExecOf, Executing, One
  <2>3. \A h \in Handles : sync'[h] = sync[h] + One(hnd[t] = h)
    BY <1>0, <1>6 DEF SyncInc, One
  <2>4. \A h \in Handles : /\ Cardinality(Syncing(h)) \in Nat /\ Cardinality(SyncsOf(h)) \in Nat
                           /\ ExecOf(h) \in 0..1
    BY OutstandingFinite
  <2> QED BY <1>0, <2>1, <2>2, <2>3, <2>4, SyncBalance DEF One
<1>7. CASE NoSample(t) /\ pc[t] = "cmd_ref"
  BY <1>0, <1>7, SyncApp DEF NoSample, SyncLabels
<1>8. CASE NoSample(t) /\ pc[t] = "sync_ref"
  <2>1. \A h \in Handles : Cardinality(Syncing(h)') = Cardinality(Syncing(h)) - One(hnd[t] = h)
    BY <1>8, SyncingLeaves DEF NoSample, SyncLabels
  <2>2. \A h \in Handles : SyncsOf(h)' = SyncsOf(h) /\ ExecOf(h)' = ExecOf(h) /\ sync'[h] = sync[h]
    BY <1>8 DEF NoSample, SyncsOf, InPipe, ExecOf, Executing, One
  <2>3. ~ChecksOpen
    BY <1>1, <1>8 DEF NoSample, CallsOpen
  <2>4. \A h \in Handles : /\ Cardinality(Syncing(h)) \in Nat /\ Cardinality(SyncsOf(h)) \in Nat
                           /\ ExecOf(h) \in 0..1
    BY OutstandingFinite
  <2> QED BY <1>0, <2>1, <2>2, <2>3, <2>4, SyncBalance DEF One
<1>9. CASE PipeSend(t) /\ pc[t] = "cmd_send"
  <2>1. op[t] \in Requests /\ [op |-> op[t], h |-> hnd[t]] \in Commands
    BY <1>1, <1>9 DEF TypeInv, CallInv, Commands
  <2>2. \A h \in Handles : Cardinality(SyncsOf(h)') = Cardinality(SyncsOf(h))
    <3>1. ASSUME NEW h \in Handles PROVE Cardinality(SyncsOf(h)') = Cardinality(SyncsOf(h)) + 0
      BY <1>9, <2>1, SyncsGrow DEF PipeSend, Requests, One
    <3>2. ASSUME NEW h \in Handles PROVE Cardinality(SyncsOf(h)) \in Nat
      BY OutstandingFinite
    <3> QED BY <3>1, <3>2
  <2>3. \A h \in Handles : Syncing(h)' = Syncing(h) /\ ExecOf(h)' = ExecOf(h) /\ sync'[h] = sync[h]
    BY <1>0, <1>9 DEF PipeSend, Syncing, ExecOf, Executing, One
  <2>4. \A h \in Handles : /\ Cardinality(Syncing(h)) \in Nat /\ Cardinality(SyncsOf(h)) \in Nat
                           /\ ExecOf(h) \in 0..1
    BY OutstandingFinite
  <2> QED BY <1>0, <2>2, <2>3, <2>4, SyncBalance
<1>10. CASE PipeSend(t) /\ pc[t] = "sync_send"
  <2>1. [op |-> "sync", h |-> hnd[t]] \in Commands
    BY <1>1, <1>10 DEF Commands
  <2>2. \A h \in Handles : Cardinality(SyncsOf(h)') = Cardinality(SyncsOf(h)) + One(hnd[t] = h)
    BY <1>10, <2>1, SyncsGrow DEF PipeSend, One
  <2>3. \A h \in Handles : Cardinality(Syncing(h)') = Cardinality(Syncing(h)) - One(hnd[t] = h)
    BY <1>10, SyncingLeaves DEF PipeSend, SyncLabels
  <2>4. \A h \in Handles : ExecOf(h)' = ExecOf(h) /\ sync'[h] = sync[h]
    BY <1>10 DEF PipeSend, ExecOf, Executing, One
  <2>5. \A h \in Handles : /\ Cardinality(Syncing(h)) \in Nat /\ Cardinality(SyncsOf(h)) \in Nat
                           /\ ExecOf(h) \in 0..1
    BY OutstandingFinite
  <2> QED BY <1>0, <2>2, <2>3, <2>4, <2>5, SyncBalance DEF One
<1> QED BY <1>2, <1>3, <1>4, <1>5, <1>6, <1>7, <1>8, <1>9, <1>10
        DEF ThreadStep, NoSample, PipeSend

\* What a step of the I/O thread does to it.
LEMMA SyncIoStep ==
  ASSUME SyncExact, ControlInv, TypeInv', IoStep
  PROVE  SyncExact'
<1> USE DEF appVars
<1>0. /\ TypeInv /\ pc \in [Threads -> Labels] /\ sync \in [Handles -> Int]
      /\ \A h \in Handles : /\ Cardinality(Syncing(h)) \in Nat /\ Cardinality(SyncsOf(h)) \in Nat
                            /\ Cardinality(SyncsOf(h)') \in Nat /\ ExecOf(h) \in 0..1
  <2>1. TypeInv /\ pc \in [Threads -> Labels] /\ sync \in [Handles -> Int]
    BY DEF ControlInv, TypeInv, TypeOK
  <2>2. ASSUME NEW h \in Handles PROVE Cardinality(SyncsOf(h)') \in Nat
    <3>1. pipe' \in Seq(Commands)
      BY DEF TypeInv, TypeOK
    <3>2. SyncsOf(h)' = At(pipe', SyncCmd(h))
      BY <3>1 DEF SyncsOf, InPipe, At, SyncCmd
    <3> QED BY <3>1, <3>2, AtFinite
  <2> QED BY <2>1, <2>2, OutstandingFinite
<1>1. CASE Recv
  <2>1. /\ pipe # <<>> /\ pipe' = Tail(pipe) /\ UNCHANGED <<sync, pc, hnd>>
        /\ ioPc = "pipe" /\ ioPc' = "exec" /\ ioCmd' = Head(pipe)
    BY <1>1 DEF Recv
  <2>2. \A h \in Handles : /\ ExecOf(h) = 0
                           /\ ExecOf(h)' = One(Head(pipe).h = h /\ Head(pipe).op = "sync")
    BY <2>1 DEF ExecOf, Executing, One
  <2>3. \A h \in Handles : Syncing(h)' = Syncing(h)
    BY <2>1 DEF Syncing
  <2>4. \A h \in Handles : Cardinality(SyncsOf(h))
          = Cardinality(SyncsOf(h)') + One(Head(pipe).h = h /\ Head(pipe).op = "sync")
    BY <1>0, <2>1, SyncsShrink
  <2>5. ASSUME NEW h \in Handles
        PROVE  sync'[h] - sync[h]
                 = Cardinality(Syncing(h)') - Cardinality(Syncing(h))
                   + Cardinality(SyncsOf(h)') - Cardinality(SyncsOf(h)) + ExecOf(h)' - ExecOf(h)
    <3> DEFINE n == One(Head(pipe).h = h /\ Head(pipe).op = "sync")
    <3>1. /\ Cardinality(SyncsOf(h)) = Cardinality(SyncsOf(h)') + n
          /\ ExecOf(h) = 0 /\ ExecOf(h)' = n
          /\ Syncing(h)' = Syncing(h) /\ sync'[h] = sync[h]
      BY <2>1, <2>2, <2>3, <2>4
    <3>2. /\ Cardinality(Syncing(h)) \in Nat /\ Cardinality(SyncsOf(h)') \in Nat
          /\ n \in Nat /\ sync[h] \in Int
      BY <1>0 DEF One
    <3> HIDE DEF n
    <3> QED BY <3>1, <3>2
  <2>6. \A h \in Handles : sync'[h] - sync[h] \in Int
    BY <1>0, <2>1
  <2> QED BY <1>0, <2>5, <2>6, SyncBalance
<1>2. CASE ExecSync
  <2>1. /\ ioPc = "exec" /\ ioCmd.op = "sync" /\ ioPc' = "unref" /\ UNCHANGED <<pipe, hnd>>
        /\ sync' = [sync EXCEPT ![ioCmd.h] = @ - 1]
        /\ pc' = pc \/ Wake(ioCmd.h, "await_sync_blk", "await_sync")
    BY <1>2 DEF ExecSync, Exec, RecvSync
  <2>2. \A h \in Handles : ExecOf(h) = One(ioCmd.h = h) /\ ExecOf(h)' = 0
    BY <2>1 DEF ExecOf, Executing, One
  <2>3. \A h \in Handles : Syncing(h)' = Syncing(h)
    BY <2>1 DEF Syncing, Wake
  <2>4. \A h \in Handles : SyncsOf(h)' = SyncsOf(h)
    BY <2>1 DEF SyncsOf, InPipe
  <2>5. \A h \in Handles : sync'[h] = sync[h] - One(ioCmd.h = h)
    BY <1>0, <2>1 DEF One
  <2> QED BY <1>0, <2>2, <2>3, <2>4, <2>5, SyncBalance DEF One
<1>3. CASE PipeEmpty \/ UpdateNext \/ ErrorEvent \/ UpdateLoops \/ Spin \/ UpdateDone
  BY <1>0, <1>3, SyncIo
  DEF PipeEmpty, UpdateNext, ErrorEvent, UpdateLoops, Spin, vars, UpdateDone, AtChannel
<1>4. CASE PlayBound \/ PlayFree
  BY <1>0, <1>4, SyncIo DEF PlayBound, PlayFree, Exec, Start, Started
<1>5. CASE PlayGrow \/ PlayNoChannel \/ StopUnbound
  BY <1>0, <1>5, SyncIo DEF PlayGrow, PlayNoChannel, StopUnbound, Exec, ioVars
<1>6. CASE StopBound
  BY <1>0, <1>6, SyncIo DEF StopBound, Exec, StopChannel, Stopped
<1>7. CASE Unbind \/ Unref
  BY <1>0, <1>7, SyncIo DEF Unbind, Unref
<1>8. CASE ExecExit
  BY <1>0, <1>8, SyncIo DEF ExecExit, Exec
<1>9. CASE UpdateFail \/ \E h \in Handles : UpdateEnd(h)
  BY <1>0, <1>9, SyncIo DEF UpdateEnd, UpdateFail, AtChannel, StopChannel, Stopped
<1> QED BY <1>1, <1>2, <1>3, <1>4, <1>5, <1>6, <1>7, <1>8, <1>9
        DEF IoStep, CommandStep, UpdateStep

\* What the application's other steps do to it.
LEMMA SyncAppStep ==
  ASSUME SyncExact, ControlInv, TypeInv', CallsOpen, AppStep
  PROVE  SyncExact'
<1> USE DEF appVars, ioVars
<1>0. TypeInv /\ pc \in [Threads -> Labels]
  BY DEF ControlInv, TypeInv, TypeOK
<1>1. CASE Setup
  <2>1. ioCmd = NoCmd
    BY <1>1 DEF Setup, ControlInv, ShutdownInv, IoInv
  <2> QED BY <1>0, <1>1, <2>1, SyncIo DEF Setup, NoCmd
<1>2. CASE ShutdownSend
  <2>1. [op |-> "exit", h |-> NULL] \in Commands
    BY DEF Commands
  <2>2. \A h \in Handles : Cardinality(SyncsOf(h)') = Cardinality(SyncsOf(h)) /\ Cardinality(SyncsOf(h)) \in Nat
    <3>1. ASSUME NEW h \in Handles PROVE Cardinality(SyncsOf(h)') = Cardinality(SyncsOf(h)) + 0
      BY <1>0, <1>2, <2>1, SyncsGrow DEF ShutdownSend, One
    <3>2. ASSUME NEW h \in Handles PROVE Cardinality(SyncsOf(h)) \in Nat
      BY <1>0, OutstandingFinite
    <3> QED BY <3>1, <3>2
  <2>3. \A h \in Handles : Syncing(h)' = Syncing(h) /\ ExecOf(h)' = ExecOf(h) /\ sync'[h] = sync[h]
    BY <1>2 DEF ShutdownSend, Syncing, ExecOf, Executing, One
  <2>4. \A h \in Handles : /\ Cardinality(Syncing(h)) \in Nat /\ ExecOf(h) \in 0..1
                           /\ sync[h] \in Int
    BY <1>0, OutstandingFinite DEF TypeInv, TypeOK
  <2> QED BY <1>0, <2>2, <2>3, <2>4, SyncBalance
<1>3. CASE ShutdownFree
  <2>1. pipe = <<>> /\ ioPc = "none"
    BY <1>3 DEF ShutdownFree, ControlInv, ShutdownInv
  <2> QED BY <1>0, <1>3, <2>1, SyncIo DEF ShutdownFree
<1>4. ASSUME NEW t \in Threads, NEW h \in Handles, Create(t, h) \/ Open(t, h) \/ Close(t, h)
      PROVE  SyncExact'
  BY <1>0, <1>4, SyncApp DEF Create, Open, Close
<1>5. ASSUME NEW t \in Threads, NEW h \in Handles, NEW o \in Calls, Call(t, h, o)
      PROVE  SyncExact'
  BY <1>0, <1>5, SyncApp DEF Call, Idle, SyncLabels
<1>6. ASSUME NEW t \in Threads, ThreadStep(t) \/ SpuriousWakeup(t)
      PROVE  SyncExact'
  BY <1>0, <1>6, SyncThread
<1> QED BY <1>1, <1>2, <1>3, <1>4, <1>5, <1>6 DEF AppStep

LEMMA CountCorrect == Spec => [](SyncExact /\ CallsOpen)
<1>1. Init => SyncExact /\ CallsOpen
  <2> SUFFICES ASSUME Init PROVE SyncExact /\ CallsOpen
    OBVIOUS
  <2>1. \A h \in Handles : Syncing(h) = {} /\ SyncsOf(h) = {}
    BY DEF Init, Syncing, SyncsOf, InPipe
  <2>2. \A h \in Handles : ~(Executing(h) /\ ioCmd.op = "sync") /\ sync[h] = 0
    BY DEF Init, Executing
  <2>3. \A h \in Handles : Outstanding(h) = 0
    BY <2>1, <2>2, FS_EmptySet DEF Outstanding, One
  <2>4. CallsOpen
    BY Assumptions DEF Init, CallsOpen
  <2> QED BY <2>2, <2>3, <2>4 DEF SyncExact
<1>2. ControlInv /\ ControlInv' /\ SyncExact /\ CallsOpen /\ [Next]_vars
        => SyncExact' /\ CallsOpen'
  <2> SUFFICES ASSUME ControlInv, ControlInv', SyncExact, CallsOpen, [Next]_vars
               PROVE  SyncExact' /\ CallsOpen'
    OBVIOUS
  <2>1. TypeInv /\ TypeInv'
    BY DEF ControlInv
  <2>2. CallsOpen'
    BY <2>1, CallsOpenStep
  <2>3. CASE UNCHANGED vars
    BY <2>1, <2>2, <2>3, SyncApp DEF vars
  <2>4. CASE AppStep
    BY <2>1, <2>2, <2>4, SyncAppStep
  <2>5. CASE IoStep
    BY <2>1, <2>2, <2>5, SyncIoStep
  <2> QED BY <2>3, <2>4, <2>5 DEF Next
<1> QED BY <1>1, <1>2, ControlCorrect, PTL DEF Spec

\* audio_cmd_sync counts the synchronisations that have yet to be received: it is
\* never below their number, and exactly their number when only opened instances
\* are used.
THEOREM SyncExactCorrect == Spec => []SyncExact
BY CountCorrect, PTL

-----------------------------------------------------------------------------
(* close() after wait(), by the only thread that uses the handle.          *)

OneUser == \A h \in Handles : \A t, u \in Users[h] : t = u

Own == \A t \in Threads : hnd[t] \in Handles => t \in Users[hnd[t]]

\* The callers that have yet to send a request, or the synchronisation after it.
Finishing == {"sync_inc", "sync_ref", "sync_send"}
Sending   == {"cmd_ref", "cmd_send"} \cup Finishing

RequestOf(cmd, h) == cmd.h = h /\ cmd.op \in Requests
SyncOf(cmd, h)    == cmd.h = h /\ cmd.op = "sync"

\* A request on its way or in execution is followed by a synchronisation of its
\* instance, in the pipe ...
InTrail(h) ==
  /\ \A i \in DOMAIN pipe :
       RequestOf(pipe[i], h) => \E j \in DOMAIN pipe : i < j /\ SyncOf(pipe[j], h)
  /\ Executing(h) /\ ioCmd.op \in Requests => \E j \in DOMAIN pipe : SyncOf(pipe[j], h)

\* ... or about to be sent.
Trailed ==
  \A h \in Handles : (\E t \in Threads : hnd[t] = h /\ pc[t] \in Finishing) \/ InTrail(h)

Commanded(h) == InPipe(h) # {} \/ Executing(h)

\* A wait() that has synchronised leaves no command behind, and a request that is
\* being made is not a settled one.
Waited ==
  \A t \in Threads :
    /\ pc[t] \in {"await_stop", "await_stop_blk"} => ~Commanded(hnd[t])
    /\ pc[t] \in Sending => ~settled[hnd[t]]

Settled ==
  \A h \in Handles : (settled[h] => Quiet(h)) /\ (inst[h] = "closed" => settled[h])

\* Two threads in calls on the same handle are the same.
LEMMA OwnerAlone ==
  ASSUME OneUser, Own, NEW t \in Threads, NEW u \in Threads, hnd[t] \in Handles, hnd[u] = hnd[t]
  PROVE  t = u
BY DEF OneUser, Own

LEMMA OwnStep ==
  ASSUME TypeInv, Own, [Next]_vars
  PROVE  Own'
<1> USE DEF TypeInv, TypeOK
<1>1. CASE UNCHANGED hnd
  BY <1>1 DEF Own
<1>2. CASE \E t \in Threads : Return(t)
  BY <1>2, Assumptions DEF Own, Return
<1>3. ASSUME NEW t \in Threads, NEW h \in Handles, Create(t, h) \/ Open(t, h) \/ Close(t, h)
      PROVE  Own'
  BY <1>1, <1>3 DEF Create, Open, Close
<1>4. ASSUME NEW t \in Threads, NEW h \in Handles, NEW o \in Calls, Call(t, h, o)
      PROVE  Own'
  BY <1>4 DEF Own, Call
<1>5. ASSUME NEW t \in Threads, ThreadStep(t) \/ SpuriousWakeup(t)
      PROVE  Own'
  BY <1>1, <1>2, <1>5 DEF ThreadStep, AddRef, NoSample, PipeSend, SyncInc, AwaitSync, AwaitStop,
                          SpuriousWakeup, Goto
<1>6. CASE Setup \/ ShutdownSend \/ ShutdownFree
  BY <1>1, <1>6 DEF Setup, ShutdownSend, ShutdownFree, appVars
<1>7. CASE CommandStep
  BY <1>1, <1>7 DEF CommandStep, Recv, PipeEmpty, PlayBound, PlayFree, PlayGrow, PlayNoChannel,
                    StopBound, StopUnbound, Unbind, ExecSync, Unref, ExecExit, appVars
<1>8. CASE UpdateStep
  BY <1>1, <1>8 DEF UpdateStep, UpdateNext, UpdateEnd, UpdateFail, ErrorEvent, UpdateLoops, Spin,
                    vars, UpdateDone, appVars
<1>9. CASE UNCHANGED vars
  BY <1>1, <1>9 DEF vars
<1> QED BY <1>3, <1>4, <1>5, <1>6, <1>7, <1>8, <1>9 DEF Next, AppStep, IoStep

-----------------------------------------------------------------------------
(* What the steps do to the commands of a handle.                          *)

\* The pipe and the command in execution, for everything but the sender of a
\* command and the reader of the pipe.
CommandsStay ==
  /\ pipe' = pipe \/ (pipe' = <<>> /\ ioPc' # "exec")
  /\ ioPc' = "exec" => ioPc = "exec" /\ ioCmd' = ioCmd

\* An EXIT is added to the pipe.
ExitSent == pipe' = Append(pipe, [op |-> "exit", h |-> NULL]) /\ UNCHANGED <<ioPc, ioCmd>>

LEMMA CommandMoves ==
  ASSUME ControlInv, [Next]_vars
  PROVE  \/ CommandsStay \/ ExitSent \/ Recv
         \/ \E t \in Threads : PipeSend(t)
<1> USE DEF CommandsStay, appVars, ioVars
<1>1. CASE Setup
  BY <1>1 DEF Setup
<1>2. CASE ShutdownSend
  BY <1>2 DEF ShutdownSend, ExitSent
<1>3. CASE ShutdownFree
  BY <1>3 DEF ShutdownFree
<1>4. ASSUME NEW t \in Threads, NEW h \in Handles,
             Create(t, h) \/ Open(t, h) \/ Close(t, h) \/ \E o \in Calls : Call(t, h, o)
      PROVE  CommandsStay
  BY <1>4 DEF Create, Open, Close, Call
<1>5. ASSUME NEW t \in Threads, ThreadStep(t) \/ SpuriousWakeup(t), ~PipeSend(t)
      PROVE  CommandsStay
  BY <1>5 DEF ThreadStep, AddRef, NoSample, SyncInc, AwaitSync, AwaitStop, SpuriousWakeup
<1>6. CASE CommandStep /\ ~Recv
  BY <1>6 DEF CommandStep, PipeEmpty, PlayBound, PlayFree, PlayGrow, PlayNoChannel,
              StopBound, StopUnbound, Unbind, ExecSync, Unref, ExecExit
<1>7. CASE UpdateStep
  BY <1>7 DEF UpdateStep, UpdateNext, UpdateEnd, UpdateFail, ErrorEvent, UpdateLoops, Spin,
              vars, UpdateDone
<1>8. CASE UNCHANGED vars
  BY <1>8 DEF vars
<1> QED BY <1>1, <1>2, <1>3, <1>4, <1>5, <1>6, <1>7, <1>8 DEF Next, AppStep, IoStep

\* A handle without commands gets one only from a caller.
LEMMA NoCommandStep ==
  ASSUME ControlInv, [Next]_vars, NEW h \in Handles, ~Commanded(h),
         \A t \in Threads : PipeSend(t) => hnd[t] # h
  PROVE  ~Commanded(h)'
<1>0. pipe \in Seq(Commands) /\ NULL \notin Handles
  BY Assumptions DEF ControlInv, TypeInv, TypeOK
<1>1. \A i \in DOMAIN pipe : pipe[i].h # h
  BY DEF Commanded, InPipe
<1>2. ~Executing(h)
  BY DEF Commanded
<1>3. CASE CommandsStay
  BY <1>1, <1>2, <1>3 DEF CommandsStay, Commanded, InPipe, Executing
<1>4. ASSUME NEW cmd, cmd.h # h, pipe' = Append(pipe, cmd), UNCHANGED <<ioPc, ioCmd>>
      PROVE  ~Commanded(h)'
  <2>1. \A i \in DOMAIN pipe' : pipe'[i].h # h
    BY <1>0, <1>1, <1>4
  <2> QED BY <1>2, <1>4, <2>1 DEF Commanded, InPipe, Executing
<1>5. CASE ExitSent
  BY <1>0, <1>4, <1>5 DEF ExitSent
<1>6. CASE Recv
  <2>1. pipe # <<>> /\ pipe' = Tail(pipe) /\ ioCmd' = Head(pipe)
    BY <1>6 DEF Recv
  <2>2. Head(pipe) = pipe[1] /\ 1 \in DOMAIN pipe
    BY <1>0, <2>1
  <2>3. \A i \in DOMAIN pipe' : pipe'[i].h # h
    BY <1>0, <1>1, <2>1
  <2> QED BY <1>1, <2>1, <2>2, <2>3 DEF Commanded, InPipe, Executing
<1>7. ASSUME NEW t \in Threads, PipeSend(t) PROVE ~Commanded(h)'
  <2>1. hnd[t] # h /\ UNCHANGED <<ioPc, ioCmd>>
    BY <1>7 DEF PipeSend, ioVars
  <2>2. CASE pc[t] = "cmd_send"
    BY <1>4, <1>7, <2>1, <2>2 DEF PipeSend
  <2>3. CASE pc[t] = "sync_send"
    BY <1>4, <1>7, <2>1, <2>3 DEF PipeSend
  <2> QED BY <1>7, <2>2, <2>3 DEF PipeSend
<1> QED BY <1>3, <1>5, <1>6, <1>7, CommandMoves

\* A silent handle without commands stays silent.
LEMMA QuietStep ==
  ASSUME IInv, [Next]_vars, NEW h \in Handles, Quiet(h),
         \A t \in Threads : PipeSend(t) => hnd[t] # h
  PROVE  Quiet(h)'
<1> USE Assumptions
<1>0. ControlInv
  BY DEF IInv, ControlInv, TypeInv
<1>1. ~Commanded(h) /\ \A c \in DOMAIN chans : chans[c].sample = h => ~Active(c)
  BY DEF Quiet, Commanded, BoundTo
<1>2. ~Commanded(h)'
  BY <1>0, <1>1, NoCommandStep
<1>3. ChannelChange
  <2>1. CASE Next
    BY <2>1, NextChanges
  <2>2. CASE UNCHANGED vars
    BY <2>2 DEF vars, Same, ChannelChange
  <2> QED BY <2>1, <2>2
<1>4. \A c \in DOMAIN chans' : chans'[c].sample = h => ~Active(c)'
  <2>1. CASE Same
    BY <1>1, <2>1 DEF Same, Active
  <2>2. CASE Renewed
    BY <2>2 DEF Renewed, FreeChannel
  <2>3. ASSUME NEW c \in DOMAIN chans, NEW k \in Handles, NEW m \in {"playing", "looping"}, Plays(c, k, m)
        PROVE  \A d \in DOMAIN chans' : chans'[d].sample = h => ~Active(d)'
    <3>1. k # h
      BY <1>1, <2>3 DEF Plays, Commanded
    <3>2. \A d \in DOMAIN chans : d # c => (Active(d)' <=> Active(d))
      BY <2>3, PlaysChannels DEF Active
    <3> QED BY <1>1, <2>3, <3>1, <3>2, PlaysChannels
  <2>4. ASSUME NEW k \in Handles, Grows(k)
        PROVE  \A d \in DOMAIN chans' : chans'[d].sample = h => ~Active(d)'
    <3>1. \A d \in DOMAIN chans : Active(d)' <=> Active(d)
      BY <2>4, GrowsChannels DEF Active
    <3> QED BY <1>1, <2>4, <3>1, GrowsChannels DEF FreeChannel
  <2>5. ASSUME NEW c \in DOMAIN chans, Stops(c)
        PROVE  \A d \in DOMAIN chans' : chans'[d].sample = h => ~Active(d)'
    <3>1. \A d \in DOMAIN chans : d # c => (Active(d)' <=> Active(d))
      BY <2>5, StopsChannels DEF Active
    <3> QED BY <1>1, <2>5, <3>1, StopsChannels
  <2>6. ASSUME NEW c \in DOMAIN chans, Frees(c)
        PROVE  \A d \in DOMAIN chans' : chans'[d].sample = h => ~Active(d)'
    <3>1. \A d \in DOMAIN chans : d # c => (Active(d)' <=> Active(d))
      BY <2>6, FreesChannels DEF Active
    <3> QED BY <1>1, <2>6, <3>1, FreesChannels
  <2> QED BY <1>3, <2>1, <2>2, <2>3, <2>4, <2>5, <2>6 DEF ChannelChange
<1> QED BY <1>2, <1>4 DEF Quiet, Commanded, BoundTo

-----------------------------------------------------------------------------
(* What the steps do to a thread, and to what is settled.                  *)

Stays(t) == pc'[t] = pc[t] /\ hnd'[t] = hnd[t] /\ op'[t] = op[t]
Wakes(t) == /\ hnd'[t] = hnd[t] /\ op'[t] = op[t]
            /\ \/ pc[t] = "await_sync_blk" /\ pc'[t] = "await_sync"
               \/ pc[t] = "await_stop_blk" /\ pc'[t] = "await_stop"

LEMMA ThreadMoves ==
  ASSUME TypeInv, [Next]_vars, NEW t \in Threads
  PROVE  \/ Stays(t) \/ Wakes(t) \/ ThreadStep(t)
         \/ \E h \in Handles, o \in Calls : Call(t, h, o)
<1> USE DEF Stays, Wakes, appVars
<1>0. /\ pc \in [Threads -> Labels] /\ hnd \in [Threads -> Handles \cup {NULL}]
      /\ op \in [Threads -> Requests \cup Queries \cup {"none"}]
  BY DEF TypeInv, TypeOK
<1>1. CASE Setup \/ ShutdownSend \/ ShutdownFree
  BY <1>1 DEF Setup, ShutdownSend, ShutdownFree
<1>2. ASSUME NEW u \in Threads, NEW h \in Handles, Create(u, h) \/ Open(u, h) \/ Close(u, h)
      PROVE  Stays(t)
  BY <1>2 DEF Create, Open, Close
<1>3. ASSUME NEW u \in Threads, NEW h \in Handles, NEW o \in Calls, Call(u, h, o), u # t
      PROVE  Stays(t)
  BY <1>0, <1>3 DEF Call
<1>4. ASSUME NEW u \in Threads, ThreadStep(u), u # t
      PROVE  Stays(t)
  BY <1>0, <1>4 DEF ThreadStep, AddRef, NoSample, PipeSend, SyncInc, AwaitSync, AwaitStop, Goto, Return
<1>5. ASSUME NEW u \in Threads, SpuriousWakeup(u)
      PROVE  Stays(t) \/ Wakes(t)
  BY <1>0, <1>5 DEF SpuriousWakeup, Goto
<1>6. ASSUME hnd' = hnd, op' = op, pc' = pc \/ \E h : Wake(h, "await_stop_blk", "await_stop")
                                        \/ Wake(h, "await_sync_blk", "await_sync")
      PROVE  Stays(t) \/ Wakes(t)
  BY <1>0, <1>6 DEF Wake
<1>7. CASE CommandStep
  BY <1>6, <1>7 DEF CommandStep, Recv, PipeEmpty, PlayBound, PlayFree, PlayGrow, PlayNoChannel,
     StopBound, StopUnbound, Unbind, ExecSync, Unref, ExecExit, Start, Started, StopChannel, Stopped,
     RecvSync
<1>8. CASE UpdateStep
  BY <1>6, <1>8 DEF UpdateStep, UpdateNext, UpdateEnd, UpdateFail, ErrorEvent, UpdateLoops, Spin,
                    vars, UpdateDone, StopChannel, Stopped
<1>9. CASE UNCHANGED vars
  BY <1>9 DEF vars
<1> QED BY <1>1, <1>2, <1>3, <1>4, <1>5, <1>7, <1>8, <1>9 DEF Next, AppStep, IoStep

\* A handle becomes settled when wait() returns, and stops being so in a call.
LEMMA SettledMoves ==
  ASSUME TypeInv, [Next]_vars, NEW h \in Handles
  PROVE  \/ settled'[h] = settled[h]
         \/ ~settled'[h] /\ inst[h] # "closed" /\ inst' = inst
         \/ \E t \in Threads : AwaitStop(t) /\ hnd[t] = h /\ ~playing[h]
<1> USE DEF appVars
<1>0. settled \in [Handles -> BOOLEAN] /\ hnd \in [Threads -> Handles \cup {NULL}]
  BY DEF TypeInv, TypeOK
<1>1. CASE Setup \/ ShutdownSend \/ ShutdownFree
  BY <1>1 DEF Setup, ShutdownSend, ShutdownFree
<1>2. ASSUME NEW t \in Threads, NEW k \in Handles, Create(t, k) \/ Open(t, k) \/ Close(t, k)
      PROVE  settled' = settled
  BY <1>2 DEF Create, Open, Close
<1>3. ASSUME NEW t \in Threads, NEW k \in Handles, NEW o \in Calls, Call(t, k, o)
      PROVE  settled'[h] = settled[h] \/ (~settled'[h] /\ inst[h] # "closed" /\ inst' = inst)
  <2>1. settled' = [settled EXCEPT ![k] = settled[k] /\ o \notin Requests] /\ Usable(k) /\ inst' = inst
    BY <1>3 DEF Call
  <2>2. CASE k = h /\ o \in Requests
    BY <1>0, <2>1, <2>2 DEF Usable
  <2>3. CASE k # h
    BY <1>0, <2>1, <2>3
  <2>4. CASE k = h /\ o \notin Requests
    <3>1. settled'[h] = (settled[h] /\ o \notin Requests)
      BY <1>0, <2>1, <2>4
    <3>2. settled[h] \in BOOLEAN
      BY <1>0
    <3>3. (settled[h] /\ o \notin Requests) = settled[h]
      BY <2>4, <3>2, Zenon
    <3> QED BY <3>1, <3>3
  <2> QED BY <2>2, <2>3, <2>4
<1>4. ASSUME NEW t \in Threads, AwaitStop(t)
      PROVE  settled'[h] = settled[h] \/ (hnd[t] = h /\ ~playing[h])
  <2>1. CASE playing[hnd[t]]
    BY <1>4, <2>1 DEF AwaitStop
  <2>2. CASE ~playing[hnd[t]] /\ hnd[t] # h
    BY <1>0, <1>4, <2>2 DEF AwaitStop
  <2> QED BY <2>1, <2>2
<1>5. ASSUME NEW t \in Threads, ThreadStep(t) \/ SpuriousWakeup(t), ~AwaitStop(t)
      PROVE  settled' = settled
  BY <1>5 DEF ThreadStep, AddRef, NoSample, PipeSend, SyncInc, AwaitSync, SpuriousWakeup
<1>6. CASE CommandStep
  BY <1>6 DEF CommandStep, Recv, PipeEmpty, PlayBound, PlayFree, PlayGrow, PlayNoChannel,
     StopBound, StopUnbound, Unbind, ExecSync, Unref, ExecExit
<1>7. CASE UpdateStep
  BY <1>7 DEF UpdateStep, UpdateNext, UpdateEnd, UpdateFail, ErrorEvent, UpdateLoops, Spin,
              vars, UpdateDone
<1>8. CASE UNCHANGED vars
  BY <1>8 DEF vars
<1> QED BY <1>1, <1>2, <1>3, <1>4, <1>5, <1>6, <1>7, <1>8 DEF Next, AppStep, IoStep

\* An instance that is closed was closed by close(), of a settled handle if the
\* application waits.
LEMMA ClosedBy ==
  ASSUME TypeInv, [Next]_vars, NEW h \in Handles, inst'[h] = "closed", inst[h] # "closed"
  PROVE  (WaitBeforeClose => settled[h]) /\ settled' = settled
<1> USE DEF appVars
<1>0. inst \in [Handles -> {"none", "created", "open", "closed"}]
  BY DEF TypeInv, TypeOK
<1>1. ASSUME inst' = inst PROVE FALSE
  BY <1>1
<1>2. CASE Setup \/ ShutdownSend \/ ShutdownFree
  BY <1>1, <1>2 DEF Setup, ShutdownSend, ShutdownFree
<1>3. ASSUME NEW t \in Threads, NEW k \in Handles, Create(t, k) \/ Open(t, k) \/ Close(t, k)
      PROVE  (WaitBeforeClose => settled[h]) /\ settled' = settled
  BY <1>0, <1>3 DEF Create, Open, Close
<1>4. ASSUME NEW t \in Threads, NEW k \in Handles, NEW o \in Calls, Call(t, k, o)
      PROVE  FALSE
  BY <1>1, <1>4 DEF Call
<1>5. ASSUME NEW t \in Threads, ThreadStep(t) \/ SpuriousWakeup(t)
      PROVE  FALSE
  BY <1>1, <1>5 DEF ThreadStep, AddRef, NoSample, PipeSend, SyncInc, AwaitSync, AwaitStop, SpuriousWakeup
<1>6. ASSUME IoStep PROVE FALSE
  <2>1. CASE CommandStep
    BY <1>1, <2>1 DEF CommandStep, Recv, PipeEmpty, PlayBound, PlayFree, PlayGrow, PlayNoChannel,
       StopBound, StopUnbound, Unbind, ExecSync, Unref, ExecExit
  <2>2. CASE UpdateStep
    BY <1>1, <2>2 DEF UpdateStep, UpdateNext, UpdateEnd, UpdateFail, ErrorEvent, UpdateLoops, Spin,
                      vars, UpdateDone
  <2> QED BY <1>6, <2>1, <2>2 DEF IoStep
<1>7. ASSUME UNCHANGED vars PROVE FALSE
  BY <1>1, <1>7 DEF vars
<1> QED BY <1>2, <1>3, <1>4, <1>5, <1>6, <1>7 DEF Next, AppStep

-----------------------------------------------------------------------------
(* The invariant of an application that waits before it closes.            *)

\* A synchronisation at the end of the pipe follows everything.
LEMMA SyncTrails ==
  ASSUME pipe \in Seq(Commands), NEW h \in Handles,
         pipe' = Append(pipe, [op |-> "sync", h |-> h])
  PROVE  InTrail(h)'
<1> DEFINE n == Len(pipe) + 1
<1>1. /\ n \in DOMAIN pipe' /\ pipe'[n].h = h /\ pipe'[n].op = "sync" /\ DOMAIN pipe' = 1..n
      /\ n \in Nat
  OBVIOUS
<1>2. \A i \in DOMAIN pipe' : i < n \/ ~RequestOf(pipe'[i], h)
  BY <1>1 DEF RequestOf, Requests
<1>3. SyncOf(pipe'[n], h)
  BY <1>1 DEF SyncOf
<1> QED BY <1>1, <1>2, <1>3 DEF InTrail

\* Any command but a request of h keeps what follows those of h.
LEMMA TrailGrows ==
  ASSUME pipe \in Seq(Commands), NEW h \in Handles, NEW cmd, ~RequestOf(cmd, h), InTrail(h),
         pipe' = Append(pipe, cmd), UNCHANGED <<ioPc, ioCmd>>
  PROVE  InTrail(h)'
<1> DEFINE n == Len(pipe) + 1
<1>1. /\ DOMAIN pipe' = DOMAIN pipe \cup {n} /\ pipe'[n] = cmd
      /\ \A i \in DOMAIN pipe : pipe'[i] = pipe[i]
  OBVIOUS
<1>2. ASSUME NEW i \in DOMAIN pipe', RequestOf(pipe'[i], h)
      PROVE  \E j \in DOMAIN pipe' : i < j /\ SyncOf(pipe'[j], h)
  BY <1>1, <1>2 DEF InTrail
<1>3. ASSUME Executing(h)', ioCmd'.op \in Requests
      PROVE  \E j \in DOMAIN pipe' : SyncOf(pipe'[j], h)
  BY <1>1, <1>3 DEF InTrail, Executing
<1> QED BY <1>2, <1>3 DEF InTrail

\* The command that is read is followed by the rest of the pipe.
LEMMA TrailRead ==
  ASSUME pipe \in Seq(Commands), NEW h \in Handles, InTrail(h), Recv
  PROVE  InTrail(h)'
<1>1. pipe # <<>> /\ pipe' = Tail(pipe) /\ ioCmd' = Head(pipe)
  BY DEF Recv
<1>2. /\ Head(pipe) = pipe[1] /\ 1 \in DOMAIN pipe
      /\ DOMAIN pipe = 1..Len(pipe) /\ Len(pipe) \in Nat /\ DOMAIN pipe' = 1..(Len(pipe) - 1)
      /\ \A i \in DOMAIN pipe' : pipe'[i] = pipe[i + 1] /\ i + 1 \in DOMAIN pipe
  BY <1>1
<1>3. \A j \in DOMAIN pipe : 1 < j => j - 1 \in DOMAIN pipe' /\ pipe'[j - 1] = pipe[j]
  BY <1>2
<1>4. ASSUME NEW i \in DOMAIN pipe', RequestOf(pipe'[i], h)
      PROVE  \E j \in DOMAIN pipe' : i < j /\ SyncOf(pipe'[j], h)
  <2>1. PICK j \in DOMAIN pipe : i + 1 < j /\ SyncOf(pipe[j], h)
    BY <1>2, <1>4 DEF InTrail
  <2>2. 1 < j /\ i < j - 1
    BY <1>2, <2>1
  <2> QED BY <1>3, <2>1, <2>2
<1>5. ASSUME Executing(h)', ioCmd'.op \in Requests
      PROVE  \E j \in DOMAIN pipe' : SyncOf(pipe'[j], h)
  <2>1. RequestOf(pipe[1], h)
    BY <1>1, <1>2, <1>5 DEF RequestOf, Executing
  <2>2. PICK j \in DOMAIN pipe : 1 < j /\ SyncOf(pipe[j], h)
    BY <1>2, <2>1 DEF InTrail
  <2> QED BY <1>3, <2>2
<1> QED BY <1>4, <1>5 DEF InTrail

LEMMA TrailedStep ==
  ASSUME IInv, CallsOpen, Trailed, [Next]_vars
  PROVE  Trailed'
<1> DEFINE Last(h) == \E t \in Threads : hnd[t] = h /\ pc[t] \in Finishing
<1>0. /\ ControlInv /\ TypeInv /\ pipe \in Seq(Commands)
      /\ pc \in [Threads -> Labels] /\ hnd \in [Threads -> Handles \cup {NULL}]
      /\ inst \in [Handles -> {"none", "created", "open", "closed"}]
  BY DEF IInv, ControlInv, TypeInv, TypeOK
<1> SUFFICES ASSUME NEW h \in Handles PROVE Last(h)' \/ InTrail(h)'
  BY DEF Trailed
<1>1. ASSUME NEW t \in Threads, PipeSend(t), hnd[t] = h
      PROVE  Last(h)' \/ InTrail(h)'
  <2>1. CASE pc[t] = "cmd_send"
    BY <1>0, <1>1, <2>1 DEF PipeSend, Goto, Finishing
  <2>2. CASE pc[t] = "sync_send"
    BY <1>0, <1>1, <2>2, SyncTrails DEF PipeSend
  <2> QED BY <1>1, <2>1, <2>2 DEF PipeSend
<1>2. CASE Last(h) /\ \A t \in Threads : PipeSend(t) => hnd[t] # h
  <2>1. PICK t \in Threads : hnd[t] = h /\ pc[t] \in Finishing
    BY <1>2
  <2>2. CASE Stays(t)
    BY <2>1, <2>2 DEF Stays
  <2>3. CASE AddRef(t) \/ SyncInc(t)
    BY <1>0, <2>1, <2>3 DEF AddRef, SyncInc, Goto, Finishing
  <2>4. CASE NoSample(t)
    <3>1. CASE pc[t] = "cmd_ref"
      BY <2>1, <3>1 DEF Finishing
    <3>2. CASE pc[t] = "sync_ref"
      <4>1. inst[h] = "created"
        BY <2>1, <2>4 DEF NoSample, CallsOpen
      <4>2. ref[h] = 0 /\ SampleLive
        BY <1>0, <4>1, ExactIsLive DEF IInv, FreshInv
      <4>3. InPipe(h) = {} /\ ioCmd.h # h
        BY <1>0, <4>2 DEF SampleLive, TypeInv, TypeOK
      <4>4. UNCHANGED <<pipe, ioCmd>>
        BY <2>4 DEF NoSample, ioVars
      <4>5. \A i \in DOMAIN pipe' : ~RequestOf(pipe'[i], h)
        BY <4>3, <4>4 DEF InPipe, RequestOf
      <4>6. ~Executing(h)'
        BY <4>3, <4>4 DEF Executing
      <4> QED BY <4>5, <4>6 DEF InTrail
    <3> QED BY <2>4, <3>1, <3>2 DEF NoSample
  <2> QED BY <1>0, <1>2, <2>1, <2>2, <2>3, <2>4, ThreadMoves
          DEF Wakes, ThreadStep, AwaitSync, AwaitStop, Call, Idle, Finishing
<1>3. CASE InTrail(h) /\ \A t \in Threads : PipeSend(t) => hnd[t] # h
  <2>1. CASE CommandsStay
    BY <1>3, <2>1 DEF CommandsStay, InTrail, Executing
  <2>2. CASE ExitSent
    BY <1>0, <1>3, <2>2, TrailGrows DEF ExitSent, RequestOf, Requests
  <2>3. CASE Recv
    BY <1>0, <1>3, <2>3, TrailRead
  <2>4. ASSUME NEW t \in Threads, PipeSend(t) PROVE InTrail(h)'
    <3>1. hnd[t] # h /\ UNCHANGED <<ioPc, ioCmd>>
      BY <1>3, <2>4 DEF PipeSend, ioVars
    <3>2. CASE pc[t] = "cmd_send"
      BY <1>0, <1>3, <2>4, <3>1, <3>2, TrailGrows DEF PipeSend, RequestOf
    <3>3. CASE pc[t] = "sync_send"
      BY <1>0, <1>3, <2>4, <3>1, <3>3, TrailGrows DEF PipeSend, RequestOf
    <3> QED BY <2>4, <3>2, <3>3 DEF PipeSend
  <2> QED BY <1>0, <2>1, <2>2, <2>3, <2>4, CommandMoves
<1> QED BY <1>1, <1>2, <1>3 DEF Trailed

\* A thread that finds audio_cmd_sync at 0 has no command left, if it is alone.
LEMMA NothingLeft ==
  ASSUME OneUser, Own, IInv, SyncExact, Trailed, NEW t \in Threads, pc[t] = "await_sync",
         NEW h \in Handles, hnd[t] = h, sync[h] = 0
  PROVE  ~Commanded(h)
<1>0. TypeInv /\ pipe \in Seq(Commands) /\ (ioPc = "exec" => ioCmd \in Commands)
  BY DEF IInv, TypeInv, TypeOK, IoInv
<1>1. /\ Cardinality(Syncing(h)) \in Nat /\ Cardinality(SyncsOf(h)) \in Nat /\ ExecOf(h) \in 0..1
      /\ Outstanding(h) = Cardinality(Syncing(h)) + Cardinality(SyncsOf(h)) + ExecOf(h)
  BY <1>0, OutstandingFinite
<1>2. Outstanding(h) <= 0
  BY <1>0 DEF SyncExact
<1>3. Cardinality(SyncsOf(h)) = 0 /\ ExecOf(h) = 0
  BY <1>1, <1>2
<1>4. SyncsOf(h) = {}
  <2>1. IsFiniteSet(InPipe(h))
    <3>1. IsFiniteSet(1..Len(pipe))
      BY <1>0, FS_Interval
    <3>2. InPipe(h) \in SUBSET (1..Len(pipe))
      BY <1>0 DEF InPipe
    <3> QED BY <3>1, <3>2, FS_Subset
  <2>2. IsFiniteSet(SyncsOf(h))
    BY <2>1, FS_Subset DEF SyncsOf
  <2> QED BY <1>3, <2>2, FS_EmptySet
<1>5. InTrail(h)
  <2>1. ASSUME NEW u \in Threads, hnd[u] = h, pc[u] \in Finishing PROVE FALSE
    <3>1. u = t
      BY <1>0, <2>1, OwnerAlone
    <3> QED BY <2>1, <3>1 DEF Finishing
  <2> QED BY <1>0, <2>1 DEF Trailed
<1>6. \A i \in DOMAIN pipe : ~SyncOf(pipe[i], h) /\ ~RequestOf(pipe[i], h)
  BY <1>4, <1>5 DEF SyncsOf, InPipe, SyncOf, InTrail
<1>7. ASSUME NEW cmd \in Commands, cmd.h = h PROVE SyncOf(cmd, h) \/ RequestOf(cmd, h)
  BY <1>0, <1>7, Assumptions DEF Commands, SyncOf, RequestOf
<1>8. InPipe(h) = {}
  BY <1>0, <1>6, <1>7 DEF InPipe
<1>9. ~Executing(h)
  <2>1. ASSUME Executing(h) PROVE FALSE
    <3>1. ioCmd \in Commands /\ ioCmd.h = h
      BY <1>0, <2>1 DEF Executing
    <3>2. ~SyncOf(ioCmd, h)
      BY <1>3, <2>1 DEF ExecOf, One, SyncOf
    <3>3. ~RequestOf(ioCmd, h)
      BY <1>5, <1>6, <2>1 DEF InTrail, RequestOf
    <3> QED BY <1>7, <3>1, <3>2, <3>3
  <2> QED BY <2>1
<1> QED BY <1>8, <1>9 DEF Commanded

Alone == OneUser /\ Own /\ Trailed /\ Waited

LEMMA WaitedStep ==
  ASSUME Alone, IInv, SyncExact, [Next]_vars
  PROVE  Waited'
<1> USE DEF Alone
<1>0. /\ ControlInv /\ TypeInv /\ settled \in [Handles -> BOOLEAN]
      /\ pc \in [Threads -> Labels] /\ hnd \in [Threads -> Handles \cup {NULL}]
      /\ \A t \in Threads : pc[t] # "idle" => hnd[t] \in Handles
  BY DEF IInv, ControlInv, TypeInv, TypeOK, CallInv
<1>1. ASSUME NEW t \in Threads, NEW h \in Handles, hnd[t] = h, ~Commanded(h), ~PipeSend(t)
      PROVE  ~Commanded(h)'
  <2>1. \A u \in Threads : PipeSend(u) => hnd[u] # h
    BY <1>1, OwnerAlone
  <2> QED BY <1>0, <1>1, <2>1, NoCommandStep
<1>2. ASSUME NEW t \in Threads, NEW h \in Handles, hnd[t] = h, pc[t] \in Sending, settled'[h]
      PROVE  FALSE
  <2>1. ~settled[h]
    BY <1>2 DEF Waited
  <2>2. PICK u \in Threads : AwaitStop(u) /\ hnd[u] = h
    BY <1>0, <1>2, <2>1, SettledMoves
  <2>3. u = t
    BY <1>2, <2>2, OwnerAlone
  <2> QED BY <1>2, <2>2, <2>3 DEF AwaitStop, Sending, Finishing
<1> SUFFICES ASSUME NEW t \in Threads, NEW h, h = hnd'[t]
             PROVE  /\ pc'[t] \in {"await_stop", "await_stop_blk"} => ~Commanded(h)'
                    /\ pc'[t] \in Sending => ~settled'[h]
  BY DEF Waited, Commanded, InPipe, Executing
<1>3. CASE Stays(t)
  <2>1. hnd[t] = h /\ pc'[t] = pc[t]
    BY <1>3 DEF Stays
  <2>2. CASE pc[t] \in {"await_stop", "await_stop_blk"}
    <3>1. h \in Handles /\ ~Commanded(h) /\ ~PipeSend(t)
      BY <1>0, <2>1, <2>2 DEF Waited, PipeSend
    <3> QED BY <1>1, <2>1, <2>2, <3>1 DEF Sending, Finishing
  <2>3. CASE pc[t] \in Sending
    <3>1. h \in Handles
      BY <1>0, <2>1, <2>3 DEF Sending, Finishing
    <3> QED BY <1>2, <2>1, <2>3, <3>1 DEF Sending, Finishing
  <2> QED BY <2>1, <2>2, <2>3
<1>4. CASE Wakes(t)
  <2>1. CASE pc[t] = "await_stop_blk"
    <3>1. h \in Handles /\ hnd[t] = h /\ ~Commanded(h) /\ ~PipeSend(t)
      BY <1>0, <1>4, <2>1 DEF Waited, PipeSend, Wakes
    <3>2. pc'[t] = "await_stop"
      BY <1>4, <2>1 DEF Wakes
    <3> QED BY <1>1, <3>1, <3>2 DEF Sending, Finishing
  <2>2. CASE pc[t] = "await_sync_blk"
    BY <1>4, <2>2 DEF Wakes, Sending, Finishing
  <2> QED BY <1>4, <2>1, <2>2 DEF Wakes
<1>5. CASE \E k \in Handles, o \in Calls : Call(t, k, o)
  <2>1. PICK k \in Handles, o \in Calls : Call(t, k, o)
    BY <1>5
  <2>2. /\ hnd'[t] = k /\ settled' = [settled EXCEPT ![k] = @ /\ o \notin Requests]
        /\ pc'[t] = IF o \in Requests THEN "cmd_ref" ELSE "await_sync"
    BY <1>0, <2>1 DEF Call
  <2> QED BY <1>0, <2>2 DEF Sending, Finishing
<1>6. CASE AddRef(t) \/ SyncInc(t) \/ (NoSample(t) /\ pc[t] = "cmd_ref")
           \/ (PipeSend(t) /\ pc[t] = "cmd_send")
  <2>1. hnd[t] = h /\ pc[t] \in Sending /\ pc'[t] \in Sending
    BY <1>0, <1>6 DEF AddRef, SyncInc, NoSample, PipeSend, Goto, Sending, Finishing
  <2>2. h \in Handles
    BY <1>0, <2>1 DEF Sending, Finishing
  <2> QED BY <1>2, <2>1, <2>2 DEF Sending, Finishing
<1>7. CASE (NoSample(t) /\ pc[t] = "sync_ref") \/ (PipeSend(t) /\ pc[t] = "sync_send")
  BY <1>0, <1>7 DEF NoSample, PipeSend, Return, Sending, Finishing
<1>8. CASE AwaitSync(t)
  <2>1. CASE pc'[t] = "await_stop"
    <3>1. hnd[t] = h /\ pc[t] = "await_sync" /\ sync[h] = 0
      BY <1>0, <1>8, <2>1 DEF AwaitSync, Goto, Return
    <3>2. h \in Handles
      BY <1>0, <3>1
    <3>3. ~Commanded(h) /\ ~PipeSend(t)
      BY <3>1, <3>2, NothingLeft DEF PipeSend
    <3> QED BY <1>1, <2>1, <3>1, <3>2, <3>3 DEF Sending, Finishing
  <2>2. CASE pc'[t] # "await_stop"
    BY <1>0, <1>8, <2>2 DEF AwaitSync, Goto, Return, Sending, Finishing
  <2> QED BY <2>1, <2>2
<1>9. CASE AwaitStop(t)
  <2>1. CASE pc'[t] = "await_stop_blk"
    <3>1. hnd[t] = h /\ pc[t] = "await_stop"
      BY <1>0, <1>9, <2>1 DEF AwaitStop, Goto, Return
    <3>2. h \in Handles /\ ~Commanded(h) /\ ~PipeSend(t)
      BY <1>0, <3>1 DEF Waited, PipeSend
    <3> QED BY <1>1, <2>1, <3>1, <3>2 DEF Sending, Finishing
  <2>2. CASE pc'[t] # "await_stop_blk"
    BY <1>0, <1>9, <2>2 DEF AwaitStop, Goto, Return, Sending, Finishing
  <2> QED BY <2>1, <2>2
<1> QED BY <1>0, <1>3, <1>4, <1>5, <1>6, <1>7, <1>8, <1>9, ThreadMoves
        DEF ThreadStep, NoSample, PipeSend

LEMMA SettledStep ==
  ASSUME Alone, Settled, IInv, Agrees, CallsOpen, WaitBeforeClose, [Next]_vars
  PROVE  Settled'
<1> USE DEF Alone
<1>0. TypeInv /\ playing \in [Handles -> BOOLEAN]
  BY DEF IInv, TypeInv, TypeOK
<1> SUFFICES ASSUME NEW h \in Handles
             PROVE  (settled'[h] => Quiet(h)') /\ (inst'[h] = "closed" => settled'[h])
  BY DEF Settled
<1>1. ASSUME settled[h] PROVE Quiet(h)'
  <2>1. \A t \in Threads : PipeSend(t) => hnd[t] # h
    BY <1>1 DEF Waited, PipeSend, Sending, Finishing
  <2> QED BY <1>1, <2>1, QuietStep DEF Settled
<1>2. ASSUME NEW t \in Threads, AwaitStop(t), hnd[t] = h, ~playing[h] PROVE Quiet(h)'
  <2>1. ~Commanded(h)
    BY <1>2 DEF Waited, AwaitStop
  <2>2. \A c \in BoundTo(h) : ~Active(c)
    <3>1. Reached(h)
      BY <1>2 DEF CallsOpen, Reached
    <3> QED BY <1>2, <3>1 DEF Agrees, BoundTo
  <2>3. \A u \in Threads : PipeSend(u) => hnd[u] # h
    <3>1. ASSUME NEW u \in Threads, PipeSend(u), hnd[u] = h PROVE FALSE
      <4>1. u = t
        BY <1>2, <3>1, OwnerAlone
      <4> QED BY <1>2, <3>1, <4>1 DEF AwaitStop, PipeSend
    <3> QED BY <3>1
  <2> QED BY <2>1, <2>2, <2>3, QuietStep DEF Quiet, Commanded
<1>3. settled'[h] => Quiet(h)'
  BY <1>0, <1>1, <1>2, SettledMoves
<1>4. ASSUME inst'[h] = "closed" PROVE settled'[h]
  <2>1. CASE inst[h] # "closed"
    BY <1>0, <1>4, <2>1, ClosedBy
  <2>2. CASE inst[h] = "closed"
    <3>1. settled[h]
      BY <2>2 DEF Settled
    <3>2. ASSUME NEW t \in Threads, AwaitStop(t), hnd[t] = h PROVE FALSE
      BY <2>2, <3>2 DEF CallsOpen
    <3> QED BY <1>0, <2>2, <3>1, <3>2, SettledMoves
  <2> QED BY <2>1, <2>2
<1> QED BY <1>3, <1>4

LEMMA AloneCorrect ==
  ASSUME OneUser
  PROVE  Spec => []Alone
<1>1. Init => Own /\ Trailed /\ Waited
  <2> SUFFICES ASSUME Init PROVE Own /\ Trailed /\ Waited
    OBVIOUS
  <2>1. Own /\ Waited
    BY Assumptions DEF Init, Own, Waited, Sending, Finishing
  <2>2. \A h \in Handles : InPipe(h) = {} /\ ~Executing(h)
    BY DEF Init, InPipe, Executing
  <2>3. Trailed
    BY <2>2 DEF Init, Trailed, InTrail, InPipe
  <2> QED BY <2>1, <2>3
<1>2. IInv /\ SyncExact /\ CallsOpen /\ Own /\ Trailed /\ Waited /\ [Next]_vars
        => Own' /\ Trailed' /\ Waited'
  <2> SUFFICES ASSUME IInv, SyncExact, CallsOpen, Own, Trailed, Waited, [Next]_vars
               PROVE  Own' /\ Trailed' /\ Waited'
    OBVIOUS
  <2>1. Alone /\ TypeInv
    BY DEF Alone, IInv, TypeInv
  <2> QED BY <2>1, OwnStep, TrailedStep, WaitedStep
<1>3. Own /\ Trailed /\ Waited => Alone
  BY DEF Alone
<1> QED BY <1>1, <1>2, <1>3, IInvCorrect, CountCorrect, PTL DEF Spec

\* No command and no playing channel can call back into an instance that has been
\* closed, if every handle has one user and that user waits before it closes it:
\* wait() returns only when all that was sent has been executed and the channel is
\* silent, and nothing is sent afterwards.
THEOREM ClosedIsQuietCorrect ==
  ASSUME OneUser, WaitBeforeClose
  PROVE  Spec => []ClosedIsQuiet
<1>1. Init => Settled
  BY DEF Init, Settled, Quiet, InPipe, Executing, BoundTo
<1>2. IInv /\ CallsOpen /\ Agrees /\ Alone /\ Settled /\ [Next]_vars => Settled'
  BY SettledStep
<1>3. Settled => ClosedIsQuiet
  BY DEF Settled, ClosedIsQuiet, Events
<1> QED BY <1>1, <1>2, <1>3, IInvCorrect, ChannelsCorrect, CountCorrect, AloneCorrect, PTL DEF Spec

-----------------------------------------------------------------------------
(* Refinement: with one thread per handle the system is a Player.  First   *)
(* what the requests in a sequence of commands are.                        *)

\* made counts the requests on h in s, as RequestsOf does.
IsMade(s, h, made) ==
  /\ made \in [0..Len(s) -> Seq(Requests)] /\ made[0] = <<>>
  /\ \A n \in 1..Len(s) :
       /\ RequestOf(s[n], h) => made[n] = Append(made[n - 1], s[n].op)
       /\ ~RequestOf(s[n], h) => made[n] = made[n - 1]

LEMMA MadeExists ==
  ASSUME NEW s \in Seq(Commands), NEW h
  PROVE  \E made : IsMade(s, h, made)
<1> DEFINE n == Len(s)
           V == Seq(Requests)
           F == [x \in V \X (1..n) |->
                  IF RequestOf(s[x[2]], h) THEN Append(x[1], s[x[2]].op) ELSE x[1]]
<1>1. n \in Nat /\ <<>> \in V
  OBVIOUS
<1>2. IsStep(F, V, n)
  <2>1. ASSUME NEW q \in V, NEW k \in 1..n, RequestOf(s[k], h) PROVE Append(q, s[k].op) \in V
    BY <2>1 DEF RequestOf
  <2> QED BY <2>1 DEF IsStep
<1>3. ASSUME NEW q \in V, NEW k \in 1..n
      PROVE  /\ RequestOf(s[k], h) => F[<<q, k>>] = Append(q, s[k].op)
             /\ ~RequestOf(s[k], h) => F[<<q, k>>] = q
  OBVIOUS
<1> HIDE DEF n, V, F
<1>4. PICK made : AreSteps(made, V, <<>>, n, F)
  BY <1>1, <1>2, StepsExist
<1>5. /\ made \in [0..n -> V] /\ made[0] = <<>>
      /\ \A k \in 1..n : made[k] = F[<<made[k - 1], k>>]
  BY <1>4 DEF AreSteps
<1>6. ASSUME NEW k \in 1..n
      PROVE  /\ RequestOf(s[k], h) => made[k] = Append(made[k - 1], s[k].op)
             /\ ~RequestOf(s[k], h) => made[k] = made[k - 1]
  <2>1. k - 1 \in 0..n
    BY <1>1
  <2>2. made[k - 1] \in V
    BY <1>5, <2>1
  <2> QED BY <1>3, <1>5, <2>2
<1> QED BY <1>5, <1>6 DEF IsMade, n, V

\* There is one, which is the one of RequestsOf.
LEMMA RequestsMade ==
  ASSUME NEW s \in Seq(Commands), NEW h, NEW made, IsMade(s, h, made)
  PROVE  RequestsOf(s, h) = made[Len(s)]
<1> DEFINE Is(f) == f = [n \in 0..Len(s) |->
                          IF n = 0 THEN <<>>
                          ELSE IF s[n].h = h /\ s[n].op \in Requests THEN Append(f[n - 1], s[n].op)
                          ELSE f[n - 1]]
           u == CHOOSE f : Is(f)
<1>0. Len(s) \in Nat
  OBVIOUS
<1>1. RequestsOf(s, h) = u[Len(s)]
  BY DEF RequestsOf
<1>2. Is(made)
  <2>1. made = [n \in 0..Len(s) |-> made[n]]
    BY DEF IsMade
  <2>2. ASSUME NEW n \in 0..Len(s)
        PROVE  made[n] = IF n = 0 THEN <<>>
                         ELSE IF s[n].h = h /\ s[n].op \in Requests THEN Append(made[n - 1], s[n].op)
                         ELSE made[n - 1]
    <3>1. CASE n = 0
      BY <3>1 DEF IsMade
    <3>2. CASE n # 0
      <4>1. n \in 1..Len(s)
        BY <1>0, <3>2
      <4> QED BY <3>2, <4>1 DEF IsMade, RequestOf
    <3> QED BY <3>1, <3>2
  <2> QED BY <2>1, <2>2
<1>3. Is(u)
  <2> HIDE DEF Is
  <2> QED BY <1>2
<1>4. \A n \in 0..Len(s) :
        u[n] = IF n = 0 THEN <<>>
               ELSE IF s[n].h = h /\ s[n].op \in Requests THEN Append(u[n - 1], s[n].op)
               ELSE u[n - 1]
  <2> HIDE DEF u
  <2> QED BY <1>3
<1> HIDE DEF u
<1> DEFINE S == {n \in 0..Len(s) : u[n] = made[n]}
<1>5. 0 \in S
  BY <1>0, <1>4 DEF IsMade
<1>6. ASSUME NEW n \in 1..Len(s), n - 1 \in S PROVE n \in S
  <2>1. n \in 0..Len(s) /\ n # 0 /\ u[n - 1] = made[n - 1]
    BY <1>0, <1>6
  <2>2. CASE RequestOf(s[n], h)
    BY <1>4, <2>1, <2>2 DEF IsMade, RequestOf
  <2>3. CASE ~RequestOf(s[n], h)
    BY <1>4, <2>1, <2>3 DEF IsMade, RequestOf
  <2> QED BY <2>2, <2>3
<1> HIDE DEF S
<1>7. Len(s) \in S
  BY <1>0, <1>5, <1>6, UpToInduction, SMTT(30)
<1> QED BY <1>1, <1>7 DEF S

\* The requests of no commands, of one command more and of one command first.
LEMMA RequestsNone ==
  ASSUME NEW h
  PROVE  RequestsOf(<<>>, h) = <<>>
<1>1. IsMade(<<>>, h, [n \in 0..0 |-> <<>>])
  BY DEF IsMade
<1>2. <<>> \in Seq(Commands) /\ Len(<<>>) = 0
  OBVIOUS
<1>3. RequestsOf(<<>>, h) = [n \in 0..0 |-> <<>>][Len(<<>>)]
  BY <1>1, <1>2, RequestsMade
<1> QED BY <1>2, <1>3

LEMMA RequestsSeq ==
  ASSUME NEW s \in Seq(Commands), NEW h
  PROVE  RequestsOf(s, h) \in Seq(Requests)
<1>1. PICK made : IsMade(s, h, made)
  BY MadeExists
<1>2. RequestsOf(s, h) = made[Len(s)] /\ Len(s) \in Nat
  BY <1>1, RequestsMade
<1> QED BY <1>1, <1>2 DEF IsMade

LEMMA RequestsAppend ==
  ASSUME NEW s \in Seq(Commands), NEW h, NEW cmd \in Commands
  PROVE  /\ RequestOf(cmd, h) => RequestsOf(Append(s, cmd), h) = Append(RequestsOf(s, h), cmd.op)
         /\ ~RequestOf(cmd, h) => RequestsOf(Append(s, cmd), h) = RequestsOf(s, h)
<1> DEFINE n == Len(s)
           t == Append(s, cmd)
<1>1. PICK made : IsMade(s, h, made)
  BY MadeExists
<1>2. PICK last \in Seq(Requests) : /\ RequestOf(cmd, h) => last = Append(made[n], cmd.op)
                                    /\ ~RequestOf(cmd, h) => last = made[n]
  <2>1. made[n] \in Seq(Requests)
    BY <1>1 DEF IsMade
  <2>2. CASE RequestOf(cmd, h)
    <3>1. Append(made[n], cmd.op) \in Seq(Requests)
      BY <2>1, <2>2 DEF RequestOf
    <3> QED BY <2>2, <3>1
  <2>3. CASE ~RequestOf(cmd, h)
    BY <2>1, <2>3
  <2> QED BY <2>2, <2>3
<1> DEFINE g == [k \in 0..(n + 1) |-> IF k = n + 1 THEN last ELSE made[k]]
<1>3. /\ t \in Seq(Commands) /\ Len(t) = n + 1 /\ n \in Nat /\ t[n + 1] = cmd
      /\ \A k \in 1..n : t[k] = s[k]
  OBVIOUS
<1>4. /\ made \in [0..n -> Seq(Requests)] /\ made[0] = <<>>
      /\ \A k \in 1..n : /\ RequestOf(s[k], h) => made[k] = Append(made[k - 1], s[k].op)
                         /\ ~RequestOf(s[k], h) => made[k] = made[k - 1]
  BY <1>1 DEF IsMade
<1> HIDE DEF n, t
<1>5. g \in [0..(n + 1) -> Seq(Requests)] /\ g[0] = <<>> /\ g[n + 1] = last /\ g[n] = made[n]
  BY <1>3, <1>4
<1>6. ASSUME NEW k \in 1..n PROVE k \in 0..n /\ k - 1 \in 0..n /\ g[k] = made[k] /\ g[k - 1] = made[k - 1]
  BY <1>3
<1> HIDE DEF g
<1>7. ASSUME NEW k \in 1..(n + 1)
      PROVE  /\ RequestOf(t[k], h) => g[k] = Append(g[k - 1], t[k].op)
             /\ ~RequestOf(t[k], h) => g[k] = g[k - 1]
  <2>1. CASE k \in 1..n
    <3>1. g[k] = made[k] /\ g[k - 1] = made[k - 1]
      BY <1>6, <2>1
    <3>2. t[k] = s[k]
      BY <1>3, <2>1
    <3>3. /\ RequestOf(s[k], h) => made[k] = Append(made[k - 1], s[k].op)
          /\ ~RequestOf(s[k], h) => made[k] = made[k - 1]
      BY <1>4, <2>1
    <3> QED BY <3>1, <3>2, <3>3
  <2>2. CASE k \notin 1..n
    <3>1. k = n + 1 /\ k - 1 = n
      BY <1>3, <2>2
    <3> QED BY <1>2, <1>3, <1>5, <3>1
  <2> QED BY <2>1, <2>2
<1>8. IsMade(t, h, g)
  BY <1>3, <1>5, <1>7 DEF IsMade
<1>9. RequestsOf(t, h) = last /\ RequestsOf(s, h) = made[n]
  BY <1>1, <1>3, <1>5, <1>8, RequestsMade DEF n
<1> QED BY <1>2, <1>9 DEF t

LEMMA RequestsPrepend ==
  ASSUME NEW s \in Seq(Commands), NEW h, NEW cmd \in Commands
  PROVE  /\ RequestOf(cmd, h) => RequestsOf(<<cmd>> \o s, h) = <<cmd.op>> \o RequestsOf(s, h)
         /\ ~RequestOf(cmd, h) => RequestsOf(<<cmd>> \o s, h) = RequestsOf(s, h)
<1> DEFINE n == Len(s)
           t == <<cmd>> \o s
           Put(q) == IF RequestOf(cmd, h) THEN <<cmd.op>> \o q ELSE q
<1>1. PICK made : IsMade(s, h, made)
  BY MadeExists
<1>2. ASSUME NEW q \in Seq(Requests) PROVE Put(q) \in Seq(Requests)
  BY DEF RequestOf
<1>3. ASSUME NEW q \in Seq(Requests), NEW o \in Requests
      PROVE  Put(Append(q, o)) = Append(Put(q), o)
  <2>1. CASE RequestOf(cmd, h)
    <3>1. PICK a \in Requests : a = cmd.op
      BY <2>1 DEF RequestOf
    <3>2. <<a>> \o Append(q, o) = Append(<<a>> \o q, o)
      OBVIOUS
    <3> QED BY <2>1, <3>1, <3>2
  <2>2. CASE ~RequestOf(cmd, h)
    BY <2>2
  <2> QED BY <2>1, <2>2
<1> DEFINE g == [k \in 0..(n + 1) |-> IF k = 0 THEN <<>> ELSE Put(made[k - 1])]
<1>4. /\ t \in Seq(Commands) /\ Len(t) = n + 1 /\ n \in Nat /\ t[1] = cmd
      /\ \A k \in 2..(n + 1) : t[k] = s[k - 1]
  OBVIOUS
<1>5. /\ made \in [0..n -> Seq(Requests)] /\ made[0] = <<>>
      /\ \A k \in 1..n : /\ RequestOf(s[k], h) => made[k] = Append(made[k - 1], s[k].op)
                         /\ ~RequestOf(s[k], h) => made[k] = made[k - 1]
  BY <1>1 DEF IsMade
<1>6. /\ RequestOf(cmd, h) => Put(<<>>) = Append(<<>>, cmd.op)
      /\ ~RequestOf(cmd, h) => Put(<<>>) = <<>>
  OBVIOUS
<1> HIDE DEF n, t, Put
<1>7. /\ g \in [0..(n + 1) -> Seq(Requests)] /\ g[0] = <<>>
      /\ \A k \in 1..(n + 1) : g[k] = Put(made[k - 1])
  <2>1. \A k \in 1..(n + 1) : k \in 0..(n + 1) /\ k # 0 /\ k - 1 \in 0..n
    BY <1>4
  <2>2. \A k \in 0..(n + 1) : k # 0 => k \in 1..(n + 1)
    BY <1>4
  <2>3. 0 \in 0..(n + 1) /\ <<>> \in Seq(Requests)
    BY <1>4
  <2>4. \A k \in 1..(n + 1) : Put(made[k - 1]) \in Seq(Requests)
    BY <1>2, <1>5, <2>1
  <2>5. \A k \in 1..(n + 1) : g[k] = Put(made[k - 1])
    BY <2>1
  <2> QED BY <2>2, <2>3, <2>4, <2>5
<1> HIDE DEF g
<1>8. ASSUME NEW k \in 1..(n + 1)
      PROVE  /\ RequestOf(t[k], h) => g[k] = Append(g[k - 1], t[k].op)
             /\ ~RequestOf(t[k], h) => g[k] = g[k - 1]
  <2>1. CASE k = 1
    <3>1. g[k] = Put(<<>>) /\ g[k - 1] = <<>> /\ t[k] = cmd
      BY <1>4, <1>5, <1>7, <2>1
    <3> QED BY <1>6, <3>1
  <2>2. CASE k # 1
    <3>1. PICK j \in 1..n : j = k - 1
      BY <1>4, <2>2
    <3>2. g[k] = Put(made[j]) /\ g[k - 1] = Put(made[j - 1]) /\ t[k] = s[j]
      <4>1. k = j + 1 /\ k - 1 = j /\ j \in 1..(n + 1) /\ k \in 2..(n + 1)
        BY <1>4, <2>2, <3>1
      <4> QED BY <1>4, <1>7, <4>1
    <3>3. made[j - 1] \in Seq(Requests)
      BY <1>4, <1>5
    <3>4. CASE RequestOf(s[j], h)
      <4>1. s[j].op \in Requests /\ made[j] = Append(made[j - 1], s[j].op)
        BY <1>5, <3>4 DEF RequestOf
      <4> QED BY <1>3, <3>2, <3>3, <3>4, <4>1
    <3>5. CASE ~RequestOf(s[j], h)
      BY <1>5, <3>2, <3>5
    <3> QED BY <3>4, <3>5
  <2> QED BY <2>1, <2>2
<1>9. IsMade(t, h, g)
  BY <1>4, <1>7, <1>8 DEF IsMade
<1>10. RequestsOf(t, h) = Put(RequestsOf(s, h))
  <2>1. RequestsOf(t, h) = g[n + 1]
    BY <1>4, <1>9, RequestsMade
  <2>2. RequestsOf(s, h) = made[n]
    BY <1>1, RequestsMade DEF n
  <2>3. g[n + 1] = Put(made[n])
    BY <1>4, <1>7
  <2> QED BY <2>1, <2>2, <2>3
<1> QED BY <1>10 DEF t, Put

-----------------------------------------------------------------------------
(* The commands that are not carried out yet, and the requests in them.    *)

Flight  == IF ioPc = "exec" THEN <<ioCmd>> \o pipe ELSE pipe
Pending == [h \in Handles |-> PendingOf(h)]
Waiting == [t \in Threads |-> IF op[t] = "wait" THEN hnd[t] ELSE NULL]

LEMMA FlightSeq ==
  ASSUME ControlInv
  PROVE  Flight \in Seq(Commands)
<1>1. pipe \in Seq(Commands) /\ (ioPc = "exec" => ioCmd \in Commands)
  BY DEF ControlInv, TypeInv, TypeOK, IoInv
<1> QED BY <1>1 DEF Flight

LEMMA PendingIs ==
  ASSUME NEW h \in Handles
  PROVE  Pending[h] = RequestsOf(Flight, h) /\ Pending'[h] = RequestsOf(Flight', h)
BY DEF Pending, PendingOf, Flight

\* The same commands, one command more, one command less.
LEMMA PendingSame ==
  ASSUME Flight' = Flight
  PROVE  Pending' = Pending
BY DEF Pending, PendingOf, Flight

LEMMA PendingGrows ==
  ASSUME ControlInv, NEW cmd \in Commands, cmd.op \in Requests, cmd.h \in Handles,
         Flight' = Append(Flight, cmd)
  PROVE  Pending' = [Pending EXCEPT ![cmd.h] = Append(@, cmd.op)]
<1>1. ASSUME NEW h \in Handles
      PROVE  Pending'[h] = [Pending EXCEPT ![cmd.h] = Append(@, cmd.op)][h]
  <2>1. /\ RequestOf(cmd, h) => RequestsOf(Flight', h) = Append(RequestsOf(Flight, h), cmd.op)
        /\ ~RequestOf(cmd, h) => RequestsOf(Flight', h) = RequestsOf(Flight, h)
    BY FlightSeq, RequestsAppend
  <2>2. RequestOf(cmd, h) <=> h = cmd.h
    BY DEF RequestOf
  <2> QED BY <2>1, <2>2, PendingIs DEF Pending
<1> QED BY <1>1 DEF Pending

LEMMA PendingKept ==
  ASSUME ControlInv, NEW cmd \in Commands, cmd.op \notin Requests,
         Flight' = Append(Flight, cmd)
  PROVE  Pending' = Pending
<1>1. ASSUME NEW h \in Handles PROVE Pending'[h] = Pending[h]
  <2>1. ~RequestOf(cmd, h) => RequestsOf(Flight', h) = RequestsOf(Flight, h)
    BY FlightSeq, RequestsAppend
  <2> QED BY <2>1, PendingIs DEF RequestOf
<1> QED BY <1>1 DEF Pending

LEMMA PendingFirst ==
  ASSUME NEW cmd \in Commands, cmd.op \in Requests, cmd.h \in Handles,
         Flight' \in Seq(Commands), Flight = <<cmd>> \o Flight'
  PROVE  /\ Pending[cmd.h] # <<>> /\ Head(Pending[cmd.h]) = cmd.op
         /\ Pending' = [Pending EXCEPT ![cmd.h] = Tail(@)]
<1>1. ASSUME NEW h \in Handles
      PROVE  /\ h = cmd.h => Pending[h] = <<cmd.op>> \o Pending'[h]
             /\ h # cmd.h => Pending[h] = Pending'[h]
             /\ Pending'[h] \in Seq(Requests)
  <2>1. /\ RequestOf(cmd, h) => RequestsOf(Flight, h) = <<cmd.op>> \o RequestsOf(Flight', h)
        /\ ~RequestOf(cmd, h) => RequestsOf(Flight, h) = RequestsOf(Flight', h)
    BY RequestsPrepend
  <2>2. RequestOf(cmd, h) <=> h = cmd.h
    BY DEF RequestOf
  <2>3. RequestsOf(Flight', h) \in Seq(Requests)
    BY RequestsSeq
  <2> QED BY <2>1, <2>2, <2>3, PendingIs
<1>2. PICK o \in Requests : o = cmd.op
  OBVIOUS
<1>3. ASSUME NEW q \in Seq(Requests)
      PROVE  <<o>> \o q # <<>> /\ Head(<<o>> \o q) = o /\ Tail(<<o>> \o q) = q
  OBVIOUS
<1>4. /\ Pending[cmd.h] # <<>> /\ Head(Pending[cmd.h]) = cmd.op
      /\ Tail(Pending[cmd.h]) = Pending'[cmd.h]
  BY <1>1, <1>2, <1>3, ZenonT(30)
<1>5. ASSUME NEW h \in Handles PROVE Pending'[h] = [Pending EXCEPT ![cmd.h] = Tail(@)][h]
  BY <1>1, <1>4 DEF Pending
<1>6. Pending' = [Pending EXCEPT ![cmd.h] = Tail(@)]
  BY <1>5 DEF Pending
<1> QED BY <1>4, <1>6

LEMMA PendingDropped ==
  ASSUME NEW cmd \in Commands, cmd.op \notin Requests,
         Flight' \in Seq(Commands), Flight = <<cmd>> \o Flight'
  PROVE  Pending' = Pending
<1>1. ASSUME NEW h \in Handles PROVE Pending'[h] = Pending[h]
  <2>1. ~RequestOf(cmd, h) => RequestsOf(Flight, h) = RequestsOf(Flight', h)
    BY RequestsPrepend
  <2> QED BY <2>1, PendingIs DEF RequestOf
<1> QED BY <1>1 DEF Pending

\* No commands, no requests.
LEMMA PendingNone ==
  ASSUME ControlInv, NEW h \in Handles, ~Commanded(h)
  PROVE  Pending[h] = <<>>
<1>1. pipe \in Seq(Commands)
  BY DEF ControlInv, TypeInv, TypeOK
<1> DEFINE n == Len(Flight)
           g == [k \in 0..n |-> <<>>]
<1>2. Flight \in Seq(Commands) /\ n \in Nat
  BY FlightSeq
<1>3. \A k \in 1..n : ~RequestOf(Flight[k], h)
  <2>1. \A k \in 1..Len(pipe) : pipe[k].h # h
    BY <1>1 DEF Commanded, InPipe
  <2>2. CASE ioPc = "exec"
    <3>1. ioCmd.h # h
      BY <2>2 DEF Commanded, Executing
    <3>2. Flight = <<ioCmd>> \o pipe
      BY <2>2 DEF Flight
    <3>3. \A k \in 1..n : k = 1 \/ k - 1 \in 1..Len(pipe)
      BY <1>1, <3>2
    <3>4. \A k \in 1..n : Flight[k] = IF k = 1 THEN ioCmd ELSE pipe[k - 1]
      BY <1>1, <3>2
    <3> QED BY <2>1, <3>1, <3>3, <3>4 DEF RequestOf
  <2>3. CASE ioPc # "exec"
    BY <2>1, <2>3 DEF Flight, RequestOf
  <2> QED BY <2>2, <2>3
<1> HIDE DEF n
<1>4. IsMade(Flight, h, g)
  <2>1. g \in [0..n -> Seq(Requests)] /\ g[0] = <<>>
    BY <1>2
  <2>2. \A k \in 1..n : g[k] = g[k - 1]
    BY <1>2
  <2> HIDE DEF g
  <2> QED BY <1>3, <2>1, <2>2 DEF IsMade, n
<1>5. RequestsOf(Flight, h) = g[n]
  <2> HIDE DEF g
  <2> QED BY <1>2, <1>4, RequestsMade DEF n
<1> QED BY <1>2, <1>5, PendingIs

-----------------------------------------------------------------------------
(* The steps of a Player.                                                  *)

LEMMA StutterIs ==
  ASSUME UNCHANGED <<Pending, playing, Waiting>>
  PROVE  [P!Next]_(P!vars)
BY DEF P!vars, Pending, Waiting

LEMMA RequestIs ==
  ASSUME NEW h \in Handles, NEW o \in Requests, UNCHANGED <<playing, Waiting>>,
         Pending' = [Pending EXCEPT ![h] = Append(@, o)]
  PROVE  [P!Next]_(P!vars)
<1>1. P!Request(h, o)
  BY DEF P!Request, Pending, Waiting
<1> QED BY <1>1 DEF P!Next, P!Requests, Requests

LEMMA PerformIs ==
  ASSUME NEW h \in Handles, Pending[h] # <<>>, Pending' = [Pending EXCEPT ![h] = Tail(@)],
         Waiting' = Waiting,
         \/ Head(Pending[h]) = "stop" /\ playing' = [playing EXCEPT ![h] = FALSE]
         \/ Head(Pending[h]) # "stop" /\ playing' \in {playing, [playing EXCEPT ![h] = TRUE]}
  PROVE  [P!Next]_(P!vars)
<1>1. P!Perform(h)
  BY DEF P!Perform, Pending, Waiting
<1> QED BY <1>1 DEF P!Next

LEMMA EndIs ==
  ASSUME NEW h \in Handles, playing[h], playing' = [playing EXCEPT ![h] = FALSE],
         UNCHANGED <<Pending, Waiting>>
  PROVE  [P!Next]_(P!vars)
<1>1. P!End(h)
  BY DEF P!End, Pending, Waiting
<1> QED BY <1>1 DEF P!Next

LEMMA BeginWaitIs ==
  ASSUME NEW t \in Threads, NEW h \in Handles, Waiting[t] = NULL,
         Waiting' = [Waiting EXCEPT ![t] = h], UNCHANGED <<Pending, playing>>
  PROVE  [P!Next]_(P!vars)
<1>1. P!BeginWait(t, h)
  BY DEF P!BeginWait, Pending, Waiting
<1> QED BY <1>1 DEF P!Next

LEMMA EndWaitIs ==
  ASSUME NEW t \in Threads, Waiting[t] # NULL, Pending[Waiting[t]] = <<>>, ~playing[Waiting[t]],
         Waiting' = [Waiting EXCEPT ![t] = NULL], UNCHANGED <<Pending, playing>>
  PROVE  [P!Next]_(P!vars)
<1>1. P!EndWait(t)
  BY DEF P!EndWait, Pending, Waiting
<1> QED BY <1>1 DEF P!Next

-----------------------------------------------------------------------------
(* Every step of the system is one of them.                                *)

\* A thread that sends or waits for the end of the sample is in that call.
Doing ==
  \A t \in Threads : /\ pc[t] \in Sending => op[t] \in Requests
                     /\ pc[t] \in {"await_stop", "await_stop_blk"} => op[t] = "wait"

LEMMA DoingStep ==
  ASSUME TypeInv, Doing, [Next]_vars
  PROVE  Doing'
<1> USE DEF Sending, Finishing
<1>0. /\ pc \in [Threads -> Labels] /\ hnd \in [Threads -> Handles \cup {NULL}]
      /\ op \in [Threads -> Requests \cup Queries \cup {"none"}]
  BY DEF TypeInv, TypeOK
<1> SUFFICES ASSUME NEW t \in Threads
             PROVE  /\ pc'[t] \in Sending => op'[t] \in Requests
                    /\ pc'[t] \in {"await_stop", "await_stop_blk"} => op'[t] = "wait"
  BY DEF Doing
<1>1. CASE Stays(t) \/ Wakes(t)
  BY <1>1 DEF Stays, Wakes, Doing
<1>2. CASE \E h \in Handles, o \in Calls : Call(t, h, o)
  BY <1>0, <1>2 DEF Call
<1>3. CASE AddRef(t) \/ SyncInc(t)
  BY <1>0, <1>3 DEF AddRef, SyncInc, Goto, Doing
<1>4. CASE NoSample(t) \/ PipeSend(t)
  BY <1>0, <1>4 DEF NoSample, PipeSend, Goto, Return, Doing
<1>5. CASE AwaitSync(t) \/ AwaitStop(t)
  BY <1>0, <1>5 DEF AwaitSync, AwaitStop, Goto, Return, Doing
<1> QED BY <1>1, <1>2, <1>3, <1>4, <1>5, ThreadMoves DEF ThreadStep

\* What a thread that goes on, or returns from a call other than wait(), waits for.
LEMMA WaitingSame ==
  ASSUME TypeInv, NEW t \in Threads,
         UNCHANGED <<op, hnd>> \/ (op[t] # "wait" /\ Return(t))
  PROVE  Waiting' = Waiting
<1>0. /\ hnd \in [Threads -> Handles \cup {NULL}]
      /\ op \in [Threads -> Requests \cup Queries \cup {"none"}]
  BY DEF TypeInv, TypeOK
<1>1. CASE UNCHANGED <<op, hnd>>
  BY <1>1 DEF Waiting
<1>2. CASE op[t] # "wait" /\ Return(t)
  <2>1. ASSUME NEW u \in Threads
        PROVE  (IF op'[u] = "wait" THEN hnd'[u] ELSE NULL) = (IF op[u] = "wait" THEN hnd[u] ELSE NULL)
    BY <1>0, <1>2 DEF Return
  <2> QED BY <2>1 DEF Waiting
<1> QED BY <1>1, <1>2

LEMMA FlightStays ==
  ASSUME UNCHANGED <<pipe, ioPc, ioCmd>>
  PROVE  Flight' = Flight
BY DEF Flight

LEMMA FlightGrows ==
  ASSUME ControlInv, NEW cmd \in Commands, pipe' = Append(pipe, cmd), UNCHANGED <<ioPc, ioCmd>>
  PROVE  Flight' = Append(Flight, cmd)
<1>1. pipe \in Seq(Commands) /\ (ioPc = "exec" => ioCmd \in Commands)
  BY DEF ControlInv, TypeInv, TypeOK, IoInv
<1>2. ASSUME NEW c \in Commands, NEW q \in Seq(Commands)
      PROVE  <<c>> \o Append(q, cmd) = Append(<<c>> \o q, cmd)
  OBVIOUS
<1> QED BY <1>1, <1>2 DEF Flight

\* The threads.
LEMMA ThreadIsPlayer ==
  ASSUME Alone, Doing, IInv, [Next]_vars, NEW t \in Threads, ThreadStep(t) \/ SpuriousWakeup(t)
  PROVE  [P!Next]_(P!vars)
<1> USE DEF ioVars
<1>0. /\ ControlInv /\ TypeInv /\ hnd \in [Threads -> Handles \cup {NULL}]
      /\ op \in [Threads -> Requests \cup Queries \cup {"none"}]
      /\ pc[t] # "idle" => hnd[t] \in Handles
  BY DEF IInv, ControlInv, TypeInv, TypeOK, CallInv
<1>1. CASE PipeSend(t)
  <2>1. hnd[t] \in Handles /\ op[t] \in Requests /\ op[t] # "wait" /\ UNCHANGED <<ioPc, ioCmd, playing>>
    BY <1>0, <1>1 DEF PipeSend, Doing, Sending, Finishing, Requests
  <2>2. CASE pc[t] = "cmd_send"
    <3> DEFINE cmd == [op |-> op[t], h |-> hnd[t]]
    <3>1. cmd \in Commands /\ cmd.op = op[t] /\ cmd.h = hnd[t]
      BY <2>1 DEF Commands
    <3>2. pipe' = Append(pipe, cmd) /\ UNCHANGED <<op, hnd>>
      BY <1>1, <2>2 DEF PipeSend, Goto
    <3> HIDE DEF cmd
    <3>3. Pending' = [Pending EXCEPT ![cmd.h] = Append(@, cmd.op)]
      BY <1>0, <2>1, <3>1, <3>2, FlightGrows, PendingGrows
    <3>4. Waiting' = Waiting
      BY <1>0, <3>2, WaitingSame
    <3> QED BY <2>1, <3>1, <3>3, <3>4, RequestIs
  <2>3. CASE pc[t] = "sync_send"
    <3> DEFINE cmd == [op |-> "sync", h |-> hnd[t]]
    <3>1. cmd \in Commands /\ cmd.op \notin Requests
      BY <2>1 DEF Commands, Requests
    <3>2. pipe' = Append(pipe, cmd) /\ Return(t)
      BY <1>1, <2>3 DEF PipeSend
    <3> HIDE DEF cmd
    <3>3. Pending' = Pending
      BY <1>0, <2>1, <3>1, <3>2, FlightGrows, PendingKept
    <3>4. Waiting' = Waiting
      BY <1>0, <2>1, <3>2, WaitingSame
    <3> QED BY <2>1, <3>3, <3>4, StutterIs
  <2> QED BY <1>1, <2>2, <2>3 DEF PipeSend
<1>2. CASE AddRef(t) \/ SyncInc(t) \/ SpuriousWakeup(t)
  <2>1. UNCHANGED <<pipe, ioPc, ioCmd, op, hnd, playing>>
    BY <1>2 DEF AddRef, SyncInc, SpuriousWakeup, Goto
  <2>2. Waiting' = Waiting
    BY <1>0, <2>1, WaitingSame
  <2> QED BY <2>1, <2>2, FlightStays, PendingSame, StutterIs
<1>3. CASE NoSample(t) \/ AwaitSync(t)
  <2>1. UNCHANGED <<pipe, ioPc, ioCmd, playing>>
    BY <1>3 DEF NoSample, AwaitSync
  <2>2. UNCHANGED <<op, hnd>> \/ (op[t] # "wait" /\ Return(t))
    <3>1. CASE NoSample(t)
      BY <3>1 DEF NoSample, Goto, Doing, Sending, Finishing, Requests
    <3>2. CASE AwaitSync(t)
      BY <3>2 DEF AwaitSync, Goto
    <3> QED BY <1>3, <3>1, <3>2
  <2>3. Waiting' = Waiting
    BY <1>0, <2>2, WaitingSame
  <2> QED BY <2>1, <2>3, FlightStays, PendingSame, StutterIs
<1>4. CASE AwaitStop(t)
  <2>1. UNCHANGED <<pipe, ioPc, ioCmd, playing>> /\ pc[t] = "await_stop"
    BY <1>4 DEF AwaitStop
  <2>2. CASE playing[hnd[t]]
    <3>1. Waiting' = Waiting
      BY <1>0, <1>4, <2>2, WaitingSame DEF AwaitStop, Goto
    <3> QED BY <2>1, <3>1, FlightStays, PendingSame, StutterIs
  <2>3. CASE ~playing[hnd[t]]
    <3>1. Waiting[t] = hnd[t] /\ hnd[t] \in Handles /\ hnd[t] # NULL
      BY <1>0, <2>1, Assumptions DEF Waiting, Doing
    <3>2. Pending[hnd[t]] = <<>>
      BY <1>0, <2>1, <3>1, PendingNone DEF Alone, Waited
    <3>3. Waiting' = [Waiting EXCEPT ![t] = NULL]
      <4>1. Return(t)
        BY <1>4, <2>3 DEF AwaitStop
      <4>2. ASSUME NEW u \in Threads
            PROVE  (IF op'[u] = "wait" THEN hnd'[u] ELSE NULL)
                     = (IF u = t THEN NULL ELSE IF op[u] = "wait" THEN hnd[u] ELSE NULL)
        BY <1>0, <4>1 DEF Return
      <4> QED BY <4>2 DEF Waiting
    <3> QED BY <2>1, <2>3, <3>1, <3>2, <3>3, FlightStays, PendingSame, EndWaitIs
  <2> QED BY <2>2, <2>3
<1> QED BY <1>1, <1>2, <1>3, <1>4 DEF ThreadStep

\* The application's other steps.
LEMMA AppIsPlayer ==
  ASSUME Alone, Doing, IInv, [Next]_vars, AppStep
  PROVE  [P!Next]_(P!vars)
<1> USE DEF appVars, ioVars
<1>0. /\ ControlInv /\ TypeInv /\ hnd \in [Threads -> Handles \cup {NULL}]
      /\ op \in [Threads -> Requests \cup Queries \cup {"none"}]
  BY DEF IInv, ControlInv, TypeInv, TypeOK
<1>1. ASSUME UNCHANGED <<playing, op, hnd>>, Flight' = Flight PROVE [P!Next]_(P!vars)
  <2>1. Waiting' = Waiting
    BY <1>1 DEF Waiting
  <2> QED BY <1>1, <2>1, PendingSame, StutterIs
<1>2. CASE Setup
  <2>1. ioPc = "none"
    BY <1>2 DEF Setup, IInv, ShutdownInv
  <2> QED BY <1>1, <1>2, <2>1 DEF Setup, Flight
<1>3. CASE ShutdownFree
  <2>1. pipe = <<>> /\ ioPc = "none"
    BY <1>3 DEF ShutdownFree, IInv, ShutdownInv
  <2> QED BY <1>1, <1>3, <2>1 DEF ShutdownFree, Flight
<1>4. CASE ShutdownSend
  <2> DEFINE cmd == [op |-> "exit", h |-> NULL]
  <2>1. cmd \in Commands /\ cmd.op \notin Requests
    BY DEF Commands, Requests
  <2>2. pipe' = Append(pipe, cmd) /\ UNCHANGED <<ioPc, ioCmd, playing, op, hnd>>
    BY <1>4 DEF ShutdownSend
  <2> HIDE DEF cmd
  <2>3. Pending' = Pending
    BY <1>0, <2>1, <2>2, FlightGrows, PendingKept
  <2>4. Waiting' = Waiting
    BY <2>2 DEF Waiting
  <2> QED BY <2>2, <2>3, <2>4, StutterIs
<1>5. ASSUME NEW t \in Threads, NEW h \in Handles, Create(t, h) \/ Open(t, h) \/ Close(t, h)
      PROVE  [P!Next]_(P!vars)
  <2>1. UNCHANGED <<pipe, ioPc, ioCmd, playing, op, hnd>>
    BY <1>5 DEF Create, Open, Close
  <2> QED BY <1>1, <2>1, FlightStays
<1>6. ASSUME NEW t \in Threads, NEW h \in Handles, NEW o \in Calls, Call(t, h, o)
      PROVE  [P!Next]_(P!vars)
  <2>1. UNCHANGED <<pipe, ioPc, ioCmd, playing>> /\ hnd[t] = NULL
    BY <1>0, <1>6 DEF Call, Idle, TypeInv, CallInv
  <2>2. Pending' = Pending
    BY <2>1, FlightStays, PendingSame
  <2>3. ASSUME NEW u \in Threads
        PROVE  (IF op'[u] = "wait" THEN hnd'[u] ELSE NULL)
                 = (IF u = t /\ o = "wait" THEN h ELSE IF op[u] = "wait" THEN hnd[u] ELSE NULL)
    BY <1>0, <1>6, <2>1 DEF Call
  <2>4. CASE o = "wait"
    <3>1. Waiting' = [Waiting EXCEPT ![t] = h] /\ Waiting[t] = NULL
      BY <2>1, <2>3, <2>4 DEF Waiting
    <3> QED BY <2>1, <2>2, <3>1, BeginWaitIs
  <2>5. CASE o # "wait"
    <3>1. Waiting' = Waiting
      BY <2>3, <2>5 DEF Waiting
    <3> QED BY <2>1, <2>2, <3>1, StutterIs
  <2> QED BY <2>4, <2>5
<1>7. ASSUME NEW t \in Threads, ThreadStep(t) \/ SpuriousWakeup(t)
      PROVE  [P!Next]_(P!vars)
  BY <1>7, ThreadIsPlayer
<1> QED BY <1>2, <1>3, <1>4, <1>5, <1>6, <1>7 DEF AppStep

\* The command the I/O thread executes is the first one, and is then done.
LEMMA FlightFirst ==
  ASSUME ControlInv, ioPc = "exec", ioPc' # "exec", pipe' = pipe
  PROVE  Flight = <<ioCmd>> \o Flight' /\ Flight' \in Seq(Commands) /\ ioCmd \in Commands
BY DEF Flight, ControlInv, TypeInv, TypeOK, IoInv

\* A request that has been executed.
LEMMA ExecutedIs ==
  ASSUME ControlInv, Exec(Requests), ioPc' # "exec", UNCHANGED <<pipe, op, hnd>>,
         \/ ioCmd.op = "stop" /\ playing' = [playing EXCEPT ![ioCmd.h] = FALSE]
         \/ ioCmd.op # "stop" /\ playing' \in {playing, [playing EXCEPT ![ioCmd.h] = TRUE]}
  PROVE  [P!Next]_(P!vars)
<1>1. Flight = <<ioCmd>> \o Flight' /\ Flight' \in Seq(Commands) /\ ioCmd \in Commands
  BY FlightFirst DEF Exec
<1>2. ioCmd.op \in Requests /\ ioCmd.h \in Handles
  BY <1>1, CommandHandle DEF Exec
<1>3. /\ Pending[ioCmd.h] # <<>> /\ Head(Pending[ioCmd.h]) = ioCmd.op
      /\ Pending' = [Pending EXCEPT ![ioCmd.h] = Tail(@)]
  BY <1>1, <1>2, PendingFirst
<1>4. Waiting' = Waiting
  BY DEF Waiting
<1> QED BY <1>2, <1>3, <1>4, PerformIs

\* A sample that has no playing channel does not play.
LEMMA SilentIs ==
  ASSUME IInv, Agrees, NEW h \in Handles, ioCmd.h = h \/ BoundTo(h) # {},
         \A c \in BoundTo(h) : ~Active(c)
  PROVE  playing = [playing EXCEPT ![h] = FALSE]
<1>1. Reached(h)
  BY ExactIsLive DEF IInv, TypeInv, SampleLive, Reached
<1>2. ~playing[h]
  BY <1>1 DEF Agrees, BoundTo
<1>3. playing \in [Handles -> BOOLEAN]
  BY DEF IInv, TypeOK
<1>4. playing[h] = FALSE
  BY <1>2, <1>3
<1> QED BY <1>3, <1>4

\* What a channel that stops by itself tells the application.
LEMMA StoppedIs ==
  ASSUME IInv, Agrees, NEW c \in DOMAIN chans, Active(c), StopChannel(c),
         UNCHANGED <<op, hnd>>, Flight' = Flight
  PROVE  [P!Next]_(P!vars)
<1>1. chans[c].sample \in Handles
  <2>1. chans[c] \in Channels /\ chans[c].sample # NULL
    BY DEF IInv, TypeOK, ChannelInv
  <2> QED BY <2>1 DEF Channels
<1>2. Reached(chans[c].sample)
  <2>1. BoundTo(chans[c].sample) # {}
    BY DEF BoundTo
  <2> QED BY <1>1, <2>1, ExactIsLive DEF IInv, TypeInv, SampleLive, Reached
<1>3. playing[chans[c].sample]
  BY <1>1, <1>2 DEF Agrees
<1>4. playing' = [playing EXCEPT ![chans[c].sample] = FALSE]
  BY DEF StopChannel, Stopped
<1>5. Waiting' = Waiting /\ Pending' = Pending
  BY PendingSame DEF Waiting
<1> QED BY <1>1, <1>3, <1>4, <1>5, EndIs

\* The I/O thread.
LEMMA IoIsPlayer ==
  ASSUME IInv, Single, Agrees, IoStep
  PROVE  [P!Next]_(P!vars)
<1> USE DEF appVars, ioVars
<1>0. ControlInv /\ TypeInv /\ pipe \in Seq(Commands) /\ chans \in Seq(Channels)
  BY DEF IInv, ControlInv, TypeInv, TypeOK
<1>1. ASSUME UNCHANGED <<playing, op, hnd>>, Pending' = Pending PROVE [P!Next]_(P!vars)
  <2>1. Waiting' = Waiting
    BY <1>1 DEF Waiting
  <2> QED BY <1>1, <2>1, StutterIs
<1>2. CASE Recv
  <2>1. pipe = <<Head(pipe)>> \o Tail(pipe)
    BY <1>0, <1>2 DEF Recv
  <2>2. Flight' = Flight
    BY <1>2, <2>1 DEF Recv, Flight
  <2> QED BY <1>1, <1>2, <2>2, PendingSame DEF Recv
<1>3. CASE \/ PipeEmpty \/ UpdateNext \/ ErrorEvent \/ UpdateLoops \/ Spin \/ UpdateDone
           \/ Unbind \/ Unref
  <2>1. UNCHANGED <<pipe, playing, op, hnd>> /\ ioPc # "exec" /\ ioPc' # "exec"
    BY <1>3 DEF PipeEmpty, UpdateNext, ErrorEvent, UpdateLoops, Spin, vars, UpdateDone, Unbind,
                Unref, AtChannel
  <2>2. Flight' = Flight
    BY <2>1 DEF Flight
  <2> QED BY <1>1, <2>1, <2>2, PendingSame
<1>4. CASE PlayGrow
  BY <1>1, <1>4, FlightStays, PendingSame DEF PlayGrow
<1>5. CASE PlayBound \/ PlayFree
  <2>1. /\ Exec(Requests) /\ ioCmd.op # "stop" /\ ioPc' # "exec" /\ UNCHANGED <<pipe, op, hnd>>
        /\ playing' = playing \/ playing' = [playing EXCEPT ![ioCmd.h] = TRUE]
    BY <1>5 DEF PlayBound, PlayFree, Exec, Requests, Start, Started
  <2> QED BY <1>0, <2>1, ExecutedIs
<1>6. CASE PlayNoChannel
  <2>1. /\ Exec(Requests) /\ ioCmd.op # "stop" /\ ioPc' # "exec" /\ UNCHANGED <<pipe, op, hnd>>
        /\ playing' = playing
    BY <1>6 DEF PlayNoChannel, Exec, Requests
  <2> QED BY <1>0, <2>1, ExecutedIs
<1>7. CASE StopBound \/ StopUnbound
  <2>1. Exec(Requests) /\ ioCmd.op = "stop" /\ ioPc' # "exec" /\ UNCHANGED <<pipe, op, hnd>>
    BY <1>7 DEF StopBound, StopUnbound, Exec, Requests
  <2>2. ioCmd.h \in Handles
    BY <1>0, <2>1, CommandHandle DEF TypeInv, TypeOK, Exec
  <2>3. CASE StopUnbound
    <3>1. playing' = [playing EXCEPT ![ioCmd.h] = FALSE]
      BY <2>2, <2>3, SilentIs DEF StopUnbound
    <3> QED BY <1>0, <2>1, <3>1, ExecutedIs
  <2>4. CASE StopBound
    <3> DEFINE c == FirstBound(ioCmd.h)
    <3>1. c \in DOMAIN chans /\ chans[c].sample = ioCmd.h /\ StopChannel(c)
      BY <1>0, <2>4, FirstBoundIsBound DEF StopBound, BoundTo
    <3> HIDE DEF c
    <3>2. CASE Active(c)
      BY <1>0, <2>1, <3>1, <3>2, ExecutedIs DEF StopChannel, Stopped
    <3>3. CASE ~Active(c)
      <4>1. \A d \in BoundTo(ioCmd.h) : ~Active(d)
        BY <2>2, <3>1, <3>3 DEF Single, BoundTo
      <4>2. playing = [playing EXCEPT ![ioCmd.h] = FALSE]
        BY <2>2, <4>1, SilentIs
      <4>3. playing' = playing
        BY <3>1, <3>3 DEF StopChannel
      <4> QED BY <1>0, <2>1, <4>2, <4>3, ExecutedIs
    <3> QED BY <3>2, <3>3
  <2> QED BY <1>7, <2>3, <2>4
<1>8. CASE ExecSync \/ ExecExit
  <2>1. /\ ioPc = "exec" /\ ioCmd.op \notin Requests /\ ioPc' # "exec"
        /\ UNCHANGED <<pipe, playing, op, hnd>>
    BY <1>8 DEF ExecSync, ExecExit, Exec, Requests
  <2>2. Pending' = Pending
    BY <1>0, <2>1, FlightFirst, PendingDropped
  <2> QED BY <1>1, <2>1, <2>2
<1>9. CASE UpdateFail \/ \E h \in Handles : UpdateEnd(h)
  <2>1. /\ ioIdx \in DOMAIN chans /\ StopChannel(ioIdx) /\ UNCHANGED <<pipe, op, hnd>>
        /\ ioPc # "exec" /\ ioPc' # "exec"
    BY <1>9 DEF UpdateFail, UpdateEnd, AtChannel
  <2>2. Active(ioIdx)
    <3>1. ASSUME NEW h \in Handles, UpdateEnd(h) PROVE Active(ioIdx)
      BY <3>1 DEF UpdateEnd, Active
    <3> QED BY <1>9, <3>1 DEF UpdateFail, AtChannel
  <2>3. Flight' = Flight
    BY <2>1 DEF Flight
  <2> QED BY <2>1, <2>2, <2>3, StoppedIs
<1> QED BY <1>2, <1>3, <1>4, <1>5, <1>6, <1>7, <1>8, <1>9
        DEF IoStep, CommandStep, UpdateStep

\* With one thread per handle the system is a Player: whatever the pipe, the channels
\* and the other threads do, the requests on a handle are carried out in the order
\* they were made, each once, and wait() returns only when all of them are done and
\* the sample does not play.
THEOREM PlayerCorrect ==
  ASSUME OneUser
  PROVE  Spec => IsPlayer
<1>1. Init => P!Init /\ Doing
  <2> SUFFICES ASSUME Init PROVE P!Init /\ Doing
    OBVIOUS
  <2>1. Doing
    BY DEF Init, Doing, Sending, Finishing
  <2>2. \A h \in Handles : PendingOf(h) = <<>>
    BY RequestsNone DEF Init, PendingOf
  <2> QED BY <2>1, <2>2 DEF Init, P!Init
<1>2. IInv /\ Doing /\ [Next]_vars => Doing'
  BY DoingStep DEF IInv, TypeInv
<1>3. IInv /\ Alone /\ Doing /\ Single /\ Agrees /\ [Next]_vars => [P!Next]_(P!vars)
  <2> SUFFICES ASSUME IInv, Alone, Doing, Single, Agrees, [Next]_vars PROVE [P!Next]_(P!vars)
    OBVIOUS
  <2>1. CASE AppStep
    BY <2>1, AppIsPlayer
  <2>2. CASE IoStep
    BY <2>2, IoIsPlayer
  <2>3. CASE UNCHANGED vars
    <3>1. UNCHANGED <<pipe, ioPc, ioCmd, playing, op, hnd>>
      BY <2>3 DEF vars
    <3>2. Waiting' = Waiting
      BY <3>1 DEF Waiting
    <3> QED BY <3>1, <3>2, FlightStays, PendingSame, StutterIs
  <2> QED BY <2>1, <2>2, <2>3 DEF Next
<1> QED BY <1>1, <1>2, <1>3, IInvCorrect, ChannelsCorrect, AloneCorrect, PTL DEF Spec, IsPlayer, P!Spec
=============================================================================
