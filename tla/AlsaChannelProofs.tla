-------------------------- MODULE AlsaChannelProofs --------------------------
(***************************************************************************)
(* Proofs about AlsaChannel, for every set of samples, every period and    *)
(* buffer, and every device: the types, the events the application gets,   *)
(* the resources open() allocates, and what is heard.                      *)
(***************************************************************************)
EXTENDS AlsaChannel, SequenceTheorems, TLAPS

-----------------------------------------------------------------------------
(* Samples.                                                                *)

AnyState == [length : Nat, unit : Nat, pos : Nat, end : BOOLEAN, fresh : BOOLEAN]

\* What a sample may be in: its end is found behind its last frame only.
State(s) ==
  {x \in AnyState :
     /\ x.length = Frames[s] /\ x.unit = Unit[s] /\ x.pos <= Frames[s]
     /\ x.end => x.pos = Frames[s]
     /\ x.fresh => x.pos = 0}

LEMMA AtStartState ==
  ASSUME NEW s \in Samples
  PROVE  Smp!AtStart(Frames[s], Unit[s]) \in State(s)
BY ChannelAssumptions DEF Smp!AtStart, State, AnyState

\* A reset goes back to the first frame.
LEMMA ResetState ==
  ASSUME NEW s \in Samples, NEW x \in State(s)
  PROVE  Smp!AfterReset(x) \in State(s) /\ Smp!AfterReset(x).pos = 0
<1>1. CASE x.fresh
  BY <1>1 DEF Smp!AfterReset, State
<1>2. CASE ~x.fresh
  <2>1. Smp!AfterReset(x) = Smp!AtStart(Frames[s], Unit[s])
    BY <1>2 DEF Smp!AfterReset, State
  <2>2. QED
    BY <2>1, AtStartState DEF Smp!AtStart
<1>3. QED
  BY <1>1, <1>2

\* A read of n delivers at most n of the frames there are.
LEMMA ReadState ==
  ASSUME NEW s \in Samples, NEW x \in State(s), NEW n \in Nat, NEW t \in Smp!AfterRead(x, n)
  PROVE  t \in State(s) /\ t.pos - x.pos \in 0..n
<1>1. /\ x \in AnyState /\ x.length = Frames[s] /\ x.unit = Unit[s] /\ x.pos <= Frames[s]
      /\ x.end => x.pos = Frames[s]
      /\ x.fresh => x.pos = 0
  BY DEF State
<1>2. Frames[s] \in Nat /\ x.pos \in Nat /\ x.end \in BOOLEAN
  BY <1>1, ChannelAssumptions DEF AnyState
<1>3. \/ \E k \in 1..n : k <= Frames[s] - x.pos /\ t = Smp!Advance(x, k, x.end)
      \/ \E e \in {x.end, TRUE} :
           t = Smp!Advance(x, 0, e) /\ (t.end /\ ~x.end => x.pos = Frames[s])
  <2> DEFINE most == IF n < x.length - x.pos THEN n ELSE x.length - x.pos
  <2>1. \/ \E k \in {i \in 1..most : i % x.unit = 0} : t = Smp!Advance(x, k, x.end)
        \/ /\ \E e \in {x.end, TRUE} : t = Smp!Advance(x, 0, e)
           /\ t.end /\ ~x.end => x.pos = x.length
    BY Zenon DEF Smp!AfterRead
  <2>2. ASSUME NEW k \in 1..most PROVE k \in 1..n /\ k <= Frames[s] - x.pos
    BY <1>1, <1>2
  <2>3. QED
    <3> HIDE DEF most
    <3> QED
      BY <1>1, <2>1, <2>2
<1>4. ASSUME NEW k \in 0..n, NEW e \in BOOLEAN, k <= Frames[s] - x.pos, t = Smp!Advance(x, k, e)
      PROVE  /\ t \in AnyState /\ t.length = x.length /\ t.unit = x.unit
             /\ t.pos = x.pos + k /\ t.end = e /\ (t.fresh => x.fresh /\ k = 0)
  <2>1. (x.fresh /\ k = 0) \in BOOLEAN /\ x.pos + k \in Nat
    BY <1>2
  <2>2. t = [length |-> x.length, unit |-> x.unit, pos |-> x.pos + k, end |-> e, fresh |-> x.fresh /\ k = 0]
    BY <1>4, Zenon DEF Smp!Advance
  <2> HIDE <1>4
  <2>3. QED
    BY <1>1, <2>1, <2>2 DEF AnyState
<1>5. CASE \E k \in 1..n : k <= Frames[s] - x.pos /\ t = Smp!Advance(x, k, x.end)
  <2>1. PICK k \in 1..n : k <= Frames[s] - x.pos /\ t = Smp!Advance(x, k, x.end)
    BY <1>5
  <2>2. /\ t \in AnyState /\ t.length = x.length /\ t.unit = x.unit
        /\ t.pos = x.pos + k /\ t.end = x.end /\ (t.fresh => x.fresh /\ k = 0)
    BY <1>2, <1>4, <2>1
  <2>3. QED
    BY <1>1, <1>2, <2>1, <2>2 DEF State
<1>6. CASE \E e \in {x.end, TRUE} :
             t = Smp!Advance(x, 0, e) /\ (t.end /\ ~x.end => x.pos = Frames[s])
  <2>1. PICK e \in {x.end, TRUE} :
               t = Smp!Advance(x, 0, e) /\ (t.end /\ ~x.end => x.pos = Frames[s])
    BY <1>6
  <2>2. /\ t \in AnyState /\ t.length = x.length /\ t.unit = x.unit
        /\ t.pos = x.pos + 0 /\ t.end = e /\ (t.fresh => x.fresh)
    <3>1. 0 \in 0..n /\ 0 <= Frames[s] - x.pos
      BY <1>1, <1>2
    <3>2. e \in BOOLEAN
      BY <1>2, Zenon
    <3>3. t = Smp!Advance(x, 0, e)
      BY <2>1
    <3>4. QED
      BY <1>4, <3>1, <3>2, <3>3
  <2>3. QED
    BY <1>1, <1>2, <2>1, <2>2 DEF State
<1>7. QED
  BY <1>3, <1>5, <1>6

-----------------------------------------------------------------------------
(* The frames heard and to be heard.                                       *)

\* What follows p in a sample of n frames that loops, and what is played before the
\* i-th frame of buffer q.
After(n, p)     == IF p = n THEN 1 ELSE p + 1
Before(h, q, i) == IF i = 1 THEN h ELSE q[i - 1]
Last(h, q)      == Before(h, q, Len(q) + 1)

Chain(n, h, q) == \A i \in 1..Len(q) : q[i] = After(n, Before(h, q, i))

\* The device plays the first frame of its buffer.
LEMMA ChainTail ==
  ASSUME NEW n \in Nat, NEW h \in Nat, NEW q \in Seq(Nat), q # <<>>, Chain(n, h, q)
  PROVE  Chain(n, Head(q), Tail(q)) /\ Last(Head(q), Tail(q)) = Last(h, q)
<1>1. Len(q) \in Nat /\ Len(q) > 0
  BY LenProperties, EmptySeq
<1>2. /\ Len(Tail(q)) = Len(q) - 1 /\ Head(q) = q[1]
      /\ \A i \in 1..Len(Tail(q)) : Tail(q)[i] = q[i + 1]
  BY HeadTailProperties
<1>3. \A i \in 1..Len(q) : Before(Head(q), Tail(q), i) = q[i]
  BY <1>1, <1>2 DEF Before
<1>4. \A i \in 1..(Len(q) - 1) : Tail(q)[i] = After(n, Before(Head(q), Tail(q), i))
  <2> SUFFICES ASSUME NEW i \in 1..(Len(q) - 1)
               PROVE  Tail(q)[i] = After(n, Before(Head(q), Tail(q), i))
    OBVIOUS
  <2>1. i + 1 \in 1..Len(q) /\ i \in 1..Len(q) /\ i + 1 # 1 /\ (i + 1) - 1 = i
    BY <1>1
  <2>2. q[i + 1] = After(n, q[i])
    BY <2>1 DEF Chain, Before
  <2>3. QED
    BY <1>1, <1>2, <1>3, <2>1, <2>2
<1>5. Last(Head(q), Tail(q)) = q[Len(q)] /\ Last(h, q) = q[Len(q)]
  BY <1>1, <1>2, <1>3 DEF Last, Before
<1>6. QED
  BY <1>2, <1>4, <1>5 DEF Chain

\* The device is given the k frames that follow the first p of the sample.
LEMMA ChainChunk ==
  ASSUME NEW n \in Nat, NEW h \in Nat, NEW q \in Seq(Nat), Chain(n, h, q),
         NEW p \in Nat, NEW k \in Nat, p + k <= n,
         p = Last(h, q) \/ (p = 0 /\ Last(h, q) = n)
  PROVE  LET r == q \o Chunk(p, k)
         IN  /\ r \in Seq(Nat) /\ Len(r) = Len(q) + k
             /\ Chain(n, h, r)
             /\ p + k = Last(h, r) \/ (p + k = 0 /\ Last(h, r) = n)
<1> DEFINE c == Chunk(p, k)
           r == q \o c
<1>1. c \in Seq(Nat) /\ Len(c) = k /\ \A i \in 1..k : c[i] = p + i
  BY DEF Chunk
<1>2. Len(q) \in Nat
  BY LenProperties
<1> HIDE DEF c
<1>3. /\ r \in Seq(Nat) /\ Len(r) = Len(q) + k
      /\ \A i \in 1..(Len(q) + k) : r[i] = IF i <= Len(q) THEN q[i] ELSE c[i - Len(q)]
  BY <1>1, ConcatProperties
<1> HIDE DEF r
<1>4. /\ \A i \in 1..Len(q) : r[i] = q[i]
      /\ \A i \in 1..k : r[Len(q) + i] = p + i
  <2>1. ASSUME NEW i \in 1..k PROVE r[Len(q) + i] = p + i
    <3>1. Len(q) + i \in 1..(Len(q) + k) /\ ~(Len(q) + i <= Len(q)) /\ (Len(q) + i) - Len(q) = i
      BY <1>2
    <3>2. QED
      BY <1>1, <1>3, <3>1
  <2>2. QED
    BY <1>2, <1>3, <2>1
<1>5. \A i \in 1..(Len(q) + 1) : Before(h, r, i) = Before(h, q, i)
  BY <1>2, <1>4 DEF Before
<1>6. \A i \in 1..Len(q) : r[i] = After(n, Before(h, r, i))
  BY <1>2, <1>4, <1>5 DEF Chain
<1>7. ASSUME NEW i \in 1..k PROVE r[Len(q) + i] = After(n, Before(h, r, Len(q) + i))
  <2>1. CASE i = 1
    <3>1. Before(h, r, Len(q) + i) = Last(h, q)
      BY <1>2, <1>5, <2>1 DEF Last
    <3>2. p + 1 = After(n, Last(h, q))
      BY <1>7 DEF After
    <3>3. QED
      BY <1>4, <2>1, <3>1, <3>2
  <2>2. CASE i > 1
    <3>1. i - 1 \in 1..k /\ Len(q) + i # 1 /\ (Len(q) + i) - 1 = Len(q) + (i - 1)
      BY <1>2, <2>2
    <3>2. Before(h, r, Len(q) + i) = p + (i - 1)
      BY <1>4, <3>1 DEF Before
    <3>3. QED
      BY <1>4, <3>1, <3>2 DEF After
  <2>3. QED
    BY <2>1, <2>2
<1>8. Chain(n, h, r)
  <2> SUFFICES ASSUME NEW i \in 1..(Len(q) + k) PROVE r[i] = After(n, Before(h, r, i))
    BY <1>3 DEF Chain
  <2>1. CASE i <= Len(q)
    BY <1>2, <1>6, <2>1
  <2>2. CASE i > Len(q)
    <3>1. i - Len(q) \in 1..k /\ Len(q) + (i - Len(q)) = i
      BY <1>2, <2>2
    <3>2. QED
      BY <1>7, <3>1
  <2>3. QED
    BY <1>2, <2>1, <2>2
<1>9. p + k = Last(h, r) \/ (p + k = 0 /\ Last(h, r) = n)
  <2>1. CASE k = 0
    BY <1>2, <1>3, <1>5, <2>1 DEF Last
  <2>2. CASE k > 0
    <3>1. k \in 1..k /\ Len(q) + k + 1 # 1 /\ (Len(q) + k + 1) - 1 = Len(q) + k
      BY <1>2, <2>2
    <3>2. Last(h, r) = r[Len(q) + k]
      BY <1>3, <3>1 DEF Last, Before
    <3>3. QED
      BY <1>4, <3>1, <3>2
  <2>3. QED
    BY <2>1, <2>2
<1>10. QED
  BY <1>3, <1>8, <1>9 DEF r, c

-----------------------------------------------------------------------------
(* The invariant.                                                          *)

Sampled == src \in [Samples -> AnyState] /\ \A s \in Samples : src[s] \in State(s)

Control ==
  /\ sample \in Samples \cup {NULL} /\ status \in {"stopped", "playing", "looping"}
  /\ pcm \in {"SETUP", "PREPARED", "RUNNING", "XRUN", "GONE"}
  /\ pc \in {"idle", "prepare", "avail", "atend", "chunk", "start"}
  /\ glitch \in BOOLEAN /\ heard \in Nat /\ queue \in Seq(Nat) /\ Len(queue) <= Buffer
  /\ offset \in 0..Buffer /\ avail \in 0..Buffer /\ size \in 0..(Period + 1)

\* update() works on a channel that plays, until its device is gone.
Bound ==
  /\ Active => sample # NULL
  /\ pc \in {"prepare", "avail", "atend"} => Active
  /\ pc = "chunk" /\ pcm # "GONE" => Active

\* What update() is about to transfer has room in the device.
Fits ==
  /\ pc = "atend" => avail + Len(queue) <= Buffer
  /\ pc = "chunk" /\ pcm # "GONE" => size + Len(queue) <= Buffer

\* What the fields point to is what open() allocated last, or nothing.
Owns ==
  /\ live \subseteq fields
  /\ IF Usable THEN live = Allocated(mode) ELSE live = {} /\ pcm = "GONE"
  /\ fields \subseteq Resources /\ mode \in {"none", "mmap", "rw"}
  /\ format \in {Format[s] : s \in Samples} \cup {NULL}
  /\ sample # NULL => format = Format[sample]

\* What the device holds continues what it has played, and the sample that.
Continues ==
  Active /\ ~glitch =>
    /\ Chain(Frames[sample], heard, queue)
    /\ \/ src[sample].pos = Last(heard, queue)
       \/ src[sample].pos = 0 /\ Last(heard, queue) = Frames[sample]

IInv == Sampled /\ Control /\ Bound /\ Fits /\ Owns /\ Told /\ Continues

\* The sample of a channel.
LEMMA SampleFacts ==
  ASSUME Sampled, sample \in Samples
  PROVE  /\ src[sample] \in State(sample) /\ src[sample] \in AnyState
         /\ src[sample].length = Frames[sample] /\ src[sample].pos \in Nat /\ Frames[sample] \in Nat
         /\ src[sample].pos <= Frames[sample]
BY ChannelAssumptions DEF Sampled, State, AnyState

\* A sample is replaced by one in another state.
LEMMA SrcExcept ==
  ASSUME Sampled, NEW s \in Samples, NEW x \in State(s), src' = [src EXCEPT ![s] = x]
  PROVE  Sampled' /\ src'[s] = x
BY DEF Sampled, State

LEMMA InitHolds == Init => IInv
<1> SUFFICES ASSUME Init PROVE IInv
  OBVIOUS
<1>1. Sampled
  <2>1. \A s \in Samples : Smp!AtStart(Frames[s], Unit[s]) \in State(s)
    BY AtStartState
  <2>2. \A s \in Samples : State(s) \subseteq AnyState
    BY DEF State
  <2>3. src = [s \in Samples |-> Smp!AtStart(Frames[s], Unit[s])]
    BY DEF Init
  <2>4. QED
    BY <2>1, <2>2, <2>3 DEF Sampled
<1>2. Control
  <2>1. queue \in Seq(Nat) /\ Len(queue) = 0
    BY EmptySeq DEF Init
  <2>2. glitch \in BOOLEAN
    BY DEF Init
  <2>3. Buffer \in Nat /\ Period \in Nat
    BY ChannelAssumptions
  <2>4. QED
    BY <2>1, <2>2, <2>3 DEF Init, Control
<1>3. Bound /\ Fits /\ Told /\ Continues
  BY DEF Init, Bound, Fits, Told, Continues, Active
<1>4. Owns
  BY DEF Init, Owns, Usable
<1>5. QED
  BY <1>1, <1>2, <1>3, <1>4 DEF IInv

-----------------------------------------------------------------------------
(* The commands.                                                           *)

LEMMA PlayAgainHolds ==
  ASSUME IInv, NEW s \in Samples, NEW m \in {"playing", "looping"}, PlayAgain(s, m)
  PROVE  IInv'
<1> USE DEF IInv
<1>1. /\ src' = src /\ sample' = sample /\ sample = s /\ status' = m /\ pc = "idle" /\ pc' = pc
      /\ resources' = resources /\ pcm' = pcm /\ queue' = queue /\ offset' = offset
      /\ avail' = avail /\ size' = size
      /\ told' = IF Active THEN told ELSE told \cup {s}
      /\ heard' = IF Active THEN heard ELSE src[s].pos
      /\ glitch' = IF Active THEN glitch ELSE queue # <<>>
  BY DEF PlayAgain, Start, local
<1>2. Active' /\ s # NULL
  BY <1>1, ChannelAssumptions DEF Active
<1>3. Sampled' /\ src[s].pos \in Nat
  BY <1>1, SampleFacts DEF Sampled
<1>4. Control'
  <2>1. glitch' \in BOOLEAN
    BY <1>1, Zenon DEF Control
  <2>2. QED
    BY <1>1, <1>3, <2>1 DEF Control
<1>5. Bound' /\ Fits'
  BY <1>1, <1>2 DEF Bound, Fits
<1>6. Owns'
  BY <1>1 DEF Owns, resources, Usable, Allocated
<1>7. Told'
  BY <1>1, <1>2, Zenon DEF Told
<1>8. Continues'
  <2>1. CASE Active
    BY <1>1, <2>1 DEF Continues
  <2>2. CASE ~Active
    <3> SUFFICES ASSUME ~glitch'
                 PROVE  Chain(Frames[s], heard', queue') /\ src[s].pos = Last(heard', queue')
      BY <1>1 DEF Continues
    <3>1. queue' = <<>> /\ heard' = src[s].pos
      BY <1>1, <2>2
    <3>2. QED
      BY <3>1 DEF Chain, Last, Before
  <2>3. QED
    BY <2>1, <2>2
<1>9. QED
  BY <1>3, <1>4, <1>5, <1>6, <1>7, <1>8

\* open(): what the channel had is freed, and what is there afterwards is owned.
LEMMA OpenOwns ==
  ASSUME Owns, NEW s \in Samples, Open(Format[s])
  PROVE  /\ format' = Format[s] /\ fields' \subseteq Resources /\ mode' \in {"none", "mmap", "rw"}
         /\ live' \subseteq fields'
         /\ IF Usable' THEN live' = Allocated(mode') ELSE live' = {} /\ pcm' = "GONE"
<1>1. CASE format = Format[s]
  BY <1>1 DEF Open, Owns, resources, Usable, Allocated
<1>2. CASE format # Format[s]
  <2>1. Closed = {}
    BY DEF Closed, Owns
  <2>2. format' = Format[s]
    BY <1>2 DEF Open, DoOpen
  <2>3. PICK m \in Modes :
       \/ /\ fields' = Allocated(m) /\ live' = Allocated(m)
          /\ pcm' = "PREPARED" /\ mode' = m
       \/ /\ fields' = {} /\ live' = {}
          /\ pcm' = "GONE" /\ mode' = mode
       \/ /\ fields' = {"handle", "hwparams"} /\ live' = {}
          /\ pcm' = "GONE" /\ mode' \in {mode, m}
       \/ /\ fields' = {"handle", "hwparams", "swparams"} /\ live' = {}
          /\ pcm' = "GONE" /\ mode' = m
    BY <1>2, <2>1 DEF Open, DoOpen
  <2>4. m \in {"mmap", "rw"} /\ mode \in {"none", "mmap", "rw"}
    BY ChannelAssumptions DEF Owns
  <2>5. Allocated(m) \subseteq Resources /\ "handle" \in Allocated(m)
    BY DEF Allocated, Resources
  <2>6. {"handle", "hwparams", "swparams"} \subseteq Resources
    BY DEF Resources
  <2>7. CASE fields' = Allocated(m) /\ live' = Allocated(m) /\ pcm' = "PREPARED" /\ mode' = m
    BY <2>2, <2>4, <2>5, <2>7 DEF Usable, Allocated
  <2>8. CASE live' = {} /\ pcm' = "GONE" /\ mode' \in {mode, m}
             /\ fields' \in {{}, {"handle", "hwparams"}, {"handle", "hwparams", "swparams"}}
    BY <2>2, <2>4, <2>6, <2>8 DEF Usable
  <2>9. QED
    BY <2>3, <2>7, <2>8
<1>3. QED
  BY <1>1, <1>2

LEMMA PlayNewHolds ==
  ASSUME IInv, NEW s \in Samples, NEW m \in {"playing", "looping"}, PlayNew(s, m)
  PROVE  IInv'
<1> USE DEF IInv
<1>1. /\ src' = src /\ sample' = s /\ sample = NULL /\ status' = m /\ pc = "idle" /\ pc' = pc
      /\ Open(Format[s]) /\ avail' = avail /\ size' = size
      /\ told' = IF Active THEN told ELSE told \cup {s}
      /\ heard' = src[s].pos /\ glitch' = (queue' # <<>>)
  BY DEF PlayNew, Start, local
<1>2. ~Active /\ Active' /\ s # NULL
  BY <1>1, ChannelAssumptions DEF Active, Bound
<1>3. Sampled' /\ src[s].pos \in Nat
  BY <1>1 DEF Sampled, AnyState
<1>4. Control'
  <2>1. glitch' \in BOOLEAN
    BY <1>1, Zenon
  <2>2. /\ queue' \in Seq(Nat) /\ Len(queue') <= Buffer /\ offset' \in 0..Buffer
        /\ pcm' \in {"SETUP", "PREPARED", "RUNNING", "XRUN", "GONE"}
    <3>1. CASE queue' = queue /\ offset' = offset /\ pcm' = pcm
      BY <3>1 DEF Control
    <3>2. CASE queue' = <<>> /\ offset' = 0 /\ pcm' \in {"PREPARED", "GONE"}
      BY <3>2, EmptySeq, ChannelAssumptions
    <3>3. QED
      BY <1>1, <3>1, <3>2 DEF Open, DoOpen
  <2>3. QED
    BY <1>1, <1>3, <2>1, <2>2 DEF Control
<1>5. Bound' /\ Fits'
  BY <1>1, <1>2 DEF Bound, Fits
<1>6. Owns'
  BY <1>1, OpenOwns DEF Owns
<1>7. Told'
  BY <1>1, <1>2, Zenon DEF Told
<1>8. Continues'
  <2> SUFFICES ASSUME ~glitch'
               PROVE  Chain(Frames[s], heard', queue') /\ src[s].pos = Last(heard', queue')
    BY <1>1 DEF Continues
  <2>1. queue' = <<>> /\ heard' = src[s].pos
    BY <1>1
  <2>2. QED
    BY <2>1 DEF Chain, Last, Before
<1>9. QED
  BY <1>3, <1>4, <1>5, <1>6, <1>7, <1>8

\* aout_alsa_stop: the device is silent and the sample back at its begin.
LEMMA HaltHolds ==
  ASSUME Sampled, Control, Active, sample \in Samples, Told, Halt
  PROVE  /\ Sampled' /\ told' = {} /\ status' = "stopped"
         /\ queue' = <<>> /\ offset' = 0 /\ (pcm = "GONE" => pcm' = "GONE")
         /\ pcm' \in {"SETUP", "GONE"}
<1>1. Sampled'
  BY ResetState, SrcExcept DEF Halt, Sampled
<1>2. told' = {}
  BY DEF Halt, Told
<1>3. QED
  BY <1>1, <1>2 DEF Halt, Drop

LEMMA StopHolds ==
  ASSUME IInv, Stop
  PROVE  IInv'
<1> USE DEF IInv
<1>1. /\ sample # NULL /\ sample' = NULL /\ pc = "idle" /\ pc' = pc
      /\ resources' = resources /\ heard' = heard /\ glitch' = glitch
      /\ avail' = avail /\ size' = size
  BY DEF Stop, local
<1>2. /\ Sampled' /\ told' = {} /\ status' = "stopped"
      /\ \/ queue' = queue /\ offset' = offset /\ pcm' = pcm
         \/ queue' = <<>> /\ offset' = 0 /\ (pcm = "GONE" => pcm' = "GONE") /\ pcm' \in {"SETUP", "GONE"}
  <2>1. CASE Active
    <3>1. Halt /\ sample \in Samples
      BY <1>1, <2>1 DEF Stop, Control
    <3>2. QED
      BY <2>1, <3>1, HaltHolds
  <2>2. CASE ~Active
    <3>1. /\ pcm' = pcm /\ queue' = queue /\ offset' = offset /\ status' = status
          /\ told' = told /\ src' = src
      BY <2>2 DEF Stop
    <3>2. status = "stopped" /\ told = {}
      BY <2>2 DEF Active, Control, Told
    <3>3. QED
      BY <3>1, <3>2 DEF Sampled
  <2>3. QED
    BY <2>1, <2>2
<1>3. ~Active'
  BY <1>2 DEF Active
<1>4. Control'
  <2>1. CASE queue' = queue /\ offset' = offset /\ pcm' = pcm
    BY <1>1, <1>2, <2>1 DEF Control
  <2>2. CASE queue' = <<>> /\ offset' = 0 /\ pcm' \in {"SETUP", "GONE"}
    BY <1>1, <1>2, <2>2, EmptySeq, ChannelAssumptions DEF Control
  <2>3. QED
    BY <1>2, <2>1, <2>2
<1>5. Bound' /\ Fits' /\ Continues'
  BY <1>1, <1>3 DEF Bound, Fits, Continues
<1>6. Owns'
  BY <1>1, <1>2 DEF Owns, resources, Usable, Allocated
<1>7. Told'
  BY <1>2, <1>3 DEF Told
<1>8. QED
  BY <1>2, <1>4, <1>5, <1>6, <1>7

-----------------------------------------------------------------------------
(* The device.                                                             *)

LEMMA TickHolds ==
  ASSUME IInv, Tick
  PROVE  IInv'
<1> USE DEF IInv
<1>1. /\ pcm = "RUNNING" /\ pcm' \in {"XRUN", "RUNNING"}
      /\ src' = src /\ sample' = sample /\ status' = status /\ resources' = resources
      /\ offset' = offset /\ glitch' = glitch /\ told' = told /\ pc' = pc
      /\ avail' = avail /\ size' = size
      /\ IF queue = <<>> THEN queue' = queue /\ heard' = heard
                         ELSE heard' = Head(queue) /\ queue' = Tail(queue)
  BY DEF Tick, local
<1>2. /\ heard' \in Nat /\ queue' \in Seq(Nat) /\ Len(queue') \in Nat /\ Len(queue) \in Nat
      /\ Len(queue') <= Len(queue)
  <2>1. CASE queue = <<>>
    BY <1>1, <2>1, LenProperties DEF Control
  <2>2. CASE queue # <<>>
    <3>1. queue \in Seq(Nat) /\ Len(queue) \in Nat
      BY LenProperties DEF Control
    <3>2. QED
      BY <1>1, <2>2, <3>1, HeadTailProperties, SMTT(30)
  <2>3. QED
    BY <2>1, <2>2
<1>3. Sampled' /\ Control'
  BY <1>1, <1>2, ChannelAssumptions DEF Sampled, Control
<1>4. Bound'
  BY <1>1 DEF Bound, Active
<1>5. Fits'
  BY <1>1, <1>2, ChannelAssumptions DEF Fits, Control
<1>6. Owns'
  BY <1>1 DEF Owns, resources, Usable, Allocated
<1>7. Told'
  BY <1>1, Zenon DEF Told, Active
<1>8. Continues'
  <2>1. CASE queue = <<>>
    BY <1>1, <2>1 DEF Continues, Active
  <2>2. CASE queue # <<>>
    <3> SUFFICES ASSUME Active, ~glitch
                 PROVE  /\ Chain(Frames[sample], heard', queue')
                        /\ Last(heard', queue') = Last(heard, queue)
      BY <1>1 DEF Continues, Active
    <3>1. Chain(Frames[sample], heard, queue) /\ queue \in Seq(Nat) /\ heard \in Nat
      BY DEF Continues, Control
    <3>2. Frames[sample] \in Nat
      BY ChannelAssumptions DEF Bound, Control
    <3>3. /\ Chain(Frames[sample], Head(queue), Tail(queue))
          /\ Last(Head(queue), Tail(queue)) = Last(heard, queue)
      BY <2>2, <3>1, <3>2, ChainTail
    <3>4. heard' = Head(queue) /\ queue' = Tail(queue)
      BY <1>1, <2>2
    <3>5. QED
      BY <3>3, <3>4, Zenon
  <2>3. QED
    BY <2>1, <2>2
<1>9. QED
  BY <1>3, <1>4, <1>5, <1>6, <1>7, <1>8

\* The device stops, or goes away: it has no more in its buffer than before, and if it
\* has less then frames are lost.
LEMMA DeviceHolds ==
  ASSUME IInv, Suspend \/ Vanish
  PROVE  IInv'
<1> USE DEF IInv
<1>1. /\ src' = src /\ sample' = sample /\ status' = status /\ resources' = resources
      /\ offset' = offset /\ told' = told /\ pc' = pc /\ heard' = heard
      /\ avail' = avail /\ size' = size
      /\ \/ pcm = "RUNNING" /\ pcm' = "XRUN" /\ queue' = queue /\ glitch' = glitch
         \/ pcm' = "GONE" /\ queue' = <<>> /\ glitch' = TRUE
  BY DEF Suspend, Vanish, local
<1>2. Sampled'
  BY <1>1 DEF Sampled
<1>3. Control' /\ Fits'
  <2>1. CASE pcm = "RUNNING" /\ pcm' = "XRUN" /\ queue' = queue /\ glitch' = glitch
    BY <1>1, <2>1 DEF Control, Fits
  <2>2. CASE pcm' = "GONE" /\ queue' = <<>> /\ glitch' = TRUE
    <3>1. queue' \in Seq(Nat) /\ Len(queue') = 0 /\ Buffer \in Nat
      BY <2>2, EmptySeq, ChannelAssumptions
    <3>2. glitch' \in BOOLEAN
      BY <2>2
    <3>3. QED
      BY <1>1, <2>2, <3>1, <3>2 DEF Control, Fits
  <2>3. QED
    BY <1>1, <2>1, <2>2
<1>4. Bound'
  BY <1>1 DEF Bound, Active
<1>5. Owns'
  BY <1>1 DEF Owns, resources, Usable, Allocated
<1>6. Told'
  BY <1>1, Zenon DEF Told, Active
<1>7. Continues'
  BY <1>1 DEF Continues, Active
<1>8. QED
  BY <1>2, <1>3, <1>4, <1>5, <1>6, <1>7

-----------------------------------------------------------------------------
(* update().                                                               *)

\* A recovered device is empty; nothing is lost only if it was before.
LEMMA Recovered ==
  ASSUME Control, Recover
  PROVE  /\ pcm # "GONE" /\ pcm' = "PREPARED" /\ queue' = <<>> /\ offset' = 0
         /\ queue' \in Seq(Nat) /\ Len(queue') = 0 /\ offset' \in 0..Buffer
         /\ glitch' \in BOOLEAN
         /\ ~glitch' => ~glitch /\ queue = <<>>
<1>1. queue' = <<>> /\ pcm # "GONE" /\ pcm' = "PREPARED" /\ offset' = 0
      /\ glitch' = (glitch \/ queue # <<>>)
  BY DEF Recover
<1>2. glitch' \in BOOLEAN /\ (~glitch' => ~glitch /\ queue = <<>>)
  BY <1>1, Zenon
<1>3. QED
  BY <1>1, <1>2, EmptySeq, ChannelAssumptions

\* The steps that only look, and those that prepare, recover or start the device.
QuietStep ==
  /\ src' = src /\ sample' = sample /\ status' = status /\ resources' = resources
  /\ told' = told /\ heard' = heard
  /\ pc' \in {"idle", "prepare", "avail", "atend", "chunk", "start"}
  /\ avail' \in 0..Buffer /\ size' \in 0..(Period + 1)
  /\ pcm' \in {"SETUP", "PREPARED", "RUNNING", "XRUN", "GONE"} /\ (pcm' = "GONE" <=> pcm = "GONE")
  /\ \/ queue' = queue /\ offset' = offset /\ glitch' = glitch
     \/ Recover

LEMMA QuietKeeps ==
  ASSUME IInv, QuietStep
  PROVE  Sampled' /\ Control' /\ Owns' /\ Told' /\ Continues' /\ (Active' <=> Active)
<1> USE DEF IInv
<1> USE DEF QuietStep
<1>1. Sampled'
  BY DEF Sampled
<1>2. Control'
  <2>1. CASE queue' = queue /\ offset' = offset /\ glitch' = glitch
    BY <2>1 DEF Control
  <2>2. CASE Recover
    <3>1. Buffer \in Nat
      BY ChannelAssumptions
    <3>2. QED
      BY <2>2, <3>1, Recovered DEF Control
  <2>3. QED
    BY <2>1, <2>2
<1>3. Owns'
  BY DEF Owns, resources, Usable, Allocated
<1>4. Told' /\ (Active' <=> Active)
  BY Zenon DEF Told, Active
<1>5. Continues'
  <2>1. CASE queue' = queue /\ offset' = offset /\ glitch' = glitch
    BY <2>1 DEF Continues, Active
  <2>2. CASE Recover
    <3>1. ~glitch' => ~glitch /\ queue' = queue
      BY <2>2, Recovered
    <3>2. QED
      BY <3>1 DEF Continues, Active
  <2>3. QED
    BY <2>1, <2>2
<1>6. QED
  BY <1>1, <1>2, <1>3, <1>4, <1>5

LEMMA LookHolds ==
  ASSUME IInv, Update \/ AvailUpdate \/ NothingToDo \/ BeginPeriod \/ StartDevice
  PROVE  IInv'
<1>0. /\ Buffer \in Nat /\ Period \in Nat \ {0} /\ Len(queue) \in Nat /\ Len(queue) <= Buffer
      /\ avail \in 0..Buffer /\ size \in 0..(Period + 1)
  BY ChannelAssumptions, LenProperties DEF IInv, Control
<1>1. CASE Update
  <2>1. QuietStep /\ Active /\ pc' = "prepare"
    BY <1>1 DEF Update, Goto, QuietStep, local, device, IInv, Control
  <2>2. Bound' /\ Fits'
    BY <2>1, QuietKeeps DEF Bound, Fits, QuietStep, IInv
  <2>3. QED
    BY <2>1, <2>2, QuietKeeps DEF IInv
<1>2. CASE AvailUpdate
  <2>1. /\ Active /\ pc' = "atend" /\ avail' = Buffer - Len(queue) /\ queue' = queue
        /\ size' = size /\ offset' = offset /\ glitch' = glitch
    BY <1>2 DEF AvailUpdate, Goto, device, IInv, Bound
  <2>2. QuietStep
    BY <1>0, <1>2, <2>1 DEF AvailUpdate, QuietStep, device, IInv, Control
  <2>3. Bound' /\ Fits'
    BY <1>0, <2>1, <2>2, QuietKeeps DEF Bound, Fits, QuietStep, IInv
  <2>4. QED
    BY <2>2, <2>3, QuietKeeps DEF IInv
<1>3. CASE NothingToDo
  <2>1. QuietStep /\ pc' = "start"
    BY <1>3 DEF NothingToDo, Goto, QuietStep, local, device, IInv, Control
  <2>2. Bound' /\ Fits'
    BY <2>1, QuietKeeps DEF Bound, Fits, QuietStep, IInv
  <2>3. QED
    BY <2>1, <2>2, QuietKeeps DEF IInv
<1>4. CASE BeginPeriod
  <2>1. /\ Active /\ pc = "atend" /\ pc' = "chunk" /\ avail >= Period /\ size' = Period
        /\ queue' = queue /\ avail' = avail
    BY <1>4 DEF BeginPeriod, AtEnd, Goto, device, IInv, Bound
  <2>2. QuietStep
    BY <1>0, <1>4, <2>1 DEF BeginPeriod, QuietStep, device, IInv, Control
  <2>3. Bound' /\ Fits'
    BY <1>0, <2>1, <2>2, QuietKeeps DEF Bound, Fits, QuietStep, IInv
  <2>4. QED
    BY <2>2, <2>3, QuietKeeps DEF IInv
<1>5. CASE StartDevice
  <2>1. QuietStep /\ pc' = "idle"
    BY <1>5 DEF StartDevice, Goto, QuietStep, local, IInv, Control
  <2>2. Bound' /\ Fits'
    BY <2>1, QuietKeeps DEF Bound, Fits, QuietStep, IInv
  <2>3. QED
    BY <2>1, <2>2, QuietKeeps DEF IInv
<1>6. QED
  BY <1>1, <1>2, <1>3, <1>4, <1>5

LEMMA PrepareHolds ==
  ASSUME IInv, Prepare
  PROVE  IInv'
<1>1. /\ pc = "prepare" /\ pc' = "avail" /\ Active
      /\ src' = src /\ sample' = sample /\ status' = status /\ resources' = resources
      /\ told' = told /\ heard' = heard /\ avail' = avail /\ size' = size
  BY DEF Prepare, Goto, local, IInv, Bound
<1>2. QuietStep
  <2>1. CASE pcm = "XRUN" /\ Recover
    BY <1>1, <2>1, Recovered DEF QuietStep, IInv, Control
  <2>2. CASE pcm # "XRUN"
    BY <1>1, <2>2 DEF Prepare, QuietStep, IInv, Control
  <2>3. QED
    BY <2>1, <2>2 DEF Prepare
<1>3. Bound' /\ Fits'
  BY <1>1, <1>2, QuietKeeps DEF Bound, Fits, IInv
<1>4. QED
  BY <1>2, <1>3, QuietKeeps DEF IInv

\* error(): the channel is stopped and free, and its sample told so.
LEMMA ErrorHolds ==
  ASSUME Told, Error
  PROVE  told' = {} /\ status' = "stopped" /\ sample' = NULL /\ ~Active' /\ Told'
<1>1. status' = "stopped" /\ sample' = NULL
  BY DEF Error
<1>2. told' = {}
  <2>1. CASE Active
    BY <2>1 DEF Error, Told
  <2>2. CASE ~Active
    BY <2>2 DEF Error, Told
  <2>3. QED
    BY <2>1, <2>2
<1>3. ~Active'
  BY <1>1 DEF Active
<1>4. QED
  BY <1>1, <1>2, <1>3 DEF Told

\* The steps after which the channel does not play.
LEMMA Ends ==
  ASSUME IInv, Sampled', told' = {}, status' = "stopped", sample' \in {sample, NULL},
         resources' = resources, heard' = heard, avail' = avail, size' \in 0..(Period + 1),
         glitch' \in BOOLEAN,
         \/ queue' = queue /\ offset' = offset /\ pcm' = pcm
         \/ queue' = <<>> /\ offset' = 0 /\ (pcm = "GONE" => pcm' = "GONE") /\ pcm' \in {"SETUP", "GONE"},
         pc' = "idle" \/ (pc' = "chunk" /\ pcm = "GONE" /\ pcm' = "GONE")
  PROVE  IInv'
<1> USE DEF IInv
<1>1. ~Active'
  BY DEF Active
<1>2. Control'
  <2>1. Buffer \in Nat
    BY ChannelAssumptions
  <2>2. CASE queue' = queue /\ offset' = offset /\ pcm' = pcm
    BY <2>2 DEF Control
  <2>3. CASE queue' = <<>> /\ offset' = 0 /\ pcm' \in {"SETUP", "GONE"}
    BY <2>1, <2>3, EmptySeq DEF Control
  <2>4. QED
    BY <2>2, <2>3
<1>3. Bound' /\ Fits' /\ Continues' /\ Told'
  BY <1>1 DEF Bound, Fits, Continues, Told
<1>4. Owns'
  BY DEF Owns, resources, Usable, Allocated
<1>5. QED
  BY <1>2, <1>3, <1>4

LEMMA AvailFailsHolds ==
  ASSUME IInv, AvailFails
  PROVE  IInv'
<1>1. CASE Recover /\ UNCHANGED <<sample, status, told, pc>>
  <2>1. pc = "avail" /\ Active
    BY DEF AvailFails, IInv, Bound
  <2>2. QuietStep
    BY <1>1, <2>1, Recovered DEF AvailFails, local, QuietStep, IInv, Control
  <2>3. Bound' /\ Fits'
    BY <1>1, <2>1, <2>2, QuietKeeps DEF Bound, Fits, IInv
  <2>4. QED
    BY <2>2, <2>3, QuietKeeps DEF IInv
<1>2. CASE Error /\ pc' = "idle" /\ UNCHANGED <<pcm, queue, offset, glitch>>
  <2>1. told' = {} /\ status' = "stopped" /\ sample' = NULL
    BY <1>2, ErrorHolds DEF IInv
  <2>2. /\ resources' = resources /\ heard' = heard /\ avail' = avail /\ size' \in 0..(Period + 1)
        /\ glitch' \in BOOLEAN
    BY <1>2 DEF AvailFails, local, IInv, Control
  <2>3. Sampled'
    BY DEF AvailFails, IInv, Sampled
  <2>4. QED
    BY <1>2, <2>1, <2>2, <2>3, Ends
<1>3. QED
  BY <1>1, <1>2 DEF AvailFails, Goto

LEMMA StartFailsHolds ==
  ASSUME IInv, StartFails
  PROVE  IInv'
<1>1. told' = {} /\ status' = "stopped" /\ sample' = NULL
  BY ErrorHolds DEF StartFails, IInv
<1>2. /\ resources' = resources /\ heard' = heard /\ avail' = avail /\ size' \in 0..(Period + 1)
      /\ glitch' \in BOOLEAN /\ queue' = queue /\ offset' = offset /\ pcm' = pcm /\ pc' = "idle"
  BY DEF StartFails, Goto, local, device, IInv, Control
<1>3. Sampled'
  BY DEF StartFails, IInv, Sampled
<1>4. QED
  BY <1>1, <1>2, <1>3, Ends

LEMMA FinishHolds ==
  ASSUME IInv, Finish
  PROVE  IInv'
<1>1. pc = "atend" /\ Active /\ sample \in Samples
  BY DEF Finish, AtEnd, IInv, Bound, Control
<1>2. /\ Sampled' /\ told' = {} /\ status' = "stopped"
      /\ queue' = <<>> /\ offset' = 0 /\ (pcm = "GONE" => pcm' = "GONE") /\ pcm' \in {"SETUP", "GONE"}
  BY <1>1, HaltHolds DEF Finish, IInv
<1>3. /\ resources' = resources /\ heard' = heard /\ avail' = avail /\ size' \in 0..(Period + 1)
      /\ glitch' \in BOOLEAN /\ sample' = sample /\ pc' = "idle"
  BY DEF Finish, Goto, local, IInv, Control
<1>4. QED
  BY <1>2, <1>3, Ends

\* The end of a looping sample is followed by its begin.
LEMMA RewindHolds ==
  ASSUME IInv, Rewind
  PROVE  IInv'
<1> USE DEF IInv
<1>1. /\ pc = "atend" /\ pc' = "prepare" /\ Active /\ sample \in Samples
      /\ src[sample].end = TRUE
      /\ src' = [src EXCEPT ![sample] = Smp!AfterReset(@)]
      /\ sample' = sample /\ status' = status /\ resources' = resources /\ told' = told
      /\ pcm' = pcm /\ queue' = queue /\ offset' = offset /\ heard' = heard /\ glitch' = glitch
      /\ avail' = avail /\ size' = size
  BY DEF Rewind, AtEnd, Goto, device, local, Bound, Control
<1>2. src[sample] \in State(sample)
  BY <1>1 DEF Sampled
<1>3. Sampled' /\ src'[sample].pos = 0
  <2> DEFINE x == Smp!AfterReset(src[sample])
  <2>1. x \in State(sample) /\ x.pos = 0
    BY <1>1, <1>2, ResetState
  <2>2. src' = [src EXCEPT ![sample] = x]
    BY <1>1
  <2> HIDE DEF x
  <2> QED BY <1>1, <2>1, <2>2, SrcExcept
<1>4. Control'
  BY <1>1 DEF Control
<1>5. Bound' /\ Fits' /\ Active'
  BY <1>1 DEF Bound, Fits, Active
<1>6. Owns'
  BY <1>1 DEF Owns, resources, Usable, Allocated
<1>7. Told'
  BY <1>1, Zenon DEF Told, Active
<1>8. Continues'
  <2> SUFFICES ASSUME ~glitch
               PROVE  Chain(Frames[sample], heard, queue) /\ Last(heard, queue) = Frames[sample]
    BY <1>1, <1>3 DEF Continues
  <2>1. /\ Chain(Frames[sample], heard, queue)
        /\ \/ src[sample].pos = Last(heard, queue)
           \/ src[sample].pos = 0 /\ Last(heard, queue) = Frames[sample]
    BY <1>1 DEF Continues
  <2>2. src[sample].pos = Frames[sample]
    BY <1>1, <1>2 DEF State
  <2>3. QED
    BY <2>1, <2>2
<1>9. QED
  BY <1>3, <1>4, <1>5, <1>6, <1>7, <1>8

-----------------------------------------------------------------------------
(* The transfer of a period.                                               *)

\* What is read at a time is no more than is asked for.
LEMMA RoomFits ==
  ASSUME Control
  PROVE  Room \in Nat /\ Room <= size
<1>1. Buffer \in Nat /\ Period \in Nat /\ offset \in 0..Buffer /\ size \in 0..(Period + 1)
  BY ChannelAssumptions DEF Control
<1>2. QED
  BY <1>1 DEF Room

LEMMA ChunkEnds ==
  ASSUME Control, NEW k \in Nat, k <= size, AfterChunk(k)
  PROVE  size' = size - k /\ size' \in 0..(Period + 1) /\ pc' \in {"start", "prepare", "chunk"}
<1>1. Period \in Nat /\ size \in 0..(Period + 1)
  BY ChannelAssumptions DEF Control
<1>2. QED
  BY <1>1 DEF AfterChunk, Goto

\* A device that is not gone is filled in the order of the sample.
LEMMA TransferHolds ==
  ASSUME IInv, Transfer
  PROVE  IInv'
<1> USE DEF IInv
<1>1. /\ pc = "chunk" /\ pcm \in {"PREPARED", "RUNNING"} /\ pcm' \in {"PREPARED", "RUNNING"}
      /\ sample' = sample /\ status' = status /\ resources' = resources /\ told' = told
      /\ heard' = heard /\ glitch' = glitch /\ avail' = avail
  BY DEF Transfer
<1>2. Active /\ Active' /\ sample \in Samples
  BY <1>1 DEF Bound, Active, Control
<1>3. PICK t \in Smp!AfterRead(src[sample], Room) :
        LET k == t.pos - src[sample].pos IN
        /\ src' = [src EXCEPT ![sample] = t]
        /\ queue' = queue \o Chunk(src[sample].pos, k)
        /\ offset' = (offset + k) % Buffer
        /\ AfterChunk(k)
  BY DEF Transfer
<1> DEFINE p == src[sample].pos
           k == t.pos - p
<1>4. /\ src[sample] \in State(sample) /\ p \in Nat /\ p <= Frames[sample]
      /\ Frames[sample] \in Nat
  BY <1>2, SampleFacts
<1>5. Room \in Nat /\ Room <= size
  BY RoomFits
<1>6. t \in State(sample) /\ k \in 0..Room
  BY <1>2, <1>4, <1>5, ReadState
<1>7. /\ src' = [src EXCEPT ![sample] = t] /\ queue' = queue \o Chunk(p, k)
      /\ offset' = (offset + k) % Buffer /\ AfterChunk(k)
  BY <1>3
<1>8. Sampled' /\ src'[sample] = t
  BY <1>2, <1>6, <1>7, SrcExcept
<1>9. k \in Nat /\ k <= size /\ p + k = t.pos /\ p + k <= Frames[sample]
  <2>1. t.pos \in Nat /\ t.pos <= Frames[sample] /\ size \in Nat
    BY <1>6, ChannelAssumptions DEF State, AnyState, Control
  <2>2. QED
    BY <1>4, <1>5, <1>6, <2>1
<1> HIDE DEF k
<1>10. size' = size - k /\ size' \in 0..(Period + 1) /\ pc' \in {"start", "prepare", "chunk"}
  BY <1>7, <1>9, ChunkEnds
<1>11. queue \in Seq(Nat) /\ Len(queue) \in Nat /\ heard \in Nat
  BY LenProperties DEF Control
<1>12. queue' \in Seq(Nat) /\ Len(queue') = Len(queue) + k
  <2>1. Chunk(p, k) \in Seq(Nat) /\ Len(Chunk(p, k)) = k
    BY <1>4, <1>9 DEF Chunk
  <2>2. QED
    BY <1>7, <1>11, <2>1, ConcatProperties
<1>13. Control'
  <2>1. offset' \in 0..Buffer
    BY <1>7, <1>9, ChannelAssumptions, SMTT(30) DEF Control
  <2>2. Len(queue') <= Buffer
    <3>1. size + Len(queue) <= Buffer /\ size \in Nat /\ Buffer \in Nat
      BY <1>1, ChannelAssumptions DEF Fits, Control
    <3>2. QED
      BY <1>9, <1>11, <1>12, <3>1
  <2>3. QED
    BY <1>1, <1>10, <1>12, <2>1, <2>2 DEF Control
<1>14. Bound'
  BY <1>1, <1>2, <1>10 DEF Bound
<1>15. Fits'
  <2>1. size + Len(queue) <= Buffer /\ size \in Nat /\ Buffer \in Nat
    BY <1>1, ChannelAssumptions DEF Fits, Control
  <2>2. QED
    BY <1>9, <1>10, <1>11, <1>12, <2>1 DEF Fits
<1>16. Owns'
  BY <1>1 DEF Owns, resources, Usable, Allocated
<1>17. Told'
  BY <1>1, Zenon DEF Told, Active
<1>18. Continues'
  <2> SUFFICES ASSUME ~glitch
               PROVE  /\ Chain(Frames[sample], heard, queue')
                      /\ p + k = Last(heard, queue') \/ (p + k = 0 /\ Last(heard, queue') = Frames[sample])
    BY <1>1, <1>8, <1>9 DEF Continues
  <2>1. /\ Chain(Frames[sample], heard, queue)
        /\ p = Last(heard, queue) \/ (p = 0 /\ Last(heard, queue) = Frames[sample])
    BY <1>2 DEF Continues
  <2> HIDE DEF p
  <2>2. QED
    BY <1>4, <1>7, <1>9, <1>11, <2>1, ChainChunk
<1>19. QED
  BY <1>8, <1>13, <1>14, <1>15, <1>16, <1>17, <1>18

\* A device that recovers is empty.
LEMMA TransferNothingHolds ==
  ASSUME IInv, TransferNothing
  PROVE  IInv'
<1>1. /\ pc = "chunk" /\ pcm = "XRUN" /\ Recover /\ AfterChunk(0) /\ Active
      /\ src' = src /\ sample' = sample /\ status' = status /\ resources' = resources
      /\ told' = told /\ heard' = heard /\ avail' = avail
  BY DEF TransferNothing, IInv, Bound
<1>2. /\ size \in 0..(Period + 1) /\ Period \in Nat /\ Buffer \in Nat /\ avail \in 0..Buffer
      /\ size + Len(queue) <= Buffer /\ Len(queue) \in Nat
  BY <1>1, ChannelAssumptions, LenProperties DEF IInv, Control, Fits
<1>3. size' = size - 0 /\ size' \in 0..(Period + 1) /\ pc' \in {"start", "prepare", "chunk"}
  BY <1>1, <1>2, ChunkEnds DEF IInv
<1>4. queue' = <<>> /\ pcm' = "PREPARED" /\ Len(queue') = 0
  BY <1>1, Recovered DEF IInv
<1>5. QuietStep
  BY <1>1, <1>2, <1>3, <1>4 DEF QuietStep
<1>6. Bound' /\ Fits'
  BY <1>1, <1>2, <1>3, <1>4, <1>5, QuietKeeps DEF Bound, Fits, IInv
<1>7. QED
  BY <1>5, <1>6, QuietKeeps DEF IInv

\* Frames that are lost with nothing before them are none.
LEMMA TransferLosesHolds ==
  ASSUME IInv, TransferLoses
  PROVE  IInv'
<1> USE DEF IInv
<1>1. /\ pc = "chunk" /\ pcm = "XRUN" /\ pcm' = "PREPARED" /\ queue' = <<>> /\ offset' = 0
      /\ sample' = sample /\ status' = status /\ resources' = resources
      /\ told' = told /\ heard' = heard /\ avail' = avail
  BY DEF TransferLoses
<1>2. Active /\ Active' /\ sample \in Samples
  BY <1>1 DEF Bound, Active, Control
<1>3. PICK t \in Smp!AfterRead(src[sample], Room) :
        LET k == t.pos - src[sample].pos IN
        /\ src' = [src EXCEPT ![sample] = t]
        /\ glitch' = (glitch \/ queue # <<>> \/ k > 0)
        /\ AfterChunk(IF mode = "rw" THEN 0 ELSE k)
  BY DEF TransferLoses
<1> DEFINE p == src[sample].pos
           k == t.pos - p
           c == IF mode = "rw" THEN 0 ELSE k
<1>4. src[sample] \in State(sample) /\ p \in Nat
  BY <1>2, SampleFacts
<1>5. Room \in Nat /\ Room <= size /\ size \in Nat
  BY RoomFits, ChannelAssumptions DEF Control
<1>6. t \in State(sample) /\ k \in 0..Room /\ t.pos \in Nat
  <2>1. t \in State(sample) /\ k \in 0..Room
    BY <1>2, <1>4, <1>5, ReadState
  <2>2. QED
    BY <2>1 DEF State, AnyState
<1>7. src' = [src EXCEPT ![sample] = t] /\ AfterChunk(c)
  BY <1>3
<1>8. glitch' \in BOOLEAN /\ (~glitch' => ~glitch /\ queue = <<>> /\ ~(k > 0))
  BY <1>3, Zenon
<1>9. Sampled' /\ src'[sample] = t
  BY <1>2, <1>6, <1>7, SrcExcept
<1>10. c \in Nat /\ c <= size
  BY <1>4, <1>5, <1>6
<1> HIDE DEF c
<1>11. size' = size - c /\ size' \in 0..(Period + 1) /\ pc' \in {"start", "prepare", "chunk"}
  BY <1>7, <1>10, ChunkEnds
<1>12. queue' \in Seq(Nat) /\ Len(queue') = 0 /\ Buffer \in Nat
  BY <1>1, EmptySeq, ChannelAssumptions
<1>13. Control'
  BY <1>1, <1>8, <1>11, <1>12 DEF Control
<1>14. Bound'
  BY <1>1, <1>2, <1>11 DEF Bound
<1>15. Fits'
  <2>1. size + Len(queue) <= Buffer /\ Len(queue) \in Nat
    BY <1>1, LenProperties DEF Fits, Control
  <2>2. QED
    BY <1>5, <1>10, <1>11, <1>12, <2>1 DEF Fits
<1>16. Owns'
  BY <1>1 DEF Owns, resources, Usable, Allocated
<1>17. Told'
  BY <1>1, Zenon DEF Told, Active
<1>18. Continues'
  <2> SUFFICES ASSUME ~glitch'
               PROVE  /\ Chain(Frames[sample], heard, queue)
                      /\ \/ t.pos = Last(heard, queue)
                         \/ t.pos = 0 /\ Last(heard, queue) = Frames[sample]
    BY <1>1, <1>8, <1>9 DEF Continues
  <2>1. t.pos = p
    BY <1>4, <1>6, <1>8
  <2>2. QED
    BY <1>2, <1>8, <2>1 DEF Continues
<1>19. QED
  BY <1>9, <1>13, <1>14, <1>15, <1>16, <1>17, <1>18

LEMMA TransferFailsHolds ==
  ASSUME IInv, TransferFails
  PROVE  IInv'
<1>1. told' = {} /\ status' = "stopped" /\ sample' = NULL
  BY ErrorHolds DEF TransferFails, IInv
<1>2. Sampled'
  <2>1. CASE src' = src
    BY <2>1 DEF IInv, Sampled
  <2>2. CASE sample # NULL /\ \E t \in Smp!AfterRead(src[sample], Room) : src' = [src EXCEPT ![sample] = t]
    <3>1. PICK t \in Smp!AfterRead(src[sample], Room) : src' = [src EXCEPT ![sample] = t]
      BY <2>2
    <3>2. sample \in Samples /\ src[sample] \in State(sample)
      BY <2>2, SampleFacts DEF IInv, Control
    <3>3. t \in State(sample)
      BY <3>2, RoomFits, ReadState DEF IInv
    <3>4. QED
      BY <3>1, <3>2, <3>3, SrcExcept DEF IInv
  <2>3. QED
    BY <2>1, <2>2 DEF TransferFails
<1>3. size' \in 0..(Period + 1)
  <2>1. size \in 0..(Period + 1) /\ Period \in Nat
    BY ChannelAssumptions DEF IInv, Control
  <2>2. QED
    BY <2>1 DEF TransferFails
<1>4. /\ resources' = resources /\ heard' = heard /\ avail' = avail
      /\ glitch' \in BOOLEAN /\ queue' = queue /\ offset' = offset /\ pcm' = pcm
      /\ pc' = "chunk" /\ pcm = "GONE"
  BY DEF TransferFails
<1>5. QED
  BY <1>1, <1>2, <1>3, <1>4, Ends

-----------------------------------------------------------------------------
(* The theorems.                                                           *)

LEMMA StutterHolds == IInv /\ UNCHANGED vars => IInv'
<1> SUFFICES ASSUME IInv, UNCHANGED vars PROVE IInv'
  OBVIOUS
<1>1. /\ src' = src /\ sample' = sample /\ status' = status /\ resources' = resources
      /\ pcm' = pcm /\ queue' = queue /\ offset' = offset /\ heard' = heard /\ glitch' = glitch
      /\ told' = told /\ pc' = pc /\ avail' = avail /\ size' = size
  BY DEF vars, device, local
<1>2. Sampled' /\ Control' /\ Fits'
  BY <1>1 DEF IInv, Sampled, Control, Fits
<1>3. Bound' /\ Continues'
  BY <1>1 DEF IInv, Bound, Continues, Active
<1>4. Owns'
  BY <1>1 DEF IInv, Owns, resources, Usable, Allocated
<1>5. Told'
  BY <1>1, Zenon DEF IInv, Told, Active
<1>6. QED
  BY <1>2, <1>3, <1>4, <1>5 DEF IInv

LEMMA NextHolds == IInv /\ [Next]_vars => IInv'
<1> SUFFICES ASSUME IInv, [Next]_vars PROVE IInv'
  OBVIOUS
<1>1. ASSUME NEW s \in Samples, NEW m \in {"playing", "looping"}, PlayAgain(s, m) \/ PlayNew(s, m)
      PROVE  IInv'
  BY <1>1, PlayAgainHolds, PlayNewHolds
<1>2. CASE Stop
  BY <1>2, StopHolds
<1>3. CASE Tick \/ Suspend \/ Vanish
  BY <1>3, TickHolds, DeviceHolds
<1>4. CASE UpdateStep
  BY <1>4, LookHolds, PrepareHolds, AvailFailsHolds, RewindHolds, FinishHolds, TransferHolds,
     TransferNothingHolds, TransferLosesHolds, TransferFailsHolds, StartFailsHolds DEF UpdateStep
<1>5. CASE UNCHANGED vars
  BY <1>5, StutterHolds
<1>6. QED
  BY <1>1, <1>2, <1>3, <1>4, <1>5 DEF Next

LEMMA InvHolds == Spec => []IInv
BY InitHolds, NextHolds, PTL DEF Spec

\* Every variable stays in its type, and the device never gets more than it can
\* hold, for every sample, period and buffer.
THEOREM ChannelTypes == Spec => []TypeOK
<1>1. ASSUME IInv PROVE TypeOK
  <2>1. \A s \in Samples : src[s] \in [length : {Frames[s]}, unit : {Unit[s]}, pos : 0..Frames[s],
                                       end : BOOLEAN, fresh : BOOLEAN]
    <3> SUFFICES ASSUME NEW s \in Samples
                 PROVE  src[s] \in [length : {Frames[s]}, unit : {Unit[s]}, pos : 0..Frames[s],
                                    end : BOOLEAN, fresh : BOOLEAN]
      OBVIOUS
    <3>1. src[s] \in AnyState /\ src[s].length = Frames[s] /\ src[s].unit = Unit[s]
          /\ src[s].pos <= Frames[s] /\ Frames[s] \in Nat
      BY <1>1, ChannelAssumptions DEF IInv, Sampled, State
    <3>2. QED
      BY <3>1 DEF AnyState
  <2>2. told \subseteq Samples
    BY <1>1 DEF IInv, Told, Bound, Control
  <2>3. live \subseteq Resources
    BY <1>1 DEF IInv, Owns
  <2>4. QED
    BY <1>1, <2>1, <2>2, <2>3 DEF IInv, Control, Owns, TypeOK
<1>2. QED
  BY <1>1, InvHolds, PTL

\* Every STARTED is followed by one STOPPED, on every error path too.
THEOREM ChannelTold == Spec => []Told
<1>1. IInv => Told
  BY DEF IInv
<1>2. QED
  BY <1>1, InvHolds, PTL

\* A channel plays in the format of its sample, and what open() allocates has an owner.
THEOREM ChannelOpenInFormat == Spec => []OpenInFormat
<1>1. IInv => OpenInFormat
  BY DEF IInv, Owns, Bound, OpenInFormat
<1>2. QED
  BY <1>1, InvHolds, PTL

\* What is heard is the sample, frame after frame, unless the device lost some, for
\* every length, unit, period and buffer, and wherever the reads end.
THEOREM ChannelSeamless == Spec => []Seamless
<1>1. ASSUME IInv PROVE Seamless
  <2> SUFFICES ASSUME Active, ~glitch
               PROVE  LET played == <<heard>> \o queue
                          last   == played[Len(played)]
                      IN  /\ \A i \in 1..Len(queue) : queue[i] = Follows(played[i])
                          /\ src[sample].pos = last \/ (src[sample].pos = 0 /\ last = src[sample].length)
    BY DEF Seamless
  <2> DEFINE played == <<heard>> \o queue
  <2>1. /\ Chain(Frames[sample], heard, queue)
        /\ \/ src[sample].pos = Last(heard, queue)
           \/ src[sample].pos = 0 /\ Last(heard, queue) = Frames[sample]
    BY <1>1 DEF IInv, Continues
  <2>2. sample \in Samples /\ src[sample].length = Frames[sample]
    <3>1. sample \in Samples
      BY <1>1 DEF IInv, Bound, Control
    <3>2. QED
      BY <1>1, <3>1, SampleFacts DEF IInv
  <2>3. heard \in Nat /\ queue \in Seq(Nat) /\ Len(queue) \in Nat
    BY <1>1, LenProperties DEF IInv, Control
  <2>4. Len(played) = Len(queue) + 1 /\ \A i \in 1..(Len(queue) + 1) : played[i] = Before(heard, queue, i)
    <3>1. <<heard>> \in Seq(Nat) /\ Len(<<heard>>) = 1 /\ <<heard>>[1] = heard
      BY <2>3
    <3>2. /\ Len(played) = 1 + Len(queue)
          /\ \A i \in 1..(1 + Len(queue)) : played[i] = IF i <= 1 THEN <<heard>>[i] ELSE queue[i - 1]
      BY <2>3, <3>1, ConcatProperties
    <3>3. QED
      BY <2>3, <3>1, <3>2 DEF Before
  <2> HIDE DEF played
  <2>5. \A i \in 1..Len(queue) : queue[i] = Follows(played[i])
    BY <2>1, <2>2, <2>3, <2>4 DEF Chain, After, Follows
  <2>6. played[Len(played)] = Last(heard, queue)
    BY <2>3, <2>4 DEF Last
  <2>7. QED
    BY <2>1, <2>2, <2>5, <2>6 DEF played
<1>2. QED
  BY <1>1, InvHolds, PTL

\* Only the end of the sample stops it where update() looks for that end.
LEMMA EndIsFinish ==
  ASSUME IInv, Next, pc = "atend", Active, status' = "stopped"
  PROVE  Finish
<1>1. status # "stopped" /\ pc # "idle"
  BY DEF Active
<1>2. CASE Tick \/ Suspend \/ Vanish
  BY <1>1, <1>2 DEF Tick, Suspend, Vanish
<1>3. CASE Stop \/ \E s \in Samples, m \in {"playing", "looping"} : PlayAgain(s, m) \/ PlayNew(s, m)
  BY <1>1, <1>3 DEF Stop, PlayAgain, PlayNew
<1>4. CASE UpdateStep
  <2>1. CASE Rewind \/ NothingToDo \/ BeginPeriod
    BY <1>1, <2>1 DEF Rewind, NothingToDo, BeginPeriod
  <2>2. CASE Update \/ Prepare \/ AvailUpdate \/ AvailFails
    BY <1>1, <2>2 DEF Update, Prepare, AvailUpdate, AvailFails
  <2>3. CASE Transfer \/ TransferNothing \/ TransferLoses \/ TransferFails \/ StartDevice \/ StartFails
    BY <2>3 DEF Transfer, TransferNothing, TransferLoses, TransferFails, StartDevice, StartFails
  <2>4. QED
    BY <1>4, <2>1, <2>2, <2>3 DEF UpdateStep
<1>5. QED
  BY <1>2, <1>3, <1>4 DEF Next

\* A sample that ends by itself has been heard to its last frame, whatever part of
\* the device's buffer its last frames fill.
THEOREM ChannelPlayedOut == Spec => PlayedOut
<1>1. ASSUME IInv, [Next]_vars
      PROVE  [pc = "atend" /\ Active /\ status' = "stopped" =>
                queue = <<>> /\ (~glitch => heard = src[sample].length)]_vars
  <2> SUFFICES ASSUME Next, pc = "atend", Active, status' = "stopped"
               PROVE  queue = <<>> /\ (~glitch => heard = src[sample].length)
    BY <1>1
  <2>1. Finish
    BY <1>1, EndIsFinish
  <2>2. avail >= Buffer /\ src[sample].end = TRUE
    BY <2>1 DEF Finish, AtEnd
  <2>3. queue = <<>>
    <3>1. queue \in Seq(Nat) /\ Len(queue) \in Nat /\ avail \in 0..Buffer /\ Buffer \in Nat
      BY <1>1, LenProperties, ChannelAssumptions DEF IInv, Control
    <3>2. Len(queue) = 0
      BY <1>1, <2>2, <3>1 DEF IInv, Fits
    <3>3. QED
      BY <3>1, <3>2, EmptySeq
  <2>4. ASSUME ~glitch PROVE heard = src[sample].length
    <3>1. sample \in Samples
      BY <1>1 DEF IInv, Bound, Control
    <3>2. src[sample].pos = Frames[sample] /\ src[sample].length = Frames[sample]
      BY <1>1, <2>2, <3>1 DEF IInv, Sampled, State
    <3>3. src[sample].pos = heard \/ (src[sample].pos = 0 /\ heard = Frames[sample])
      BY <1>1, <2>3, <2>4 DEF IInv, Continues, Last, Before
    <3>4. QED
      BY <3>2, <3>3
  <2>5. QED
    BY <2>3, <2>4
<1>2. QED
  BY <1>1, InvHolds, PTL DEF Spec, PlayedOut
=============================================================================
