---------------------------- MODULE EmbeddedProofs ----------------------------
(***************************************************************************)
(* Proofs about Embedded, for every set of samples, every ring and period  *)
(* and every number of channels: the types and the size of the pool, the   *)
(* events the application gets, which periods a turn writes to while the   *)
(* device goes on, and what a mixed period holds.                                              *)
(***************************************************************************)
EXTENDS Embedded, Counting

-----------------------------------------------------------------------------
(* Samples.                                                                *)

AnyState == [length : Nat, unit : Nat, pos : Nat, end : BOOLEAN, fresh : BOOLEAN]

\* What a sample may be in: its end is found behind its last frame only.
State(s) ==
  {x \in AnyState :
     /\ x.length = Frames[s] /\ x.unit = Unit[s] /\ x.pos <= Frames[s]
     /\ x.end => x.pos = Frames[s]
     /\ x.fresh => x.pos = 0}

LEMMA AtStartState ==
  ASSUME NEW s \in Samples
  PROVE  Smp!AtStart(Frames[s], Unit[s]) \in State(s)
BY EmbeddedAssumptions DEF Smp!AtStart, State, AnyState

\* A reset goes back to the first frame.
LEMMA ResetState ==
  ASSUME NEW s \in Samples, NEW x \in State(s)
  PROVE  Smp!AfterReset(x) \in State(s) /\ Smp!AfterReset(x).pos = 0
<1>1. CASE x.fresh
  BY <1>1 DEF Smp!AfterReset, State
<1>2. CASE ~x.fresh
  <2>1. Smp!AfterReset(x) = Smp!AtStart(Frames[s], Unit[s])
    BY <1>2 DEF Smp!AfterReset, State
  <2> QED BY <2>1, AtStartState DEF Smp!AtStart
<1> QED BY <1>1, <1>2

\* A read of n delivers at most n of the frames there are.
LEMMA ReadState ==
  ASSUME NEW s \in Samples, NEW x \in State(s), NEW n \in Nat, NEW t \in Smp!AfterRead(x, n)
  PROVE  t \in State(s) /\ t.pos - x.pos \in 0..n
<1>1. /\ x \in AnyState /\ x.length = Frames[s] /\ x.unit = Unit[s] /\ x.pos <= Frames[s]
      /\ x.end => x.pos = Frames[s]
      /\ x.fresh => x.pos = 0
  BY DEF State
<1>2. Frames[s] \in Nat /\ x.pos \in Nat /\ x.end \in BOOLEAN
  BY <1>1, EmbeddedAssumptions DEF AnyState
<1>3. \/ \E k \in 1..n : k <= Frames[s] - x.pos /\ t = Smp!Advance(x, k, x.end)
      \/ \E e \in {x.end, TRUE} :
           t = Smp!Advance(x, 0, e) /\ (t.end /\ ~x.end => x.pos = Frames[s])
  <2> DEFINE most == IF n < x.length - x.pos THEN n ELSE x.length - x.pos
  <2>1. \/ \E k \in {i \in 1..most : i % x.unit = 0} : t = Smp!Advance(x, k, x.end)
        \/ /\ \E e \in {x.end, TRUE} : t = Smp!Advance(x, 0, e)
           /\ t.end /\ ~x.end => x.pos = x.length
    BY Zenon DEF Smp!AfterRead
  <2>2. ASSUME NEW k \in 1..most PROVE k \in 1..n /\ k <= Frames[s] - x.pos
    BY <1>1, <1>2
  <2> HIDE DEF most
  <2> QED BY <1>1, <2>1, <2>2
<1>4. ASSUME NEW k \in 0..n, NEW e \in BOOLEAN, k <= Frames[s] - x.pos, t = Smp!Advance(x, k, e)
      PROVE  /\ t \in AnyState /\ t.length = x.length /\ t.unit = x.unit
             /\ t.pos = x.pos + k /\ t.end = e /\ (t.fresh => x.fresh /\ k = 0)
  <2>1. (x.fresh /\ k = 0) \in BOOLEAN /\ x.pos + k \in Nat
    BY <1>2
  <2>2. t = [length |-> x.length, unit |-> x.unit, pos |-> x.pos + k, end |-> e, fresh |-> x.fresh /\ k = 0]
    BY <1>4, Zenon DEF Smp!Advance
  <2> HIDE <1>4
  <2> QED BY <1>1, <2>1, <2>2 DEF AnyState
<1>5. CASE \E k \in 1..n : k <= Frames[s] - x.pos /\ t = Smp!Advance(x, k, x.end)
  <2>1. PICK k \in 1..n : k <= Frames[s] - x.pos /\ t = Smp!Advance(x, k, x.end)
    BY <1>5
  <2>2. /\ t \in AnyState /\ t.length = x.length /\ t.unit = x.unit
        /\ t.pos = x.pos + k /\ t.end = x.end /\ (t.fresh => x.fresh /\ k = 0)
    BY <1>2, <1>4, <2>1
  <2> QED BY <1>1, <1>2, <2>1, <2>2 DEF State
<1>6. CASE \E e \in {x.end, TRUE} :
             t = Smp!Advance(x, 0, e) /\ (t.end /\ ~x.end => x.pos = Frames[s])
  <2>1. PICK e \in {x.end, TRUE} :
               t = Smp!Advance(x, 0, e) /\ (t.end /\ ~x.end => x.pos = Frames[s])
    BY <1>6
  <2>2. 0 \in 0..n /\ 0 <= Frames[s] - x.pos /\ e \in BOOLEAN
    <3>1. e \in BOOLEAN
      BY <1>2, Zenon
    <3> QED BY <1>1, <1>2, <3>1
  <2>3. /\ t \in AnyState /\ t.length = x.length /\ t.unit = x.unit
        /\ t.pos = x.pos + 0 /\ t.end = e /\ (t.fresh => x.fresh)
    BY <1>4, <2>1, <2>2
  <2> QED BY <1>1, <1>2, <2>1, <2>3 DEF State
<1> QED BY <1>3, <1>5, <1>6

-----------------------------------------------------------------------------
(* The invariant of the thread: what is where in a turn.                   *)

Channel == [sample : Samples \cup {NULL}, status : {"stopped", "playing", "looping"}]
Content == SUBSET UNION {Marks(s) : s \in Samples}

Sampled == src \in [Samples -> AnyState] /\ \A s \in Samples : src[s] \in State(s)

Control ==
  /\ chans \in Seq(Channel) /\ told \subseteq Samples
  /\ pc \in {"ioctl", "cmds", "channel", "transfer", "next"}
  /\ dev \in Ring /\ moved \in 0..MaxMoved
  /\ current \in 0..Periods /\ head \in Ring /\ tail \in Ring
  /\ idx \in 1..(Len(chans) + 1) /\ mixed \in Seq(Samples) /\ dst \in 0..Period

Tabled == table \in [Ring -> [1..Period -> Content]]

\* transfer() works on a channel that plays.
Bound == pc = "transfer" => idx \in DOMAIN chans /\ Playing(chans[idx])

\* No sample is on two channels.
Distinct == \A i, j \in DOMAIN chans : chans[i].sample = chans[j].sample /\ chans[i].sample # NULL => i = j

Pooled == Len(chans) <= InitialChannels \/ Len(chans) <= Cardinality(Samples)

\* A turn fills the first period of the ring, and then those that follow up to the
\* one before the period that the ioctl told.
Ahead ==
  /\ pc = "cmds" => head = 0 /\ tail = 0
  /\ pc \in {"channel", "transfer", "next"} => current = 0 \/ head < current
  /\ pc \in {"channel", "transfer", "next"} => tail = (head + 1) % Periods

\* The device is where the ioctl told, and as far on as it has gone since.
Placed ==
  pc # "ioctl" /\ current # Periods /\ current + moved < Periods => dev = current + moved

\* transfer() begins with the first slot.
Begun == pc \in {"ioctl", "cmds", "channel", "next"} => dst = 0

ThreadInv ==
  Sampled /\ Control /\ Tabled /\ Bound /\ Distinct /\ Pooled /\ Ahead /\ Placed /\ Begun /\ Told

\* What the numbers of a ring are.
LEMMA RingFacts ==
  /\ Periods \in Nat /\ Periods > 0 /\ Period \in Nat /\ Period > 0 /\ 0 \in Ring
  /\ \A n \in Nat : n % Periods \in Ring
  /\ \A n \in Ring : n + 1 < Periods => (n + 1) % Periods = n + 1
  /\ \A n \in Ring : n + 1 >= Periods => (n + 1) % Periods = 0
BY EmbeddedAssumptions DEF Ring

\* A search finds a channel that has the sample, unless there is none.
LEMMA FirstFound ==
  ASSUME Control, NEW s
  PROVE  /\ FirstAt(s) = 0 <=> Holding(s) = {}
         /\ FirstAt(s) # 0 => FirstAt(s) \in DOMAIN chans /\ chans[FirstAt(s)].sample = s
<1>1. Holding(s) \subseteq DOMAIN chans /\ DOMAIN chans \subseteq Nat \ {0}
  BY DEF Holding, Control
<1>2. ASSUME Holding(s) # {} PROVE Min(Holding(s)) \in Holding(s)
  <2>1. \E i \in Holding(s) : \A j \in Holding(s) : i <= j
    BY <1>1, <1>2, LeastElement
  <2> QED BY <2>1 DEF Min
<1>3. FirstAt(s) # 0 => FirstAt(s) \in Holding(s)
  BY <1>2 DEF FirstAt
<1> QED BY <1>1, <1>2, <1>3 DEF FirstAt, Holding

\* One channel changes.
LEMMA ChannelSet ==
  ASSUME Control, NEW i \in DOMAIN chans, NEW c \in Channel, chans' = [chans EXCEPT ![i] = c]
  PROVE  /\ chans' \in Seq(Channel) /\ Len(chans') = Len(chans) /\ DOMAIN chans' = DOMAIN chans
         /\ \A j \in DOMAIN chans : chans'[j] = IF j = i THEN c ELSE chans[j]
BY DEF Control

\* A channel is in DOMAIN chans, and has a sample if it plays.
LEMMA ChannelFacts ==
  ASSUME Control, NEW i \in DOMAIN chans
  PROVE  /\ chans[i] \in Channel /\ chans[i].sample \in Samples \cup {NULL}
         /\ chans[i].status \in {"stopped", "playing", "looping"}
         /\ Playing(chans[i]) => chans[i].sample \in Samples
         /\ i \in Nat /\ i >= 1 /\ i <= Len(chans)
<1>1. chans[i] \in Channel /\ i \in 1..Len(chans) /\ Len(chans) \in Nat
  BY DEF Control
<1> QED BY <1>1 DEF Channel, Playing

\* Pooled and Distinct are about which channels there are.
LEMMA SameSamples ==
  ASSUME Control, Distinct, Pooled, Len(chans') = Len(chans), DOMAIN chans' = DOMAIN chans,
         NEW k \in DOMAIN chans, chans'[k].sample \in {chans[k].sample, NULL},
         \A i \in DOMAIN chans \ {k} : chans'[i].sample = chans[i].sample
  PROVE  Distinct' /\ Pooled'
BY DEF Distinct, Pooled

\* Told, sample by sample.
LEMMA ToldCases ==
  ASSUME Told, Control, NEW s \in Samples
  PROVE  s \in told <=> \E i \in DOMAIN chans : Playing(chans[i]) /\ chans[i].sample = s
BY DEF Told

\* A sample is replaced by one in another state.
LEMMA SrcExcept ==
  ASSUME Sampled, NEW s \in Samples, NEW x \in State(s), src' = [src EXCEPT ![s] = x]
  PROVE  Sampled' /\ src'[s] = x
BY DEF Sampled, State

LEMMA ThreadInit == Init => ThreadInv
<1> SUFFICES ASSUME Init PROVE ThreadInv
  OBVIOUS
<1>1. Sampled
  <2>1. \A s \in Samples : Smp!AtStart(Frames[s], Unit[s]) \in State(s)
    BY AtStartState
  <2>2. \A s \in Samples : State(s) \subseteq AnyState
    BY DEF State
  <2>3. src = [s \in Samples |-> Smp!AtStart(Frames[s], Unit[s])]
    BY DEF Init
  <2> QED BY <2>1, <2>2, <2>3 DEF Sampled
<1>2. /\ chans \in Seq(Channel) /\ Len(chans) = InitialChannels
      /\ \A i \in DOMAIN chans : chans[i] = Free
  BY EmbeddedAssumptions DEF Init, Channel, Free
<1>3. Control
  <2>1. <<>> \in Seq(Samples)
    OBVIOUS
  <2> QED BY <1>2, <2>1, RingFacts, EmbeddedAssumptions DEF Init, Control
<1>4. Tabled
  BY DEF Init, Tabled, Content
<1>5. Bound /\ Distinct /\ Pooled /\ Ahead /\ Placed /\ Begun
  BY <1>2, EmbeddedAssumptions DEF Init, Bound, Distinct, Pooled, Ahead, Placed, Begun, Free
<1>6. Told
  <2>1. \A i \in DOMAIN chans : ~Playing(chans[i])
    BY <1>2 DEF Playing, Free
  <2> QED BY <2>1 DEF Told, Init
<1> QED BY <1>1, <1>3, <1>4, <1>5, <1>6 DEF ThreadInv

-----------------------------------------------------------------------------
(* The commands.                                                           *)

\* Where play finds or makes a channel.
LEMMA PlayCases ==
  ASSUME Control, Distinct, NEW s \in Samples, NEW m, Play(s, m)
  PROVE  LET new == [sample |-> s, status |-> m]
         IN  \/ \E i \in DOMAIN chans :
                  /\ chans[i].sample = s \/ (chans[i].sample = NULL /\ Holding(s) = {})
                  /\ chans' = [chans EXCEPT ![i] = new]
             \/ Holding(s) = {} /\ Holding(NULL) = {} /\ chans' = Append(chans, new)
BY FirstFound DEF Play

\* A pool whose channels all have samples of their own is no larger than their set.
LEMMA DistinctFew ==
  ASSUME Control, Distinct, Holding(NULL) = {}, NEW s \in Samples, Holding(s) = {}
  PROVE  Len(chans) + 1 <= Cardinality(Samples)
<1> DEFINE n == Len(chans)
           f == [i \in 1..(n + 1) |-> IF i <= n THEN chans[i].sample ELSE s]
<1>1. n \in Nat /\ DOMAIN chans = 1..n /\ \A i \in 1..n : chans[i] \in Channel
  BY DEF Control
<1>2. \A i \in 1..n : chans[i].sample \in Samples /\ chans[i].sample # s
  BY <1>1 DEF Holding, Channel
<1>3. f \in Injection(1..(n + 1), Samples)
  <2>1. f \in [1..(n + 1) -> Samples]
    BY <1>1, <1>2
  <2>2. ASSUME NEW i \in 1..(n + 1), NEW j \in 1..(n + 1), f[i] = f[j] PROVE i = j
    <3>1. CASE i <= n /\ j <= n
      <4>1. chans[i].sample = chans[j].sample /\ chans[i].sample # NULL
        BY <1>1, <1>2, <2>2, <3>1, EmbeddedAssumptions
      <4>2. i \in DOMAIN chans /\ j \in DOMAIN chans
        BY <1>1, <3>1
      <4> HIDE DEF f, n
      <4> QED BY <4>1, <4>2 DEF Distinct
    <3>2. CASE ~(i <= n /\ j <= n)
      BY <1>1, <1>2, <2>2, <3>2
    <3> QED BY <3>1, <3>2
  <2> QED BY <2>1, <2>2 DEF Injection, IsInjective
<1>4. IsFiniteSet(1..(n + 1)) /\ Cardinality(1..(n + 1)) = n + 1
  BY <1>1, FS_Interval
<1> HIDE DEF f
<1>5. Cardinality(1..(n + 1)) <= Cardinality(Samples)
  BY <1>3, <1>4, EmbeddedAssumptions, FS_Injection
<1> QED BY <1>4, <1>5

LEMMA PlayHolds ==
  ASSUME ThreadInv, NEW s \in Samples, NEW m \in {"playing", "looping"}, Play(s, m)
  PROVE  ThreadInv'
<1> USE DEF ThreadInv
<1> DEFINE new == [sample |-> s, status |-> m]
<1>1. /\ src' = src /\ table' = table /\ pc = "cmds" /\ pc' = pc /\ current' = current /\ dev' = dev /\ moved' = moved
      /\ head' = head /\ tail' = tail /\ idx' = idx /\ mixed' = mixed /\ dst' = dst
      /\ told' = told \cup {s}
  BY DEF Play, Start, turn, device
<1>2. new \in Channel /\ Playing(new) /\ s # NULL
  BY EmbeddedAssumptions DEF Channel, Playing
<1>3. Sampled' /\ Tabled' /\ Bound' /\ Ahead' /\ Placed' /\ Begun'
  BY <1>1 DEF Sampled, Tabled, Bound, Ahead, Placed, Begun
<1>4. ASSUME NEW i \in DOMAIN chans,
             chans[i].sample = s \/ (chans[i].sample = NULL /\ Holding(s) = {}),
             chans' = [chans EXCEPT ![i] = new]
      PROVE  Control' /\ Distinct' /\ Pooled' /\ Told'
  <2>1. /\ chans' \in Seq(Channel) /\ Len(chans') = Len(chans) /\ DOMAIN chans' = DOMAIN chans
        /\ \A j \in DOMAIN chans : chans'[j] = IF j = i THEN new ELSE chans[j]
    BY <1>2, <1>4, ChannelSet
  <2>2. Control' /\ Pooled'
    BY <1>1, <2>1 DEF Control, Pooled
  <2>3. Distinct'
    BY <1>4, <2>1 DEF Distinct, Holding
  <2>4. Told'
    <3>1. ASSUME NEW x \in Samples
          PROVE  x \in told' <=> \E j \in DOMAIN chans' : Playing(chans'[j]) /\ chans'[j].sample = x
      <4>1. x \in told <=> \E j \in DOMAIN chans : Playing(chans[j]) /\ chans[j].sample = x
        BY ToldCases
      <4>2. ~Playing(chans[i]) \/ chans[i].sample = s
        BY <1>4 DEF Playing
      <4> QED BY <1>1, <1>2, <2>1, <4>1, <4>2
    <3>2. \A j \in DOMAIN chans' : Playing(chans'[j]) => chans'[j].sample \in Samples
      BY <1>2, <2>1, ChannelFacts
    <3>3. told' \subseteq Samples
      BY <2>2 DEF Control
    <3> QED BY <3>1, <3>2, <3>3 DEF Told
  <2> QED BY <2>2, <2>3, <2>4
<1>5. ASSUME Holding(s) = {}, Holding(NULL) = {}, chans' = Append(chans, new)
      PROVE  Control' /\ Distinct' /\ Pooled' /\ Told'
  <2>1. /\ chans' \in Seq(Channel) /\ Len(chans') = Len(chans) + 1 /\ Len(chans) \in Nat
        /\ DOMAIN chans = 1..Len(chans) /\ DOMAIN chans' = 1..(Len(chans) + 1)
        /\ chans'[Len(chans) + 1] = new /\ \A j \in DOMAIN chans : chans'[j] = chans[j]
    BY <1>2, <1>5 DEF Control
  <2>2. Control'
    BY <1>1, <2>1 DEF Control
  <2>3. Pooled'
    BY <1>5, <2>1, DistinctFew DEF Pooled
  <2>4. \A j \in DOMAIN chans : chans[j].sample # s
    BY <1>5 DEF Holding
  <2>5. Distinct'
    BY <2>1, <2>4 DEF Distinct
  <2>6. Told'
    <3>1. ASSUME NEW x \in Samples
          PROVE  x \in told' <=> \E j \in DOMAIN chans' : Playing(chans'[j]) /\ chans'[j].sample = x
      <4>1. x \in told <=> \E j \in DOMAIN chans : Playing(chans[j]) /\ chans[j].sample = x
        BY ToldCases
      <4> QED BY <1>1, <1>2, <2>1, <4>1
    <3>2. \A j \in DOMAIN chans' : Playing(chans'[j]) => chans'[j].sample \in Samples
      BY <1>2, <2>1, ChannelFacts
    <3>3. told' \subseteq Samples
      BY <2>2 DEF Control
    <3> QED BY <3>1, <3>2, <3>3 DEF Told
  <2> QED BY <2>2, <2>3, <2>5, <2>6
<1>6. Control' /\ Distinct' /\ Pooled' /\ Told'
  BY <1>4, <1>5, PlayCases, Zenon
<1> QED BY <1>3, <1>6

\* A channel stops: what the application knows, and what its sample is in.
LEMMA StopHolds ==
  ASSUME ThreadInv, NEW i \in DOMAIN chans, NEW c \in Channel, chans[i].sample \in Samples,
         StopChannel(i), chans' = [chans EXCEPT ![i] = c], c.status = "stopped",
         c.sample \in {chans[i].sample, NULL}
  PROVE  /\ chans' \in Seq(Channel) /\ Len(chans') = Len(chans) /\ DOMAIN chans' = DOMAIN chans
         /\ told' = told \ {chans[i].sample}
         /\ src'[chans[i].sample].pos = 0 \/ src' = src
         /\ \A x \in Samples \ {chans[i].sample} : src'[x] = src[x]
         /\ Sampled' /\ Distinct' /\ Pooled' /\ Told'
<1> USE DEF ThreadInv
<1> DEFINE s == chans[i].sample
<1>1. /\ chans' \in Seq(Channel) /\ Len(chans') = Len(chans) /\ DOMAIN chans' = DOMAIN chans
      /\ \A j \in DOMAIN chans : chans'[j] = IF j = i THEN c ELSE chans[j]
  BY ChannelSet
<1>2. Distinct' /\ Pooled'
  BY <1>1, SameSamples
<1>3. s \in told <=> chans[i].status # "stopped"
  <2>1. s # NULL /\ (Playing(chans[i]) <=> chans[i].status # "stopped")
    BY ChannelFacts, EmbeddedAssumptions DEF Playing
  <2>2. \A j \in DOMAIN chans : chans[j].sample = s => j = i
    BY <2>1 DEF Distinct
  <2> QED BY <2>1, <2>2, ToldCases
<1>4. told' = told \ {s}
  BY <1>3 DEF StopChannel
<1>5. (src'[s].pos = 0 \/ src' = src) /\ Sampled' /\ \A x \in Samples \ {s} : src'[x] = src[x]
  <2>1. CASE chans[i].status = "stopped"
    BY <2>1 DEF StopChannel, Sampled
  <2>2. CASE chans[i].status # "stopped"
    <3>1. src' = [src EXCEPT ![s] = Smp!AfterReset(src[s])] /\ src[s] \in State(s)
      BY <2>2 DEF StopChannel, Sampled
    <3>2. Smp!AfterReset(src[s]) \in State(s) /\ Smp!AfterReset(src[s]).pos = 0
      BY <3>1, ResetState
    <3>3. Sampled' /\ src'[s] = Smp!AfterReset(src[s])
      BY <3>1, <3>2, SrcExcept
    <3> QED BY <3>1, <3>2, <3>3 DEF Sampled
  <2> QED BY <2>1, <2>2
<1>6. Told'
  <2>1. ~Playing(c) /\ \A j \in DOMAIN chans : chans[j].sample = s => j = i
    BY EmbeddedAssumptions DEF Playing, Distinct
  <2>2. ASSUME NEW x \in Samples
        PROVE  x \in told' <=> \E j \in DOMAIN chans' : Playing(chans'[j]) /\ chans'[j].sample = x
    <3>1. x \in told <=> \E j \in DOMAIN chans : Playing(chans[j]) /\ chans[j].sample = x
      BY ToldCases
    <3> QED BY <1>1, <1>4, <2>1, <3>1
  <2>3. \A j \in DOMAIN chans' : Playing(chans'[j]) => chans'[j].sample \in Samples
    BY <1>1, <2>1, ChannelFacts
  <2>4. told' \subseteq Samples
    BY <1>4 DEF Control
  <2> QED BY <2>2, <2>3, <2>4 DEF Told
<1> QED BY <1>1, <1>2, <1>4, <1>5, <1>6

LEMMA StopCommandHolds ==
  ASSUME ThreadInv, NEW s \in Samples, Stop(s)
  PROVE  ThreadInv'
<1> USE DEF ThreadInv
<1> DEFINE i == FirstAt(s)
<1>1. /\ table' = table /\ pc = "cmds" /\ pc' = pc /\ current' = current /\ dev' = dev /\ moved' = moved
      /\ head' = head /\ tail' = tail /\ idx' = idx /\ mixed' = mixed /\ dst' = dst
      /\ StopChannel(i) /\ chans' = [chans EXCEPT ![i] = Free]
  BY DEF Stop, turn, device
<1>2. i \in DOMAIN chans /\ chans[i].sample = s
  BY FirstFound DEF Stop
<1>3. Free \in Channel /\ Free.status = "stopped" /\ Free.sample = NULL
  BY DEF Free, Channel
<1>4. /\ chans' \in Seq(Channel) /\ Len(chans') = Len(chans) /\ told' = told \ {s}
      /\ Sampled' /\ Distinct' /\ Pooled' /\ Told'
  BY <1>1, <1>2, <1>3, StopHolds
<1>5. Control' /\ Tabled' /\ Bound' /\ Ahead' /\ Placed' /\ Begun'
  BY <1>1, <1>4 DEF Control, Tabled, Bound, Ahead, Placed, Begun
<1> QED BY <1>4, <1>5

-----------------------------------------------------------------------------
(* The turn.                                                               *)

LEMMA IoctlHolds == ASSUME ThreadInv, Ioctl PROVE ThreadInv'
<1> USE DEF ThreadInv
<1>1. /\ src' = src /\ chans' = chans /\ told' = told /\ table' = table /\ idx' = idx
      /\ mixed' = mixed /\ dst' = dst /\ pc' = "cmds" /\ head' = 0 /\ tail' = 0
      /\ current' \in 0..Periods /\ dev' \in Ring /\ moved' = 0 /\ 0 \in 0..MaxMoved
      /\ current' \in {dev', Periods} /\ pc = "ioctl"
  BY RingFacts, EmbeddedAssumptions DEF Ioctl, Ring
<1>2. Control' /\ Sampled' /\ Tabled' /\ Bound' /\ Distinct' /\ Pooled' /\ Ahead' /\ Placed' /\ Begun'
  <2>1. dev' \in Nat /\ moved' = 0
    BY <1>1, RingFacts DEF Ring
  <2>2. Placed'
    <3>1. current' # Periods => current' = dev'
      BY <1>1
    <3>2. dev' + moved' = dev'
      <4>1. \A n, m \in Nat : m = 0 => n + m = n
        OBVIOUS
      <4>2. moved' \in Nat
        BY <2>1
      <4> QED BY <2>1, <4>1, <4>2
    <3>3. current' # Periods => dev' = current' + moved'
      BY <3>1, <3>2
    <3> QED BY <3>3 DEF Placed
  <2>3. Ahead' /\ Begun'
    BY <1>1 DEF Ahead, Begun
  <2>4. Control'
    BY <1>1, RingFacts DEF Control
  <2> QED BY <1>1, <2>2, <2>3, <2>4 DEF Sampled, Tabled, Bound, Distinct, Pooled
<1>3. Told'
  BY <1>1 DEF Told
<1> QED BY <1>2, <1>3

\* A step in the loop that leaves the samples, the channels and the ring alone.
LEMMA QuietHolds ==
  ASSUME ThreadInv, src' = src, chans' = chans, told' = told, table' = table, Control', Bound',
         Ahead', Placed', Begun'
  PROVE  ThreadInv'
<1>1. Sampled' /\ Tabled' /\ Distinct' /\ Pooled'
  BY DEF ThreadInv, Sampled, Tabled, Distinct, Pooled
<1>2. Told'
  BY DEF ThreadInv, Told
<1> QED BY <1>1, <1>2 DEF ThreadInv

\* The device goes on to its next period, and no other thing changes.
LEMMA DevicePlaysHolds ==
  ASSUME ThreadInv, DevicePlays
  PROVE  /\ ThreadInv'
         /\ UNCHANGED <<src, chans, told, table, pc, head, idx, mixed, dst>>
<1> USE DEF ThreadInv
<1>1. /\ UNCHANGED <<src, chans, told, table, pc, current, head, tail, idx, mixed, dst>>
      /\ pc # "ioctl" /\ moved < MaxMoved /\ dev' = (dev + 1) % Periods /\ moved' = moved + 1
  BY DEF DevicePlays
<1>2. dev \in Ring /\ dev \in Nat /\ moved \in Nat /\ MaxMoved \in Nat /\ current \in Nat
  BY EmbeddedAssumptions DEF Control, Ring
<1>3. dev' \in Ring /\ moved' \in 0..MaxMoved
  BY <1>1, <1>2, RingFacts
<1>4. Control' /\ Bound' /\ Ahead' /\ Begun'
  BY <1>1, <1>3 DEF Control, Bound, Ahead, Begun
<1>5. Placed'
  BY <1>1, <1>2, RingFacts DEF Placed
<1> QED BY <1>1, <1>4, <1>5, QuietHolds

\* A period begins.
LEMMA BeginFacts ==
  ASSUME Control, NEW t \in Ring, BeginPeriod(t)
  PROVE  /\ pc' = "channel" /\ idx' = 1 /\ mixed' = <<>> /\ mixed' \in Seq(Samples)
         /\ tail' = (t + 1) % Periods /\ tail' \in Ring
<1>1. t \in Nat /\ t + 1 \in Nat
  BY DEF Ring
<1> QED BY <1>1, RingFacts DEF BeginPeriod

LEMMA CommandsDoneHolds == ASSUME ThreadInv, CommandsDone PROVE ThreadInv'
<1> USE DEF ThreadInv
<1>1. /\ src' = src /\ chans' = chans /\ told' = told /\ table' = table /\ current' = current /\ dev' = dev /\ moved' = moved
      /\ head' = head /\ dst' = dst /\ pc = "cmds" /\ BeginPeriod(tail)
  BY DEF CommandsDone, device
<1>2. /\ pc' = "channel" /\ idx' = 1 /\ mixed' \in Seq(Samples)
      /\ tail' = (tail + 1) % Periods /\ tail' \in Ring
  BY <1>1, BeginFacts DEF Control
<1>3. Control' /\ Bound' /\ Ahead' /\ Placed' /\ Begun'
  BY <1>1, <1>2 DEF Control, Bound, Ahead, Placed, Begun
<1> QED BY <1>1, <1>3, QuietHolds

LEMMA NextPeriodHolds == ASSUME ThreadInv, NextPeriod PROVE ThreadInv'
<1> USE DEF ThreadInv
<1>1. /\ src' = src /\ chans' = chans /\ told' = told /\ table' = table /\ current' = current /\ dev' = dev /\ moved' = moved
      /\ dst' = dst /\ pc = "next" /\ head' = (head + 1) % Periods
  BY DEF NextPeriod, device
<1>2. head' \in Ring /\ head' = tail
  <2>1. head + 1 \in Nat
    BY DEF Control, Ring
  <2> QED BY <1>1, <2>1, RingFacts DEF Ahead
<1>3. CASE tail = current
  <2>1. pc' = "ioctl" /\ tail' = tail /\ idx' = 1 /\ mixed' = <<>> /\ mixed' \in Seq(Samples)
    BY <1>3 DEF NextPeriod
  <2>2. Control' /\ Bound' /\ Ahead' /\ Placed' /\ Begun'
    BY <1>1, <1>2, <2>1 DEF Control, Bound, Ahead, Placed, Begun
  <2> QED BY <1>1, <2>2, QuietHolds
<1>4. CASE tail # current
  <2>1. /\ pc' = "channel" /\ idx' = 1 /\ mixed' \in Seq(Samples)
        /\ tail' = (tail + 1) % Periods /\ tail' \in Ring
    BY <1>4, BeginFacts DEF NextPeriod, Control
  <2>2. current = 0 \/ head' < current
    <3>1. /\ current = 0 \/ head < current
          /\ head \in Ring /\ head \in Nat /\ current \in 0..Periods /\ head' # current
      BY <1>1, <1>2, <1>4 DEF Ahead, Control, Ring
    <3> QED BY <1>1, <3>1, RingFacts
  <2>3. Control' /\ Bound' /\ Ahead' /\ Placed' /\ Begun'
    BY <1>1, <1>2, <2>1, <2>2 DEF Control, Bound, Ahead, Placed, Begun
  <2> QED BY <1>1, <2>3, QuietHolds
<1> QED BY <1>3, <1>4

LEMMA SkipChannelHolds == ASSUME ThreadInv, SkipChannel PROVE ThreadInv'
<1> USE DEF ThreadInv
<1>1. /\ src' = src /\ chans' = chans /\ told' = told /\ table' = table /\ current' = current /\ dev' = dev /\ moved' = moved
      /\ head' = head /\ tail' = tail /\ pc' = pc /\ mixed' = mixed /\ dst' = dst
      /\ pc = "channel" /\ idx <= Len(chans) /\ idx' = idx + 1
  BY DEF SkipChannel, turn, device
<1>2. Control' /\ Bound' /\ Ahead' /\ Placed' /\ Begun'
  BY <1>1 DEF Control, Bound, Ahead, Placed, Begun
<1> QED BY <1>1, <1>2, QuietHolds

LEMMA EnterChannelHolds == ASSUME ThreadInv, EnterChannel PROVE ThreadInv'
<1> USE DEF ThreadInv
<1>1. /\ src' = src /\ chans' = chans /\ told' = told /\ table' = table /\ current' = current /\ dev' = dev /\ moved' = moved
      /\ head' = head /\ tail' = tail /\ pc' = "transfer" /\ mixed' = mixed /\ dst' = dst
      /\ pc = "channel" /\ idx <= Len(chans) /\ idx' = idx /\ Playing(chans[idx])
  BY DEF EnterChannel, turn, device
<1>2. Control' /\ Ahead' /\ Placed' /\ Begun' /\ idx \in DOMAIN chans
  BY <1>1, RingFacts DEF Control, Ahead, Placed, Begun
<1>3. Bound'
  BY <1>1, <1>2, Zenon DEF Bound, Playing
<1> QED BY <1>1, <1>2, <1>3, QuietHolds

\* What the channel at hand plays.
LEMMA NowFacts ==
  ASSUME ThreadInv, pc = "transfer"
  PROVE  /\ idx \in DOMAIN chans /\ Playing(chans[idx]) /\ Now \in Samples /\ Now \in told
         /\ src[Now] \in State(Now) /\ src[Now].pos \in 0..Frames[Now] /\ Frames[Now] \in Nat
         /\ idx \in Nat /\ idx >= 1 /\ idx <= Len(chans) /\ Len(chans) \in Nat
<1>1. idx \in DOMAIN chans /\ Playing(chans[idx]) /\ Control /\ Told /\ Sampled
  BY DEF ThreadInv, Bound
<1>2. Now \in Samples
  BY <1>1, ChannelFacts DEF Now
<1>3. Now \in told
  BY <1>1, <1>2, ToldCases DEF Now
<1> QED BY <1>1, <1>2, <1>3, EmbeddedAssumptions DEF Sampled, State, AnyState, Control

\* A channel is left: the next one is looked at.
LEMMA LeaveFacts ==
  ASSUME ThreadInv, pc = "transfer", Leave
  PROVE  /\ pc' = "channel" /\ idx' = idx + 1 /\ idx' \in 1..(Len(chans) + 1)
         /\ mixed' = Append(mixed, Now) /\ mixed' \in Seq(Samples) /\ dst' = 0 /\ 0 \in 0..Period
<1>1. mixed \in Seq(Samples) /\ Now \in Samples /\ 0 \in 0..Period
  BY NowFacts, RingFacts DEF ThreadInv, Control
<1>2. Append(mixed, Now) \in Seq(Samples)
  BY <1>1
<1>3. idx + 1 \in 1..(Len(chans) + 1)
  BY NowFacts
<1> QED BY <1>1, <1>2, <1>3 DEF Leave

LEMMA LeaveChannelHolds == ASSUME ThreadInv, LeaveChannel PROVE ThreadInv'
<1> USE DEF ThreadInv
<1>1. /\ src' = src /\ chans' = chans /\ told' = told /\ table' = table /\ current' = current /\ dev' = dev /\ moved' = moved
      /\ head' = head /\ tail' = tail /\ pc = "transfer" /\ Leave
  BY DEF LeaveChannel, turn, device
<1>2. Control' /\ Bound' /\ Ahead' /\ Placed' /\ Begun'
  BY <1>1, LeaveFacts DEF Control, Bound, Ahead, Placed, Begun
<1> QED BY <1>1, <1>2, QuietHolds

\* A slot of the ring's periods holds frames, whatever is done to it.
LEMMA TableSet ==
  ASSUME Tabled, Control, NEW row \in [1..Period -> Content], table' = [table EXCEPT ![head] = row]
  PROVE  Tabled'
BY DEF Tabled, Control

LEMMA EndChannelsHolds == ASSUME ThreadInv, EndChannels PROVE ThreadInv'
<1> USE DEF ThreadInv
<1>1. /\ src' = src /\ chans' = chans /\ told' = told /\ current' = current /\ dev' = dev /\ moved' = moved /\ idx' = idx
      /\ head' = head /\ tail' = tail /\ dst' = dst /\ mixed' = mixed
      /\ pc = "channel" /\ pc' = "next"
      /\ table' = IF mixed # <<>> THEN table ELSE [table EXCEPT ![head] = [i \in 1..Period |-> {}]]
  BY DEF EndChannels, turn, device
<1>2. Control' /\ Bound' /\ Ahead' /\ Placed' /\ Begun' /\ Sampled' /\ Distinct' /\ Pooled'
  BY <1>1 DEF Control, Bound, Ahead, Placed, Begun, Sampled, Distinct, Pooled
<1>3. Tabled'
  <2>1. [i \in 1..Period |-> {}] \in [1..Period -> Content]
    BY DEF Content
  <2>2. CASE mixed # <<>>
    BY <1>1, <2>2 DEF Tabled
  <2>3. CASE mixed = <<>>
    BY <1>1, <2>1, <2>3, TableSet
  <2> QED BY <2>2, <2>3
<1>4. Told'
  BY <1>1 DEF Told
<1> QED BY <1>2, <1>3, <1>4

LEMMA RewindHolds == ASSUME ThreadInv, Rewind PROVE ThreadInv' /\ src'[Now].pos = 0
<1> USE DEF ThreadInv
<1>1. /\ chans' = chans /\ told' = told /\ table' = table /\ current' = current /\ dev' = dev /\ moved' = moved /\ idx' = idx
      /\ head' = head /\ tail' = tail /\ dst' = dst /\ mixed' = mixed
      /\ pc = "transfer" /\ pc' = pc /\ src' = [src EXCEPT ![Now] = Smp!AfterReset(src[Now])]
  BY DEF Rewind, InTransfer, turn, device
<1>2. Now \in Samples /\ src[Now] \in State(Now)
  BY <1>1, NowFacts
<1>3. Smp!AfterReset(src[Now]) \in State(Now) /\ Smp!AfterReset(src[Now]).pos = 0
  BY <1>2, ResetState
<1>4. Sampled' /\ src'[Now].pos = 0
  BY <1>1, <1>2, <1>3, SrcExcept
<1>5. Control' /\ Bound' /\ Ahead' /\ Placed' /\ Begun' /\ Tabled' /\ Distinct' /\ Pooled'
  BY <1>1 DEF Control, Bound, Ahead, Placed, Begun, Tabled, Distinct, Pooled
<1>6. Told'
  BY <1>1 DEF Told
<1> QED BY <1>4, <1>5, <1>6

\* A row r of slots after the k frames of s that follow p were put behind the first d,
\* each together with what o holds there: nothing, or what r held.
Filled(r, o, s, p, d, k) ==
  [i \in 1..Period |-> IF i \notin (d + 1)..(d + k) THEN r[i] ELSE {<<s, p + i - d>>} \cup o[i]]
Silence == [i \in 1..Period |-> {}]

LEMMA FilledRow ==
  ASSUME NEW r \in [1..Period -> Content], NEW o \in [1..Period -> Content], NEW s \in Samples,
         NEW p \in Nat, NEW d \in Nat, NEW k \in Nat, p + k <= Frames[s]
  PROVE  Filled(r, o, s, p, d, k) \in [1..Period -> Content]
<1> SUFFICES ASSUME NEW i \in 1..Period
             PROVE  (IF i \notin (d + 1)..(d + k) THEN r[i] ELSE {<<s, p + i - d>>} \cup o[i]) \in Content
  BY DEF Filled
<1>1. r[i] \in Content /\ o[i] \in Content
  OBVIOUS
<1>2. ASSUME i \in (d + 1)..(d + k) PROVE {<<s, p + i - d>>} \in Content
  <2>1. p + i - d \in 1..Frames[s]
    BY <1>2, EmbeddedAssumptions
  <2> QED BY <2>1 DEF Content, Marks
<1> QED BY <1>1, <1>2 DEF Content

LEMMA PutHolds ==
  ASSUME ThreadInv, InTransfer, NEW t \in Smp!AfterRead(src[Now], Period - dst), NEW o,
         (Put(t, FALSE) /\ o = Silence) \/ (Put(t, TRUE) /\ o = table[head]),
         UNCHANGED <<chans, told, pc, turn, idx, mixed>>
  PROVE  /\ ThreadInv'
         /\ \E k \in 0..(Period - dst) :
              /\ src'[Now].pos = src[Now].pos + k /\ dst' = dst + k
              /\ src[Now].pos + k <= Frames[Now]
              /\ table'[head] = Filled(table[head], o, Now, src[Now].pos, dst, k)
         /\ \A x \in Samples \ {Now} : src'[x] = src[x]
<1> USE DEF ThreadInv
<1> DEFINE p == src[Now].pos
           k == t.pos - p
           row == Filled(table[head], o, Now, p, dst, k)
<1>1. /\ chans' = chans /\ told' = told /\ current' = current /\ dev' = dev /\ moved' = moved /\ idx' = idx
      /\ head' = head /\ tail' = tail /\ mixed' = mixed /\ pc = "transfer" /\ pc' = pc
      /\ src' = [src EXCEPT ![Now] = t] /\ dst' = dst + k
  BY DEF Put, InTransfer, turn, device
<1>2. /\ Now \in Samples /\ src[Now] \in State(Now) /\ p \in Nat /\ Frames[Now] \in Nat
      /\ dst \in Nat /\ Period - dst \in Nat
  BY <1>1, NowFacts, RingFacts DEF InTransfer, Control
<1>3. t \in State(Now) /\ k \in 0..(Period - dst)
  BY <1>2, ReadState
<1>4. t.pos \in Nat /\ t.pos = p + k /\ p + k <= Frames[Now] /\ k \in Nat
  BY <1>2, <1>3 DEF State, AnyState
<1>5. Sampled' /\ src'[Now] = t /\ \A x \in Samples \ {Now} : src'[x] = src[x]
  BY <1>1, <1>2, <1>3, SrcExcept DEF Sampled
<1>6. table[head] \in [1..Period -> Content] /\ o \in [1..Period -> Content]
  BY DEF Tabled, Control, Silence, Content
<1>7. table' = [table EXCEPT ![head] = row]
  <2>1. CASE Put(t, FALSE) /\ o = Silence
    <3>1. table' = [table EXCEPT ![head] =
                      [i \in 1..Period |-> IF i \notin (dst + 1)..(dst + k) THEN table[head][i]
                                           ELSE {<<Now, p + i - dst>>} \cup {}]]
      BY <2>1, <1>6, Zenon DEF Put, Tabled, Control
    <3>2. \A i \in 1..Period : o[i] = {}
      BY <2>1 DEF Silence
    <3> QED BY <3>1, <3>2 DEF Filled
  <2>2. CASE Put(t, TRUE) /\ o = table[head]
    BY <2>2, Zenon DEF Put, Filled, Tabled, Control
  <2> QED BY <2>1, <2>2
<1>8. Tabled' /\ table'[head] = row
  <2>1. row \in [1..Period -> Content]
    BY <1>2, <1>4, <1>6, FilledRow
  <2> HIDE DEF row
  <2> QED BY <1>7, <2>1, TableSet DEF Tabled, Control
<1>9. Control'
  <2>1. dst' \in 0..Period
    BY <1>1, <1>2, <1>3, RingFacts
  <2> QED BY <1>1, <2>1 DEF Control
<1>10. Bound' /\ Ahead' /\ Placed' /\ Begun' /\ Distinct' /\ Pooled'
  BY <1>1 DEF Bound, Ahead, Placed, Begun, Distinct, Pooled
<1>11. Told'
  BY <1>1 DEF Told
<1>12. ThreadInv'
  BY <1>5, <1>8, <1>9, <1>10, <1>11
<1> HIDE DEF k, row, ThreadInv
<1> QED
  <2>1. src'[Now].pos = p + k /\ dst' = dst + k /\ p + k <= Frames[Now] /\ table'[head] = row
    BY <1>1, <1>4, <1>5, <1>8
  <2> QED BY <1>3, <1>5, <1>12, <2>1 DEF row

LEMMA StopHereHolds ==
  ASSUME ThreadInv, pc = "transfer", StopChannel(idx),
         chans' = [chans EXCEPT ![idx].status = "stopped"], Leave, UNCHANGED turn,
         NEW row \in [1..Period -> Content], table' = table \/ table' = [table EXCEPT ![head] = row]
  PROVE  /\ ThreadInv' /\ DOMAIN chans' = DOMAIN chans /\ told' = told \ {Now}
         /\ \A i \in DOMAIN chans : chans'[i].sample = chans[i].sample
         /\ \A x \in Samples \ {Now} : src'[x] = src[x]
<1> USE DEF ThreadInv
<1> DEFINE c == [chans[idx] EXCEPT !.status = "stopped"]
<1>1. /\ current' = current /\ dev' = dev /\ moved' = moved /\ head' = head /\ tail' = tail /\ dst' = 0 /\ 0 \in 0..Period
      /\ pc' = "channel" /\ idx' \in 1..(Len(chans) + 1) /\ mixed' \in Seq(Samples)
  BY LeaveFacts DEF turn, device
<1>2. idx \in DOMAIN chans /\ Now \in Samples /\ chans[idx] \in Channel /\ chans[idx].sample = Now
  BY NowFacts, ChannelFacts DEF Now
<1>3. c \in Channel /\ c.status = "stopped" /\ c.sample = Now /\ chans' = [chans EXCEPT ![idx] = c]
  BY <1>2 DEF Channel
<1> HIDE DEF c
<1>4. /\ chans' \in Seq(Channel) /\ Len(chans') = Len(chans) /\ DOMAIN chans' = DOMAIN chans
      /\ told' = told \ {Now}
      /\ \A x \in Samples \ {Now} : src'[x] = src[x]
      /\ Sampled' /\ Distinct' /\ Pooled' /\ Told'
  BY <1>2, <1>3, StopHolds
<1>5. \A i \in DOMAIN chans : chans'[i].sample = chans[i].sample
  BY <1>2, <1>3, ChannelSet
<1>6. Control' /\ Bound' /\ Ahead' /\ Placed' /\ Begun'
  BY <1>1, <1>4 DEF Control, Bound, Ahead, Placed, Begun
<1>7. Tabled'
  BY TableSet DEF Tabled
<1> QED BY <1>4, <1>5, <1>6, <1>7

\* The rest of a period that StopAtEnd leaves.
Silenced(r, d) == [i \in 1..Period |-> IF i > d THEN {} ELSE r[i]]

LEMMA StopAtEndHolds ==
  ASSUME ThreadInv, StopAtEnd
  PROVE  /\ ThreadInv' /\ DOMAIN chans' = DOMAIN chans /\ told' = told \ {Now}
         /\ \A i \in DOMAIN chans : chans'[i].sample = chans[i].sample
         /\ \A x \in Samples \ {Now} : src'[x] = src[x]
         /\ table'[head] = IF mixed # <<>> THEN table[head] ELSE Silenced(table[head], dst)
<1> DEFINE row == Silenced(table[head], dst)
<1>1. /\ pc = "transfer" /\ StopChannel(idx) /\ chans' = [chans EXCEPT ![idx].status = "stopped"]
      /\ Leave /\ UNCHANGED turn
      /\ table' = IF mixed # <<>> THEN table ELSE [table EXCEPT ![head] = row]
  BY Zenon DEF StopAtEnd, InTransfer, SilencedRest, Silenced
<1>2. Tabled /\ Control
  BY DEF ThreadInv
<1>3. table[head] \in [1..Period -> Content] /\ head \in DOMAIN table
  BY <1>2 DEF Tabled, Control
<1>4. row \in [1..Period -> Content]
  BY <1>3 DEF Silenced, Content
<1> HIDE DEF row
<1>5. table' = table \/ table' = [table EXCEPT ![head] = row]
  BY <1>1
<1>6. table'[head] = IF mixed # <<>> THEN table[head] ELSE row
  BY <1>1, <1>3
<1> QED BY <1>1, <1>4, <1>5, <1>6, StopHereHolds DEF row

LEMMA CannotMixHolds ==
  ASSUME ThreadInv, CannotMix
  PROVE  /\ ThreadInv' /\ DOMAIN chans' = DOMAIN chans /\ told' = told \ {Now}
         /\ \A i \in DOMAIN chans : chans'[i].sample = chans[i].sample
         /\ \A x \in Samples \ {Now} : src'[x] = src[x]
         /\ table' = table
<1> DEFINE row == [i \in 1..Period |-> {}]
<1>1. /\ pc = "transfer" /\ StopChannel(idx) /\ chans' = [chans EXCEPT ![idx].status = "stopped"]
      /\ Leave /\ UNCHANGED turn /\ table' = table
  BY DEF CannotMix, InTransfer
<1>2. row \in [1..Period -> Content]
  BY DEF Content
<1> HIDE DEF row
<1> QED BY <1>1, <1>2, StopHereHolds

LEMMA ThreadStep == ASSUME ThreadInv, Next PROVE ThreadInv'
<1>1. ASSUME Read PROVE ThreadInv'
  BY <1>1, PutHolds DEF Read, InTransfer
<1>2. ASSUME Mix PROVE ThreadInv'
  BY <1>2, PutHolds DEF Mix, InTransfer
<1> QED
  BY <1>1, <1>2, PlayHolds, StopCommandHolds, IoctlHolds, CommandsDoneHolds, SkipChannelHolds,
     EnterChannelHolds, RewindHolds, StopAtEndHolds, CannotMixHolds, LeaveChannelHolds,
     EndChannelsHolds, NextPeriodHolds, DevicePlaysHolds DEF Next, Turn

LEMMA ThreadStutter == ASSUME ThreadInv, UNCHANGED vars PROVE ThreadInv'
<1>1. /\ src' = src /\ chans' = chans /\ told' = told /\ table' = table /\ pc' = pc
      /\ current' = current /\ dev' = dev /\ moved' = moved /\ head' = head /\ tail' = tail /\ idx' = idx /\ mixed' = mixed
      /\ dst' = dst
  BY DEF vars, turn, device
<1>2. Control' /\ Bound' /\ Ahead' /\ Placed' /\ Begun'
  BY <1>1 DEF ThreadInv, Control, Bound, Ahead, Placed, Begun
<1> QED BY <1>1, <1>2, QuietHolds

THEOREM ThreadCorrect == Spec => []ThreadInv
<1>1. ThreadInv /\ [Next]_vars => ThreadInv'
  BY ThreadStep, ThreadStutter
<1> QED BY <1>1, ThreadInit, PTL DEF Spec

\* Every variable stays in its type, for any number of samples and channels, and the
\* pool grows only for a sample that has no channel.
THEOREM TypeCorrect == Spec => []TypeOK
<1>1. ThreadInv => TypeOK
  <2> SUFFICES ASSUME ThreadInv PROVE TypeOK
    OBVIOUS
  <2>1. \A s \in Samples : src[s] \in [length : {Frames[s]}, unit : {Unit[s]}, pos : 0..Frames[s],
                                       end : BOOLEAN, fresh : BOOLEAN]
    <3> SUFFICES ASSUME NEW s \in Samples
                 PROVE  src[s] \in [length : {Frames[s]}, unit : {Unit[s]}, pos : 0..Frames[s],
                                    end : BOOLEAN, fresh : BOOLEAN]
      OBVIOUS
    <3>1. src[s] \in AnyState /\ src[s].length = Frames[s] /\ src[s].unit = Unit[s]
      BY DEF ThreadInv, Sampled, State
    <3>2. src[s].pos \in 0..Frames[s]
      BY <3>1, EmbeddedAssumptions DEF ThreadInv, Sampled, State, AnyState
    <3> QED BY <3>1, <3>2 DEF AnyState
  <2>2. DOMAIN src = Samples
    BY DEF ThreadInv, Sampled
  <2> QED BY <2>1, <2>2 DEF ThreadInv, Control, Tabled, Pooled, TypeOK, Channel, Content
<1> QED BY <1>1, ThreadCorrect, PTL

\* What the application was told agrees with what the channels play in every state:
\* every STARTED is followed by one STOPPED, also when a sample ends within a period
\* or cannot be mixed.
THEOREM ToldCorrect == Spec => []Told
<1>1. ThreadInv => Told
  BY DEF ThreadInv
<1> QED BY <1>1, ThreadCorrect, PTL

-----------------------------------------------------------------------------
(* The period that is written to.                                          *)

\* A step writes to the period at head only, and only while that is being filled.
LEMMA WritesHead ==
  ASSUME ThreadInv, Next, NEW h \in Ring, table'[h] # table[h]
  PROVE  h = head /\ pc \in {"channel", "transfer"}
<1>1. Tabled /\ Control
  BY DEF ThreadInv
<1>2. ASSUME NEW row, table' = [table EXCEPT ![head] = row] PROVE h = head
  BY <1>1, <1>2 DEF Tabled
<1>3. CASE StopAtEnd
  BY <1>2, <1>3, Zenon DEF StopAtEnd, SilencedRest, InTransfer
<1>4. CASE Read
  BY <1>2, <1>4, Zenon DEF Read, Put, InTransfer
<1>5. CASE Mix
  BY <1>2, <1>5, Zenon DEF Mix, Put, InTransfer
<1>6. CASE EndChannels
  BY <1>2, <1>6, Zenon DEF EndChannels
<1>7. table' = table \/ StopAtEnd \/ Read \/ Mix \/ EndChannels
  BY DEF Next, Turn, Play, Stop, Ioctl, CommandsDone, SkipChannel, EnterChannel, Rewind,
     CannotMix, LeaveChannel, NextPeriod, DevicePlays
<1> QED BY <1>3, <1>4, <1>5, <1>6, <1>7

\* A step writes to the period that the device plays only if the turn began at the
\* first of the ring, if the device has come round to it since, or if the ioctl has
\* failed: for every number of periods, and however far the device goes on in a turn.
THEOREM PlayedLeftAloneCorrect == Spec => PlayedLeftAlone
<1>1. ASSUME ThreadInv, Next, NEW h \in Ring, h = dev, table'[h] # table[h]
      PROVE  current = 0 \/ current + moved >= Periods \/ current = Periods
  <2>1. h = head /\ pc \in {"channel", "transfer"}
    BY <1>1, WritesHead
  <2>2. /\ current \in Nat /\ moved \in Nat /\ head \in Nat /\ Periods \in Nat
        /\ current = 0 \/ head < current
        /\ current # Periods /\ current + moved < Periods => dev = current + moved
    BY <1>1, <2>1, RingFacts DEF ThreadInv, Control, Ahead, Placed, Ring
  <2> QED BY <1>1, <2>1, <2>2
<1>2. ThreadInv /\ [Next]_vars =>
        [\A h \in Ring : h = dev /\ table'[h] # table[h] =>
           current = 0 \/ current + moved >= Periods \/ current = Periods]_vars
  BY <1>1
<1> QED BY <1>2, ThreadCorrect, PTL DEF Spec, PlayedLeftAlone

-----------------------------------------------------------------------------
(* What a row of slots holds of a sample.                                  *)

Of(r, s, i) == {p \in 1..Frames[s] : <<s, p>> \in r[i]}

\* The first d slots hold one frame each, and these follow one another; the rest none.
Prefix(r, s, d) ==
  /\ \A i \in 1..d : \E p \in 1..Frames[s] : Of(r, s, i) = {p}
  /\ \A i \in 2..d : \A p \in Of(r, s, i - 1) : Of(r, s, i) = {Follows(s, p)}

EndsAt(r, s, d, p) == d # 0 => Of(r, s, d) = {p}
Rest(r, s, d)      == \A i \in (d + 1)..Period : Of(r, s, i) = {}

\* The frame that was delivered last when p were, in a sample that loops.
Latest(s, p) == IF p = 0 THEN Frames[s] ELSE p

LEMMA FilledOutside ==
  ASSUME NEW r, NEW o, NEW s, NEW p, NEW d, NEW k, NEW x, NEW i \in 1..Period, i \notin (d + 1)..(d + k)
  PROVE  Of(Filled(r, o, s, p, d, k), x, i) = Of(r, x, i)
BY DEF Of, Filled

LEMMA FilledInside ==
  ASSUME NEW r, NEW o, NEW s \in Samples, NEW p \in Nat, NEW d \in Nat, NEW k \in Nat,
         p + k <= Frames[s], NEW x \in Samples, NEW i \in 1..Period, i \in (d + 1)..(d + k)
  PROVE  Of(Filled(r, o, s, p, d, k), x, i) = (IF x = s THEN {p + i - d} ELSE {}) \cup Of(o, x, i)
<1>1. p + i - d \in 1..Frames[s]
  BY EmbeddedAssumptions
<1>2. Filled(r, o, s, p, d, k)[i] = {<<s, p + i - d>>} \cup o[i]
  BY DEF Filled
<1>3. \A q : <<x, q>> = <<s, p + i - d>> <=> x = s /\ q = p + i - d
  OBVIOUS
<1> QED BY <1>1, <1>2, <1>3 DEF Of

\* Delivering the next k frames extends the prefix by k slots.
LEMMA FilledPrefix ==
  ASSUME NEW r, NEW o, NEW s \in Samples, NEW p \in Nat, NEW d \in Nat, NEW k \in Nat,
         p + k <= Frames[s], d + k <= Period,
         Prefix(r, s, d), EndsAt(r, s, d, Latest(s, p)), Rest(o, s, d)
  PROVE  LET f == Filled(r, o, s, p, d, k)
         IN  /\ Prefix(f, s, d + k) /\ EndsAt(f, s, d + k, Latest(s, p + k))
             /\ o = r => Rest(f, s, d + k)
<1> DEFINE f == Filled(r, o, s, p, d, k)
<1>0. Frames[s] \in Nat /\ Period \in Nat
  BY EmbeddedAssumptions
<1>1. \A i \in 1..Period : i \notin (d + 1)..(d + k) => Of(f, s, i) = Of(r, s, i)
  BY FilledOutside
<1>2. \A i \in (d + 1)..(d + k) : Of(f, s, i) = {p + i - d}
  <2> SUFFICES ASSUME NEW i \in (d + 1)..(d + k) PROVE Of(f, s, i) = {p + i - d}
    OBVIOUS
  <2>1. i \in 1..Period /\ i \in (d + 1)..Period
    BY <1>0
  <2> QED BY <2>1, FilledInside DEF Rest
<1> HIDE DEF f
<1>3. \A i \in 1..d : Of(f, s, i) = Of(r, s, i)
  BY <1>0, <1>1
<1>4. \A i \in 1..(d + k) : \E q \in 1..Frames[s] : Of(f, s, i) = {q}
  <2> SUFFICES ASSUME NEW i \in 1..(d + k) PROVE \E q \in 1..Frames[s] : Of(f, s, i) = {q}
    OBVIOUS
  <2>1. CASE i \in 1..d
    BY <1>3, <2>1 DEF Prefix
  <2>2. CASE i \notin 1..d
    <3>1. i \in (d + 1)..(d + k) /\ p + i - d \in 1..Frames[s]
      BY <1>0, <2>2
    <3> QED BY <1>2, <3>1
  <2> QED BY <2>1, <2>2
<1>5. ASSUME NEW i \in 2..(d + k), NEW q \in Of(f, s, i - 1) PROVE Of(f, s, i) = {Follows(s, q)}
  <2>1. CASE i <= d
    <3>1. i \in 2..d /\ i \in 1..d /\ i - 1 \in 1..d
      BY <2>1
    <3> QED BY <1>3, <1>5, <3>1 DEF Prefix
  <2>2. CASE i = d + 1
    <3>1. d \in 1..d /\ d # 0 /\ i - 1 = d /\ i \in (d + 1)..(d + k) /\ p + i - d = p + 1 /\ p + 1 <= Frames[s]
      BY <2>2, <1>0
    <3>2. Of(f, s, d) = {Latest(s, p)}
      BY <1>3, <3>1 DEF EndsAt
    <3>3. q = Latest(s, p)
      BY <1>5, <3>1, <3>2
    <3>4. Follows(s, q) = p + 1
      BY <1>0, <3>1, <3>3 DEF Latest, Follows
    <3> QED BY <1>2, <3>1, <3>4
  <2>3. CASE i > d + 1
    <3>1. i \in (d + 1)..(d + k) /\ i - 1 \in (d + 1)..(d + k)
      BY <2>3
    <3>2. Of(f, s, i) = {p + i - d} /\ Of(f, s, i - 1) = {p + (i - 1) - d}
      BY <1>2, <3>1
    <3>3. q = p + (i - 1) - d
      BY <1>5, <3>2
    <3>4. Follows(s, q) = p + i - d
      BY <1>0, <3>1, <3>3 DEF Follows
    <3> QED BY <3>2, <3>4
  <2> QED BY <2>1, <2>2, <2>3
<1>6. EndsAt(f, s, d + k, Latest(s, p + k))
  <2>1. CASE k = 0
    <3>1. d + k = d /\ p + k = p
      BY <2>1
    <3>2. d # 0 => d \in 1..d
      OBVIOUS
    <3> QED BY <1>3, <3>1, <3>2 DEF EndsAt
  <2>2. CASE k # 0
    <3>1. d + k \in (d + 1)..(d + k) /\ p + (d + k) - d = p + k /\ p + k # 0
      BY <2>2
    <3>2. Of(f, s, d + k) = {p + (d + k) - d}
      BY <1>2, <3>1
    <3> QED BY <3>1, <3>2 DEF EndsAt, Latest
  <2> QED BY <2>1, <2>2
<1>7. o = r => Rest(f, s, d + k)
  <2> SUFFICES ASSUME o = r, NEW i \in (d + k + 1)..Period PROVE Of(f, s, i) = {}
    BY DEF Rest
  <2>1. i \in 1..Period /\ i \notin (d + 1)..(d + k) /\ i \in (d + 1)..Period
    BY <1>0
  <2> QED BY <1>1, <2>1 DEF Rest
<1>8. Prefix(f, s, d + k)
  BY <1>4, <1>5 DEF Prefix
<1> QED BY <1>6, <1>7, <1>8 DEF f

\* The same slots hold the same.
LEMMA SameRow ==
  ASSUME NEW r, NEW q, NEW s, NEW d \in 0..Period, \A i \in 1..d : Of(q, s, i) = Of(r, s, i)
  PROVE  /\ Prefix(r, s, d) => Prefix(q, s, d)
         /\ \A p : EndsAt(r, s, d, p) => EndsAt(q, s, d, p)
<1>1. d \in Nat /\ (d # 0 => d \in 1..d)
  BY EmbeddedAssumptions
<1>2. \A i \in 2..d : i \in 1..d /\ i - 1 \in 1..d
  BY <1>1
<1> QED BY <1>1, <1>2 DEF Prefix, EndsAt

-----------------------------------------------------------------------------
(* The invariant of the mix.                                               *)

Within == pc \in {"channel", "transfer", "next"}

\* What a sample that was transferred has left in the period: all of it if it plays
\* on; otherwise its last frames, or none if it could not be mixed.
Done(s) ==
  \E d \in 0..Period :
    /\ Prefix(table[head], s, d) /\ Rest(table[head], s, d)
    /\ IF s \in told THEN d = Period /\ EndsAt(table[head], s, d, src[s].pos)
       ELSE /\ EndsAt(table[head], s, d, Frames[s])
            /\ s \notin CanMix /\ s # mixed[1] => d = 0

\* What the sample at hand has left so far; the first one finds the slots as the last
\* turn left them, the others find them without it.
Transferring ==
  pc = "transfer" =>
    /\ Prefix(table[head], Now, dst)
    /\ EndsAt(table[head], Now, dst, Latest(Now, src[Now].pos))
    /\ dst = Period => src[Now].pos # 0
    /\ mixed = <<>> => \A x \in Samples \ {Now} : \A i \in 1..dst : Of(table[head], x, i) = {}
    /\ mixed # <<>> => Rest(table[head], Now, dst) /\ (Now \notin CanMix => dst = 0)

\* Once a sample was transferred, the period holds nothing else.
Others ==
  (Within /\ mixed # <<>>) \/ pc = "next" =>
    \A x \in Samples \ Range(mixed) : (pc = "transfer" /\ x = Now) \/ Rest(table[head], x, 0)

AllDone == Within => \A x \in Range(mixed) : Done(x)

\* The samples that were transferred are on channels that were looked at.
Passed ==
  Within => \A x \in Range(mixed) : \E i \in DOMAIN chans : i < idx /\ chans[i].sample = x

MixInv == Transferring /\ Others /\ AllDone /\ Passed

LEMMA RangeFacts ==
  ASSUME Control
  PROVE  /\ Range(mixed) \subseteq Samples /\ (mixed = <<>> <=> Range(mixed) = {})
         /\ mixed # <<>> => mixed[1] \in Range(mixed)
<1>1. mixed \in Seq(Samples) /\ Len(mixed) \in Nat /\ DOMAIN mixed = 1..Len(mixed)
  BY DEF Control
<1>2. mixed = <<>> <=> Len(mixed) = 0
  BY <1>1
<1>3. Range(mixed) \subseteq Samples
  BY <1>1 DEF Range
<1>4. mixed # <<>> => 1 \in DOMAIN mixed
  BY <1>1, <1>2
<1>5. mixed = <<>> => DOMAIN mixed = {}
  BY <1>1, <1>2
<1> QED BY <1>3, <1>4, <1>5 DEF Range

LEMMA RangeAppend ==
  ASSUME Control, NEW s \in Samples, mixed' = Append(mixed, s)
  PROVE  /\ Range(mixed)' = Range(mixed) \cup {s} /\ mixed' # <<>>
         /\ mixed'[1] = IF mixed = <<>> THEN s ELSE mixed[1]
<1>1. mixed \in Seq(Samples) /\ Len(mixed) \in Nat /\ DOMAIN mixed = 1..Len(mixed)
  BY DEF Control
<1>2. /\ DOMAIN mixed' = 1..(Len(mixed) + 1) /\ mixed'[Len(mixed) + 1] = s
      /\ \A j \in 1..Len(mixed) : mixed'[j] = mixed[j]
  BY <1>1
<1>3. Range(mixed)' = Range(mixed) \cup {s}
  BY <1>1, <1>2 DEF Range
<1>4. mixed = <<>> <=> Len(mixed) = 0
  BY <1>1
<1> QED BY <1>1, <1>2, <1>3, <1>4

\* A sample that was transferred is not at hand: it has one channel only.
LEMMA NotAgain ==
  ASSUME ThreadInv, Passed, Within, idx \in DOMAIN chans
  PROVE  chans[idx].sample \notin Range(mixed)
<1>1. SUFFICES ASSUME chans[idx].sample \in Range(mixed) PROVE FALSE
  OBVIOUS
<1>2. PICK i \in DOMAIN chans : i < idx /\ chans[i].sample = chans[idx].sample
  BY <1>1 DEF Passed
<1>3. chans[idx].sample # NULL
  BY <1>1, RangeFacts, EmbeddedAssumptions DEF ThreadInv
<1>4. i = idx
  BY <1>2, <1>3 DEF ThreadInv, Distinct
<1> QED BY <1>2, <1>4 DEF ThreadInv, Control

\* What was transferred stays as it is.
LEMMA DoneKept ==
  ASSUME NEW x, Done(x), \A i \in 1..Period : Of(table'[head'], x, i) = Of(table[head], x, i),
         x \in told' <=> x \in told, src'[x] = src[x], mixed'[1] = mixed[1]
  PROVE  Done(x)'
<1>1. PICK d \in 0..Period :
        /\ Prefix(table[head], x, d) /\ Rest(table[head], x, d)
        /\ IF x \in told THEN d = Period /\ EndsAt(table[head], x, d, src[x].pos)
           ELSE /\ EndsAt(table[head], x, d, Frames[x])
                /\ x \notin CanMix /\ x # mixed[1] => d = 0
  BY DEF Done
<1>2. d \in Nat /\ d <= Period /\ Period \in Nat
  BY EmbeddedAssumptions
<1>3. \A i \in 1..d : Of(table'[head'], x, i) = Of(table[head], x, i)
  BY <1>2
<1>4. Prefix(table'[head'], x, d) /\ \A p : EndsAt(table[head], x, d, p) => EndsAt(table'[head'], x, d, p)
  BY <1>1, <1>3, SameRow
<1>5. Rest(table'[head'], x, d)
  BY <1>1, <1>2 DEF Rest
<1> QED BY <1>1, <1>4, <1>5 DEF Done

\* A channel is left, whatever it played.
LEMMA LeaveMix ==
  ASSUME ThreadInv, MixInv, pc = "transfer", Leave, UNCHANGED head,
         DOMAIN chans' = DOMAIN chans, \A i \in DOMAIN chans : chans'[i].sample = chans[i].sample,
         \A x \in Samples \ {Now} : src'[x] = src[x] /\ (x \in told' <=> x \in told),
         mixed # <<>> => table' = table,
         mixed = <<>> => \A x \in Samples \ {Now} : Rest(table'[head], x, 0),
         NEW s, s = Now, Done(s)'
  PROVE  MixInv'
<1>1. /\ s \in Samples /\ pc' = "channel" /\ idx' = idx + 1 /\ mixed' = Append(mixed, s)
      /\ idx \in Nat /\ idx \in DOMAIN chans /\ chans[idx].sample = s /\ Control
  BY NowFacts, LeaveFacts DEF ThreadInv, Now
<1>2. /\ Range(mixed)' = Range(mixed) \cup {s} /\ mixed' # <<>> /\ Range(mixed) \subseteq Samples
      /\ (mixed # <<>> => mixed'[1] = mixed[1]) /\ (mixed = <<>> => Range(mixed) = {})
  BY <1>1, RangeAppend, RangeFacts
<1>3. s \notin Range(mixed)
  BY <1>1, NotAgain DEF MixInv, Within
<1>4. Passed'
  <2>1. \A x \in Range(mixed) : \E i \in DOMAIN chans : i < idx /\ chans[i].sample = x
    BY DEF MixInv, Passed, Within
  <2>2. \A i \in DOMAIN chans : i < idx => i < idx + 1
    BY <1>1 DEF Control
  <2> QED BY <1>1, <1>2, <2>1, <2>2 DEF Passed
<1>5. AllDone'
  <2>1. ASSUME NEW x \in Range(mixed) PROVE Done(x)'
    <3>1. x \in Samples \ {Now} /\ mixed # <<>>
      BY <1>2, <1>3
    <3>2. Done(x)
      BY DEF MixInv, AllDone, Within
    <3> QED BY <1>2, <3>1, <3>2, DoneKept
  <2> QED BY <1>2, <2>1 DEF AllDone
<1>6. Others'
  <2>1. ASSUME NEW x \in Samples, x \notin Range(mixed)' PROVE Rest(table'[head], x, 0)
    <3>1. x # Now /\ x \notin Range(mixed)
      BY <1>2, <2>1
    <3>2. CASE mixed = <<>>
      BY <3>1, <3>2
    <3>3. CASE mixed # <<>>
      BY <3>1, <3>3 DEF MixInv, Others, Within
    <3> QED BY <3>2, <3>3
  <2> QED BY <2>1 DEF Others
<1>7. Transferring'
  BY <1>1 DEF Transferring
<1> QED BY <1>4, <1>5, <1>6, <1>7 DEF MixInv

\* No period is under way, or one begins: nothing was transferred to it.
LEMMA CommandsMix ==
  ASSUME ThreadInv, Next, pc \in {"ioctl", "cmds"} \/ NextPeriod
  PROVE  MixInv'
<1>1. pc' \in {"ioctl", "cmds"} \/ (pc' = "channel" /\ mixed' = <<>>)
  BY DEF Next, Turn, Play, Stop, Ioctl, CommandsDone, NextPeriod, BeginPeriod, SkipChannel,
     EnterChannel, Rewind, StopAtEnd, Read, Mix, CannotMix, LeaveChannel, EndChannels, InTransfer,
     DevicePlays
<1>2. CASE pc' \in {"ioctl", "cmds"}
  <2>1. ~Within'
    BY <1>2 DEF Within
  <2> QED BY <2>1 DEF MixInv, Transferring, Others, AllDone, Passed, Within
<1>3. CASE pc' = "channel" /\ mixed' = <<>>
  <2>1. Range(mixed)' = {}
    BY <1>3 DEF Range
  <2> QED BY <1>3, <2>1 DEF MixInv, Transferring, Others, AllDone, Passed, Within
<1> QED BY <1>1, <1>2, <1>3

LEMMA SkipChannelMix == ASSUME ThreadInv, MixInv, SkipChannel PROVE MixInv'
<1>1. /\ src' = src /\ chans' = chans /\ told' = told /\ table' = table /\ head' = head
      /\ mixed' = mixed /\ pc = "channel" /\ pc' = pc /\ idx' = idx + 1 /\ idx \in Nat
  BY DEF SkipChannel, turn, device, ThreadInv, Control
<1>2. Transferring' /\ Others'
  BY <1>1 DEF MixInv, Transferring, Others, Within
<1>3. AllDone'
  BY <1>1 DEF MixInv, AllDone, Within, Done
<1>4. Passed'
  <2>1. \A i \in DOMAIN chans : i < idx => i < idx + 1
    BY <1>1 DEF ThreadInv, Control
  <2> QED BY <1>1, <2>1 DEF MixInv, Passed, Within
<1> QED BY <1>2, <1>3, <1>4 DEF MixInv

LEMMA EnterChannelMix == ASSUME ThreadInv, MixInv, EnterChannel PROVE MixInv'
<1> DEFINE s == chans[idx].sample
<1>1. /\ src' = src /\ chans' = chans /\ told' = told /\ table' = table /\ head' = head
      /\ mixed' = mixed /\ pc = "channel" /\ pc' = "transfer" /\ idx' = idx /\ dst' = 0 /\ dst = 0
      /\ idx \in DOMAIN chans /\ Playing(chans[idx])
  BY DEF EnterChannel, turn, device, ThreadInv, Control, Begun
<1>2. Now' = s /\ s \in Samples /\ s \notin Range(mixed)
  BY <1>1, ChannelFacts, NotAgain DEF Now, ThreadInv, MixInv, Within
<1>3. AllDone' /\ Passed'
  BY <1>1 DEF MixInv, AllDone, Passed, Within, Done
<1>4. Others'
  BY <1>1, <1>2 DEF MixInv, Others, Within
<1>5. Transferring'
  <2>1. Prefix(table[head], s, 0) /\ \A p : EndsAt(table[head], s, 0, p)
    BY DEF Prefix, EndsAt
  <2>2. mixed # <<>> => Rest(table[head], s, 0)
    BY <1>1, <1>2 DEF MixInv, Others, Within
  <2> HIDE DEF s
  <2> QED BY <1>1, <1>2, <2>1, <2>2, RingFacts DEF Transferring
<1> QED BY <1>3, <1>4, <1>5 DEF MixInv

LEMMA RewindMix == ASSUME ThreadInv, MixInv, Rewind PROVE MixInv'
<1>1. /\ chans' = chans /\ told' = told /\ table' = table /\ idx' = idx /\ head' = head
      /\ dst' = dst /\ mixed' = mixed /\ pc = "transfer" /\ pc' = pc /\ dst < Period
      /\ src' = [src EXCEPT ![Now] = Smp!AfterReset(src[Now])] /\ src[Now].end = TRUE
  BY DEF Rewind, InTransfer, turn, device, AtEnd
<1>2. Now' = Now /\ Now \in Samples /\ Now \notin Range(mixed) /\ src'[Now].pos = 0
  BY <1>1, NowFacts, NotAgain, RewindHolds DEF Now, MixInv, Within
<1>3. Latest(Now, src'[Now].pos) = Latest(Now, src[Now].pos)
  <2>1. src[Now].pos = Frames[Now]
    BY <1>1, NowFacts DEF State
  <2> QED BY <1>2, <2>1 DEF Latest
<1>4. Transferring'
  <2>1. dst # Period
    BY <1>1, RingFacts DEF ThreadInv, Control
  <2> QED BY <1>1, <1>2, <1>3, <2>1 DEF MixInv, Transferring
<1>5. Others' /\ Passed'
  BY <1>1, <1>2 DEF MixInv, Others, Passed, Within
<1>6. AllDone'
  <2>1. ASSUME NEW x \in Range(mixed) PROVE Done(x)'
    <3>1. x # Now /\ x \in Samples /\ Done(x)
      BY <1>1, <1>2, RangeFacts DEF MixInv, AllDone, Within, ThreadInv
    <3>2. src'[x] = src[x]
      BY <1>1, <3>1 DEF ThreadInv, Sampled
    <3> QED BY <1>1, <3>1, <3>2, DoneKept
  <2> QED BY <1>1, <2>1 DEF AllDone
<1> QED BY <1>4, <1>5, <1>6 DEF MixInv

\* The first channel reads: what its slots held is gone.
LEMMA ReadMix == ASSUME ThreadInv, MixInv, Read PROVE MixInv'
<1>1. /\ chans' = chans /\ told' = told /\ idx' = idx /\ head' = head /\ mixed' = mixed
      /\ mixed = <<>> /\ pc = "transfer" /\ pc' = pc /\ InTransfer
      /\ UNCHANGED <<chans, told, pc, turn, idx, mixed>>
  BY DEF Read, InTransfer, turn, device
<1>2. /\ Now' = Now /\ Now \in Samples /\ src[Now].pos \in Nat /\ Frames[Now] \in Nat
      /\ dst \in Nat /\ Period \in Nat /\ dst < Period
  BY <1>1, NowFacts, RingFacts DEF Now, InTransfer, ThreadInv, Control
<1>3. PICK k \in 0..(Period - dst) :
        /\ src'[Now].pos = src[Now].pos + k /\ dst' = dst + k
        /\ src[Now].pos + k <= Frames[Now]
        /\ table'[head] = Filled(table[head], Silence, Now, src[Now].pos, dst, k)
  <2>1. PICK t \in Smp!AfterRead(src[Now], Period - dst) : Put(t, FALSE)
    BY DEF Read
  <2> QED BY <1>1, <2>1, PutHolds
<1> DEFINE p == src[Now].pos
           f == Filled(table[head], Silence, Now, p, dst, k)
<1>4. k \in Nat /\ dst + k <= Period
  BY <1>2
<1>5. Prefix(f, Now, dst + k) /\ EndsAt(f, Now, dst + k, Latest(Now, p + k))
  <2>1. Prefix(table[head], Now, dst) /\ EndsAt(table[head], Now, dst, Latest(Now, p))
    BY <1>1 DEF MixInv, Transferring
  <2>2. \A x \in Samples : \A i \in 1..Period : Of(Silence, x, i) = {}
    BY DEF Of, Silence
  <2>3. Rest(Silence, Now, dst)
    BY <1>2, <2>2 DEF Rest
  <2> QED BY <1>2, <1>3, <1>4, <2>1, <2>3, FilledPrefix
<1>6. dst + k = Period => p + k # 0
  BY <1>2, <1>4
<1>7. ASSUME NEW x \in Samples \ {Now}, NEW i \in 1..(dst + k) PROVE Of(f, x, i) = {}
  <2>1. i \in 1..Period
    BY <1>2, <1>4
  <2>2. CASE i \in (dst + 1)..(dst + k)
    <3>1. Of(Silence, x, i) = {}
      BY <2>1 DEF Of, Silence
    <3>2. Of(f, x, i) = (IF x = Now THEN {p + i - dst} ELSE {}) \cup Of(Silence, x, i)
      BY <1>2, <1>3, <1>4, <2>1, <2>2, FilledInside
    <3> QED BY <3>1, <3>2
  <2>3. CASE i \notin (dst + 1)..(dst + k)
    <3>1. i \in 1..dst
      BY <1>2, <1>4, <2>3
    <3>2. Of(table[head], x, i) = {}
      BY <1>1, <3>1 DEF MixInv, Transferring
    <3>3. f[i] = table[head][i]
      BY <2>1, <2>3 DEF Filled
    <3> QED BY <3>2, <3>3 DEF Of
  <2> QED BY <2>2, <2>3
<1> HIDE DEF f, p
<1>8. Transferring'
  BY <1>1, <1>2, <1>3, <1>5, <1>6, <1>7 DEF Transferring, f, p
<1>9. Others' /\ AllDone' /\ Passed'
  <2>1. Range(mixed)' = {}
    BY <1>1 DEF Range
  <2> QED BY <1>1, <2>1 DEF Others, AllDone, Passed, Within
<1> QED BY <1>8, <1>9 DEF MixInv

\* The others mix: what the slots held stays.
LEMMA MixMix == ASSUME ThreadInv, MixInv, Mix PROVE MixInv'
<1>1. /\ chans' = chans /\ told' = told /\ idx' = idx /\ head' = head /\ mixed' = mixed
      /\ mixed # <<>> /\ pc = "transfer" /\ pc' = pc /\ InTransfer /\ Now \in CanMix
      /\ UNCHANGED <<chans, told, pc, turn, idx, mixed>>
  BY DEF Mix, InTransfer, turn, device
<1>2. /\ Now' = Now /\ Now \in Samples /\ src[Now].pos \in Nat /\ Frames[Now] \in Nat
      /\ dst \in Nat /\ Period \in Nat /\ dst < Period /\ Now \notin Range(mixed)
  BY <1>1, NowFacts, NotAgain, RingFacts DEF Now, InTransfer, ThreadInv, Control, MixInv, Within
<1>3. PICK k \in 0..(Period - dst) :
        /\ src'[Now].pos = src[Now].pos + k /\ dst' = dst + k
        /\ src[Now].pos + k <= Frames[Now]
        /\ table'[head] = Filled(table[head], table[head], Now, src[Now].pos, dst, k)
        /\ \A x \in Samples \ {Now} : src'[x] = src[x]
  <2>1. PICK t \in Smp!AfterRead(src[Now], Period - dst) : Put(t, TRUE)
    BY DEF Mix
  <2> QED BY <1>1, <2>1, PutHolds
<1> DEFINE p == src[Now].pos
           f == Filled(table[head], table[head], Now, p, dst, k)
<1>4. k \in Nat /\ dst + k <= Period
  BY <1>2
<1>5. /\ Prefix(f, Now, dst + k) /\ EndsAt(f, Now, dst + k, Latest(Now, p + k))
      /\ Rest(f, Now, dst + k)
  <2>1. /\ Prefix(table[head], Now, dst) /\ EndsAt(table[head], Now, dst, Latest(Now, p))
        /\ Rest(table[head], Now, dst)
    BY <1>1 DEF MixInv, Transferring
  <2> QED BY <1>2, <1>3, <1>4, <2>1, FilledPrefix
<1>6. dst + k = Period => p + k # 0
  BY <1>2, <1>4
<1>7. ASSUME NEW x \in Samples \ {Now}, NEW i \in 1..Period PROVE Of(f, x, i) = Of(table[head], x, i)
  <2>1. CASE i \in (dst + 1)..(dst + k)
    <3>1. Of(f, x, i) = (IF x = Now THEN {p + i - dst} ELSE {}) \cup Of(table[head], x, i)
      BY <1>2, <1>3, <1>4, <2>1, FilledInside
    <3> QED BY <3>1
  <2>2. CASE i \notin (dst + 1)..(dst + k)
    BY <2>2, FilledOutside
  <2> QED BY <2>1, <2>2
<1> HIDE DEF f, p
<1>8. Transferring'
  BY <1>1, <1>2, <1>3, <1>5, <1>6 DEF Transferring, f, p
<1>9. Others'
  <2>1. ASSUME NEW x \in Samples \ Range(mixed), x # Now PROVE Rest(f, x, 0)
    <3>1. Rest(table[head], x, 0)
      BY <1>1, <2>1 DEF MixInv, Others, Within
    <3> QED BY <1>7, <2>1, <3>1 DEF Rest
  <2> QED BY <1>1, <1>2, <1>3, <2>1 DEF Others, f, p
<1>10. AllDone'
  <2>1. ASSUME NEW x \in Range(mixed) PROVE Done(x)'
    <3>1. x # Now /\ x \in Samples /\ Done(x)
      BY <1>1, <1>2, RangeFacts DEF MixInv, AllDone, Within, ThreadInv
    <3>2. \A i \in 1..Period : Of(table'[head'], x, i) = Of(table[head], x, i)
      BY <1>1, <1>3, <1>7, <3>1 DEF f, p
    <3> QED BY <1>1, <1>3, <3>1, <3>2, DoneKept
  <2> QED BY <1>1, <2>1 DEF AllDone
<1>11. Passed'
  BY <1>1 DEF MixInv, Passed, Within
<1> QED BY <1>8, <1>9, <1>10, <1>11 DEF MixInv

LEMMA StopAtEndMix == ASSUME ThreadInv, MixInv, StopAtEnd PROVE MixInv'
<1>1. /\ pc = "transfer" /\ Leave /\ head' = head /\ dst < Period /\ src[Now].end = TRUE
      /\ (mixed # <<>> => table' = table)
  BY DEF StopAtEnd, InTransfer, AtEnd, turn, device, SilencedRest
<1>2. /\ Now \in Samples /\ src[Now].pos = Frames[Now] /\ dst \in 0..Period
      /\ Control /\ dst \in Nat /\ Period \in Nat
  BY <1>1, NowFacts, RingFacts DEF State, ThreadInv, Control
<1>3. /\ DOMAIN chans' = DOMAIN chans /\ told' = told \ {Now}
      /\ \A i \in DOMAIN chans : chans'[i].sample = chans[i].sample
      /\ \A x \in Samples \ {Now} : src'[x] = src[x]
      /\ table'[head] = IF mixed # <<>> THEN table[head] ELSE Silenced(table[head], dst)
  BY StopAtEndHolds
<1>4. /\ Prefix(table[head], Now, dst) /\ EndsAt(table[head], Now, dst, Frames[Now])
      /\ mixed = <<>> => \A x \in Samples \ {Now} : \A i \in 1..dst : Of(table[head], x, i) = {}
      /\ mixed # <<>> => Rest(table[head], Now, dst) /\ (Now \notin CanMix => dst = 0)
  BY <1>1, <1>2 DEF MixInv, Transferring, Latest
<1>5. mixed = <<>> => \A x \in Samples : /\ \A i \in 1..dst : Of(table'[head], x, i) = Of(table[head], x, i)
                                         /\ Rest(table'[head], x, dst)
  <2> SUFFICES ASSUME mixed = <<>>, NEW x \in Samples, NEW i \in 1..Period
               PROVE  Of(table'[head], x, i) = IF i > dst THEN {} ELSE Of(table[head], x, i)
    BY <1>2 DEF Rest
  <2>1. table'[head][i] = IF i > dst THEN {} ELSE table[head][i]
    BY <1>3 DEF Silenced
  <2> QED BY <2>1 DEF Of
<1>6. mixed = <<>> => \A x \in Samples \ {Now} : Rest(table'[head], x, 0)
  BY <1>2, <1>4, <1>5 DEF Rest
<1>7. PICK s : s = Now
  OBVIOUS
<1>8. Prefix(table'[head], s, dst) /\ EndsAt(table'[head], s, dst, Frames[s]) /\ Rest(table'[head], s, dst)
  <2>1. CASE mixed = <<>>
    BY <1>2, <1>4, <1>5, <1>7, <2>1, SameRow
  <2>2. CASE mixed # <<>>
    BY <1>3, <1>4, <1>7, <2>2
  <2> QED BY <2>1, <2>2
<1>9. s \notin CanMix /\ s # mixed'[1] => dst = 0
  <2>1. mixed' = Append(mixed, s)
    BY <1>1, <1>7 DEF Leave
  <2> QED BY <1>2, <1>4, <1>7, <2>1, RangeAppend
<1>10. Done(s)'
  BY <1>1, <1>2, <1>3, <1>7, <1>8, <1>9 DEF Done
<1>11. \A x \in Samples \ {Now} : src'[x] = src[x] /\ (x \in told' <=> x \in told)
  BY <1>3
<1> QED BY <1>1, <1>3, <1>6, <1>7, <1>10, <1>11, LeaveMix

LEMMA CannotMixMix == ASSUME ThreadInv, MixInv, CannotMix PROVE MixInv'
<1>1. /\ pc = "transfer" /\ Leave /\ head' = head /\ mixed # <<>> /\ Now \notin CanMix /\ table' = table
  BY DEF CannotMix, InTransfer, turn, device
<1>2. /\ DOMAIN chans' = DOMAIN chans /\ told' = told \ {Now}
      /\ \A i \in DOMAIN chans : chans'[i].sample = chans[i].sample
      /\ \A x \in Samples \ {Now} : src'[x] = src[x]
  BY CannotMixHolds
<1>3. PICK s : s = Now
  OBVIOUS
<1>4. Rest(table[head], s, 0)
  BY <1>1, <1>3 DEF MixInv, Transferring
<1>5. /\ Prefix(table[head], s, 0) /\ EndsAt(table[head], s, 0, Frames[s])
      /\ 0 \in 0..Period
  BY RingFacts DEF Prefix, EndsAt
<1>6. Done(s)'
  BY <1>1, <1>2, <1>3, <1>4, <1>5 DEF Done
<1>7. \A x \in Samples \ {Now} : src'[x] = src[x] /\ (x \in told' <=> x \in told)
  BY <1>2
<1> QED BY <1>1, <1>2, <1>3, <1>6, <1>7, LeaveMix

\* A period that is full.
LEMMA LeaveChannelMix == ASSUME ThreadInv, MixInv, LeaveChannel PROVE MixInv'
<1>1. /\ pc = "transfer" /\ Leave /\ head' = head /\ dst = Period /\ table' = table
      /\ src' = src /\ chans' = chans /\ told' = told
  BY DEF LeaveChannel, turn, device
<1>2. PICK s : s = Now
  OBVIOUS
<1>3. /\ s \in told /\ Period \in 0..Period /\ \A i \in (Period + 1)..Period : FALSE
  BY <1>1, <1>2, NowFacts, RingFacts
<1>4. /\ Prefix(table[head], s, Period) /\ EndsAt(table[head], s, Period, src[s].pos)
      /\ mixed = <<>> => \A x \in Samples \ {Now} : \A i \in 1..Period : Of(table[head], x, i) = {}
  BY <1>1, <1>2 DEF MixInv, Transferring, Latest
<1>5. Done(s)'
  BY <1>1, <1>3, <1>4 DEF Done, Rest
<1>6. mixed = <<>> => \A x \in Samples \ {Now} : Rest(table'[head], x, 0)
  BY <1>1, <1>4, RingFacts DEF Rest
<1> QED BY <1>1, <1>2, <1>5, <1>6, LeaveMix

\* A period that no sample was transferred to is silent.
LEMMA EndChannelsMix == ASSUME ThreadInv, MixInv, EndChannels PROVE MixInv'
<1>1. /\ src' = src /\ chans' = chans /\ told' = told /\ idx' = idx /\ head' = head
      /\ mixed' = mixed /\ pc = "channel" /\ pc' = "next" /\ Control /\ Tabled
      /\ table' = IF mixed # <<>> THEN table ELSE [table EXCEPT ![head] = [i \in 1..Period |-> {}]]
  BY DEF EndChannels, turn, device, ThreadInv
<1>2. Transferring' /\ Passed'
  BY <1>1 DEF MixInv, Transferring, Passed, Within
<1>3. CASE mixed = <<>>
  <2>1. Range(mixed)' = {}
    BY <1>1, <1>3 DEF Range
  <2>2. table'[head] = [i \in 1..Period |-> {}]
    BY <1>1, <1>3 DEF Tabled, Control
  <2>3. \A x \in Samples, i \in 1..Period : Of(table'[head], x, i) = {}
    BY <2>2 DEF Of
  <2>4. \A x \in Samples : Rest(table'[head], x, 0)
    BY <2>3, RingFacts DEF Rest
  <2>5. Others' /\ AllDone'
    BY <1>1, <2>1, <2>4 DEF Others, AllDone
  <2> QED BY <1>2, <2>5 DEF MixInv
<1>4. CASE mixed # <<>>
  <2>1. table' = table
    BY <1>1, <1>4
  <2>2. Others'
    BY <1>1, <1>4, <2>1 DEF MixInv, Others, Within
  <2>3. AllDone'
    BY <1>1, <2>1 DEF MixInv, AllDone, Within, Done
  <2> QED BY <1>2, <2>2, <2>3 DEF MixInv
<1> QED BY <1>3, <1>4

\* The device goes on: what was mixed stays.
LEMMA DevicePlaysMix == ASSUME ThreadInv, MixInv, DevicePlays PROVE MixInv'
<1>1. UNCHANGED <<src, chans, told, table, pc, head, idx, mixed, dst>>
  BY DevicePlaysHolds
<1> QED BY <1>1 DEF MixInv, Transferring, Others, AllDone, Passed, Within, Done, Now

LEMMA MixStep == ASSUME ThreadInv, MixInv, Next PROVE MixInv'
<1>1. (\E s \in Samples, m \in {"playing", "looping"} : Play(s, m)) => pc = "cmds"
  BY DEF Play
<1>2. (\E s \in Samples : Stop(s)) => pc = "cmds"
  BY DEF Stop
<1>3. (Ioctl => pc = "ioctl") /\ (CommandsDone => pc = "cmds")
  BY DEF Ioctl, CommandsDone
<1> QED
  BY <1>1, <1>2, <1>3, CommandsMix, SkipChannelMix, EnterChannelMix, RewindMix, StopAtEndMix,
     ReadMix, MixMix, CannotMixMix, LeaveChannelMix, EndChannelsMix, DevicePlaysMix DEF Next, Turn

\* The number of slots a sample fills.
LEMMA FilledSlots ==
  ASSUME NEW r, NEW s, NEW d \in 0..Period, Prefix(r, s, d), Rest(r, s, d)
  PROVE  Cardinality({i \in 1..Period : Of(r, s, i) # {}}) = d
<1>1. d \in Nat /\ Period \in Nat /\ d <= Period
  BY EmbeddedAssumptions
<1>2. \A i \in 1..d : Of(r, s, i) # {}
  BY DEF Prefix
<1>3. \A i \in (d + 1)..Period : Of(r, s, i) = {}
  BY DEF Rest
<1>4. {i \in 1..Period : Of(r, s, i) # {}} = 1..d
  BY <1>1, <1>2, <1>3
<1>5. Cardinality(1..d) = d
  BY <1>1, FS_Interval
<1> QED BY <1>4, <1>5, Zenon

\* What MixExact says of a sample that was transferred, or was not.
Exact(s) ==
  LET r      == table[head]
      filled == Cardinality({i \in 1..Period : Of(r, s, i) # {}})
  IN  IF s \notin Range(mixed) THEN filled = 0
      ELSE /\ \A i \in 1..filled : Cardinality(Of(r, s, i)) = 1
           /\ \A i \in 2..filled : Of(r, s, i) = {Follows(s, p) : p \in Of(r, s, i - 1)}
           /\ IF s \in told THEN filled = Period /\ Of(r, s, Period) = {src[s].pos}
              ELSE /\ filled # 0 => Of(r, s, filled) = {Frames[s]}
                   /\ s \notin CanMix /\ s # mixed[1] => filled = 0

LEMMA DoneExact ==
  ASSUME NEW s \in Range(mixed), Done(s)
  PROVE  Exact(s)
<1> DEFINE r == table[head]
           filled == Cardinality({i \in 1..Period : Of(r, s, i) # {}})
<1>1. PICK d \in 0..Period :
        /\ Prefix(r, s, d) /\ Rest(r, s, d)
        /\ IF s \in told THEN d = Period /\ EndsAt(r, s, d, src[s].pos)
           ELSE /\ EndsAt(r, s, d, Frames[s])
                /\ s \notin CanMix /\ s # mixed[1] => d = 0
  BY DEF Done
<1>2. filled = d
  BY <1>1, FilledSlots
<1> HIDE DEF filled, r
<1>3. \A i \in 1..d : Cardinality(Of(r, s, i)) = 1
  <2> SUFFICES ASSUME NEW i \in 1..d PROVE Cardinality(Of(r, s, i)) = 1
    OBVIOUS
  <2>1. PICK p \in 1..Frames[s] : Of(r, s, i) = {p}
    BY <1>1 DEF Prefix
  <2> QED BY <2>1, FS_Singleton
<1>4. \A i \in 2..d : Of(r, s, i) = {Follows(s, p) : p \in Of(r, s, i - 1)}
  <2> SUFFICES ASSUME NEW i \in 2..d PROVE Of(r, s, i) = {Follows(s, p) : p \in Of(r, s, i - 1)}
    OBVIOUS
  <2>1. i - 1 \in 1..d
    OBVIOUS
  <2>2. PICK p \in 1..Frames[s] : Of(r, s, i - 1) = {p}
    BY <1>1, <2>1 DEF Prefix
  <2>3. Of(r, s, i) = {Follows(s, p)}
    BY <1>1, <2>2 DEF Prefix
  <2> QED BY <2>2, <2>3
<1>5. IF s \in told THEN d = Period /\ Of(r, s, Period) = {src[s].pos}
      ELSE /\ d # 0 => Of(r, s, d) = {Frames[s]}
           /\ s \notin CanMix /\ s # mixed[1] => d = 0
  BY <1>1, RingFacts DEF EndsAt
<1> QED BY <1>2, <1>3, <1>4, <1>5 DEF Exact, filled, r

\* A period that has been mixed holds of every sample that was transferred the frames
\* that follow one another up to where the sample is now, and nothing else: for any
\* number of channels and samples, any period and any ring.
THEOREM MixCorrect == Spec => []MixExact
<1>1. Init => MixInv
  BY DEF Init, MixInv, Transferring, Others, AllDone, Passed, Within
<1>2. ThreadInv /\ MixInv /\ [Next]_vars => MixInv'
  <2> SUFFICES ASSUME MixInv, UNCHANGED vars PROVE MixInv'
    BY MixStep
  <2> QED BY DEF vars, turn, device, MixInv, Transferring, Others, AllDone, Passed, Within, Done, Now
<1>3. ThreadInv /\ MixInv => MixExact
  <2> SUFFICES ASSUME ThreadInv, MixInv, pc = "next", NEW s \in Samples PROVE Exact(s)
    BY DEF MixExact, Exact, Of
  <2>1. CASE s \in Range(mixed)
    BY <2>1, DoneExact DEF MixInv, AllDone, Within
  <2>2. CASE s \notin Range(mixed)
    <3>1. Rest(table[head], s, 0)
      BY <2>2 DEF MixInv, Others
    <3>2. Prefix(table[head], s, 0) /\ 0 \in 0..Period
      BY RingFacts DEF Prefix
    <3> QED BY <2>2, <3>1, <3>2, FilledSlots DEF Exact
  <2> QED BY <2>1, <2>2
<1> QED BY <1>1, <1>2, <1>3, ThreadCorrect, PTL DEF Spec
=============================================================================
