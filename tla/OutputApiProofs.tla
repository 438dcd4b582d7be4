---------------------------- MODULE OutputApiProofs ----------------------------
(***************************************************************************)
(* The life of the output API, for any number of objects: the count of the *)
(* wrapper is the number of objects that are live or whose constructor     *)
(* threw, and one more while an object is constructed.  From it follows    *)
(* which resources are there at any time.                                  *)
(***************************************************************************)
EXTENDS OutputApi, FiniteSetTheorems, TLAPS

Thrown  == {"no_memory", "no_setup", "no_open"}
Counted == Are({"live"} \cup Thrown)
NoApi   == Are({"no_memory", "no_setup"})

\* What the first k steps of setup have made.
MadeBy(k)    == {Steps(flavour)[i] : i \in 1..k}
Whole        == live = Resources(flavour) /\ fields = Fields(flavour)
Constructing == cur \in Objects /\ objs[cur] = "new"

\* The count, and whether an object is being constructed.
CountExact ==
  /\ count = Cardinality(Counted) + (IF cur = NULL THEN 0 ELSE 1)
  /\ cur # NULL => Constructing
  /\ pc = "idle" => cur = NULL
  /\ pc \in {"setup", "bad", "create"} => cur # NULL

\* The API is being set up only for the only object there is.
SetupInv ==
  pc = "setup" =>
    /\ Counted = {} /\ api
    /\ live   = MadeBy(step - 1) \cap Resources(flavour)
    /\ fields = MadeBy(step - 1) \cap Fields(flavour)

\* What a failed setup has left for its error path ...
BadInv ==
  pc = "bad" =>
    /\ Counted = {}
    /\ "bucket" \in live => "bucket" \in fields
    /\ live \subseteq fields \cup {"channels", "orphans"}

\* ... and for shutdown, which otherwise finds everything.
ShutdownInv ==
  pc = "shutdown" =>
    /\ Counted = {}
    /\ IF cur = NULL THEN api /\ Whole
       ELSE /\ "bucket" \notin live
            /\ flavour = "embedded" => "bucket" \notin fields
            /\ live \subseteq (fields \ {"pipe", "bucket", "device"}) \cup {"channels", "orphans"}

\* An object is created by an API that is there, or its constructor throws.
CreateInv ==
  pc = "create" =>
    IF NoApi = {} THEN api /\ Whole
    ELSE ~api /\ live \subseteq {"orphans"} /\ Are({"live"}) = {}

IdleInv ==
  pc = "idle" =>
    IF NoApi # {} THEN ~api /\ live \subseteq {"orphans"} /\ Are({"live"}) = {}
    ELSE IF Counted = {} THEN ~api /\ live = {} ELSE api /\ Whole

UndefinedInv == pc = "undefined" => Counted = {}

IInv ==
  /\ TypeOK /\ CountExact /\ SetupInv /\ BadInv /\ ShutdownInv /\ CreateInv /\ IdleInv
  /\ UndefinedInv /\ FreedOnce

-----------------------------------------------------------------------------
(* What setup makes.                                                       *)

\* The steps of either flavour.
LEMMA StepsOf ==
  ASSUME NEW f \in {"alsa", "embedded"}
  PROVE  /\ Len(Steps(f)) \in Nat \ {0} /\ DOMAIN Steps(f) = 1..Len(Steps(f))
         /\ f = "alsa" => /\ Resources(f) = {"pipe", "bucket", "channels", "thread"}
                          /\ Fields(f) = {"pipe", "bucket", "thread"}
         /\ f = "embedded" =>
              /\ Resources(f) = {"pipe", "bucket", "channels", "device", "ring", "thread"}
              /\ Fields(f) = {"pipe", "bucket", "device", "ring", "thread"}
<1>1. CASE f = "alsa"
  <2>1. Steps(f) = <<"pipe", "nonblock", "bucket", "channels", "thread">>
    BY <1>1 DEF Steps
  <2>2. {Steps(f)[i] : i \in DOMAIN Steps(f)} = {"pipe", "nonblock", "bucket", "channels", "thread"}
    BY <2>1
  <2> QED BY <1>1, <2>1, <2>2 DEF Resources, Fields
<1>2. CASE f = "embedded"
  <2>1. Steps(f) = <<"pipe", "nonblock", "bucket", "channels", "device", "ring", "thread">>
    BY <1>2 DEF Steps
  <2>2. {Steps(f)[i] : i \in DOMAIN Steps(f)}
          = {"pipe", "nonblock", "bucket", "channels", "device", "ring", "thread"}
    BY <2>1
  <2> QED BY <1>2, <2>1, <2>2 DEF Resources, Fields
<1> QED BY <1>1, <1>2

\* Which objects are counted, and that there are finitely many.
LEMMA CountedFinite == IsFiniteSet(Counted) /\ Cardinality(Counted) \in Nat
                         /\ (Cardinality(Counted) = 0 <=> Counted = {})
<1>1. IsFiniteSet(Counted)
  BY FS_Subset, OutputApiAssumptions DEF Counted, Are
<1> QED BY <1>1, FS_CardinalityType, FS_EmptySet

\* An object that becomes live, or whose constructor throws, is counted from then on.
LEMMA CountedGrows ==
  ASSUME TypeOK, Constructing, NEW state \in {"live"} \cup Thrown,
         objs' = [objs EXCEPT ![cur] = state]
  PROVE  Counted' = Counted \cup {cur} /\ Cardinality(Counted') = Cardinality(Counted) + 1
<1>1. Counted' = Counted \cup {cur} /\ cur \notin Counted
  BY DEF TypeOK, Constructing, Counted, Are, Thrown
<1>2. Cardinality(Counted \cup {cur}) = Cardinality(Counted) + 1
  BY <1>1, CountedFinite, FS_AddElement
<1> QED BY <1>1, <1>2

\* One that is destroyed no longer is.
LEMMA CountedShrinks ==
  ASSUME TypeOK, NEW o \in Objects, objs[o] = "live", objs' = [objs EXCEPT ![o] = "gone"]
  PROVE  Counted' = Counted \ {o} /\ Cardinality(Counted') = Cardinality(Counted) - 1
<1>1. Counted' = Counted \ {o} /\ o \in Counted
  BY DEF TypeOK, Counted, Are, Thrown
<1>2. Cardinality(Counted \ {o}) = Cardinality(Counted) - 1
  BY <1>1, CountedFinite, FS_RemoveElement
<1> QED BY <1>1, <1>2

\* A step of setup adds what it makes.
LEMMA MadeByStep ==
  ASSUME TypeOK, NEW R
  PROVE  /\ Doing = Steps(flavour)[step]
         /\ (MadeBy(step - 1) \cap R) \cup ({Doing} \cap R) = MadeBy(step) \cap R
         /\ MadeBy(0) = {}
         /\ MadeBy(Len(Steps(flavour))) = {Steps(flavour)[i] : i \in DOMAIN Steps(flavour)}
<1>0. Len(Steps(flavour)) \in Nat \ {0} /\ DOMAIN Steps(flavour) = 1..Len(Steps(flavour))
      /\ step \in 1..Len(Steps(flavour))
  BY StepsOf, OutputApiAssumptions DEF TypeOK
<1>1. 1..step = (1..(step - 1)) \cup {step} /\ 1..0 = {}
  BY <1>0
<1>2. MadeBy(step) = MadeBy(step - 1) \cup {Doing} /\ MadeBy(0) = {}
  BY <1>1 DEF MadeBy, Doing
<1> QED BY <1>0, <1>2 DEF MadeBy, Doing

-----------------------------------------------------------------------------
(* The invariant holds.                                                    *)

\* Constructors.
LEMMA ConstructStep ==
  ASSUME IInv, NEW o \in Objects, Construct(o)
  PROVE  IInv'
<1> USE DEF Construct
<1>0. /\ TypeOK /\ cur = NULL /\ count = Cardinality(Counted) /\ NULL # o
      /\ flavour' = flavour /\ objs' = objs /\ live' = live /\ twice' = twice /\ cur' = o
      /\ Counted' = Counted /\ NoApi' = NoApi /\ Are({"live"})' = Are({"live"})
      /\ Are({"no_setup"})' = Are({"no_setup"})
  BY CountedFinite, OutputApiAssumptions DEF IInv, CountExact, TypeOK, Counted, NoApi, Are
<1>1. Len(Steps(flavour)) \in Nat \ {0}
  BY <1>0, StepsOf, OutputApiAssumptions DEF TypeOK
<1>2. TypeOK'
  <2>1. count' \in Nat /\ api' \in BOOLEAN /\ pc' \in {"setup", "create"}
    <3>1. count' \in Nat
      BY <1>0 DEF TypeOK
    <3>2. api' \in BOOLEAN
      BY <1>0, Zenon DEF TypeOK
    <3> QED BY <3>1, <3>2
  <2>2. fields' \subseteq Fields(flavour)' /\ step' \in 1..Len(Steps(flavour'))
    BY <1>0, <1>1 DEF TypeOK, Fields, Resources
  <2>3. /\ Fields(flavour)' = Fields(flavour) /\ Resources(flavour)' = Resources(flavour)
        /\ Steps(flavour)' = Steps(flavour)
    BY <1>0 DEF Fields, Resources, Steps
  <2> QED BY <1>0, <2>1, <2>2, <2>3 DEF TypeOK
<1>3. CountExact'
  BY <1>0, CountedFinite DEF CountExact, Constructing
<1>4. FreedOnce'
  BY <1>0 DEF IInv, FreedOnce
<1>5. CASE count = 0
  <2>1. Counted = {} /\ NoApi = {} /\ live = {}
    BY <1>0, <1>5, CountedFinite DEF IInv, IdleInv, Counted, NoApi, Are, Thrown
  <2>2. MadeBy(0)' = {}
    BY DEF MadeBy
  <2>3. SetupInv'
    BY <1>0, <1>5, <2>1, <2>2 DEF SetupInv
  <2> QED BY <1>2, <1>3, <1>4, <1>5, <2>3
          DEF IInv, BadInv, ShutdownInv, CreateInv, IdleInv, UndefinedInv
<1>6. CASE count # 0
  <2>1. Counted # {}
    BY <1>0, <1>6, CountedFinite
  <2>2. CreateInv'
    BY <1>0, <1>6, <2>1 DEF IInv, IdleInv, CreateInv, Whole
  <2> QED BY <1>2, <1>3, <1>4, <1>6, <2>2
          DEF IInv, BadInv, ShutdownInv, SetupInv, IdleInv, UndefinedInv
<1> QED BY <1>5, <1>6

\* A constructor ends, with the API there or not.
LEMMA BecomesStep ==
  ASSUME IInv, NEW state \in {"live"} \cup Thrown, Becomes(state), Constructing,
         pc \in {"setup", "create"},
         UNCHANGED <<flavour, count, fields, live, twice, step>>,
         state # "no_setup",
         IF NoApi = {} /\ state # "no_memory" THEN api' /\ Whole
         ELSE ~api' /\ live \subseteq {"orphans"} /\ Are({"live"}) = {} /\ state # "live",
         api' \in BOOLEAN
  PROVE  IInv'
<1> USE DEF Becomes
<1>0. TypeOK /\ cur # NULL /\ objs \in [Objects -> {"new", "live", "gone", "no_memory", "no_setup", "no_open"}]
  BY OutputApiAssumptions DEF IInv, Constructing, TypeOK
<1>1. Counted' = Counted \cup {cur} /\ Cardinality(Counted') = Cardinality(Counted) + 1
  BY <1>0, CountedGrows
<1>2. TypeOK'
  BY <1>0 DEF TypeOK, Thrown
<1>3. CountExact'
  BY <1>0, <1>1, CountedFinite DEF IInv, CountExact
<1>4. FreedOnce'
  <2>1. Are({"no_setup"})' = Are({"no_setup"})
    BY <1>0 DEF Are, Constructing, Thrown
  <2>2. pc # "undefined" /\ pc' = "idle"
    OBVIOUS
  <2> QED BY <2>1, <2>2 DEF IInv, FreedOnce
<1>5. IdleInv'
  <2>1. NoApi' = IF state = "no_memory" THEN NoApi \cup {cur} ELSE NoApi
    BY <1>0 DEF NoApi, Are, Constructing, Thrown
  <2>2. Are({"live"})' = IF state = "live" THEN Are({"live"}) \cup {cur} ELSE Are({"live"})
    BY <1>0 DEF Are, Constructing, Thrown
  <2> QED BY <1>1, <2>1, <2>2 DEF IdleInv, Whole
<1> QED BY <1>2, <1>3, <1>4, <1>5
        DEF IInv, SetupInv, BadInv, ShutdownInv, CreateInv, UndefinedInv

\* Setup, when all goes well or not.
LEMMA SetupStepStep ==
  ASSUME IInv, SetupStep
  PROVE  IInv'
<1> USE DEF SetupStep
<1>0. /\ TypeOK /\ cur # NULL /\ Counted = {} /\ api
      /\ live = MadeBy(step - 1) \cap Resources(flavour)
      /\ fields = MadeBy(step - 1) \cap Fields(flavour)
      /\ Len(Steps(flavour)) \in Nat \ {0} /\ step \in 1..Len(Steps(flavour))
      /\ Counted' = Counted /\ NoApi' = NoApi /\ NoApi = {}
      /\ Are({"no_setup"})' = Are({"no_setup"})
  BY StepsOf, OutputApiAssumptions
     DEF IInv, SetupInv, CountExact, TypeOK, Counted, NoApi, Are, Thrown
<1>1. live' = MadeBy(step) \cap Resources(flavour) /\ fields' = MadeBy(step) \cap Fields(flavour)
  <2>1. (MadeBy(step - 1) \cap Resources(flavour)) \cup ({Doing} \cap Resources(flavour))
          = MadeBy(step) \cap Resources(flavour)
    BY <1>0, MadeByStep
  <2>2. (MadeBy(step - 1) \cap Fields(flavour)) \cup ({Doing} \cap Fields(flavour))
          = MadeBy(step) \cap Fields(flavour)
    BY <1>0, MadeByStep
  <2> QED BY <1>0, <2>1, <2>2
<1>2. /\ Fields(flavour)' = Fields(flavour) /\ Resources(flavour)' = Resources(flavour)
      /\ Steps(flavour)' = Steps(flavour)
  BY DEF Fields, Resources, Steps
<1>3. TypeOK'
  <2>1. step' \in 1..Len(Steps(flavour)) /\ pc' \in {"setup", "create"}
    BY <1>0
  <2> QED BY <1>0, <1>1, <1>2, <2>1 DEF TypeOK
<1>4. CountExact' /\ FreedOnce'
  <2>1. CountExact'
    BY <1>0 DEF IInv, CountExact, Constructing
  <2>2. FreedOnce'
    BY <1>0 DEF IInv, FreedOnce
  <2> QED BY <2>1, <2>2
<1>5. CASE step = Len(Steps(flavour))
  <2>1. MadeBy(step) = {Steps(flavour)[i] : i \in DOMAIN Steps(flavour)}
    BY <1>0, <1>5, MadeByStep
  <2>2. live' = Resources(flavour) /\ fields' = Fields(flavour)
    BY <1>1, <2>1 DEF Resources, Fields
  <2>3. CreateInv'
    BY <1>0, <1>2, <2>2 DEF CreateInv, Whole
  <2> QED BY <1>3, <1>4, <1>5, <2>3
          DEF IInv, BadInv, ShutdownInv, SetupInv, IdleInv, UndefinedInv
<1>6. CASE step # Len(Steps(flavour))
  <2>1. MadeBy(step - 1)' = MadeBy(step)
    <3>1. step' - 1 = step
      BY <1>0, <1>6
    <3> QED BY <1>2, <3>1 DEF MadeBy
  <2>2. SetupInv'
    BY <1>0, <1>1, <1>2, <1>6, <2>1 DEF SetupInv
  <2> QED BY <1>3, <1>4, <1>6, <2>2
          DEF IInv, BadInv, ShutdownInv, CreateInv, IdleInv, UndefinedInv
<1> QED BY <1>5, <1>6

LEMMA SetupErrorStep ==
  ASSUME IInv, SetupFails \/ CreateFails \/ AddFails
  PROVE  IInv'
<1>0. /\ TypeOK /\ cur # NULL /\ Counted = {} /\ pc = "setup" /\ pc' \in {"bad", "undefined"}
      /\ live \subseteq Resources(flavour)
      /\ live = MadeBy(step - 1) \cap Resources(flavour)
      /\ fields = MadeBy(step - 1) \cap Fields(flavour)
      /\ UNCHANGED <<flavour, objs, count, api, fields, twice, cur, step>>
      /\ live' = live \/ live' = live \cup {"orphans"}
      /\ pc' = "undefined" => Doing = "channels"
  BY DEF IInv, SetupInv, CountExact, SetupFails, CreateFails, AddFails
<1>1. /\ Counted' = Counted /\ Are({"no_setup"})' = Are({"no_setup"}) /\ Doing' = Doing
      /\ Fields(flavour)' = Fields(flavour) /\ Resources(flavour)' = Resources(flavour)
      /\ Steps(flavour)' = Steps(flavour)
  BY <1>0 DEF Counted, Are, Fields, Resources, Steps, Doing
<1>2. TypeOK'
  BY <1>0, <1>1 DEF TypeOK
<1>3. CountExact'
  BY <1>0, <1>1 DEF IInv, CountExact, Constructing
<1>4. FreedOnce'
  BY <1>0, <1>1 DEF IInv, FreedOnce
<1>5. BadInv'
  <2>1. Resources(flavour) = Fields(flavour) \cup {"channels"} /\ "bucket" \in Fields(flavour)
    BY <1>0, StepsOf, OutputApiAssumptions DEF TypeOK
  <2>2. live \subseteq fields \cup {"channels"} /\ ("bucket" \in live => "bucket" \in fields)
    BY <1>0, <2>1
  <2> QED BY <1>0, <1>1, <2>2 DEF BadInv
<1>6. UndefinedInv'
  BY <1>0, <1>1 DEF UndefinedInv
<1> QED BY <1>0, <1>2, <1>3, <1>4, <1>5, <1>6
        DEF IInv, SetupInv, ShutdownInv, CreateInv, IdleInv

LEMMA BadPathStep ==
  ASSUME IInv, BadPath
  PROVE  IInv'
<1> USE DEF BadPath
<1>0. /\ TypeOK /\ cur # NULL /\ Counted = {}
      /\ "bucket" \in live => "bucket" \in fields
      /\ live \subseteq fields \cup {"channels", "orphans"}
      /\ Counted' = Counted /\ Are({"no_setup"})' = Are({"no_setup"}) /\ Doing' = Doing
      /\ Fields(flavour)' = Fields(flavour) /\ Resources(flavour)' = Resources(flavour)
      /\ Steps(flavour)' = Steps(flavour)
  BY DEF IInv, BadInv, CountExact, Counted, Are, Doing, Fields, Resources, Steps
<1>1. live' \subseteq live /\ fields' \subseteq fields /\ fields \ {"bucket"} \subseteq fields'
  OBVIOUS
<1>2. TypeOK'
  BY <1>0, <1>1 DEF TypeOK
<1>3. CountExact' /\ FreedOnce'
  <2>1. CountExact'
    BY <1>0 DEF IInv, CountExact, Constructing
  <2>2. FreedOnce'
    BY <1>0 DEF IInv, FreedOnce
  <2> QED BY <2>1, <2>2
<1>4. ShutdownInv'
  <2>1. "bucket" \notin live' /\ (flavour = "embedded" => "bucket" \notin fields')
    BY <1>0
  <2>2. live' \subseteq (fields' \ {"pipe", "bucket", "device"}) \cup {"channels", "orphans"}
    BY <1>0, <1>1
  <2> QED BY <1>0, <2>1, <2>2 DEF ShutdownInv
<1> QED BY <1>2, <1>3, <1>4 DEF IInv, SetupInv, BadInv, CreateInv, IdleInv, UndefinedInv

\* The ends of a constructor.
LEMMA ConstructorEnds ==
  ASSUME IInv, NoMemory \/ Create \/ CreateThrows
  PROVE  IInv'
<1>0. Constructing /\ api \in BOOLEAN
  BY DEF IInv, CountExact, TypeOK, NoMemory, Create, CreateThrows
<1>1. CASE NoMemory
  <2>1. Counted = {} /\ live = {}
    <3>1. step - 1 = 0 /\ MadeBy(0) = {}
      BY <1>1, MadeByStep DEF IInv, NoMemory
    <3> QED BY <1>1, <3>1 DEF IInv, SetupInv, NoMemory
  <2>2. Are({"live"}) = {}
    BY <2>1 DEF Counted, Are
  <2> QED BY <1>0, <1>1, <2>1, <2>2, BecomesStep DEF NoMemory, Thrown
<1>2. CASE Create
  <2>1. NoApi = {} /\ Whole
    BY <1>2 DEF IInv, CreateInv, Create
  <2> QED BY <1>0, <1>2, <2>1, BecomesStep DEF Create
<1>3. CASE CreateThrows
  <2>1. IF NoApi = {} THEN api /\ Whole
        ELSE ~api /\ live \subseteq {"orphans"} /\ Are({"live"}) = {}
    BY <1>3 DEF IInv, CreateInv, CreateThrows
  <2> QED BY <1>0, <1>3, <2>1, BecomesStep DEF CreateThrows, Thrown
<1> QED BY <1>1, <1>2, <1>3

LEMMA DestroyStep ==
  ASSUME IInv, NEW o \in Objects, Destroy(o)
  PROVE  IInv'
<1> USE DEF Destroy
<1>0. /\ TypeOK /\ cur = NULL /\ count = Cardinality(Counted) /\ NoApi = {} /\ api /\ Whole
      /\ objs \in [Objects -> {"new", "live", "gone", "no_memory", "no_setup", "no_open"}]
  <2>1. o \in Counted /\ o \in Are({"live"})
    BY DEF Counted, Are
  <2> QED BY <2>1, CountedFinite DEF IInv, IdleInv, CountExact, TypeOK
<1>1. Counted' = Counted \ {o} /\ Cardinality(Counted') = Cardinality(Counted) - 1
  BY <1>0, CountedShrinks
<1>2. count' = Cardinality(Counted') /\ count' \in Nat
  <2>1. count' = count - 1
    OBVIOUS
  <2>2. Cardinality(Counted) # 0
    BY CountedFinite DEF Counted, Are
  <2>3. Cardinality(Counted) \in Nat
    BY CountedFinite
  <2> QED BY <1>0, <1>1, <2>1, <2>2, <2>3
<1>3. TypeOK'
  <2>1. pc' \in {"shutdown", "idle"}
    OBVIOUS
  <2> QED BY <1>0, <1>2, <2>1 DEF TypeOK, Fields, Resources, Steps
<1>4. CountExact'
  BY <1>0, <1>2 DEF CountExact
<1>5. NoApi' = {} /\ Are({"no_setup"})' = Are({"no_setup"})
  BY <1>0 DEF NoApi, Are
<1>6. FreedOnce'
  BY <1>5 DEF IInv, FreedOnce
<1>7. IsFiniteSet(Counted') /\ (Cardinality(Counted') = 0 <=> Counted' = {})
  BY <1>1, CountedFinite, FS_Subset, FS_EmptySet
<1>8. Whole'
  BY <1>0 DEF Whole, Resources, Fields, Steps
<1>9. ShutdownInv'
  BY <1>0, <1>2, <1>7, <1>8 DEF ShutdownInv
<1>10. IdleInv'
  BY <1>0, <1>2, <1>5, <1>7, <1>8 DEF IdleInv
<1> QED BY <1>3, <1>4, <1>6, <1>9, <1>10
        DEF IInv, SetupInv, BadInv, CreateInv, UndefinedInv

\* Shutdown, after the last destructor.
LEMMA LastShutdown ==
  ASSUME IInv, Shutdown, cur = NULL
  PROVE  IInv'
<1> USE DEF Shutdown
<1>0. /\ TypeOK /\ Counted = {} /\ Whole /\ count = Cardinality(Counted)
      /\ flavour \in {"alsa", "embedded"} /\ count = 0
  BY CountedFinite, OutputApiAssumptions DEF IInv, TypeOK, ShutdownInv, CountExact
<1>1. Released \subseteq live /\ live \ (Released \cup {"channels"}) = {}
  <2>1. CASE flavour = "alsa"
    BY <1>0, <2>1, StepsOf DEF Whole, Released
  <2>2. CASE flavour = "embedded"
    BY <1>0, <2>2, StepsOf DEF Whole, Released
  <2> QED BY <1>0, <2>1, <2>2
<1>2. /\ twice' = twice /\ live' = {} /\ fields' = {} /\ api' = FALSE /\ pc' = "idle" /\ cur' = NULL
      /\ UNCHANGED <<flavour, objs, count, step>>
  BY <1>0, <1>1
<1>3. Counted' = Counted /\ NoApi' = {} /\ Are({"no_setup"})' = Are({"no_setup"})
  BY <1>0, <1>2 DEF Counted, NoApi, Are, Thrown
<1>4. TypeOK'
  <2>1. /\ Fields(flavour)' = Fields(flavour) /\ Resources(flavour)' = Resources(flavour)
        /\ Steps(flavour)' = Steps(flavour)
    BY <1>2 DEF Fields, Resources, Steps
  <2> QED BY <1>0, <1>2, <2>1 DEF TypeOK
<1>5. CountExact'
  BY <1>0, <1>2, <1>3 DEF CountExact
<1>6. FreedOnce'
  BY <1>2, <1>3 DEF IInv, FreedOnce
<1>7. IdleInv'
  BY <1>0, <1>2, <1>3 DEF IdleInv
<1> QED BY <1>2, <1>4, <1>5, <1>6, <1>7
        DEF IInv, SetupInv, BadInv, ShutdownInv, CreateInv, UndefinedInv

\* Shutdown, after a setup that failed: the ALSA API's ends in undefined behaviour.
LEMMA FailedShutdown ==
  ASSUME IInv, Shutdown, cur # NULL
  PROVE  IInv'
<1> USE DEF Shutdown
<1>0. /\ TypeOK /\ Counted = {} /\ Constructing /\ "bucket" \notin live
      /\ flavour = "embedded" => "bucket" \notin fields
      /\ live \subseteq (fields \ {"pipe", "bucket", "device"}) \cup {"channels", "orphans"}
      /\ flavour \in {"alsa", "embedded"}
      /\ objs \in [Objects -> {"new", "live", "gone", "no_memory", "no_setup", "no_open"}]
  BY OutputApiAssumptions DEF IInv, TypeOK, ShutdownInv, CountExact
<1>1. Released \subseteq Fields(flavour)
  <2>1. CASE flavour = "alsa"
    BY <2>1, StepsOf DEF Released
  <2>2. CASE flavour = "embedded"
    BY <1>0, <2>2 DEF Released, TypeOK
  <2> QED BY <1>0, <2>1, <2>2
<1>2. /\ Fields(flavour)' = Fields(flavour) /\ Resources(flavour)' = Resources(flavour)
      /\ Steps(flavour)' = Steps(flavour)
  BY DEF Fields, Resources, Steps
<1>3. CASE flavour = "alsa"
  <2>1. pc' = "undefined" /\ UNCHANGED <<flavour, objs, api, fields, live, cur, count, step>>
    BY <1>0, <1>3 DEF Released
  <2>2. Counted' = Counted /\ Are({"no_setup"})' = Are({"no_setup"})
    BY <2>1 DEF Counted, Are
  <2>3. TypeOK'
    BY <1>0, <1>1, <1>2, <2>1 DEF TypeOK
  <2>4. CountExact'
    BY <2>1, <2>2 DEF IInv, CountExact, Constructing
  <2>5. FreedOnce'
    BY <1>3, <2>1, <2>2 DEF IInv, FreedOnce
  <2>6. UndefinedInv'
    BY <1>0, <2>2 DEF UndefinedInv
  <2> QED BY <2>1, <2>3, <2>4, <2>5, <2>6
          DEF IInv, SetupInv, BadInv, ShutdownInv, CreateInv, IdleInv
<1>4. CASE flavour = "embedded"
  <2>1. /\ live' \subseteq {"orphans"} /\ api' = FALSE /\ fields' = {} /\ pc' = "idle" /\ cur' = NULL
        /\ objs' = [objs EXCEPT ![cur] = "no_setup"] /\ UNCHANGED <<flavour, count, step>>
        /\ twice' = twice \cup (fields \ live)
    BY <1>0, <1>4 DEF Released
  <2>2. Counted' = Counted \cup {cur} /\ Cardinality(Counted') = Cardinality(Counted) + 1
    BY <1>0, <2>1, CountedGrows DEF Thrown
  <2>3. cur \in Are({"no_setup"})' /\ cur \in NoApi'
    BY <1>0, <2>1 DEF Are, NoApi, Constructing
  <2>4. Are({"live"})' = {}
    <3>1. Are({"live"}) = {}
      BY <1>0 DEF Counted, Are
    <3> QED BY <1>0, <2>1, <3>1 DEF Are, Constructing
  <2>5. TypeOK'
    BY <1>0, <1>1, <1>2, <1>4, <2>1 DEF TypeOK, Released
  <2>6. CountExact'
    BY <2>1, <2>2, CountedFinite DEF IInv, CountExact
  <2>7. FreedOnce'
    BY <1>0, <1>4, <2>1, <2>3 DEF IInv, FreedOnce
  <2>8. IdleInv'
    BY <2>1, <2>3, <2>4 DEF IdleInv
  <2> QED BY <2>1, <2>5, <2>6, <2>7, <2>8
          DEF IInv, SetupInv, BadInv, ShutdownInv, CreateInv, UndefinedInv
<1> QED BY <1>0, <1>3, <1>4

\* The invariant holds of every state.
THEOREM OutputApiInvariant == Spec => []IInv
<1>1. Init => IInv
  <2> SUFFICES ASSUME Init PROVE IInv
    OBVIOUS
  <2>1. Counted = {} /\ NoApi = {}
    BY DEF Init, Counted, NoApi, Are, Thrown
  <2>2. flavour \in {"alsa", "embedded"} /\ Len(Steps(flavour)) \in Nat \ {0}
    BY StepsOf, OutputApiAssumptions DEF Init
  <2>3. TypeOK
    <3>1. objs \in [Objects -> {"new", "live", "gone", "no_memory", "no_setup", "no_open"}]
      BY DEF Init
    <3>2. count \in Nat /\ step \in 1..Len(Steps(flavour))
      BY <2>2 DEF Init
    <3> QED BY <3>1, <3>2 DEF Init, TypeOK
  <2>4. CountExact
    BY <2>1, FS_EmptySet DEF Init, CountExact
  <2>5. IdleInv
    BY <2>1 DEF Init, IdleInv
  <2>6. FreedOnce
    <3>1. Are({"no_setup"}) = {}
      BY DEF Init, Are
    <3> QED BY <3>1 DEF Init, FreedOnce
  <2> QED BY <2>3, <2>4, <2>5, <2>6
          DEF Init, IInv, SetupInv, BadInv, ShutdownInv, CreateInv, UndefinedInv
<1>2. IInv /\ [Next]_vars => IInv'
  <2> SUFFICES ASSUME IInv, [Next]_vars PROVE IInv'
    OBVIOUS
  <2>1. CASE UNCHANGED vars
    BY <2>1 DEF vars, IInv, TypeOK, CountExact, SetupInv, BadInv, ShutdownInv, CreateInv, IdleInv,
                UndefinedInv, FreedOnce, Counted, NoApi, Are, Whole, MadeBy, Constructing, Doing,
                Resources, Fields, Steps
  <2>2. CASE Next
    BY <2>2, ConstructStep, DestroyStep, ConstructorEnds, SetupStepStep, SetupErrorStep,
       BadPathStep, LastShutdown, FailedShutdown DEF Next
  <2> QED BY <2>1, <2>2
<1> QED BY <1>1, <1>2, PTL DEF Spec

-----------------------------------------------------------------------------
(* What follows from it.                                                   *)

\* Every variable stays in its type for any number of objects: in particular the count of
\* output_wrapper.c never falls below zero.
THEOREM OutputApiTypes == Spec => []TypeOK
<1>1. IInv => TypeOK
  BY DEF IInv
<1> QED BY <1>1, OutputApiInvariant, PTL

\* An object is live only while the whole API is.
THEOREM ApiWhileUsedCorrect == Spec => []ApiWhileUsed
<1>1. IInv => ApiWhileUsed
  <2> SUFFICES ASSUME IInv, Are({"live"}) # {} PROVE api /\ Whole
    BY DEF ApiWhileUsed, Whole
  <2>1. Counted # {}
    BY DEF Counted, Are
  <2>2. pc \in {"create", "idle"}
    BY <2>1 DEF IInv, TypeOK, SetupInv, BadInv, ShutdownInv, UndefinedInv
  <2> QED BY <2>1, <2>2 DEF IInv, CreateInv, IdleInv
<1> QED BY <1>1, OutputApiInvariant, PTL

\* Between the calls, what is there follows from what became of the objects.
THEOREM UpExactlyCorrect == Spec => []UpExactly
<1>1. IInv => UpExactly
  <2> SUFFICES ASSUME IInv, pc = "idle" PROVE UpExactly
    BY DEF UpExactly
  <2>1. CASE NoApi # {}
    BY <2>1 DEF IInv, IdleInv, UpExactly, NoApi
  <2>2. CASE NoApi = {}
    <3>1. Counted = Are({"live", "no_open"})
      BY <2>2 DEF Counted, NoApi, Are, Thrown
    <3>2. Counted = {} => count = 0
      BY CountedFinite DEF IInv, CountExact
    <3>3. IF Counted = {} THEN ~api /\ live = {} ELSE api
      BY <2>2 DEF IInv, IdleInv
    <3>4. Are({"no_memory", "no_setup"}) = {}
      BY <2>2 DEF NoApi
    <3> QED BY <3>1, <3>2, <3>3, <3>4 DEF UpExactly
  <2> QED BY <2>1, <2>2
<1> QED BY <1>1, OutputApiInvariant, PTL

\* Nothing is released twice unless setup failed.
THEOREM FreedOnceCorrect == Spec => []FreedOnce
<1>1. IInv => FreedOnce
  BY DEF IInv
<1> QED BY <1>1, OutputApiInvariant, PTL
=============================================================================
