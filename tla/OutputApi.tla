------------------------------- MODULE OutputApi -------------------------------
(***************************************************************************)
(* The life of the output API: setup and shutdown with all their error     *)
(* paths (src/src/aout/alsa/alsa_api.c and embedded/embedded_api.c), called *)
(* through rh_audio_setup_api and rh_audio_shutdown_api (src/src/rh_audio.c) *)
(* by the first constructor and the last destructor of the C++ wrapper     *)
(* (src/src/rh_audio.hpp).                                                 *)
(*                                                                         *)
(* One thread constructs and destroys the objects, as the wrapper's count  *)
(* is not protected.  Memory that is used after it was freed, or a pointer *)
(* that was never set, ends a behaviour ("undefined"): nothing can be said *)
(* of the program from then on.                                            *)
(***************************************************************************)
EXTENDS Integers, Sequences, FiniteSets

CONSTANTS
  Objects,   \* the AudioSample objects the program constructs
  Flavours,  \* the builds: "alsa", "embedded"
  NULL       \* no object

ASSUME OutputApiAssumptions ==
  /\ IsFiniteSet(Objects) /\ NULL \notin Objects
  /\ Flavours \subseteq {"alsa", "embedded"} /\ Flavours # {}

VARIABLES
  flavour,  \* the output API the library was built with
  objs,     \* objs[o]: whether o is "new", "live" or "gone", or what it threw
  count,    \* __refcount
  api,      \* api_interface is not NULL
  fields,   \* the fields of the API's instance that are not NULL, 0 or -1
  live,     \* what is allocated
  twice,    \* what was released though it was not allocated
  pc,       \* where the calling thread is
  cur,      \* the object being constructed
  step      \* the step of setup

vars == <<flavour, objs, count, api, fields, live, twice, pc, cur, step>>

\* _impl_setup, step by step.
Steps(f) ==
  IF f = "alsa" THEN <<"pipe", "nonblock", "bucket", "channels", "thread">>
  ELSE <<"pipe", "nonblock", "bucket", "channels", "device", "ring", "thread">>

Doing == Steps(flavour)[step]

\* What setup allocates, and the fields that point to it: the bucket holds the channels.
Resources(f) == {Steps(f)[i] : i \in DOMAIN Steps(f)} \ {"nonblock"}
Fields(f)    == Resources(f) \ {"channels"}

Init ==
  /\ flavour \in Flavours
  /\ objs = [o \in Objects |-> "new"] /\ count = 0
  /\ api = FALSE /\ fields = {} /\ live = {} /\ twice = {}
  /\ pc = "idle" /\ cur = NULL /\ step = 1

-----------------------------------------------------------------------------
(* A constructor.                                                          *)

\* (Mutant of Construct: an object is counted only if the API is there.)
ConstructCountsLast(o) ==
  /\ pc = "idle" /\ objs[o] = "new"
  /\ count' = IF api THEN count + 1 ELSE 1
  /\ cur' = o
  /\ IF ~api THEN pc' = "setup" /\ step' = 1 /\ api' = TRUE /\ fields' = {}
     ELSE pc' = "create" /\ UNCHANGED <<step, api, fields>>
  /\ UNCHANGED <<flavour, objs, live, twice>>

\* __addref: it counts, and the first object sets the API up.
Construct(o) ==
  /\ pc = "idle" /\ objs[o] = "new"
  /\ count' = count + 1
  /\ cur' = o
  /\ IF count = 0 THEN pc' = "setup" /\ step' = 1 /\ api' = TRUE /\ fields' = {}
     ELSE pc' = "create" /\ UNCHANGED <<step, api, fields>>
  /\ UNCHANGED <<flavour, objs, live, twice>>

Becomes(state) ==
  /\ objs' = [objs EXCEPT ![cur] = state]
  /\ cur' = NULL /\ pc' = "idle"

\* rh_aout_create_api has no memory: SetupApiException, without a shutdown.
NoMemory ==
  /\ pc = "setup" /\ step = 1
  /\ api' = FALSE
  /\ Becomes("no_memory")
  /\ UNCHANGED <<flavour, count, fields, live, twice, step>>

\* (Mutant of SetupStep: it goes on behind the last one.)
SetupRunsOver ==
  /\ pc = "setup"
  /\ live'   = live \cup ({Doing} \cap Resources(flavour))
  /\ fields' = fields \cup ({Doing} \cap Fields(flavour))
  /\ step' = step + 1
  /\ UNCHANGED <<flavour, objs, count, api, twice, pc, cur>>

\* A step of _impl_setup succeeds.
SetupStep ==
  /\ pc = "setup"
  /\ live'   = live \cup ({Doing} \cap Resources(flavour))
  /\ fields' = fields \cup ({Doing} \cap Fields(flavour))
  /\ IF step = Len(Steps(flavour)) THEN pc' = "create" /\ UNCHANGED step
     ELSE step' = step + 1 /\ UNCHANGED pc
  /\ UNCHANGED <<flavour, objs, count, api, twice, cur>>

\* It fails.  (Without memory for the ring of periods the process exits instead.)
SetupFails ==
  /\ pc = "setup" /\ Doing \notin {"channels", "ring"}
  /\ pc' = "bad"
  /\ UNCHANGED <<flavour, objs, count, api, fields, live, twice, cur, step>>

\* add_channels cannot create a channel, and calls close() of the one it has not.
CreateFails ==
  /\ pc = "setup" /\ Doing = "channels"
  /\ pc' = "undefined"
  /\ UNCHANGED <<flavour, objs, count, api, fields, live, twice, cur, step>>

\* bucket_add has no memory for the first of the three channels: it is closed, and
\* the others, which are not in the bucket yet, are lost.
AddFails ==
  /\ pc = "setup" /\ Doing = "channels"
  /\ live' = live \cup {"orphans"}
  /\ pc' = "bad"
  /\ UNCHANGED <<flavour, objs, count, api, fields, twice, cur, step>>

\* (Mutant of BadPath: nor does the embedded one clear the field of the bucket.)
BadPathKeeps ==
  /\ pc = "bad"
  /\ live' = live \ (fields \cup (IF "bucket" \in fields THEN {"channels"} ELSE {}))
  /\ fields' = fields
  /\ pc' = "shutdown"
  /\ UNCHANGED <<flavour, objs, count, api, twice, cur, step>>

\* The label bad of _impl_setup; the descriptors stay in their fields.
BadPath ==
  /\ pc = "bad"
  /\ live' = live \ ((fields \cap {"pipe", "bucket", "device"})
                      \cup (IF "bucket" \in fields THEN {"channels"} ELSE {}))
  /\ fields' = IF flavour = "embedded" THEN fields \ {"bucket"} ELSE fields
  /\ pc' = "shutdown"
  /\ UNCHANGED <<flavour, objs, count, api, twice, cur, step>>

\* What _impl_shutdown releases: the ALSA one does not look at the fields.
Released ==
  IF flavour = "alsa" THEN {"pipe", "bucket"} \cup (fields \cap {"thread"}) ELSE fields

\* _impl_shutdown, after a setup that failed or for the last destructor.
Shutdown ==
  /\ pc = "shutdown"
  /\ twice' = twice \cup (Released \ live)
  /\ IF "bucket" \in Released \ live
     THEN pc' = "undefined" /\ UNCHANGED <<objs, api, fields, live, cur>>
     ELSE /\ live' = live \ (Released \cup {"channels"})
          /\ api' = FALSE /\ fields' = {}
          /\ pc' = "idle" /\ cur' = NULL
          /\ objs' = IF cur = NULL THEN objs ELSE [objs EXCEPT ![cur] = "no_setup"]
  /\ UNCHANGED <<flavour, count, step>>

\* rh_audio_create and open() succeed, or the constructor throws OpenException.
Create ==
  /\ pc = "create" /\ api
  /\ Becomes("live")
  /\ UNCHANGED <<flavour, count, api, fields, live, twice, step>>

CreateThrows ==
  /\ pc = "create"
  /\ Becomes("no_open")
  /\ UNCHANGED <<flavour, count, api, fields, live, twice, step>>

\* (Mutant of Destroy: off by one.)
DestroyEarly(o) ==
  /\ pc = "idle" /\ objs[o] = "live"
  /\ objs' = [objs EXCEPT ![o] = "gone"]
  /\ count' = count - 1
  /\ pc' = IF count' <= 1 THEN "shutdown" ELSE "idle"
  /\ UNCHANGED <<flavour, api, fields, live, twice, cur, step>>

\* The destructor: __subref, and the last one shuts the API down.
Destroy(o) ==
  /\ pc = "idle" /\ objs[o] = "live"
  /\ objs' = [objs EXCEPT ![o] = "gone"]
  /\ count' = count - 1
  /\ pc' = IF count' = 0 THEN "shutdown" ELSE "idle"
  /\ UNCHANGED <<flavour, api, fields, live, twice, cur, step>>

Next ==
  \/ \E o \in Objects : Construct(o) \/ Destroy(o)
  \/ NoMemory \/ SetupStep \/ SetupFails \/ CreateFails \/ AddFails \/ BadPath \/ Shutdown
  \/ Create \/ CreateThrows

Spec == Init /\ [][Next]_vars

-----------------------------------------------------------------------------
(* Properties.                                                             *)

\* Every variable stays in its type.
TypeOK ==
  /\ flavour \in Flavours
  /\ objs \in [Objects -> {"new", "live", "gone", "no_memory", "no_setup", "no_open"}]
  /\ count \in Nat /\ api \in BOOLEAN
  /\ fields \subseteq Fields(flavour) /\ twice \subseteq Fields(flavour)
  /\ live \subseteq Resources(flavour) \cup {"orphans"}
  /\ pc \in {"idle", "setup", "bad", "shutdown", "create", "undefined"}
  /\ cur \in Objects \cup {NULL} /\ step \in 1..Len(Steps(flavour))

Are(states) == {o \in Objects : objs[o] \in states}

\* An object is live only while the whole API is: whoever is destroyed, and whichever
\* constructor threw before it.
ApiWhileUsed ==
  Are({"live"}) # {} => api /\ live = Resources(flavour) /\ fields = Fields(flavour)

\* Between the calls, what is there follows from what became of the objects.  A
\* constructor that throws stays counted for ever.  If it threw before the API was
\* there, no later object can be constructed, as none sets the API up; if it threw
\* after, the API outlives all objects, and is never shut down.  Otherwise it is
\* there for as long as an object is, and then nothing of it is left, but for the
\* channels that a setup without memory loses.
UpExactly ==
  pc = "idle" =>
    IF Are({"no_memory", "no_setup"}) # {}
    THEN ~api /\ live \subseteq {"orphans"} /\ Are({"live"}) = {}
    ELSE /\ api <=> Are({"live", "no_open"}) # {}
         /\ ~api => live = {} /\ count = 0

\* Nothing is released twice unless setup failed: what its error path has closed,
\* shutdown closes again.  For the ALSA API that is the bucket,
\* so that SetupApiException is thrown only for lack of memory for the API itself;
\* the embedded one closes descriptors again, and reaches freed memory only
\* where a channel could not be created.
FreedOnce ==
  /\ twice # {} => pc = "undefined" \/ Are({"no_setup"}) # {}
  /\ pc = "undefined" => flavour = "alsa" \/ Doing = "channels"
  /\ "bucket" \in twice => flavour = "alsa"
  /\ flavour = "alsa" => Are({"no_setup"}) = {}
=============================================================================
