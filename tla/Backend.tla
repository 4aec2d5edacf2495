--------------------------------- MODULE Backend -------------------------------
(***************************************************************************)
(* Which implementation a call runs.  The build script (src/build.rs)      *)
(* reads the compiler flags one by one, refuses the build or decides which *)
(* backend is compiled; the crate's dispatch sites (e.g. src/src/sample.rs)*)
(* then ask `available` (src/src/backend/*/cpu.rs), which is a constant or *)
(* a CPU probe whose answer is cached in an atomic shared by all threads.  *)
(*                                                                         *)
(* A flag is [form, cfg]: form "--cfg" takes the next flag as its value,   *)
(* "--cfg=" brings its own, "text" is any other word; cfg is [name, value].*)
(* The quotes around a value are dropped by the code and left out here.    *)
(***************************************************************************)
EXTENDS Naturals, Sequences

CONSTANTS Flags,     \* flags that occur
          MaxFlags,  \* bound on their number
          Targets,   \* [arch, features, softfloat, big_endian]
          Cpus,      \* [arch, features, reports]: usable ones; whether the OS tells
          Threads

CfgSpec(name, value) == [name |-> name, value |-> value]

ASSUME BackendAssumption ==
  /\ MaxFlags \in Nat
  /\ \A f \in Flags : f.form \in {"--cfg", "--cfg=", "text"}
  /\ \A t \in Targets : t.softfloat \in BOOLEAN /\ t.big_endian \in BOOLEAN

VARIABLES target, cpu, flags,
          at,         \* next flag
          requested,  \* the override so far, "auto" if none
          build,      \* "parsing", "refused" or "built"
          emitted,    \* the cfgs the build script emits
          cache,      \* the probe's atomic: "unknown", "yes" or "no"
          asked,      \* per thread: "idle", "probing", "yes" or "no"
          ran         \* every implementation a call has run (history)

vars == <<target, cpu, flags, at, requested, build, emitted, cache, asked, ran>>

Init ==
  /\ target \in Targets
  /\ cpu \in Cpus /\ cpu.arch = target.arch
  /\ target.features \subseteq cpu.features   \* or no program runs at all
  /\ flags \in UNION {[1..n -> Flags] : n \in 0..MaxFlags}
  /\ at = 1
  /\ requested = "auto"
  /\ build = "parsing"
  /\ emitted = {}
  /\ cache = "unknown"
  /\ asked = [t \in Threads |-> "idle"]
  /\ ran = {}
-----------------------------------------------------------------------------
\* backend_override

INTERNAL_CFGS == {"kopis_avx2", "kopis_avx2_assume", "kopis_neon", "kopis_neon_assume"}

IsInternal(c) == c.name \in INTERNAL_CFGS /\ c.value = "none"

Backends == {"serial", "avx2", "neon"}

\* A flag taken as a value is a cfg only if it does not look like an option.
AsValue(f) == IF f.form = "text" THEN f.cfg ELSE CfgSpec("other", "none")

\* The cfg that the flag at i brings, if any, and how many flags it takes up.
HasSpec(i) == flags[i].form = "--cfg=" \/ (flags[i].form = "--cfg" /\ i < Len(flags))

SpecOf(i) == IF flags[i].form = "--cfg=" THEN flags[i].cfg ELSE AsValue(flags[i + 1])

\* Mutant of Width: the value after --cfg is read again as a flag of its own.
WidthOne(i) == 1

Width(i) == IF flags[i].form = "--cfg" THEN 2 ELSE 1

\* Mutant of Refusable: internal cfgs are let through.
RefusableUnknown(c) == c.name = "kopis_backend" /\ c.value \notin Backends

Refusable(c) ==
  IsInternal(c) \/ (c.name = "kopis_backend" /\ c.value \notin Backends)

Unchanged == UNCHANGED <<target, cpu, flags, emitted, cache, asked, ran>>

Reading == build = "parsing" /\ at <= Len(flags)

\* Not a cfg, or one that is nobody's business here.
SkipFlag ==
  /\ Reading
  /\ HasSpec(at) => ~Refusable(SpecOf(at)) /\ SpecOf(at).name # "kopis_backend"
  /\ at' = at + Width(at)
  /\ UNCHANGED <<requested, build>> /\ Unchanged

\* Mutant of Requests: the first override stays.
RequestsFirst(value) == IF requested = "auto" THEN value ELSE requested

\* Later flags win.
Requests(value) == value

ReadOverride ==
  /\ Reading /\ HasSpec(at)
  /\ SpecOf(at).name = "kopis_backend" /\ SpecOf(at).value \in Backends
  /\ requested' = Requests(SpecOf(at).value)
  /\ at' = at + Width(at)
  /\ UNCHANGED build /\ Unchanged

RefuseFlag ==
  /\ Reading /\ HasSpec(at) /\ Refusable(SpecOf(at))
  /\ build' = "refused"
  /\ UNCHANGED <<at, requested>> /\ Unchanged
-----------------------------------------------------------------------------
\* main

is_x86 == target.arch \in {"x86", "x86_64"}

target_has_feature(f) == f \in target.features

neon_is_sound_on_target ==
  /\ target.arch = "aarch64" /\ target_has_feature("neon")
  /\ ~target.softfloat /\ ~target.big_endian

Possible(override) ==
  CASE override = "avx2" -> is_x86 /\ target_has_feature("avx2")
    [] override = "neon" -> neon_is_sound_on_target /\ target_has_feature("sha3")
    [] OTHER -> TRUE

Emit(override) ==
  CASE override = "serial" -> {}
    [] override = "avx2" -> {"kopis_avx2", "kopis_avx2_assume"}
    [] override = "neon" -> {"kopis_neon", "kopis_neon_assume"}
    [] override = "auto" ->
         (IF is_x86 THEN {"kopis_avx2"} ELSE {})
         \cup (IF ~is_x86 /\ neon_is_sound_on_target THEN {"kopis_neon"} ELSE {})
         \cup (IF ~is_x86 /\ neon_is_sound_on_target /\ target_has_feature("sha3")
               THEN {"kopis_neon_assume"} ELSE {})

Decide ==
  /\ build = "parsing" /\ at > Len(flags)
  /\ IF Possible(requested) THEN build' = "built" /\ emitted' = Emit(requested)
     ELSE build' = "refused" /\ UNCHANGED emitted
  /\ UNCHANGED <<target, cpu, flags, at, requested, cache, asked, ran>>
-----------------------------------------------------------------------------
\* What rustc makes of the same flags: the value of --cfg is the next flag,
\* whatever it looks like.
IsValue[i \in 0..MaxFlags] ==
  i > 1 /\ i <= Len(flags) /\ flags[i - 1].form = "--cfg" /\ ~IsValue[i - 1]

GivenAt(i) == IsValue[i] \/ flags[i].form = "--cfg="

GivenCfg(i) == IF IsValue[i] THEN AsValue(flags[i]) ELSE flags[i].cfg

Given == {GivenCfg(i) : i \in {j \in 1..Len(flags) : GivenAt(j)}}

\* The cfgs the crate is compiled with.
Compiled(name) == name \in emitted \/ CfgSpec(name, "none") \in Given
-----------------------------------------------------------------------------
\* The crate.  An implementation is the backend compiled in, if available.

VectorBackend == IF Compiled("kopis_avx2") THEN "avx2" ELSE "neon"

\* What the backend asks of the CPU beyond its target.
Needed == IF VectorBackend = "avx2" THEN "avx2" ELSE "sha3"

\* cpufeatures' detection: the instructions of x86, what the OS reports
\* elsewhere.
Detected ==
  IF Needed \in cpu.features /\ (VectorBackend = "neon" => cpu.reports) THEN "yes" ELSE "no"

\* What the build already settles, for the crate or for cpufeatures.
Assumed == Compiled(IF VectorBackend = "avx2" THEN "kopis_avx2_assume" ELSE "kopis_neon_assume")

Constant == Assumed \/ target_has_feature(Needed)

\* Mutant of Answer: while another thread is probing, the answer is no.
AnswerBusy ==
  IF Constant THEN "yes"
  ELSE IF cache # "unknown" THEN cache
  ELSE IF \E u \in Threads : asked[u] = "probing" THEN "no" ELSE "probing"

\* available(), up to a probe of the CPU.
Answer ==
  IF Constant THEN "yes" ELSE IF cache = "unknown" THEN "probing" ELSE cache

Ask(t) ==
  /\ build = "built" /\ asked[t] = "idle"
  /\ asked' = [asked EXCEPT ![t] =
                 IF Compiled("kopis_avx2") \/ Compiled("kopis_neon") THEN Answer ELSE "no"]
  /\ UNCHANGED <<target, cpu, flags, at, requested, build, emitted, cache, ran>>

\* Mutant of Detect: the answer is not stored.
DetectUncached(t) ==
  /\ asked[t] = "probing"
  /\ asked' = [asked EXCEPT ![t] = Detected]
  /\ UNCHANGED <<target, cpu, flags, at, requested, build, emitted, cache, ran>>

Detect(t) ==
  /\ asked[t] = "probing"
  /\ cache' = Detected
  /\ asked' = [asked EXCEPT ![t] = Detected]
  /\ UNCHANGED <<target, cpu, flags, at, requested, build, emitted, ran>>

Dispatch(t) ==
  /\ asked[t] \in {"yes", "no"}
  /\ ran' = ran \cup {IF asked[t] = "no" THEN "serial" ELSE VectorBackend}
  /\ asked' = [asked EXCEPT ![t] = "idle"]
  /\ UNCHANGED <<target, cpu, flags, at, requested, build, emitted, cache>>
-----------------------------------------------------------------------------
Build == SkipFlag \/ ReadOverride \/ RefuseFlag \/ Decide

Next == Build \/ \E t \in Threads : Ask(t) \/ Detect(t) \/ Dispatch(t)

Spec == Init /\ [][Next]_vars

\* A build runs to its end, and a thread inside a call goes on with it whatever
\* the others do: no step waits for another thread.  Nobody need ever call.
Fairness ==
  /\ WF_vars(Build)
  /\ \A t \in Threads : WF_vars(Detect(t)) /\ WF_vars(Dispatch(t))

FairSpec == Spec /\ Fairness
-----------------------------------------------------------------------------
\* The override rustc would see last, "auto" if there is none.
Overrides == {i \in 1..Len(flags) : GivenAt(i) /\ GivenCfg(i).name = "kopis_backend"}

LastOverride ==
  IF Overrides = {} THEN "auto"
  ELSE GivenCfg(CHOOSE i \in Overrides : \A j \in Overrides : j <= i).value

\* VectorBackend registers may be used on this target, and this CPU has what the
\* backend needs.
Sound(backend) ==
  CASE backend = "serial" -> TRUE
    [] backend = "avx2" -> "avx2" \in cpu.features
    [] backend = "neon" ->
         /\ target.arch = "aarch64" /\ ~target.softfloat /\ ~target.big_endian
         /\ {"neon", "sha3"} \subseteq cpu.features
-----------------------------------------------------------------------------
TypeOK ==
  /\ target \in Targets /\ cpu \in Cpus
  /\ cpu.arch = target.arch /\ target.features \subseteq cpu.features
  /\ flags \in Seq(Flags) /\ Len(flags) <= MaxFlags
  /\ at \in 1..(Len(flags) + 2)
  /\ requested \in {"auto"} \cup Backends
  /\ build \in {"parsing", "refused", "built"}
  /\ cache \in {"unknown", "yes", "no"}
  /\ asked \in [Threads -> {"idle", "probing", "yes", "no"}]

\* The build script is where rustc is: the flag it reads next is no other
\* flag's value, none of the cfgs given before it is one to refuse, and the last
\* override among them is the one requested.
Read ==
  /\ at <= Len(flags) => ~IsValue[at]
  /\ \A i \in 1..Len(flags) : i < at /\ GivenAt(i) => ~Refusable(GivenCfg(i))
  /\ \/ requested = "auto" /\ \A i \in Overrides : i >= at
     \/ \E i \in Overrides :
          /\ i < at /\ requested = GivenCfg(i).value
          /\ \A j \in Overrides : j < at => j <= i

Verdict ==
  /\ build = "refused" =>
       IF at <= Len(flags) THEN HasSpec(at) /\ Refusable(SpecOf(at)) ELSE ~Possible(requested)
  /\ build = "built" => at > Len(flags) /\ Possible(requested) /\ emitted = Emit(requested)
  /\ build # "built" => emitted = {} /\ ran = {} /\ cache = "unknown" /\ asked = [t \in Threads |-> "idle"]

\* The one answer there is to a call, and what it runs.
Settled ==
  IF ~(Compiled("kopis_avx2") \/ Compiled("kopis_neon")) THEN "no"
  ELSE IF Constant THEN "yes" ELSE Detected

Answered ==
  /\ cache # "unknown" => cache = Detected
  /\ \A t \in Threads : asked[t] \in {"yes", "no"} => asked[t] = Settled
  /\ \A t \in Threads :
       asked[t] = "probing" => (Compiled("kopis_avx2") \/ Compiled("kopis_neon")) /\ ~Constant
  /\ \A b \in ran : b = IF Settled = "no" THEN "serial" ELSE VectorBackend

IInv == TypeOK /\ Read /\ Verdict /\ Answered

\* No call ever runs a backend whose instructions the CPU lacks or whose
\* registers the target's ABI excludes, whatever flags the crate was built with
\* and however the threads' probes interleave (backend/avx2/mod.rs:16-19).
SoundDispatch == \A b \in ran : Sound(b)

\* All calls of a process run one and the same implementation: a key that one
\* backend has transformed is never handed to another.
OneBackend == \A a, b \in ran : a = b

\* What runs is what the head of build.rs promises: the last override, or else
\* the vector backend where CPU and target admit it, and the portable one
\* everywhere else (build.rs:8-26).
AsDocumented ==
  LET reported == target.arch # "aarch64" \/ cpu.reports \/ "sha3" \in target.features
      vector   == IF target.arch = "aarch64" THEN "neon" ELSE "avx2"
      usable   == /\ target.arch \in {"x86", "x86_64", "aarch64"}
                  /\ Sound(vector) /\ reported
                  /\ vector = "neon" => "neon" \in target.features
  IN  \A b \in ran :
        b = IF LastOverride # "auto" THEN LastOverride
            ELSE IF usable THEN vector ELSE "serial"

\* The build is refused exactly if rustc is given an internal cfg, an unknown
\* backend, or in the end an override that the target cannot run
\* (build.rs:21-26); flags that only look like those are let be.
RefusedForCause ==
  build # "parsing" =>
    (build = "refused" <=>
       \/ \E c \in Given : c.name \in INTERNAL_CFGS /\ c.value = "none"
       \/ \E c \in Given : c.name = "kopis_backend" /\ c.value \notin Backends
       \/ LastOverride = "avx2" /\ ~("avx2" \in target.features /\ is_x86)
       \/ LastOverride = "neon" /\ ~("sha3" \in target.features /\ neon_is_sound_on_target))

\* The build is decided, and from some moment on no call probes the CPU any more,
\* however often threads call and whichever of them raced for the first answer.
Settles == <>(build # "parsing") /\ <>[](\A t \in Threads : asked[t] # "probing")
=============================================================================
