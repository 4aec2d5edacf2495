------------------------------ MODULE BackendProofs ----------------------------
(***************************************************************************)
(* The build script reads the compiler flags as rustc does, and the        *)
(* dispatch sites then run one sound, documented backend: for flags of any *)
(* number, any targets and CPUs, and any number of threads that race for   *)
(* the cached CPU probe.                                                   *)
(***************************************************************************)
EXTENDS Backend, ArithmeticProofs

\* rustc's reading of the flags up to n.
Values(n) ==
  {f \in [0..n -> {0, 1}] :
     \A i \in 0..n :
       f[i] = IF i > 1 /\ i <= Len(flags) /\ flags[i - 1].form = "--cfg" /\ f[i - 1] = 0
              THEN 1 ELSE 0}

\* The recursion that tells values from flags has a solution, for any list.
LEMMA ValuesExist == \A n \in Nat : Values(n) # {}
<1> DEFINE S == {n \in Nat : Values(n) # {}}
<1>1. 0 \in S
  <2>1. [i \in 0..0 |-> 0] \in Values(0)
    BY SMT DEF Values
  <2>2. QED  BY <2>1
<1>2. ASSUME NEW n \in Nat, n \in S PROVE n + 1 \in S
  <2>1. PICK f : f \in Values(n)
    BY <1>2
  <2> DEFINE v == IF n + 1 > 1 /\ n + 1 <= Len(flags) /\ flags[n].form = "--cfg" /\ f[n] = 0
                  THEN 1 ELSE 0
             g == [i \in 0..(n + 1) |-> IF i = n + 1 THEN v ELSE f[i]]
  <2>2. f \in [0..n -> {0, 1}]
    BY <2>1 DEF Values
  <2>3. \A i \in 0..n : f[i] = IF i > 1 /\ i <= Len(flags) /\ flags[i - 1].form = "--cfg" /\ f[i - 1] = 0
              THEN 1 ELSE 0
    BY <2>1 DEF Values
  <2>4. v \in {0, 1}
    OBVIOUS
  <2>5. (n + 1) - 1 = n
    OBVIOUS
  <2> HIDE DEF v
  <2>6. g \in [0..(n + 1) -> {0, 1}]
    BY <2>2, <2>4
  <2>7. \A i \in 0..n : g[i] = f[i] /\ (i > 1 => g[i - 1] = f[i - 1])
    OBVIOUS
  <2>8. g[n + 1] = v /\ g[n] = f[n]
    OBVIOUS
  <2> HIDE DEF g
  <2>9. ASSUME NEW i \in 0..(n + 1)
        PROVE  g[i] = IF i > 1 /\ i <= Len(flags) /\ flags[i - 1].form = "--cfg" /\ g[i - 1] = 0
                      THEN 1 ELSE 0
    <3>1. CASE i = n + 1
      BY <3>1, <2>8, <2>5 DEF v
    <3>2. CASE i \in 0..n
      BY <3>2, <2>3, <2>7
    <3>3. QED  BY <3>1, <3>2
  <2>10. g \in Values(n + 1)
    BY <2>6, <2>9 DEF Values
  <2>11. QED  BY <2>10
<1> HIDE DEF S
<1>3. Nat \subseteq S
  BY <1>1, <1>2, SetInduction
<1>4. QED  BY <1>3 DEF S

\* A flag is a value exactly if the flag before it takes one and is none itself.
LEMMA IsValueIs ==
  \A i \in 0..MaxFlags :
    IsValue[i] <=> i > 1 /\ i <= Len(flags) /\ flags[i - 1].form = "--cfg" /\ ~IsValue[i - 1]
<1>1. PICK f : f \in Values(MaxFlags)
  BY ValuesExist, BackendAssumption
<1> DEFINE h == [i \in 0..MaxFlags |-> f[i] = 1]
<1>2. \A i \in 0..MaxFlags : i > 1 => i - 1 \in 0..MaxFlags
  BY BackendAssumption
<1>3. \A i \in 0..MaxFlags :
        f[i] = 1 <=> i > 1 /\ i <= Len(flags) /\ flags[i - 1].form = "--cfg" /\ f[i - 1] = 0
  BY <1>1, BackendAssumption DEF Values
<1>4. \A i \in 0..MaxFlags : f[i] = 0 <=> ~(f[i] = 1)
  BY <1>1, BackendAssumption DEF Values
<1>5. \A i \in 0..MaxFlags : h[i] <=> f[i] = 1
  BY Zenon
<1>6. \A i \in 0..MaxFlags : i > 1 => (f[i - 1] = 0 <=> ~ h[i - 1])
  BY <1>2, <1>4, <1>5, Zenon
<1> HIDE DEF h
<1>7. \A i \in 0..MaxFlags :
        h[i] <=> i > 1 /\ i <= Len(flags) /\ flags[i - 1].form = "--cfg" /\ ~ h[i - 1]
  BY <1>3, <1>5, <1>6, Zenon
<1> USE DEF h
<1>8. h = [i \in 0..MaxFlags |-> i > 1 /\ i <= Len(flags) /\ flags[i - 1].form = "--cfg" /\ ~ h[i - 1]]
  BY <1>7, Zenon
<1> HIDE DEF h
<1>9. IsValue = [i \in 0..MaxFlags |-> i > 1 /\ i <= Len(flags) /\ flags[i - 1].form = "--cfg" /\ ~ IsValue[i - 1]]
  BY <1>8, Zenon DEF IsValue
<1>10. QED  BY <1>9, Zenon

-----------------------------------------------------------------------------
\* What rustc is given does not change while the flags do not.
LEMMA FlagsSame ==
  ASSUME UNCHANGED flags
  PROVE  IsValue' = IsValue /\ Overrides' = Overrides /\ Given' = Given
<1>1. IsValue' = IsValue
  BY Zenon DEF IsValue
<1>2. QED
  BY <1>1, Zenon DEF Overrides, Given, GivenAt, GivenCfg

\* Nor does the answer of a call, while what was compiled in does not.
LEMMA AnswersSame ==
  ASSUME UNCHANGED <<target, cpu, flags, emitted>>
  PROVE  /\ (Compiled("kopis_avx2") \/ Compiled("kopis_neon"))'
              <=> (Compiled("kopis_avx2") \/ Compiled("kopis_neon"))
         /\ VectorBackend' = VectorBackend /\ Needed' = Needed
         /\ Constant' <=> Constant
         /\ Detected' = Detected
         /\ Settled' = Settled
<1>1. Given' = Given
  BY FlagsSame
<1>2. \A n : Compiled(n)' <=> Compiled(n)
  BY <1>1, Zenon DEF Compiled
<1>3. VectorBackend' = VectorBackend /\ Needed' = Needed
  BY <1>2, Zenon DEF VectorBackend, Needed
<1>4. Constant' <=> Constant
  BY <1>2, <1>3, Zenon DEF Constant, Assumed, target_has_feature
<1>5. Detected' = Detected
  BY <1>3, Zenon DEF Detected
<1>6. QED
  BY <1>2, <1>3, <1>4, <1>5, Zenon DEF Settled

\* What a flag is to rustc is settled by the flag before it.
LEMMA Neighbours ==
  ASSUME TypeOK, NEW i \in 1..Len(flags)
  PROVE  /\ flags[i].form \in {"--cfg", "--cfg=", "text"}
         /\ i > 1 => (IsValue[i] <=> flags[i - 1].form = "--cfg" /\ ~IsValue[i - 1])
         /\ i = 1 => ~IsValue[i]
<1>1. flags[i] \in Flags
  BY DEF TypeOK
<1>2. i \in 0..MaxFlags /\ i <= Len(flags)
  BY BackendAssumption DEF TypeOK
<1>3. IsValue[i] <=> i > 1 /\ flags[i - 1].form = "--cfg" /\ ~IsValue[i - 1]
  BY <1>2, IsValueIs
<1>4. i = 1 => ~(i > 1)
  OBVIOUS
<1>5. QED  BY <1>1, <1>3, <1>4, BackendAssumption, Zenon

\* The flags that one step of the build script passes: at most one of them gives
\* a cfg to rustc, and it is the one the script looks at.
Passed == {i \in 1..Len(flags) : at <= i /\ i < at + Width(at) /\ GivenAt(i)}

\* That cfg is what the script makes of the flag and the one after it.
LEMMA PassedCfg ==
  ASSUME TypeOK, Read, at <= Len(flags)
  PROVE  /\ at + Width(at) \in (at + 1)..(Len(flags) + 2)
         /\ at + Width(at) <= Len(flags) => ~IsValue[at + Width(at)]
         /\ HasSpec(at) => \E i \in Passed : Passed = {i} /\ GivenCfg(i) = SpecOf(at)
         /\ ~HasSpec(at) => Passed = {}
<1>1. at \in 1..Len(flags) /\ at \in Nat /\ Len(flags) \in Nat
  BY DEF TypeOK
<1>2. ~IsValue[at]
  BY <1>1 DEF Read
<1>3. flags[at].form \in {"--cfg", "--cfg=", "text"}
  BY <1>1, Neighbours
<1>4. at + 1 <= Len(flags) => (IsValue[at + 1] <=> flags[at].form = "--cfg")
  <2>1. ASSUME at + 1 <= Len(flags) PROVE at + 1 \in 1..Len(flags) /\ at + 1 > 1 /\ (at + 1) - 1 = at
    BY <1>1, <2>1
  <2>2. ASSUME at + 1 <= Len(flags)
        PROVE IsValue[at + 1] <=> flags[(at + 1) - 1].form = "--cfg" /\ ~IsValue[(at + 1) - 1]
    BY <2>1, <2>2, Neighbours
  <2>3. QED  BY <2>1, <2>2, <1>2, Zenon
<1>5. at + 2 <= Len(flags) => (IsValue[at + 2] <=> flags[at + 1].form = "--cfg" /\ ~IsValue[at + 1])
  <2>1. ASSUME at + 2 <= Len(flags) PROVE at + 2 \in 1..Len(flags) /\ at + 2 > 1 /\ (at + 2) - 1 = at + 1
    BY <1>1, <2>1
  <2>2. ASSUME at + 2 <= Len(flags)
        PROVE IsValue[at + 2] <=> flags[(at + 2) - 1].form = "--cfg" /\ ~IsValue[(at + 2) - 1]
    BY <2>1, <2>2, Neighbours
  <2>3. QED  BY <2>1, <2>2, Zenon
<1>6. CASE flags[at].form = "--cfg"
  <2>1. Width(at) = 2 /\ ~GivenAt(at) /\ (HasSpec(at) <=> at < Len(flags))
    BY <1>2, <1>6, Zenon DEF Width, GivenAt, HasSpec
  <2>2. at < Len(flags) => GivenAt(at + 1) /\ GivenCfg(at + 1) = SpecOf(at)
    <3>1. at < Len(flags) => at + 1 <= Len(flags)
      BY <1>1
    <3>2. QED  BY <3>1, <1>4, <1>6, Zenon DEF GivenAt, GivenCfg, SpecOf
  <2>3. at + 2 <= Len(flags) => ~IsValue[at + 2]
    <3>1. at + 2 <= Len(flags) => at + 1 <= Len(flags)
      BY <1>1
    <3>2. QED  BY <3>1, <1>4, <1>5, <1>6, Zenon
  <2>4. \A i \in Passed : i = at + 1 /\ at < Len(flags)
    BY <1>1, <2>1 DEF Passed
  <2>5. at < Len(flags) => at + 1 \in Passed
    BY <1>1, <2>1, <2>2 DEF Passed
  <2>6. QED  BY <1>1, <2>1, <2>2, <2>3, <2>4, <2>5
<1>7. CASE flags[at].form = "--cfg="
  <2>1. Width(at) = 1 /\ GivenAt(at) /\ HasSpec(at) /\ GivenCfg(at) = SpecOf(at)
    BY <1>2, <1>7, Zenon DEF Width, GivenAt, HasSpec, GivenCfg, SpecOf
  <2>2. at + 1 <= Len(flags) => ~IsValue[at + 1]
    BY <1>4, <1>7
  <2>3. \A i \in Passed : i = at
    BY <1>1, <2>1 DEF Passed
  <2>4. at \in Passed
    BY <1>1, <2>1 DEF Passed
  <2>5. Passed = {at}
    BY <2>3, <2>4
  <2>6. \E i \in Passed : Passed = {i} /\ GivenCfg(i) = SpecOf(at)
    BY <2>1, <2>4, <2>5, Zenon
  <2>7. at + Width(at) \in (at + 1)..(Len(flags) + 2) /\ (at + Width(at) <= Len(flags) => ~IsValue[at + Width(at)])
    BY <1>1, <2>1, <2>2
  <2>8. QED  BY <2>1, <2>6, <2>7, Zenon
<1>8. CASE flags[at].form = "text"
  <2>1. Width(at) = 1 /\ ~GivenAt(at) /\ ~HasSpec(at)
    BY <1>2, <1>8, Zenon DEF Width, GivenAt, HasSpec
  <2>2. at + 1 <= Len(flags) => ~IsValue[at + 1]
    BY <1>4, <1>8
  <2>3. Passed = {}
    BY <1>1, <2>1 DEF Passed
  <2>4. QED  BY <1>1, <2>1, <2>2, <2>3
<1>9. QED  BY <1>3, <1>6, <1>7, <1>8, Zenon

\* A step of the script keeps it where rustc is.
LEMMA PassInv ==
  ASSUME TypeOK, Read, Reading, UNCHANGED flags, at' = at + Width(at),
         HasSpec(at) => ~Refusable(SpecOf(at)),
         requested' = IF HasSpec(at) /\ SpecOf(at).name = "kopis_backend"
                      THEN SpecOf(at).value ELSE requested
  PROVE  Read'
<1>1. IsValue' = IsValue /\ Overrides' = Overrides /\ at <= Len(flags)
  BY FlagsSame DEF Reading
<1>2. \A i : (GivenAt(i)' <=> GivenAt(i)) /\ GivenCfg(i)' = GivenCfg(i)
  BY <1>1, Zenon DEF GivenAt, GivenCfg
<1>3. at \in Nat /\ at' \in Nat /\ at' > at /\ Len(flags) \in Nat
  BY <1>1, PassedCfg DEF TypeOK
<1>4. at' <= Len(flags) => ~IsValue[at']
  BY <1>1, PassedCfg
<1>5. \A i \in 1..Len(flags) : i < at' /\ GivenAt(i) => i < at \/ i \in Passed
  BY <1>3 DEF Passed
<1>6. \A i \in Passed : HasSpec(at) /\ GivenCfg(i) = SpecOf(at)
  BY <1>1, PassedCfg, Zenon
<1>7. \A i \in 1..Len(flags) : i < at' /\ GivenAt(i) => ~Refusable(GivenCfg(i))
  BY <1>5, <1>6, Zenon DEF Read
<1>8. \/ requested' = "auto" /\ \A i \in Overrides : i >= at'
      \/ \E i \in Overrides :
           /\ i < at' /\ requested' = GivenCfg(i).value
           /\ \A j \in Overrides : j < at' => j <= i
  <2>1. \A i \in Overrides : i \in 1..Len(flags) /\ i \in Nat /\ GivenAt(i) /\ GivenCfg(i).name = "kopis_backend"
    BY DEF Overrides
  <2>2. CASE HasSpec(at) /\ SpecOf(at).name = "kopis_backend"
    <3>1. PICK i \in Passed : Passed = {i} /\ GivenCfg(i) = SpecOf(at)
      BY <1>1, <2>2, PassedCfg, Zenon
    <3>2. i \in Overrides /\ requested' = GivenCfg(i).value
      BY <3>1, <2>2, Zenon DEF Passed, Overrides
    <3>3. i \in Nat /\ i >= at /\ i < at'
      BY <3>1, <1>3 DEF Passed
    <3>4. \A j \in Overrides : j < at' => j < at \/ j = i
      BY <1>5, <2>1, <3>1, Zenon
    <3>5. \A j \in Overrides : j < at' => j <= i
      BY <3>3, <3>4, <1>3, <2>1
    <3>6. QED  BY <3>2, <3>3, <3>5
  <2>3. CASE ~(HasSpec(at) /\ SpecOf(at).name = "kopis_backend")
    <3>1. requested' = requested
      BY <2>3
    <3>2. \A i \in Overrides : i < at' => i < at
      BY <1>5, <1>6, <2>1, <2>3, Zenon
    <3>3. \A i \in Overrides : i < at => i < at'
      BY <1>3, <2>1
    <3>4. \A i \in Overrides : i >= at => i >= at'
      BY <3>2, <1>3, <2>1
    <3>5. QED  BY <3>1, <3>2, <3>3, <3>4, Zenon DEF Read
  <2>4. QED  BY <2>2, <2>3, Zenon
<1>9. QED
  BY <1>1, <1>2, <1>4, <1>7, <1>8, Zenon DEF Read, IsInternal, Refusable, Backends, INTERNAL_CFGS
-----------------------------------------------------------------------------
\* Before the first flag nothing has been read, decided or asked.
LEMMA InitInv == Init => IInv
<1> SUFFICES ASSUME Init PROVE IInv
  OBVIOUS
<1>1. flags \in Seq(Flags) /\ Len(flags) <= MaxFlags
  <2>1. PICK n \in 0..MaxFlags : flags \in [1..n -> Flags]
    BY DEF Init
  <2>2. n \in Nat /\ n <= MaxFlags
    BY BackendAssumption
  <2>3. QED  BY <2>1, <2>2
<1>2. TypeOK
  BY <1>1 DEF Init, TypeOK
<1>3. at = 1 /\ requested = "auto"
  BY DEF Init
<1>4. Read
  <2>1. at <= Len(flags) => ~IsValue[at]
    BY <1>1, <1>2, <1>3, Neighbours
  <2>2. QED  BY <2>1, <1>1, <1>3 DEF Read, Overrides
<1>5. Verdict
  BY Zenon DEF Verdict, Init
<1>6. Answered
  BY SMT DEF Answered, Init
<1>7. QED  BY <1>2, <1>4, <1>5, <1>6 DEF IInv

\* Every step of the build script keeps the invariant.
LEMMA BuildStep ==
  ASSUME IInv, Build
  PROVE  IInv'
<1>1. TypeOK /\ Read /\ Verdict
  BY DEF IInv
<1>2. build = "parsing" /\ UNCHANGED <<target, cpu, flags, cache, asked, ran>>
  BY Zenon DEF Build, SkipFlag, ReadOverride, RefuseFlag, Decide, Reading, Unchanged
<1>3. emitted = {} /\ ran = {} /\ cache = "unknown" /\ asked = [t \in Threads |-> "idle"]
  BY <1>1, <1>2, Zenon DEF Verdict
<1>4. Answered'
  <2>1. cache' = "unknown" /\ ran' = {} /\ asked' = [t \in Threads |-> "idle"]
    BY <1>2, <1>3, Zenon
  <2>2. QED  BY <2>1, SMT DEF Answered
<1>5. CASE SkipFlag
  <2>1. Reading /\ at' = at + Width(at) /\ UNCHANGED <<build, requested, emitted>>
    BY <1>5, Zenon DEF SkipFlag, Unchanged
  <2>2. at + Width(at) \in (at + 1)..(Len(flags) + 2)
    BY <1>1, <2>1, PassedCfg DEF Reading
  <2>3. TypeOK'
    BY <1>1, <1>2, <2>1, <2>2 DEF TypeOK
  <2>4. Read'
    BY <1>1, <1>2, <1>5, <2>1, PassInv, Zenon DEF SkipFlag
  <2>5. Verdict'
    BY <1>2, <1>3, <2>1, Zenon DEF Verdict
  <2>6. QED  BY <1>4, <2>3, <2>4, <2>5 DEF IInv
<1>6. CASE ReadOverride
  <2>1. Reading /\ at' = at + Width(at) /\ requested' = SpecOf(at).value /\ UNCHANGED <<build, emitted>>
    BY <1>6, Zenon DEF ReadOverride, Requests, Unchanged
  <2>2. at + Width(at) \in (at + 1)..(Len(flags) + 2)
    BY <1>1, <2>1, PassedCfg DEF Reading
  <2>3. requested' \in Backends
    BY <1>6, <2>1, Zenon DEF ReadOverride
  <2>4. TypeOK'
    BY <1>1, <1>2, <2>1, <2>2, <2>3 DEF TypeOK
  <2>5. SpecOf(at).name # "kopis_avx2" /\ SpecOf(at).name # "kopis_avx2_assume"
        /\ SpecOf(at).name # "kopis_neon" /\ SpecOf(at).name # "kopis_neon_assume"
    BY <1>6 DEF ReadOverride
  <2>6. ~Refusable(SpecOf(at))
    BY <1>6, <2>5, Zenon DEF ReadOverride, Refusable, IsInternal, INTERNAL_CFGS
  <2>7. Read'
    BY <1>1, <1>2, <1>6, <2>1, <2>6, PassInv, Zenon DEF ReadOverride
  <2>8. Verdict'
    BY <1>2, <1>3, <2>1, Zenon DEF Verdict
  <2>9. QED  BY <1>4, <2>4, <2>7, <2>8 DEF IInv
<1>7. ASSUME UNCHANGED <<at, requested>> PROVE Read'
  <2>1. IsValue' = IsValue /\ Overrides' = Overrides
    BY <1>2, FlagsSame
  <2>2. QED
    BY <1>1, <1>2, <1>7, <2>1, Zenon DEF Read, GivenAt, GivenCfg
<1>8. CASE RefuseFlag
  <2>1. build' = "refused" /\ UNCHANGED <<at, requested, emitted>>
    BY <1>8, Zenon DEF RefuseFlag, Unchanged
  <2>2. TypeOK'
    BY <1>1, <1>2, <2>1, Zenon DEF TypeOK
  <2>3. Verdict'
    BY <1>2, <1>3, <1>8, <2>1, Zenon
    DEF Verdict, RefuseFlag, Reading, HasSpec, SpecOf
  <2>4. QED  BY <1>4, <1>7, <2>1, <2>2, <2>3 DEF IInv
<1>9. CASE Decide
  <2>1. at > Len(flags) /\ UNCHANGED <<at, requested>>
        /\ \/ Possible(requested) /\ build' = "built" /\ emitted' = Emit(requested)
           \/ ~Possible(requested) /\ build' = "refused" /\ UNCHANGED emitted
    BY <1>9, Zenon DEF Decide
  <2>2. TypeOK'
    BY <1>1, <1>2, <2>1, Zenon DEF TypeOK
  <2>3. ~(at <= Len(flags))
    BY <1>1, <2>1 DEF TypeOK
  <2>4. Possible(requested)' <=> Possible(requested)
    BY <1>2, <2>1, Zenon DEF Possible, is_x86, target_has_feature, neon_is_sound_on_target
  <2>5. Emit(requested)' = Emit(requested)
    BY <1>2, <2>1, Zenon DEF Emit, is_x86, target_has_feature, neon_is_sound_on_target
  <2>6. Verdict'
    BY <1>2, <1>3, <2>1, <2>3, <2>4, <2>5, Zenon DEF Verdict
  <2>7. QED  BY <1>4, <1>7, <2>1, <2>2, <2>6 DEF IInv
<1>10. QED  BY <1>5, <1>6, <1>8, <1>9, Zenon DEF Build

\* What a call, or no step at all, leaves alone.
LEMMA BuildKept ==
  ASSUME IInv, UNCHANGED <<target, cpu, flags, at, requested, build, emitted>>
  PROVE  /\ Read'
         /\ build = "built" => Verdict'
<1>1. IsValue' = IsValue /\ Overrides' = Overrides
  BY FlagsSame
<1>2. Read'
  BY <1>1, Zenon DEF IInv, Read, GivenAt, GivenCfg
<1>3. Possible(requested)' <=> Possible(requested)
  BY Zenon DEF Possible, is_x86, target_has_feature, neon_is_sound_on_target
<1>4. Emit(requested)' = Emit(requested)
  BY Zenon DEF Emit, is_x86, target_has_feature, neon_is_sound_on_target
<1>5. ASSUME build = "built" PROVE Verdict'
  <2>1. build' = "built" /\ build' # "refused"
    BY <1>5
  <2>2. QED  BY <2>1, <1>3, <1>4, <1>5, Zenon DEF IInv, Verdict
<1>6. QED  BY <1>2, <1>5

\* Only a finished build is called.
LEMMA Asking ==
  ASSUME IInv, NEW t \in Threads, asked[t] # "idle"
  PROVE  build = "built"
<1>1. build # "built" => asked = [u \in Threads |-> "idle"]
  BY Zenon DEF IInv, Verdict
<1>2. QED  BY <1>1

\* Every step of a call keeps the invariant: all threads settle on one answer.
LEMMA CallStep ==
  ASSUME IInv, NEW t \in Threads, Ask(t) \/ Detect(t) \/ Dispatch(t)
  PROVE  IInv'
<1>1. TypeOK /\ Answered
  BY DEF IInv
<1>2. UNCHANGED <<target, cpu, flags, at, requested, build, emitted>>
  BY Zenon DEF Ask, Detect, Dispatch
<1>3. build = "built"
  BY Asking, Zenon DEF Ask, Detect, Dispatch
<1>4. Read' /\ Verdict'
  BY <1>2, <1>3, BuildKept
<1> DEFINE In == Compiled("kopis_avx2") \/ Compiled("kopis_neon")
<1>5. /\ In' <=> In
      /\ VectorBackend' = VectorBackend
      /\ Constant' <=> Constant
      /\ Detected' = Detected /\ Settled' = Settled
  BY <1>2, AnswersSame
<1>6. Detected \in {"yes", "no"}
  BY DEF Detected
<1>7. Settled = IF ~In THEN "no" ELSE IF Constant THEN "yes" ELSE Detected
  BY Zenon DEF Settled
<1> HIDE DEF In
<1>8. /\ cache # "unknown" => cache = Detected
      /\ \A u \in Threads : asked[u] \in {"yes", "no"} => asked[u] = Settled
      /\ \A u \in Threads : asked[u] = "probing" => In /\ ~Constant
      /\ \A b \in ran : b = IF Settled = "no" THEN "serial" ELSE VectorBackend
  BY <1>1, Zenon DEF Answered, In
<1>9. SUFFICES ASSUME TRUE
      PROVE /\ TypeOK'
            /\ cache' # "unknown" => cache' = Detected
            /\ \A u \in Threads : asked'[u] \in {"yes", "no"} => asked'[u] = Settled
            /\ \A u \in Threads : asked'[u] = "probing" => In /\ ~Constant
            /\ \A b \in ran' : b = IF Settled = "no" THEN "serial" ELSE VectorBackend
  <2>1. Answered'
    BY <1>5, <1>9, Zenon DEF Answered, In
  <2>2. QED  BY <1>4, <1>9, <2>1 DEF IInv
<1>10. ASSUME NEW v \in {"idle", "probing", "yes", "no"}, asked' = [asked EXCEPT ![t] = v]
       PROVE  /\ asked' \in [Threads -> {"idle", "probing", "yes", "no"}]
              /\ \A u \in Threads : asked'[u] = IF u = t THEN v ELSE asked[u]
  BY <1>1, <1>10 DEF TypeOK
<1>11. CASE Ask(t)
  <2> DEFINE v == IF In THEN Answer ELSE "no"
  <2>1. asked' = [asked EXCEPT ![t] = v] /\ UNCHANGED <<cache, ran>>
    BY <1>11, Zenon DEF Ask, In
  <2>2. v \in {"idle", "probing", "yes", "no"}
    BY <1>1 DEF Answer, TypeOK
  <2>3. v \in {"yes", "no"} => v = Settled
    BY <1>7, <1>8, Zenon DEF Answer
  <2>4. v = "probing" => In /\ ~Constant
    BY <1>6, <1>8 DEF Answer
  <2> HIDE DEF v
  <2>5. TypeOK'
    BY <1>1, <1>2, <1>10, <2>1, <2>2, Zenon DEF TypeOK
  <2>6. QED  BY <1>8, <1>10, <2>1, <2>2, <2>3, <2>4, <2>5, Zenon
<1>12. CASE Detect(t)
  <2>1. asked' = [asked EXCEPT ![t] = Detected] /\ cache' = Detected /\ UNCHANGED ran /\ asked[t] = "probing"
    BY <1>12, Zenon DEF Detect
  <2>2. Detected \in {"idle", "probing", "yes", "no"} /\ Detected \in {"unknown", "yes", "no"}
        /\ Detected # "probing"
    BY <1>6
  <2>3. Detected = Settled
    BY <1>7, <1>8, <2>1, Zenon
  <2>4. TypeOK'
    BY <1>1, <1>2, <1>10, <2>1, <2>2, Zenon DEF TypeOK
  <2>5. QED  BY <1>8, <1>10, <2>1, <2>2, <2>3, <2>4, Zenon
<1>13. CASE Dispatch(t)
  <2> DEFINE w == IF asked[t] = "no" THEN "serial" ELSE VectorBackend
  <2>1. /\ asked[t] \in {"yes", "no"} /\ UNCHANGED cache
        /\ ran' = ran \cup {w}
        /\ asked' = [asked EXCEPT ![t] = "idle"]
    BY <1>13, Zenon DEF Dispatch
  <2>2. w = IF Settled = "no" THEN "serial" ELSE VectorBackend
    BY <1>8, <2>1, Zenon
  <2> HIDE DEF w
  <2>3. "idle" \in {"idle", "probing", "yes", "no"} /\ "idle" # "probing" /\ "idle" \notin {"yes", "no"}
    OBVIOUS
  <2>4. TypeOK'
    BY <1>1, <1>2, <1>10, <2>1, <2>3, Zenon DEF TypeOK
  <2>5. \A b \in ran' : b = IF Settled = "no" THEN "serial" ELSE VectorBackend
    BY <1>8, <2>1, <2>2, Zenon
  <2>6. QED  BY <1>8, <1>10, <2>1, <2>3, <2>4, <2>5, Zenon
<1>14. QED  BY <1>11, <1>12, <1>13, Zenon

\* Every step keeps the invariant.
LEMMA StepInv == IInv /\ [Next]_vars => IInv'
<1> SUFFICES ASSUME IInv, [Next]_vars PROVE IInv'
  OBVIOUS
<1>1. CASE Build
  BY <1>1, BuildStep
<1>2. CASE \E t \in Threads : Ask(t) \/ Detect(t) \/ Dispatch(t)
  BY <1>2, CallStep
<1>3. CASE UNCHANGED vars
  <2>1. UNCHANGED <<target, cpu, flags, at, requested, build, emitted, cache, asked, ran>>
    BY <1>3, Zenon DEF vars
  <2>2. Read'
    BY <2>1, BuildKept
  <2>3. Verdict'
    <3>1. CASE build = "built"
      BY <2>1, <3>1, BuildKept
    <3>2. CASE build # "built"
      <4>1. Possible(requested)' <=> Possible(requested)
        BY <2>1, Zenon DEF Possible, is_x86, target_has_feature, neon_is_sound_on_target
      <4>2. QED
        BY <2>1, <3>2, <4>1, Zenon DEF IInv, Verdict, HasSpec, SpecOf
    <3>3. QED  BY <3>1, <3>2
  <2>4. TypeOK'
    BY <2>1, Zenon DEF IInv, TypeOK
  <2>5. Answered'
    BY <2>1, AnswersSame, Zenon DEF IInv, Answered
  <2>6. QED  BY <2>2, <2>3, <2>4, <2>5 DEF IInv
<1>4. QED  BY <1>1, <1>2, <1>3, Zenon DEF Next

\* The build script reads the flags as rustc does, and every call comes to the
\* one settled answer, whatever the flags, targets, CPUs and threads.
THEOREM Invariance == Spec => []IInv
  BY InitInv, StepInv, PTL DEF Spec
-----------------------------------------------------------------------------
\* What has been read up to the end is what rustc is given.
LEMMA LastRead ==
  ASSUME IInv, at > Len(flags)
  PROVE  LastOverride = requested
<1>1. at \in Nat /\ Len(flags) \in Nat
  BY DEF IInv, TypeOK
<1>2. \A i \in Overrides : i \in Nat /\ i < at /\ ~(i >= at)
  BY <1>1 DEF Overrides
<1>3. CASE requested = "auto" /\ \A i \in Overrides : i >= at
  BY <1>2, <1>3, Zenon DEF LastOverride
<1>4. CASE \E i \in Overrides :
             /\ i < at /\ requested = GivenCfg(i).value
             /\ \A j \in Overrides : j < at => j <= i
  <2>1. PICK i \in Overrides : requested = GivenCfg(i).value /\ \A j \in Overrides : j <= i
    BY <1>2, <1>4, Zenon
  <2> DEFINE last == CHOOSE k \in Overrides : \A j \in Overrides : j <= k
  <2>2. last \in Overrides /\ \A j \in Overrides : j <= last
    BY <2>1, Zenon
  <2>3. LastOverride = GivenCfg(last).value
    BY <2>1, Zenon DEF LastOverride
  <2> HIDE DEF last
  <2>4. last = i
    BY <1>2, <2>1, <2>2
  <2>5. QED  BY <2>1, <2>3, <2>4
<1>5. QED  BY <1>3, <1>4, Zenon DEF IInv, Read

\* A build that was done was given no cfg to refuse.
LEMMA NoneRefusable ==
  ASSUME IInv, at > Len(flags), NEW c \in Given
  PROVE  ~Refusable(c)
<1>1. PICK i \in 1..Len(flags) : GivenAt(i) /\ c = GivenCfg(i)
  BY Zenon DEF Given
<1>2. i < at
  BY DEF IInv, TypeOK
<1>3. QED  BY <1>1, <1>2, Zenon DEF IInv, Read

\* No flag compiles a backend in behind the build script's back.
LEMMA CompiledIs ==
  ASSUME IInv, build = "built", NEW n \in INTERNAL_CFGS
  PROVE  Compiled(n) <=> n \in Emit(requested)
<1>1. at > Len(flags) /\ emitted = Emit(requested)
  BY Zenon DEF IInv, Verdict
<1>2. Refusable(CfgSpec(n, "none"))
  BY DEF Refusable, IsInternal, CfgSpec
<1>3. CfgSpec(n, "none") \notin Given
  BY <1>1, <1>2, NoneRefusable
<1>4. QED  BY <1>1, <1>3, Zenon DEF Compiled

\* What each override, and none, comes to on each kind of target.
LEMMA Outcome ==
  ASSUME IInv, build = "built"
  PROVE  /\ requested \in {"auto"} \cup Backends /\ Possible(requested)
         /\ requested = "serial" => Settled = "no"
         /\ requested = "avx2" => VectorBackend = "avx2" /\ Settled = "yes"
         /\ requested = "neon" => VectorBackend = "neon" /\ Settled = "yes"
         /\ requested = "auto" /\ is_x86 =>
              VectorBackend = "avx2" /\ (Settled = "no" <=> "avx2" \notin cpu.features)
         /\ requested = "auto" /\ ~is_x86 /\ neon_is_sound_on_target =>
              /\ VectorBackend = "neon"
              /\ Settled = "no" <=>
                   ~("sha3" \in cpu.features /\ (cpu.reports \/ "sha3" \in target.features))
         /\ requested = "auto" /\ ~is_x86 /\ ~neon_is_sound_on_target => Settled = "no"
<1>1. requested \in {"auto"} \cup Backends /\ Possible(requested)
  BY DEF IInv, TypeOK, Verdict
<1>2. /\ Compiled("kopis_avx2") <=> "kopis_avx2" \in Emit(requested)
      /\ Compiled("kopis_avx2_assume") <=> "kopis_avx2_assume" \in Emit(requested)
      /\ Compiled("kopis_neon") <=> "kopis_neon" \in Emit(requested)
      /\ Compiled("kopis_neon_assume") <=> "kopis_neon_assume" \in Emit(requested)
  BY CompiledIs DEF INTERNAL_CFGS
<1>3. target.features \subseteq cpu.features
  BY DEF IInv, TypeOK
<1>4. CASE requested = "serial"
  <2>1. ~Compiled("kopis_avx2") /\ ~Compiled("kopis_neon")
    BY <1>2, <1>4 DEF Emit
  <2>2. QED  BY <1>1, <1>4, <2>1 DEF Settled
<1>5. CASE requested = "avx2"
  <2>1. Compiled("kopis_avx2") /\ Compiled("kopis_avx2_assume")
    BY <1>2, <1>5 DEF Emit
  <2>2. QED  BY <1>1, <1>5, <2>1 DEF Settled, VectorBackend, Constant, Assumed
<1>6. CASE requested = "neon"
  <2>1. Compiled("kopis_neon") /\ ~Compiled("kopis_avx2") /\ Compiled("kopis_neon_assume")
    BY <1>2, <1>6 DEF Emit
  <2>2. QED  BY <1>1, <1>6, <2>1 DEF Settled, VectorBackend, Constant, Assumed
<1>7. CASE requested = "auto" /\ is_x86
  <2>1. Compiled("kopis_avx2") /\ ~Compiled("kopis_avx2_assume")
    BY <1>2, <1>7 DEF Emit
  <2>2. VectorBackend = "avx2" /\ Needed = "avx2"
    BY <2>1 DEF VectorBackend, Needed
  <2>3. Constant <=> "avx2" \in target.features
    BY <2>1, <2>2 DEF Constant, Assumed, target_has_feature
  <2>4. Detected = IF "avx2" \in cpu.features THEN "yes" ELSE "no"
    BY <2>2 DEF Detected
  <2>5. Settled = "no" <=> "avx2" \notin cpu.features
    BY <1>3, <2>1, <2>3, <2>4 DEF Settled
  <2>6. QED  BY <1>1, <1>7, <2>2, <2>5
<1>8. CASE requested = "auto" /\ ~is_x86 /\ neon_is_sound_on_target
  <2>1. Compiled("kopis_neon") /\ ~Compiled("kopis_avx2")
        /\ (Compiled("kopis_neon_assume") <=> "sha3" \in target.features)
    BY <1>2, <1>8 DEF Emit, target_has_feature
  <2>2. VectorBackend = "neon" /\ Needed = "sha3"
    BY <2>1 DEF VectorBackend, Needed
  <2>3. Constant <=> "sha3" \in target.features
    BY <2>1, <2>2 DEF Constant, Assumed, target_has_feature
  <2>4. Detected = IF "sha3" \in cpu.features /\ cpu.reports THEN "yes" ELSE "no"
    BY <2>2 DEF Detected
  <2>5. Settled = "no" <=> ~("sha3" \in cpu.features /\ (cpu.reports \/ "sha3" \in target.features))
    BY <1>3, <2>1, <2>3, <2>4 DEF Settled
  <2>6. QED  BY <1>1, <1>8, <2>2, <2>5
<1>9. CASE requested = "auto" /\ ~is_x86 /\ ~neon_is_sound_on_target
  <2>1. ~Compiled("kopis_avx2") /\ ~Compiled("kopis_neon")
    BY <1>2, <1>9 DEF Emit
  <2>2. QED  BY <1>1, <1>9, <2>1 DEF Settled
<1>10. QED  BY <1>1, <1>4, <1>5, <1>6, <1>7, <1>8, <1>9 DEF Backends

\* What a call has run, and that the build was done.
LEMMA RanIs ==
  ASSUME IInv, NEW b \in ran
  PROVE  /\ build = "built" /\ at > Len(flags)
         /\ b = IF Settled = "no" THEN "serial" ELSE VectorBackend
<1>1. build # "built" => ran = {}
  BY Zenon DEF IInv, Verdict
<1>2. build = "built" => at > Len(flags)
  BY Zenon DEF IInv, Verdict
<1>3. QED  BY <1>1, <1>2 DEF IInv, Answered

\* The four properties follow from the invariant.
LEMMA InvSound == IInv => SoundDispatch
<1> SUFFICES ASSUME IInv, NEW b \in ran PROVE Sound(b)
  BY DEF SoundDispatch
<1>1. build = "built" /\ b = IF Settled = "no" THEN "serial" ELSE VectorBackend
  BY RanIs
<1>2. target.features \subseteq cpu.features
  BY DEF IInv, TypeOK
<1>3. CASE Settled = "no"
  BY <1>1, <1>3 DEF Sound
<1>4. CASE Settled # "no"
  <2>1. CASE requested = "avx2" \/ (requested = "auto" /\ is_x86)
    BY <1>1, <1>2, <1>4, <2>1, Outcome DEF Sound, Possible, target_has_feature
  <2>2. CASE requested = "neon" \/ (requested = "auto" /\ ~is_x86 /\ neon_is_sound_on_target)
    BY <1>1, <1>2, <1>4, <2>2, Outcome
    DEF Sound, Possible, target_has_feature, neon_is_sound_on_target
  <2>3. QED  BY <1>1, <1>4, <2>1, <2>2, Outcome DEF Backends
<1>5. QED  BY <1>3, <1>4

LEMMA InvOne == IInv => OneBackend
  BY RanIs DEF OneBackend

LEMMA InvDocumented == IInv => AsDocumented
<1> SUFFICES ASSUME IInv, NEW b \in ran
    PROVE  LET reported == target.arch # "aarch64" \/ cpu.reports \/ "sha3" \in target.features
               vector   == IF target.arch = "aarch64" THEN "neon" ELSE "avx2"
               usable   == /\ target.arch \in {"x86", "x86_64", "aarch64"}
                           /\ Sound(vector) /\ reported
                           /\ vector = "neon" => "neon" \in target.features
           IN  b = IF LastOverride # "auto" THEN LastOverride
                   ELSE IF usable THEN vector ELSE "serial"
  BY DEF AsDocumented
<1>1. /\ build = "built" /\ b = IF Settled = "no" THEN "serial" ELSE VectorBackend
      /\ LastOverride = requested
  BY RanIs, LastRead
<1>2. target.features \subseteq cpu.features
  BY DEF IInv, TypeOK
<1>3. CASE requested # "auto"
  BY <1>1, <1>3, Outcome DEF Backends
<1>4. CASE requested = "auto" /\ is_x86
  BY <1>1, <1>4, Outcome DEF is_x86, Sound
<1>5. CASE requested = "auto" /\ ~is_x86 /\ neon_is_sound_on_target
  BY <1>1, <1>2, <1>5, Outcome DEF is_x86, neon_is_sound_on_target, Sound, target_has_feature
<1>6. CASE requested = "auto" /\ ~is_x86 /\ ~neon_is_sound_on_target
  BY <1>1, <1>6, Outcome DEF is_x86, neon_is_sound_on_target, Sound, target_has_feature
<1>7. QED  BY <1>3, <1>4, <1>5, <1>6

LEMMA InvRefused == IInv => RefusedForCause
<1> SUFFICES ASSUME IInv, build # "parsing" PROVE RefusedForCause
  BY DEF RefusedForCause
<1> DEFINE Bad == \E c \in Given : Refusable(c)
           Impossible == \/ LastOverride = "avx2" /\ ~("avx2" \in target.features /\ is_x86)
                         \/ LastOverride = "neon" /\ ~("sha3" \in target.features /\ neon_is_sound_on_target)
<1>1. SUFFICES build = "refused" <=> Bad \/ Impossible
  BY <1>1, Zenon DEF RefusedForCause, Refusable, IsInternal
<1>2. requested \in {"auto", "serial", "avx2", "neon"}
  BY DEF IInv, TypeOK, Backends
<1>3. at > Len(flags) => ~Bad /\ (~Possible(requested) <=> Impossible)
  <2>1. ASSUME at > Len(flags) PROVE ~Bad /\ LastOverride = requested
    BY <2>1, NoneRefusable, LastRead
  <2>2. ASSUME LastOverride = requested PROVE ~Possible(requested) <=> Impossible
    BY <1>2, <2>2 DEF Possible, target_has_feature
  <2>3. QED  BY <2>1, <2>2
<1>4. at <= Len(flags) /\ HasSpec(at) /\ Refusable(SpecOf(at)) => Bad
  <2> SUFFICES ASSUME at <= Len(flags), HasSpec(at), Refusable(SpecOf(at)) PROVE Bad
    OBVIOUS
  <2>1. PICK i \in Passed : GivenCfg(i) = SpecOf(at)
    BY PassedCfg, Zenon DEF IInv
  <2>2. GivenCfg(i) \in Given
    BY Zenon DEF Passed, Given
  <2>3. QED  BY <2>1, <2>2, Zenon
<1>5. QED  BY <1>3, <1>4 DEF IInv, Verdict, TypeOK

\* No call runs a backend whose instructions the CPU lacks or whose registers
\* the target's ABI excludes (SoundDispatch), for any flags of any number, any
\* targets and CPUs, and any number of threads probing at once.
THEOREM SoundDispatchHolds == Spec => []SoundDispatch
  BY Invariance, InvSound, PTL

\* All calls of a process run the same implementation (OneBackend).
THEOREM OneBackendHolds == Spec => []OneBackend
  BY Invariance, InvOne, PTL

\* What runs is what the head of build.rs promises (AsDocumented).
THEOREM AsDocumentedHolds == Spec => []AsDocumented
  BY Invariance, InvDocumented, PTL

\* The build is refused exactly for the causes build.rs names, of the cfgs as
\* rustc reads them (RefusedForCause).
THEOREM RefusedForCauseHolds == Spec => []RefusedForCause
  BY Invariance, InvRefused, PTL
================================================================================
