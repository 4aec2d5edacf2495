------------------------------- MODULE MCBackend -------------------------------
(***************************************************************************)
(* Up to three flags, of every form, with each backend, a backend that     *)
(* does not exist, an internal cfg of either architecture and a foreign    *)
(* one; the targets the build script tells apart; CPUs that have just the  *)
(* target's features, or more, known to the OS or not.                     *)
(***************************************************************************)
EXTENDS Backend

CONSTANTS t1, t2

MCCfgs ==
  {CfgSpec("kopis_backend", b) : b \in {"serial", "avx2", "neon", "mips"}}
  \cup {CfgSpec(n, "none") : n \in {"kopis_avx2_assume", "kopis_neon", "docsrs"}}

MCFlags ==
  [form : {"--cfg="}, cfg : MCCfgs] \cup [form : {"text"}, cfg : MCCfgs]
  \cup {[form |-> "--cfg", cfg |-> CfgSpec("other", "none")]}

Target(arch, features, softfloat, big_endian) ==
  [arch |-> arch, features |-> features, softfloat |-> softfloat, big_endian |-> big_endian]

MCTargets ==
  {Target("x86_64", {}, FALSE, FALSE), Target("x86_64", {"avx2"}, FALSE, FALSE),
   Target("aarch64", {"neon"}, FALSE, FALSE), Target("aarch64", {"neon", "sha3"}, FALSE, FALSE),
   Target("aarch64", {"neon", "sha3"}, TRUE, FALSE), Target("aarch64", {}, TRUE, FALSE),
   Target("aarch64", {"neon"}, FALSE, TRUE), Target("riscv64", {}, FALSE, FALSE)}

Cpu(arch, features) == [arch : {arch}, features : features, reports : BOOLEAN]

MCCpus ==
  Cpu("x86_64", {{}, {"avx2"}}) \cup Cpu("aarch64", {{"neon"}, {"neon", "sha3"}})
  \cup Cpu("riscv64", {{}})
================================================================================
