----------------------------- MODULE MCConfigs -----------------------------
(***************************************************************************)
(* The scripts as they are, the Ruby systems with what their code has a    *)
(* check for (another protocol, a second memory controller, lines of 48    *)
(* bytes), and ruby_test also with the module that it lacks, so that what  *)
(* test_caches.py wires is looked at too.                                  *)
(***************************************************************************)
EXTENDS ConfigProperties

Build(script, cpus, mem, caches, built, isa, memCtrls, lineSize) ==
  [script |-> script, cpus |-> cpus, mem |-> mem, caches |-> caches,
   built |-> built, isa |-> isa, memCtrls |-> memCtrls,
   lineSize |-> lineSize, ruby_caches |-> FALSE]

Classic(script, cpus, mem) ==
  Build(script, cpus, mem, "MSI", "MSI", "x86", 1, 64)

ClassicBuilds ==
  {Classic(s, 1, 512 * MB) : s \in {"simple", "two_level", "two_level_opts",
                                    "simple_memobj", "simple_cache"}}

FullSystemBuilds ==
  {Classic("x86", 1, 512 * MB), Classic("x86", 1, 3 * GB)}
    \cup {Classic("x86_mp", n, 512 * MB) : n \in 1..2}

Protocols == {"MSI", "MI_example"}

RubyBuilds ==
  {Build("simple_ruby", 2, 512 * MB, c, b, isa, m, l) :
     c \in Protocols, b \in Protocols, isa \in {"x86", "arm", "riscv"},
     m \in 1..2, l \in {48, 64}}
    \cup
  {[Build("ruby_test", 2, 512 * MB, "MSI", b, "x86", 1, 64)
      EXCEPT !.ruby_caches = there] : b \in Protocols, there \in BOOLEAN}

MCBuilds == ClassicBuilds \cup FullSystemBuilds \cup RubyBuilds
=============================================================================
