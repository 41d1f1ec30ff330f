---------------------------- MODULE SimObjects ----------------------------
(***************************************************************************)
(* What the configuration scripts are written in: gem5's SimObjects, their *)
(* ports, and the statements that create and connect them.  All of it is   *)
(* gem5's own and modelled from how the scripts use it, but for the ports  *)
(* of the two memory objects of part 2.                                    *)
(*                                                                         *)
(* A script is a sequence of statements.  An object is a name and an       *)
(* index, a port an object and a name.                                     *)
(***************************************************************************)
EXTENDS Naturals, Sequences, FiniteSets, SequencesExt

(* `o = Class()'.                                                          *)
New(o, c) == <<[op |-> "new", obj |-> o, class |-> c]>>

(* `o.p = q.r', which connects both ends whichever side is assigned.       *)
Bind(o, p, q, r) == <<[op |-> "bind", ends |-> {<<o, p>>, <<q, r>>}]>>

(* `if not ok: fatal(...)', and what else ends a script unless `ok'.       *)
Check(ok) == <<[op |-> "check", ok |-> ok]>>

(* SimpleExtLink and SimpleIntLink: a way from node a to node b.           *)
Link(a, b) == <<[op |-> "link", from |-> a, to |-> b]>>

(* m5.instantiate(), which makes the C++ objects and connects their ports. *)
Instantiate == <<[op |-> "instantiate"]>>

(* `for i in range(n): F(i)'.                                              *)
ForEach(n, F(_)) == FlattenSeq([i \in 1..n |-> F(i - 1)])

-----------------------------------------------------------------------------
(* Objects.                                                                *)

system == <<"system", 0>>
membus == <<"membus", 0>>
mem_ctrl(i) == <<"mem_ctrl", i>>
cpu(i) == <<"cpu", i>>
interrupts(i) == <<"interrupts", i>>
icache(i) == <<"icache", i>>
dcache(i) == <<"dcache", i>>

(* cpu.createInterruptController() on x86.                                 *)
createInterruptController(i) == New(interrupts(i), "X86LocalApic")

-----------------------------------------------------------------------------
(* Ports: class, name, role, whether it is a vector, and whether the       *)
(* object must have it connected when it is instantiated.                  *)

Port(c, p, role, vector, needed) ==
  [class |-> c, port |-> p, role |-> role, vector |-> vector,
   needed |-> needed]

Master(c, p) == Port(c, p, "master", FALSE, TRUE)
Slave(c, p) == Port(c, p, "slave", FALSE, TRUE)
Optional(c, p) == Port(c, p, "master", FALSE, FALSE)
VectorMaster(c, p) == Port(c, p, "master", TRUE, FALSE)
VectorSlave(c, p) == Port(c, p, "slave", TRUE, FALSE)

SimpleMemobjPorts ==
  {Slave("SimpleMemobj", "inst_port"), Slave("SimpleMemobj", "data_port"),
   Master("SimpleMemobj", "mem_side")}

SimpleCachePorts ==
  {VectorSlave("SimpleCache", "cpu_side"), Master("SimpleCache", "mem_side")}

CoherentXBar == {"SystemXBar", "L2XBar"}
XBar == CoherentXBar \cup {"IOXBar"}

XBarPorts ==
  UNION {{VectorSlave(c, "slave"), VectorMaster(c, "master"),
          Optional(c, "default")} : c \in XBar}

OtherPorts ==
  {Master("System", "system_port"), Slave("MemCtrl", "port"),
   Master("CPU", "icache_port"), Master("CPU", "dcache_port"),
   Optional("CPU", "itb.walker.port"), Optional("CPU", "dtb.walker.port"),
   Slave("X86LocalApic", "pio"), Slave("X86LocalApic", "int_slave"),
   Master("X86LocalApic", "int_master"),
   Slave("Cache", "cpu_side"), Master("Cache", "mem_side"),
   Slave("Bridge", "slave"), Master("Bridge", "master"),
   Slave("BadAddr", "pio"),
   Slave("Pc", "pio"), Slave("Pc", "pci_host"), Master("Pc", "dma"),
   Master("Pc", "int_master"),
   VectorMaster("RubyTester", "cpuInstDataPort"),
   VectorSlave("RubySequencer", "slave"),
   VectorMaster("RubySequencer", "master"),
   VectorSlave("RubyPortProxy", "slave"),
   VectorSlave("Network", "slave"), VectorMaster("Network", "master")}

-----------------------------------------------------------------------------
(* Addresses.  A 64-bit address is the number of its 2^60-byte space and   *)
(* the number of a kB in it, and stands for the first byte of that kB.     *)

MB == 1024
GB == 1024 * MB
LastKB == 2 * GB - 1    \* stands for the last kB of a space

Space(n) == <<n, 0>>
KB(n) == <<0, n>>
Plus(a, n) == <<a[1], a[2] + n>>

Before(a, b) == a[1] < b[1] \/ (a[1] = b[1] /\ a[2] < b[2])

(* AddrRange(start, end) has its end in it; AddrRange(start, end - 1) and  *)
(* AddrRange(start, size = ...) have not.                                  *)
AddrRange(start, end) == [start |-> start, end |-> end, closed |-> TRUE]
AddrRangeTo(start, end) == [start |-> start, end |-> end, closed |-> FALSE]

InRange(a, r) ==
  /\ ~Before(a, r.start)
  /\ Before(a, r.end) \/ (r.closed /\ a = r.end)

InSome(a, ranges) == \E r \in ranges : InRange(a, r)

(* Where x86 puts the registers of a local APIC, and where it takes the    *)
(* interrupts for it: a page for each CPU (x86LocalAPICAddress,            *)
(* x86InterruptAddress).                                                   *)
APICPage == 4
LocalAPIC(i) == Plus(Space(2), APICPage * i)
InterruptTo(i) == Plus(Space(10), APICPage * i)
APICRange(base) == AddrRangeTo(base, Plus(base, APICPage))
=============================================================================
