-------------------------- MODULE ConfigProperties --------------------------
(***************************************************************************)
(* What the configuration scripts must get right.                          *)
(***************************************************************************)
EXTENDS Configs

Memory(a) == InRange(a, AddrRangeTo(KB(0), KB(build.mem)))

(* The first MB of the I/O gap, which is in mem_ranges but is no memory.   *)
IOHole(a) == InRange(a, AddrRangeTo(KB(IOGap), KB(IOGap + MB)))

-----------------------------------------------------------------------------

(* What a Ruby system can be made of: the protocol gem5 was built with,    *)
(* one memory controller, lines that are a power of two long; and for the  *)
(* tester a module ruby_caches, which the repository has not: its own      *)
(* files never support ruby_test.                                          *)
Supported(b) ==
  b.script \in {"simple_ruby", "ruby_test"} =>
    /\ b.built = b.caches
    /\ b.memCtrls = 1
    /\ PowerOfTwo(b.lineSize)
    /\ b.script = "ruby_test" => b.ruby_caches

(* A script runs to its simulation exactly if what it is asked for is      *)
(* supported: every port it names exists and is of an object that is       *)
(* already made, none is connected twice or left over, no two objects of a *)
(* bus answer for one address, and what cannot work is refused.  So        *)
(* ruby_test never gets there with the repository's own files.             *)
OnlyUnsupportedAbort ==
  /\ aborted => ~Supported(build)
  /\ Simulating => Supported(build)

-----------------------------------------------------------------------------

(* Who is to take a request (for KB(M5Ops) see RightTarget).               *)
Target(p) ==
  CASE Ruby /\ p.origin[1] = system -> sys_port_proxy
    [] ~(Ruby /\ p.origin[1] = system) /\ Memory(p.addr) -> mem_ctrl(0)
    [] OTHER ->
         IF \E i \in 0..(build.cpus - 1) :
              p.addr \in {LocalAPIC(i), InterruptTo(i)}
         THEN interrupts(CHOOSE i \in 0..(build.cpus - 1) :
                           p.addr \in {LocalAPIC(i), InterruptTo(i)})
         ELSE IF p.addr \in {KB(build.mem), KB(M5Ops + 1)} \ {KB(IOGap)}
         THEN badaddr_responder
         ELSE pc

(* A request reaches the object it is for over whatever bridges and buses  *)
(* lie between: memory for an address of memory, the local APIC of the CPU *)
(* that an interrupt is for, whichever device sends it, a device for an    *)
(* I/O address, and badaddr_responder for what nobody owns.  One address   *)
(* is exempted: 0xFFFF0000, the first that is reserved for m5ops.  The     *)
(* comments end the bridge's range before it (x86.py:48, :174), but the    *)
(* AddrRange of x86.py:49 has it, so the bridge takes it to the I/O bus.   *)
RightTarget ==
  \A p \in packets :
    Arrived(p) /\ ~IsMessage(p) /\ p.addr # KB(M5Ops) => p.at[1] = Target(p)

(* The two bridges between membus and iobus pass no request back to where  *)
(* it has been.  Only what is for the hole is: see BridgedRequestsStay.    *)
NoRoundTrip ==
  \A p \in packets : p.at[1] \in p.crossed => IOHole(p.addr)

(* What passes the bridge is for the I/O bus and stays there, as the       *)
(* comment on the E820 table says of all of [0xC0000000, 0xFFFF0000)       *)
(* (x86.py:173).                                                           *)
BridgedRequestsStay ==
  \A p \in packets : bridge \in p.crossed => p.at[1] # membus

-----------------------------------------------------------------------------

Caches == {m.obj : m \in {n \in made : n.class = "Cache"}}

(* The caches that a coherent crossbar asks: those on it, and those that   *)
(* one of them has on its CPU side.                                        *)
CachesOn(x) == {c \in Caches : <<x, "slave">> \in PeersOf(<<c, "mem_side">>)}

Snooped(x) ==
  CachesOn(x) \cup
    {c \in Caches : \E d \in CachesOn(x), y \in {m.obj : m \in made} :
       /\ ClassOf(y) \in CoherentXBar
       /\ <<d, "cpu_side">> \in PeersOf(<<y, "master">>)
       /\ c \in CachesOn(y)}

(* A request that reaches memory has been seen by every cache of the       *)
(* system, the disk's DMA included (`This cache is required for the        *)
(* classic memory model to maintain coherence', x86.py:77).                *)
SnoopedByAll ==
  \A p \in packets : ClassOf(p.at[1]) = "MemCtrl" /\ ~Ruby =>
    \A c \in Caches :
      \/ c \in p.crossed
      \/ \E x \in p.crossed : ClassOf(x) \in CoherentXBar /\ c \in Snooped(x)

-----------------------------------------------------------------------------

OwnedBy(i) == {icache(i), dcache(i), sequencer(i), l1(i)}

(* What a CPU's access passes on its way to memory.                        *)
OwnPath(e) ==
  LET i == e[1][2]
  IN  IF Ruby THEN {sequencer(i), l1(i)}
      ELSE CASE e[2] = "icache_port" -> {icache(i)} \cap Caches
             [] e[2] = "dcache_port" -> {dcache(i)} \cap Caches
             [] OTHER -> {}

(* A CPU's accesses go through its own caches and nobody else's, its       *)
(* instructions not through the data cache; and the controller it uses in  *)
(* a Ruby system has the version of its sequencer, by which the protocol   *)
(* answers it.                                                             *)
PrivatePath ==
  \A p \in packets : ClassOf(p.origin[1]) = "CPU" =>
    /\ \A j \in 0..(build.cpus - 1) :
         p.crossed \cap OwnedBy(j) \subseteq OwnPath(p.origin)
    /\ ClassOf(p.at[1]) = "MemCtrl" => OwnPath(p.origin) \subseteq p.crossed
    /\ Ruby /\ Exists(l1(p.origin[1][2])) =>
         VersionOf(l1(p.origin[1][2])) = p.origin[1][2]

(* A message is delivered over at most two switches to the one controller  *)
(* that it is for, into a buffer of its virtual network.                   *)
MessagesArrive ==
  \A p \in packets :
    /\ Cardinality({o \in p.crossed : ClassOf(o) = "Switch"}) <= 2
    /\ Arrived(p) /\ IsMessage(p) =>
         /\ NodesOf(p.dest) = {p.at[1]}
         /\ p.at[1] # p.origin[1]
         /\ \E b \in Buffers(build.caches) :
              /\ b.machine = ClassOf(p.at[1]) /\ b.buffer = p.at[2]
              /\ b.way = "From" /\ b.vnet = p.vnet

-----------------------------------------------------------------------------
(* The tables that the BIOS hands to Linux.                                *)

EntryEnd(e) == e.addr + e.size

(* The E820 table has each kB in at most one entry, none is missing below  *)
(* the I/O gap, and what it says is usable is memory that answers.         *)
E820Describes(entries) ==
  /\ \A i, j \in DOMAIN entries : i # j =>
       \/ EntryEnd(entries[i]) <= entries[j].addr
       \/ EntryEnd(entries[j]) <= entries[i].addr
  /\ \A i \in DOMAIN entries :
       \/ EntryEnd(entries[i]) \in {IOGap, 4 * GB}
       \/ \E j \in DOMAIN entries : entries[j].addr = EntryEnd(entries[i])
  /\ \A i \in DOMAIN entries : entries[i].range_type = 1 =>
       \A a \in {KB(entries[i].addr), KB(EntryEnd(entries[i]) - 1)} :
         <<mem_ctrl(0), "port">> \in Responders(membus, a)

(* The MP table has the processors that were made, each with its local     *)
(* APIC, one of them to boot; an id of its own for every APIC; interrupts  *)
(* only of buses it has, no two of them at one pin, and each of the ISA    *)
(* bus's both ways.                                                        *)
MPTableDescribes(table) ==
  LET procs == table.processors
      ints == table.int_assignments
      ids == {procs[i].local_apic_id : i \in DOMAIN procs}
      All == {ints[k] : k \in DOMAIN ints}
      INTs == {k \in DOMAIN ints : ints[k].type = "INT"}
  IN  /\ {interrupts(i) : i \in ids}
           = {m.obj : m \in {n \in made : n.class = "X86LocalApic"}}
      /\ Cardinality(ids) = Len(procs) /\ table.io_apic_id \notin ids
      /\ Cardinality({i \in DOMAIN procs : procs[i].bootstrap}) = 1
      /\ \A k \in DOMAIN ints :
           /\ ints[k].dest_io_apic_id = table.io_apic_id
           /\ \E b \in DOMAIN table.buses :
                table.buses[b].bus_id = ints[k].source_bus_id
      /\ \A j, k \in INTs :
           j # k => ints[j].dest_io_apic_intin # ints[k].dest_io_apic_intin
      /\ \A k \in INTs : ints[k].source_bus_id = ISABus.bus_id =>
           [ints[k] EXCEPT !.type = "ExtInt", !.dest_io_apic_intin = 0] \in All

(* The tables that init_fs writes describe the system that MySystem wires. *)
TablesDescribeSystem ==
  Simulating /\ FullSystem =>
    IF build.script = "x86"
    THEN E820Describes(e820_entries(build.mem))
         /\ MPTableDescribes(x86_MPTable)
    ELSE E820Describes(mp_e820_entries(build.mem))
         /\ MPTableDescribes(MPTable(build.cpus))

-----------------------------------------------------------------------------

(* Every request and message but those for the hole is taken by someone:   *)
(* none is stuck where nothing leads on, or goes round for ever.           *)
Answered == (\E p \in packets : ~IOHole(p.addr)) ~> (packets = {})
=============================================================================
