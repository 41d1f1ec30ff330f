------------------------- MODULE FullSystemConfigs -------------------------
(***************************************************************************)
(* The full system of part 4 (system.py) with the x86 platform of x86.py,  *)
(* or of x86_mp.py for several CPUs.  Sizes and addresses are in kB, `mem' *)
(* is the size of the memory.  The kernel and the disks are left out.      *)
(***************************************************************************)
EXTENDS ClassicConfigs

iobus == <<"iobus", 0>>
badaddr_responder == <<"badaddr_responder", 0>>
pc == <<"pc", 0>>
bridge == <<"bridge", 0>>
apicbridge == <<"apicbridge", 0>>
iocache == <<"iocache", 0>>

IOGap == 3 * GB                \* 0xC0000000
M5Ops == 4 * GB - 64           \* 0xFFFF0000
IOAPICAddress == 4 * GB - 20 * MB   \* 0xfec00000

IO_address_space_base == Space(8)
interrupts_address_space_base == Space(10)
pci_config_address_space_base == Space(12)
APIC_range_size == 4
AddrMax == <<15, LastKB>>

-----------------------------------------------------------------------------
(* Who takes which addresses.                                              *)

mem_ranges_16MB(mem) ==                                  \* seeded fault
  <<AddrRangeTo(KB(0), KB(mem)),
    AddrRangeTo(KB(IOGap), KB(IOGap + 16 * MB))>>
mem_ranges(mem) ==
  <<AddrRangeTo(KB(0), KB(mem)), AddrRangeTo(KB(IOGap), KB(IOGap + MB))>>

iocache_ranges(mem) == {mem_ranges(mem)[i] : i \in 1..2}

bridge_ranges ==
  {AddrRange(KB(IOGap), KB(M5Ops)),
   AddrRangeTo(IO_address_space_base, interrupts_address_space_base),
   AddrRange(pci_config_address_space_base, AddrMax)}

x86_apicbridge_ranges ==
  {AddrRangeTo(interrupts_address_space_base,
               Plus(interrupts_address_space_base, 1 * APIC_range_size))}

apicbridge_ranges_OneCPU(cpus) == x86_apicbridge_ranges  \* seeded fault
apicbridge_ranges(cpus) ==
  {AddrRangeTo(interrupts_address_space_base,
               Plus(interrupts_address_space_base, cpus * APIC_range_size))}

(* The devices of the PC: the I/O APIC, the I/O ports and PCI.             *)
pc_ranges ==
  {AddrRangeTo(KB(IOAPICAddress), KB(IOAPICAddress + 4)),
   AddrRangeTo(IO_address_space_base, Space(9)),
   AddrRange(pci_config_address_space_base, AddrMax)}

-----------------------------------------------------------------------------
(* The Intel MP table.                                                     *)

processors(cpus) ==
  [i \in 1..cpus |-> [local_apic_id |-> i - 1, bootstrap |-> i = 1]]

io_apic_id_One(cpus) == 1                                \* seeded fault
io_apic_id(cpus) == cpus

PCIBus == [bus_id |-> 0, bus_type |-> "PCI"]
ISABus == [bus_id |-> 1, bus_type |-> "ISA"]
buses == <<PCIBus, ISABus>>

IntAssignment(cpus, type, bus, irq, pin) ==
  [type |-> type, source_bus_id |-> bus, source_bus_irq |-> irq,
   dest_io_apic_id |-> io_apic_id(cpus), dest_io_apic_intin |-> pin]

(* The 8259 delivers through pin 0, the I/O APIC has a pin for the irq.    *)
assignISAInt(cpus, irq, apicPin) ==
  <<IntAssignment(cpus, "ExtInt", 1, irq, 0),
    IntAssignment(cpus, "INT", 1, irq, apicPin)>>

int_assignments(cpus) ==
  <<IntAssignment(cpus, "INT", 0, 16, 16)>>
    \o assignISAInt(cpus, 0, 2) \o assignISAInt(cpus, 1, 1)
    \o ForEach(12, LAMBDA i : assignISAInt(cpus, i + 3, i + 3))

MPTable(cpus) ==
  [processors |-> processors(cpus), io_apic_id |-> io_apic_id(cpus),
   buses |-> buses, int_assignments |-> int_assignments(cpus)]

x86_MPTable == MPTable(1)

-----------------------------------------------------------------------------
(* The E820 table: 1 is usable memory, 2 is reserved.                      *)

Entry(addr, size, type) ==
  [addr |-> addr, size |-> size, range_type |-> type]

e820_entries(mem) ==
  <<Entry(0, 639, 1), Entry(639, 385, 2), Entry(MB, mem - MB, 1),
    Entry(mem, IOGap - mem, 2), Entry(M5Ops, 64, 2)>>

mp_e820_entries(mem) == e820_entries(mem)

-----------------------------------------------------------------------------
(* The platform.                                                           *)

(* Pc.attachIO(bus): the devices and the PCI host answer on the bus, the   *)
(* disk's DMA and the I/O APIC's interrupts go out on it.                  *)
attachIO(bus) ==
  Bind(pc, "pio", bus, "master") \o Bind(pc, "pci_host", bus, "default")
    \o Bind(pc, "dma", bus, "slave") \o Bind(pc, "int_master", bus, "slave")

init_fs(bus) ==
  New(pc, "Pc") \o New(iobus, "IOXBar")
    \o New(bridge, "Bridge")
    \o Bind(bridge, "master", iobus, "slave")
    \o Bind(bridge, "slave", bus, "master")
    \o New(apicbridge, "Bridge")
    \o Bind(apicbridge, "slave", iobus, "master")
    \o Bind(apicbridge, "master", bus, "slave")
    \o attachIO(iobus)
    \o New(iocache, "Cache")
    \o Bind(iocache, "cpu_side", iobus, "master")
    \o Bind(iocache, "mem_side", membus, "slave")

(* x86_mp.py makes the same objects; its tables and ranges are another's.  *)
init_fs_mp(bus) == init_fs(bus)

-----------------------------------------------------------------------------
(* MySystem.                                                               *)

createCPU(i) == New(cpu(i), "CPU")

createCacheHierarchy_OnIOBus(i) ==                       \* seeded fault
  L1Caches_opts(i)
    \o L1Cache_connectBus(icache(i), membus)
    \o L1Cache_connectBus(dcache(i), iobus)
createCacheHierarchy(i) ==
  L1Caches_opts(i)
    \o L1Cache_connectBus(icache(i), membus)
    \o L1Cache_connectBus(dcache(i), membus)
    \o Bind(cpu(i), "itb.walker.port", membus, "slave")
    \o Bind(cpu(i), "dtb.walker.port", membus, "slave")

createMemoryControllers ==
  New(mem_ctrl(0), "MemCtrl") \o Bind(mem_ctrl(0), "port", membus, "master")

setupInterrupts(i) ==
  createInterruptController(i)
    \o Bind(interrupts(i), "pio", membus, "master")
    \o Bind(interrupts(i), "int_master", membus, "slave")
    \o Bind(interrupts(i), "int_slave", membus, "master")

(* The constructor does for one CPU what, with x86_mp.py, is to be done    *)
(* for each.                                                               *)
MySystem(init, cpus) ==
  New(system, "System") \o New(membus, "SystemXBar")
    \o New(badaddr_responder, "BadAddr")
    \o Bind(membus, "default", badaddr_responder, "pio")
    \o Bind(system, "system_port", membus, "slave")
    \o init
    \o ForEach(cpus, createCPU)
    \o ForEach(cpus, createCacheHierarchy)
    \o createMemoryControllers
    \o ForEach(cpus, setupInterrupts)

run(init, cpus) == MySystem(init, cpus) \o Instantiate
=============================================================================
