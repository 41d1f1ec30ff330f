-------------------------- MODULE ClassicConfigs --------------------------
(***************************************************************************)
(* The scripts of parts 1 and 2, which run one x86 CPU in system call      *)
(* emulation mode.  Left out is what does not say where a request goes:    *)
(* clocks, sizes and latencies, the process that is run.                   *)
(***************************************************************************)
EXTENDS SimObjects

l2bus == <<"l2bus", 0>>
l2cache == <<"l2cache", 0>>
memobj == <<"memobj", 0>>
simplecache == <<"cache", 0>>

-----------------------------------------------------------------------------
(* part1/caches.py.                                                        *)

L1ICache_connectCPU(i) ==
  Bind(icache(i), "cpu_side", cpu(i), "icache_port")
L1DCache_connectCPU(i) ==
  Bind(dcache(i), "cpu_side", cpu(i), "dcache_port")
L1Cache_connectBus(c, bus) == Bind(c, "mem_side", bus, "slave")
L2Cache_connectCPUSideBus(bus) == Bind(l2cache, "cpu_side", bus, "master")
L2Cache_connectMemSideBus(bus) == Bind(l2cache, "mem_side", bus, "slave")

L1Caches(i) ==
  New(icache(i), "Cache") \o New(dcache(i), "Cache")
    \o L1ICache_connectCPU(i) \o L1DCache_connectCPU(i)

(* caches_opts.py: the sizes are options, the ports are the same.          *)
L1Caches_opts(i) == L1Caches(i)

-----------------------------------------------------------------------------
(* What the scripts share.                                                 *)

connectInterrupts(i) ==
  createInterruptController(i)
    \o Bind(interrupts(i), "pio", membus, "master")
    \o Bind(interrupts(i), "int_master", membus, "slave")
    \o Bind(interrupts(i), "int_slave", membus, "master")

createMemory ==
  New(mem_ctrl(0), "MemCtrl") \o Bind(mem_ctrl(0), "port", membus, "master")

connectSystemPort == Bind(system, "system_port", membus, "slave")

-----------------------------------------------------------------------------
(* The scripts.                                                            *)

simple ==
  New(system, "System") \o New(cpu(0), "CPU")
    \o New(membus, "SystemXBar")
    \o Bind(cpu(0), "icache_port", membus, "slave")
    \o Bind(cpu(0), "dcache_port", membus, "slave")
    \o connectInterrupts(0) \o createMemory \o connectSystemPort
    \o Instantiate

TwoLevel(l1caches) ==
  New(system, "System") \o New(cpu(0), "CPU")
    \o l1caches
    \o New(l2bus, "L2XBar")
    \o L1Cache_connectBus(icache(0), l2bus)
    \o L1Cache_connectBus(dcache(0), l2bus)
    \o New(l2cache, "Cache") \o L2Cache_connectCPUSideBus(l2bus)
    \o New(membus, "SystemXBar") \o L2Cache_connectMemSideBus(membus)
    \o connectInterrupts(0) \o connectSystemPort \o createMemory
    \o Instantiate

two_level == TwoLevel(L1Caches(0))
two_level_opts == TwoLevel(L1Caches_opts(0))

simple_memobj ==
  New(system, "System") \o New(cpu(0), "CPU")
    \o New(memobj, "SimpleMemobj")
    \o Bind(cpu(0), "icache_port", memobj, "inst_port")
    \o Bind(cpu(0), "dcache_port", memobj, "data_port")
    \o New(membus, "SystemXBar")
    \o Bind(memobj, "mem_side", membus, "slave")
    \o connectInterrupts(0) \o createMemory \o connectSystemPort
    \o Instantiate

simple_cache ==
  New(system, "System") \o New(cpu(0), "CPU")
    \o New(membus, "SystemXBar")
    \o New(simplecache, "SimpleCache")
    \o Bind(cpu(0), "icache_port", simplecache, "cpu_side")
    \o Bind(cpu(0), "dcache_port", simplecache, "cpu_side")
    \o Bind(simplecache, "mem_side", membus, "slave")
    \o connectInterrupts(0) \o createMemory \o connectSystemPort
    \o Instantiate
=============================================================================
