-------------------------------- MODULE Dma --------------------------------
(***************************************************************************)
(* fpga_engine/cocotb/dma_controller.v, and the synchronous memory it is   *)
(* simulated with (external).  A step is a rising edge of clk: every       *)
(* register of the controller and of the memory takes its new value from   *)
(* the old ones.                                                           *)
(***************************************************************************)
EXTENDS Integers

CONSTANTS
  AddrWidth, LenWidth,   \* parameters of the module
  MaxTransfers           \* bound: starts taken

ASSUME DmaAssumption == AddrWidth \in Nat \ {0} /\ LenWidth \in Nat \ {0}

Addr == 0..2 ^ AddrWidth - 1
Length == 0..2 ^ LenWidth - 1

\* length: "must be >= 1"
Lengths == Length \ {0}

VARIABLES
  dma,   \* the registers of the controller
  ram,   \* the memory: mem and the registered output mem_rdata
  job    \* history: the last transfer taken, the memory it found, and whether
         \* a reset has come since

DmaInit ==
  /\ dma = [state |-> "IDLE", cur_src |-> 0, cur_dst |-> 0, remaining |-> 0, word_buf |-> 0,
            busy |-> FALSE, done |-> FALSE, addr |-> 0, wdata |-> 0, rden |-> FALSE, wren |-> FALSE]
  /\ ram = [mem |-> [a \in Addr |-> a + 1], rdata |-> 0]
  /\ job = [src |-> 0, dst |-> 0, length |-> 0, mem |-> ram.mem, count |-> 0, reset |-> FALSE]

-----------------------------------------------------------------------------
(* The memory: both ports are sampled at the edge.                         *)

RamEdge ==
  ram' = [mem |-> IF dma.wren THEN [ram.mem EXCEPT ![dma.addr] = dma.wdata] ELSE ram.mem,
          rdata |-> IF dma.rden THEN ram.mem[dma.addr] ELSE ram.rdata]

-----------------------------------------------------------------------------
(* The controller                                                          *)

\* "Defaults each cycle; only the active state overrides."
Defaults == [dma EXCEPT !.done = FALSE, !.rden = FALSE, !.wren = FALSE]
Incremented(a) == (a + 1) % 2 ^ AddrWidth

Reset ==
  /\ dma' = [dma EXCEPT !.state = "IDLE", !.busy = FALSE, !.done = FALSE, !.addr = 0, !.wdata = 0, !.rden = FALSE, !.wren = FALSE]
  /\ RamEdge /\ job' = [job EXCEPT !.reset = TRUE]

DmaIdle ==
  /\ dma.state = "IDLE" /\ (dma.busy \/ dma.done \/ dma.rden \/ dma.wren)
  /\ dma' = [Defaults EXCEPT !.busy = FALSE] /\ RamEdge /\ UNCHANGED job

Start(src, dst, length) ==
  /\ dma.state = "IDLE" /\ job.count < MaxTransfers
  /\ dma' = [Defaults EXCEPT !.cur_src = src, !.cur_dst = dst, !.remaining = length, !.busy = TRUE, !.state = "READ"]
  /\ RamEdge /\ job' = [src |-> src, dst |-> dst, length |-> length, mem |-> ram'.mem, count |-> job.count + 1, reset |-> FALSE]

Read ==
  /\ dma.state = "READ"
  /\ dma' = [Defaults EXCEPT !.addr = dma.cur_src, !.rden = TRUE, !.state = "READ_WAIT1"]
  /\ RamEdge /\ UNCHANGED job

ReadWait1 ==
  dma.state = "READ_WAIT1" /\ dma' = [Defaults EXCEPT !.state = "READ_WAIT2"] /\ RamEdge /\ UNCHANGED job

ReadWait2 ==
  /\ dma.state = "READ_WAIT2"
  /\ dma' = [Defaults EXCEPT !.word_buf = ram.rdata, !.state = "WRITE"] /\ RamEdge /\ UNCHANGED job

Write ==
  /\ dma.state = "WRITE"
  /\ dma' = [Defaults EXCEPT !.addr = dma.cur_dst, !.wdata = dma.word_buf, !.wren = TRUE, !.state = "NEXT"]
  /\ RamEdge /\ UNCHANGED job

BugNextWord ==
  /\ dma.state = "NEXT"
  /\ dma' = [Defaults EXCEPT !.cur_src = Incremented(@), !.cur_dst = Incremented(@),
               !.state = IF dma.remaining = 1 THEN "DONE" ELSE "READ"]
  /\ RamEdge /\ UNCHANGED job
NextWord ==
  /\ dma.state = "NEXT"
  /\ dma' = [Defaults EXCEPT !.cur_src = Incremented(@), !.cur_dst = Incremented(@),
               !.remaining = (@ - 1) % 2 ^ LenWidth, !.state = IF dma.remaining = 1 THEN "DONE" ELSE "READ"]
  /\ RamEdge /\ UNCHANGED job

Done ==
  /\ dma.state = "DONE"
  /\ dma' = [Defaults EXCEPT !.busy = FALSE, !.done = TRUE, !.state = "IDLE"] /\ RamEdge /\ UNCHANGED job

Edge == DmaIdle \/ Read \/ ReadWait1 \/ ReadWait2 \/ Write \/ NextWord \/ Done
DmaNext == Edge \/ Reset \/ \E src, dst \in Addr, length \in Lengths : Start(src, dst, length)

\* The clock runs.
DmaFairness == WF_<<dma, ram, job>>(Edge)
DmaSpec == DmaInit /\ [][DmaNext]_<<dma, ram, job>> /\ DmaFairness

-----------------------------------------------------------------------------
\* The words of a forward copy, one after the other: where source and
\* destination overlap, a word that was copied may be copied again.
Copied ==
  LET copy[n \in 0..job.length] ==
        IF n = 0 THEN job.mem
        ELSE [copy[n - 1] EXCEPT ![(job.dst + n - 1) % 2 ^ AddrWidth] = copy[n - 1][(job.src + n - 1) % 2 ^ AddrWidth]]
  IN copy[job.length]

\* A transfer that is not reset ends, and when done is raised the memory holds
\* what a word-by-word copy gives: every read has the value of its own address,
\* and all and only length words have been written, also where source and
\* destination overlap and where the addresses wrap around.
TransferEnds == dma.busy ~> ((dma.done /\ ram.mem = Copied) \/ job.reset)
=============================================================================
