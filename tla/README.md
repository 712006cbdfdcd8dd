# Specifications of the os-book kernel, loader, image tools and labs

TLA+ models of the program under `src-os/` (a UEFI loader, a small x86-64
kernel that goes through five stages and halts, the serial driver both use, and
the tools that make them into a bootable image) and of the labs under `src-c/`
that keep state; TLC configurations that check them on small instances; and
proofs, for every instance, about each of these: the loader, Stage 1 and the
two over the jump, Stages 2 to 5 under every timing, the interrupt stubs, the
serial driver, the image tools and the labs.

## The system

| part | code | state it keeps | operations | talks to |
|---|---|---|---|---|
| UEFI loader | `uefi/efi_main.cpp` | addresses and sizes of what it allocated, the memory map and its key | allocate kernel, stack, map buffer; get the map (twice); exit boot services; jump | boot services (calls), kernel (six parameters, memory) |
| UEFI boot services (external) | used by `efi_main.cpp` | memory map, key, "services available" | `allocatePages`, `getMemoryMap`, `exitBootServices`, its own event handlers and interrupts | loader |
| Stage 1 | `kernel/init.cpp` 856-1147 | cached ranges, two allocation cursors, page tables in memory, CR3 | scan, `allocPage`, `mapPageDual`, CR3 switch, touch test | reads the map the loader left |
| Stages 2-5 | `kernel/init.cpp` 1149-1294 and the dispatchers | GDT, IDT, two tick counters | `int3`, PIC and PIT set-up, APIC timer, page-fault probe, waiting loops | PIC, PIT, APIC (ports, MMIO, interrupts), dispatchers (shared counters) |
| interrupt stubs | `kernel/*_entry.S` | the register frame on the stack | save, align, call, restore, `iretq` | processor, dispatchers |
| serial driver | `common/serial.hpp` | none of its own; the UART's registers | `init_115200`, `write_char` | 16550 UART (external) |
| kernel image | `kernel/ld.ld`, `pad_kernel_raw.py`, `gen_kernel_blob.py`, copy loop of `efi_main.cpp` | the raw image | read the program headers, pad to the end of `.bss`, make the blob, copy it into pages | linker and objcopy (external), loader |
| FAT16 image | `make_fat16_image.py` | geometry, both FATs, data sectors | size the FAT, write directories and file | firmware (external), which reads the image |
| labs | `src-c/*/*/main.cpp` | a structure each (channel, pipe, slot table, coroutine handle, ranges, tasks) | that structure's | none |

What is hard about it:

* the firmware changes the memory map by itself between the loader's calls, and
  the loader ignores every status; after a refused exit it goes on under the
  kernel;
* the page allocator takes memory from three places that may overlap each other
  and live memory: the map's own buffer, a guessed headroom behind it, and
  conventional ranges read from the map;
* page tables are changed while they are walked, and the touch test writes into
  the root of the tables in use;
* timers tick at any time, also between a test and the `hlt` it guards, with
  requests left over from the firmware and from the previous stage;
* each stub has to undo a frame whose shape depends on the vector, at any stack
  alignment;
* the kernel re-initialises a UART that is still sending;
* the size of the FAT depends on the clusters left for data, which depend on
  the size of the FAT;
* the labs' structures rely on protocols of their callers, and compute in
  `size_t`.

For each part, what makes it correct: the loader passes on memory it was given
and a map that is current; the allocator hands out each page once, only pages
that are the kernel's to take, and gives up only when none is left; Stage 1 activates exactly the
mapping that the later stages use; no interrupt finds the kernel unprepared,
handlers do not nest, stubs are invisible to what they interrupt, and the
output is the documented transcript; the UART sends what was written, in order;
the bytes of the ELF file arrive at their places in memory; a lab's structure
is what the book says it is. `PROJECT.json` lists the hazards at their lines
("hazards") with the properties that speak about them.

## Modules

| module | models | checked by |
|---|---|---|
| `Stage1Paging` (`MCStage1Paging`: the boot records) | Stage 1, one action per iteration or step | `stage1`, `stage1_touch`, tlapm |
| `AddressSpace` | what Stage 1 promises: a map grown entry by entry and activated when complete | implemented by `Stage1Paging` |
| `Stage1PagingProofs` | theorems about the allocator, the tables and the refinement, with the lemmas on table walks | tlapm |
| `UefiHandover` (`MCUefiHandover`), `UefiHandoverProofs` | the loader and the firmware | `chain`, `handover_fill`, tlapm |
| `BootChain` (`MCBootChain`), `BootChainProofs` | loader, firmware and Stage 1 composed over the jump | `chain`, `chain_interrupt`, tlapm |
| `KernelStages`, `KernelStagesProofs` | `kernel_entry`, dispatchers, processor and timers | `stages`, tlapm |
| `BootTranscript` | what Stages 1-5 print: the lines of `src-os/README.md`, once, in order | implemented by `KernelStages` |
| `InterruptFrames` (`MCInterruptFrames`), `InterruptFramesProofs` | the four stubs, instruction by instruction | `frames`, tlapm |
| `SerialPort`, `SerialPortProofs` | serial driver and UART | `serial`, `serial_tail`, tlapm |
| `KernelImage` | ELF headers, padding, blob, copy into pages | `image` |
| `FatImage` | size iteration, FATs, directories, file | `image` |
| `BootImage` (`MCBootImage`), `BootImageProofs` | the two composed: from the ELF file to the kernel in memory | `image`, tlapm |
| `Channel`, `Pipe`, `Domain`, `SpaceMap` | the labs 09/02, 09/01, 08/01, 08/02 | `labs`, `channel_pop` |
| `TaskChoice`, `CoroutineTask` | the labs 07/01 and 02/02 | `labs` |
| `BoundedQueue` | a bounded FIFO queue | implemented by `Pipe` |
| `Labs` (`MCLabs`), `LabsProofs` | the labs side by side; a behaviour runs one of them | `labs`, tlapm |

### Stage1Paging

Addresses are counted in pages, a table has `Radix` entries, and an address
space has `Radix^4` pages; `UPPER_HALF` is the middle of it, which is what the
index computation makes of `0xffff800000000000`. `mem` holds, for every page of
memory, the entries it would be as a table; what nobody cleared reads as
present entries (`Junk`). `pc` follows `kernel_entry`:

| code | action |
|---|---|
| size check, code A | `RejectMap`, `AcceptMap` |
| descriptor loop, end of the loop and headroom | `ScanDescriptor`, `EndScan` |
| `allocPage`, first loop | `ScratchSkip`, `ScratchTake` |
| `allocPage`, nested loops | `FallbackSkip`, `FallbackTake`, `FallbackNextRange` |
| `return 0` and what callers do with it | `NothingLeft`, `OutOfPages` |
| root table, tables of `mapPageDual` | `LinkRoot`, `StartRequest`, `Descend`, `NeedTable`, `LinkTable`, `SetPte` |
| CR3 and touch test | `SwitchCr3`, `TouchLoad`, `TouchFlip`, `TouchRestore` |

The mapping calls are the list `Work` of the boot record. A boot record has the
parameters of `kernel_entry` and the descriptors; `BootOK` says what the
firmware guarantees about them: regions and descriptors lie in memory, in the
lower half of the address space, descriptors do not overlap, and a buffer with
descriptors in it has pages. It does not say that buffer, kernel and stack are
disjoint or that the buffer has a descriptor of its own. The write flag of
entries is left out, as it is always set. The word test writes has its present
bit flipped by the constant 0xa5..., and its address garbled (`Flip`).

`AddressSpace` knows nothing of tables: it is a function from virtual to
physical pages, extended by one request at a time, and activated when all are
there. The refinement mapping reads the translation out of `mem` by walking the
tables from `pml4Phys`, with the touched word put back while the test has it.

### UefiHandover and BootChain

`memType` gives each page a type; the map is one descriptor per run of pages of
one type; the key counts changes. `FirmwareEvent` changes a page's type at any
time until boot services end. `getMemoryMap` with too small a size reports the
size and leaves the buffer alone, and may or may not report the key. The
contents of memory are not modelled: `CopyKernel` is the place where the blob is
copied, to page 0 when the allocation failed.

`BootChain` extends it: `EnterKernel` is the jump, and makes a boot record of
the six parameters and of what is in the buffer (arbitrary descriptors,
`Garbage`, when nobody filled it); `KernelStep` is Stage 1's `Next` on that
record; `LoaderStep` is the loader's, with allocations at the edge of a free
run, as the firmware's allocator makes them. After a refused exit
`FirmwareStep` and `FirmwareInterrupt` go on: the firmware changes its map, and
may interrupt a kernel whose tables no longer map its handlers.

### KernelStages and InterruptFrames

`kernel_entry` and the dispatchers are straight-line programs of operations
(`Stage1Ops` ... `Stage5Ops`); an action executes the operation at the top of
the context stack `ctx`. A marker line is two steps, so that an interrupt could
split it. `Take` is what the processor does with a vector: without GDT, IDT or
gate it ends in a triple fault (`crashed`), otherwise it pushes a context and
clears IF for an interrupt gate. The PIC may hold a request of the firmware's
PIT from the start, at the firmware's vector (8), until it is remapped. A tick
while the last is still requested is lost, as on the devices. Interrupts are off
at the start. UEFI does not promise that (the first `cli` is `init.cpp:1202`);
what may happen when they are on is the subject of `chain_interrupt`.

What `KernelStages` takes for granted, that a stub returns to exactly where it
came from, is the subject of `InterruptFrames`. It has a stack of words, the
registers by name, and the kernel computing, pushing and popping, interrupted
anywhere. The processor's frame, the pushes, the alignment, the call with its
arguments, the pops in the reverse order, the error code dropped, the saved SS
patched and `iretq` are an action each. Dispatchers leave `Junk` in the
registers they may clobber and in the words below the stack pointer.

### SerialPort

The two boots' worth of port writes, `init_115200` and characters of the loader
and then of the kernel, are one program; the UART empties its FIFO at its own
pace. Ports 0 and 1 mean divisor or data depending on DLAB.

### KernelImage, FatImage, BootImage

`KernelImage` starts from a list of program headers; `Objcopy` (external) is
the span of the segments with file content, from the lowest of them (`Base`);
`Pad` lengthens it to the highest end of a segment in memory, `.bss` included,
counted from 0, so that the result is right for kernels linked at 0
(`LinkedAtZero`), as `ld.ld` links them; `CopyByte` puts the blob into the pages the
loader allocated, whose other bytes are arbitrary. `FatImage` is the size
iteration, one action a round, with its limit of tries and what happens when it
does not settle, and then both FATs, the two directories, the cluster chain and
the file. `BootImage` composes them: the linked loader holds the blob, the
image holds the loader, the firmware reads it back through the FAT (external:
`Readable` follows directories and chain), and the loader runs.

### Labs

`Channel` counts bytes, capabilities and messages in `size_t` (`SizeMod`); `send`
refuses or adds, `recv` gives back two bytes and one capability whatever the
message took. The queue of messages is history: the code keeps none. `Pipe` is
`poll`, and `write` and `read` that test nothing; its users (external), a reader
and a writer, each act once on what their last `poll` reported. `Domain` is a table of slots filled once
each. `SpaceMap` is align, compare and decide, in wrapping arithmetic.
`TaskChoice` is the loop of `chooseNext`, one step per task. `CoroutineTask`
has any number of `task` objects over coroutine frames: construction, move,
`run`, destruction; a frame is suspended at its start or its end, destroyed,
or `broken`, which stands for what C++ leaves undefined. `run` tests nothing; its
caller (external: `RunOnce`) runs a task that holds a frame, once. `Labs`
instantiates the first four and extends the other two; its variable `lab` says
which one the behaviour runs.

## Runs

| run | distinct states | shows |
|---|---|---|
| `stage1` | 9194 | Over ample, tight and undetected buffers, with kernel, stack and buffer in every order, Stage 1 hands out each page once (`AllocFresh`), never a live one (`AllocSparesLive`), only pages of the buffer's descriptor or conventional ones where it found that descriptor (`OwnMemory`), fails only when nothing is left (`FailOnlyWhenExhausted`), ends (`Stops`), and implements `AddressSpace` (`BuildsAddressSpace`). `AllocInv` is the invariant of the proofs. |
| `stages` | 1355 | For every timing of the ticks: no triple fault, no nesting, ticks handled only in the loop that awaits them, every delivered interrupt acknowledged, the transcript exact and complete (`PrintsTranscript`), the final halt reached (`Finishes`). |
| `serial` | 119 | No overrun, no divisor byte sent as a character, one divisor for all characters, everything sent except possibly the loader's last character (`OnlyLoaderTailLost`, a liveness property). |
| `frames` | 258774 | Wherever an exception or a timer interrupts the kernel, and at either alignment of its stack: what it sees afterwards is what it had (`ContextRestored`), its part of the stack is not written (`StackSpared`), and the page-fault dispatcher gets the frame of the fault (`FaultFramePassed`). |
| `chain` | 231648 | Whatever the firmware does in between: the map in the buffer is current after an accepted exit (`MapCurrentAfterExit`); the kernel's scan stays inside the buffer (`ScanStaysInBuffer`); the record the loader passes is one Stage 1 is proved for (`RecordMeetsAssumption`); the tables are built in memory that is free when the firmware has left (`TablesAreFree`); the loader's extra pages suffice (`ExtraPagesSuffice`); without a buffer there are no tables (`NoBufferNoTables`); the chain ends. |
| `image` | 172977 | For every kernel linked at 0 and every total on which the size iteration settles: each byte of each segment, and zeroes for `.bss`, arrive at their addresses (`KernelArrives`), the image can be read through either FAT (`ReadableWhenSettled`), and what is refused does not fit (`RefusedWithReason`). |
| `labs` | 91203 | `chooseNext` chooses the earliest of the tasks that are due; no coroutine frame leaks, is destroyed twice or, by callers that run a task once, resumed after its end; a capability names one object for ever; a request that starts at a page is refused exactly when it reaches into a mapped page; a channel whose messages are no smaller than what `recv` gives back for them never holds more than its capacities; a polled pipe is a bounded queue, and is read as long as there are bytes. |

Runs that end in a violation, because the code does not do what its comments or
documents say (details under "findings" in `PROJECT.json`):

| run | statement | what the code does |
|---|---|---|
| `stage1_touch` | tables in use are not overwritten (`init.cpp:998-999`) | the touch test writes entry 0 of the root table, since the first page of the buffer is the first page handed out |
| `handover_fill` | the second `getMemoryMap` fills the buffer (OS-2 study, 150) | it passes the size from before the allocations |
| `serial_tail` | all output arrives (`src-os/README.md`, Expected output) | the kernel clears a FIFO with the loader's last character in it |
| `chain_interrupt` | after a refused `ExitBootServices` the kernel is not reached (OS-2 study, 175) | the status is ignored, and `cli` comes only in Stage 2: a firmware interrupt can come after the CR3 switch |
| `channel_pop` | `recv` knows how much to pop (lab 09/02, 8) | it pops two bytes and one capability of any message; the counters wrap below 0 |

Each property of a passing run comes with a mutant of the code ("mutants" in
`PROJECT.json`; the mutated definition stands next to the original) that
violates it.

### Bounds

* `stage1`: tables of 4 entries (256 virtual pages), 64 physical page numbers of
  which 1..40 are memory, kernel and stack of 2 pages, the APIC at page 60: the
  mappings share tables at every level and need up to about 20 tables. 3 ranges
  and 6 descriptors are kept, so that both limits of the scan are hit. The
  buffers are ample (24 pages), tight (3 or 5, with much or little conventional
  memory behind them, so that codes B to E occur) or not found by the scan, in
  which case the headroom (30 pages) runs into the kernel, the stack or a range.
  No memory starts at page 0.
* `stages`: no bound but the counters, which stop at 4 (`CountBound`): the code
  only compares them with 3.
* `handover_fill`: 12 pages, one held by the firmware, no event.
* `serial`: FIFO of 2 and 5 characters for each side, so that an overrun and a
  cleared FIFO can happen.
* `frames`: a stack of 26 words, so that the pointer of the interrupted kernel
  is even and odd; two places in the kernel's code; one register file with a
  different value in every register, so that a swap shows, and a second one.
* `chain`: 30 pages of memory, of which the firmware keeps page 3 and event
  handlers take and free pages 1, 3, 4, 9, 16, 28 and 30 (both ends, beside what
  the loader allocates and inside the free memory), three times (`MaxEvents`):
  the map grows and shrinks by several descriptors between any two calls,
  allocations fail, exits are refused. 23 extra pages in the buffer and 2
  descriptors per page, which is also what the proof about the scan needs
  (`GrowthBound`); tables of 4 entries, the APIC at page 77. The
  headroom of 46 pages is twice the extra pages, as in the code (256 and 128).
  The firmware allocates at an edge of its free memory (`AtEdge`). An unfilled
  buffer reads as descriptors of no use or as one range over all memory
  (`Garbage`).
* `image`: 14 to 60 sectors, 8 entries per FAT sector, blocks of 2 bytes, pages
  of 4; kernels of up to two segments; loaders from one block to more than fits;
  `ClusterLimit` is 40, so that all three refusals occur. Some totals (not the
  code's) alternate between two FAT sizes until the tool's limit of tries:
  "settled" leaves these out. With the code's own numbers, 32768 sectors and 256
  entries per FAT sector, the iteration goes 1, 128, 127, 127.
* `labs`: three tasks and a clock of two bits; three objects and frames; sizes
  of five bits, pages of four bytes, up to two ranges; channels of up to nine
  bytes, three capabilities and three messages; pipes of up to four bytes;
  domains of up to four slots. Messages of the passing run have two or three
  bytes and one or two capabilities, in `channel_pop` also less. Requests start
  and end anywhere; `SpaceDecisionRight` speaks of those that start at a page.
  Both users of the pipe poll before they act; the lab's main writes
  twice without polling, into a pipe of capacity four.

### Fairness

`Stage1Paging` and the loader are sequential: weak fairness of the next step.
In `BootChain` loader, jump and kernel go on (weak). In `KernelStages` the
processor keeps executing and takes pending interrupts (weak), timers keep
ticking (weak), and `kernel_entry` itself gets on (strong fairness of
`MainStep`): periods of 10 ms, and of 0x80000 timer counts, are longer than a
handler, so the processor cannot be caught in handlers for ever. In
`SerialPort` driver and UART both go on. In `Pipe` each user polls again and
again and the reader reads what it saw; nobody has to write. Firmware events
and firmware interrupts have no fairness, and `InterruptFrames`, `BootImage`
and the other labs are checked for safety only.

## Proofs

Everything below is proved by TLAPS for every value of the constants that
satisfies the named assumptions, which TLC evaluates on the runs' instances.

**Allocator** (`Stage1PagingProofs`; `RadixAssumption`, `FramesAssumption`,
`LimitsAssumption`, `BootsAssumption`): `TypeCorrect`, `NoDoubleAllocation`
(`AllocFresh`), `LiveMemorySpared` (`AllocSparesLive`), `Safety` (`AllocInv`).
`AllocFresh` is not inductive: that the next page was not handed out before
follows only from where the cursors are. `AllocInv` adds that every page handed
out lies in the pool behind `scratchNext` or in a range behind the fallback
cursor (`Handed`), that the fallback is not begun while pages of the pool are
left (`ScratchFirst`), that the cursor is inside its range (`CursorInRange`),
and that ranges are disjoint because the descriptors they were read from are
(`RangesRead`, `RangesApart`). A page of the pool is then fresh because it is
behind neither cursor; a page of a range because `pageOverlapsReserved`
excludes the pool and the ranges are disjoint.

`GivesUpLate` is the converse: when `allocPage` gives up, nothing was left. Its
invariant `ExhaustInv` says that all pages behind a cursor are in use. It needs
the hypothesis `PageZeroReserved`, that no conventional descriptor holds page
0: the code takes page 0 for "no page".

`TablesInOwnMemory` is `OwnMemory`: wherever the kernel found its buffer
(`BufferFound`: a descriptor of loader data, read by the scan, holds the buffer
and does not end with it, which is how `init.cpp:972` tells), tables are made in
that descriptor's memory or in conventional memory. `OwnInv` follows the scan:
the ranges kept are conventional descriptors and the pool ends where the
buffer's descriptor does. Without `BufferFound` the headroom is a guess that
nothing makes right, and the statement is false of some memory maps (see the
end of "Not modelled").

**Tables and refinement** (the same module and assumptions): `TablesSafe`
(`TablesInv`) and `Refines`, `Spec => BuildsAddressSpace`. The difficulty is
that setting an entry could change the translation of other addresses, if two
paths led to one table. `TablesInv` has
four parts. `TreeInv`: the tables linked so far form a tree, each reached at one
level by one prefix of indices, so an entry lies on the path of its own
addresses only; and the first `k` requests, and nothing else, are mapped.
`PathInv`: the walk in progress stands at the table its indices lead to.
`RootInv` ties root and CR3 to the phases of the code. `FirstInv`: the first
page of the buffer is the root table or none at all, so that what the touch
test garbles is entry 0 of the root, and the tree is stated of memory with that
word put back (`Back`). A page that is linked as a table is fresh by
`AllocInv`, which is where the tree comes from. The lemmas in front of it
are about index arithmetic (division by powers of the
radix), the requests of `Work`, and walks through changed memory.

**Loader** (`UefiHandoverProofs`; `HandoverAssumption`): `HandoverTypes`,
`MapIsCurrent` (`MapCurrentAfterExit`), for any memory, fragmentation and number
of events. `HandoverInv` is the types, the
order of the calls (`Progress`), that a buffer filled under the current key
holds the current map (`KeyInv`), and that what was allocated keeps its type
(`RegionInv`), which events leave alone. `ScanIsBounded` (`ScanStaysInBuffer`)
counts descriptors: a descriptor is the start of a run of pages of one type, so
a change to a stretch of memory adds at most two, and the map the kernel scans
has at most two more for the buffer and two for each event than the size the
buffer was measured by (`GrowthInv`). That fits while `GrowthBound` holds; the
code's 128 extra pages cover more than five thousand events.

**Boot chain** (`BootChainProofs`; `ChainAssumption` and
`HandoverAssumption`): what the theorems about Stage 1 assume of a boot record
is what the loader passes. `ChainSafe` carries the loader's invariant over the
jump, with the record as a function of the loader's variables and of what is in
the buffer. `RecordIsProvedFor` (`RecordMeetsAssumption`) then is a fact about
maximal runs: descriptors are in memory and apart, the buffer's run is loader
data. `TablesInFreeMemory` (`TablesAreFree`) follows scan and allocator against
the final map (`Pool`): the ranges kept are free pages, the pool ends with the
run the buffer lies in (`BufferRun`), of which all but the buffer is the
loader's stack, which `allocPage` spares. The hypothesis
`ScanComplete` says that the scan was not cut short, in the code by 64 ranges
or 64 pages of descriptors (`init.cpp:949`); a scan that did not reach the buffer's
descriptor adds a headroom of 256 pages to a buffer with 128 extra ones.
`PagesSuffice` (`ExtraPagesSuffice`) counts tables: at most three for a request
and one root (`TableCount`), while the pool has the extra pages. `TablesFit`
says that they are enough; with 128 extra pages and a stack of 4 it holds for
kernels of up to 15 pages. `NoBufferStops` (`NoBufferNoTables`): without a
buffer the first page handed out is page 0, which the caller takes for failure.

**Stages 2 to 5** (`KernelStagesProofs`; the module has no constants, but
proofs are for behaviours and say why, which TLC's search does not). `MachineInv`
(`MachineSafe`) is stated by position: `kernel_entry` is 55 operations, and the
position alone tells whether interrupts are on (`FlagInv`), which gates, IDT
and GDT are in place (`GateInv`), what PIC and APIC may have requested or in
service (`DeviceInv`) and, at the edges of the loops, what the counters are
(`CountInv`); a handler interrupts only the positions of `Interrupts`. From it:
`NeverTripleFaults`, `NeverNests`, `TicksAwaited`, `EoiForEveryInterrupt`, and
`StagesTypes`. `LogSafe` adds the serial line: the number of lines written is a
function of position and counters (`LinesAt`), less what a handler still owes
(`Pending`), so that the length of the log is twice that plus a half line
(`LogInv`). So each write is the next of the transcript (`PrintsInOrder`: the
safety part of the refinement of `BootTranscript`), and at the final halt the
log is all of it (`HaltsComplete`: what `Finishes` says, without the eventually).

**Stubs** (`InterruptFramesProofs`; `FramesAssumption`):
`InterruptsAreInvisible`, `StackOfKernelSpared`, `FaultFrameIsPassed`, for every
stack, code and register contents. `FramesInv` follows the stub: the words of
the processor's frame stay what they were (`FrameHeld`), and after `n` pushes
the saved registers lie below it in order while the others are untouched
(`Progress`).

**Serial driver** (`SerialPortProofs`; `SerialAssumption`): `SerialTypes`,
`SerialKeeps` (`NothingLostInTransit`), `SerialDivisor` (`OneDivisor`), for any
number of characters and any FIFO depth. `LineInv` adds that a character is
written only into an empty FIFO (`Polled`), that DLAB is set exactly while the
program is between its two writes of LCR (`Latched`), that characters leave in
writing order (`Ordered`), and which may be missing (`Kept`).

**Image tools** (`BootImageProofs`; `BootImageAssumption`, `FatAssumption`):
`ImageSafe` (`BootInv`), for every list of program headers, every total and
every size of sector, FAT and cluster. `KernelInv` follows the padding (the end
is the highest of the segments scanned) and the copy; `ImageInv` the sizes (in
every round they are `FatFor` and `DataSectors` of one another), the chain
entered so far in every FAT, which keeps its length as long as the file fits,
and the blocks written. `ImageCanBeRead` (`ReadableWhenSettled`) and
`KernelIsComplete` (`KernelArrives`, for kernels linked at 0) are about sizes that settled;
`RefusalsHaveReason` (`RefusedWithReason`) about every run of the tools.
`CodeImageComplete` fixes only the numbers of `make_fat16_image.py`
(`CodeSizes`: 32768 sectors, 256 entries in a FAT sector, 4 root sectors) and
follows the rounds 1, 128, 127, 127 (`RoundsInv`), so that the image is
readable, and complete for every kernel linked at 0, without the proviso that
the sizes settle.

**Labs** (`LabsProofs`; `LabsAssumption`, `TaskChoiceAssumption`,
`NoFrameAssumption`). `LoopCorrect` and `ChoosesEarliest`: the loop keeps the
best of the tasks seen (`LoopInv`). `FramesOwned` (`FramesSound`), from
`OwnerInv`: live objects hold handles of live frames, no two objects the same,
and every live frame is held. `CapabilitiesKept`: the table is a function of
what was issued (`DomainInv`). `SpaceDecided` (`SpaceDecisionRight`): after
`compared` ranges `ok` says that none of them overlaps the aligned request
(`SpaceInv`), and whole pages overlap exactly when the request as it was asked
for, which starts at a page, reaches into a page of the range (`PageFacts`,
`SharedIsPageShared`). `PipeImplementsQueue` is a refinement of `BoundedQueue`,
because what a user saw stays true until it acts (`PipeInv`).
`ChannelWithinCapacity` (`ChannelNeverOverfull`): what the messages in the queue
take together is at most what the counters say (`ChannelInv`), because `recv`
gives back no more than the message took. Its hypothesis `NothingWraps` leaves
out messages smaller than that and those that make a counter wrap in `send`;
`channel_pop` shows what becomes of the former.

Where a proof needs induction over a number, it takes the least counterexample
(`LeastNat`); where a recursive function is to be unfolded, it proves that the
function exists.

Only model-checked:

* liveness (`Stops`, `Finishes`, `OnlyLoaderTailLost`, `ChainEnds`,
  `PipeReadGoesOn`, the progress part of `PrintsTranscript`), which is out of
  the prover's reach.

Neither proved nor checked: the chain after a scan that was cut short
(`ScanComplete` holds throughout `chain`; of Stage 1 alone, `stage1` has such
scans), and memory that begins at page 0, which
`allocPage` cannot tell from "no page" (`init.cpp:1036`).

## Not modelled

* Kernel: where the probe page lies relative to kernel and stack
  (`init.cpp:21`); spurious interrupts (vectors 39 and 255, `init.cpp:1246`);
  page faults other than the probe; addresses inside the image (`kLinear`,
  `idtTable`); the bit layout of gates and descriptors; conventional ranges
  with page 0 in them; what the processor keeps in its TLB (`LiveCodeMapped`
  speaks about the tables in memory).
* Stubs: vector registers, and the red zone: `kernel/Makefile` (22-28) compiles
  with `-O2` and without `-mno-red-zone`, so the compiler may keep words below
  the stack pointer, which a processor's frame would overwrite. `InterruptFrames`
  takes those words to be free.
* Image: the fields of the boot sector and file names, the text of the blob,
  the parsing of the ELF header; build scripts.
* Labs without state, whose programs are pure functions or a straight line of
  calls and prints: results and early return (01, which does not compile),
  concepts (02/01), panic handler (03), interrupt dispatch (04), syscall
  dispatch (05), segment load (06), context save and load (07/02), `ensure` of
  08/01, opstart decision (10), init mapping (11), user entry (12).

Noticed while reading, and not the subject of a run: the processor aligns the
stack before it pushes a frame, so the three stubs without an error code call
their dispatcher eight bytes off the alignment the ABI asks for (the OS-5 study,
line 300, says `subq $8` aligns it); divisor 16 gives 7200 baud under the name
`init_115200`; a full `Domain` returns the capability that means "none", and an
object whose id is 0 looks like an empty slot; the coroutine lab's `run` resumes
a null handle or a finished frame without a test, and a pipe's `write` and
`read` count on callers that polled; a kernel linked elsewhere than at 0 would
be padded from the wrong address. And where code and documents differ in what
no property states:

* when the scan stops before the buffer's descriptor (after `MAX_RANGES`
  conventional ones), the pool reaches 256 pages behind the filled part of the
  buffer, which has 128 extra ones (`init.cpp:975`): tables may be made in pages
  of the firmware, although the comment says "from the memory-map buffer itself"
  (`init.cpp:966`);
* when the kernel's pages cannot be allocated, the blob is copied to page 0, not
  "into allocated memory" (`efi_main.cpp:183`);
* `chooseNext` returns task 0 when no runnable task is due by `now + 1`, whatever
  its state (lab 07/01, `main.cpp:17`; the text, line 14, keeps blocked tasks out);
* `send` adds to a counter before it compares (lab 09/02, `main.cpp:16`), so a
  message of nearly 2^64 bytes would fit;
* a request that does not start at a page is moved up before it is compared
  (lab 08/02, `main.cpp:23`), and a range that ends at the top of the addresses
  ends at 0 for the comparison (`main.cpp:14`): both are accepted over mapped
  ranges, which the text (line 7) rejects.

## Plan

What would come next, in this order:

1. `KernelStages` over the stubs: replacing its return from a handler by the
   one of `InterruptFrames`, with an error code and a stack.
2. Spurious interrupts and IRQ 7 and 15 of the PIC, for which the kernel has no
   gates.
3. `BootChain` with more conventional ranges than `MAX_RANGES`, where the scan
   is cut short, and with memory at page 0.
