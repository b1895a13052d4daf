# CORE-V MCU in TLA+

TLA+ models of the parts of the CORE-V MCU where control is hardest to test: the
event path from a peripheral to an interrupt handler and the FIFOs under it, the
receive side of the uDMA, the boot ROM with its two serial loaders, and the flash
loader that it shares with the older boot code. TLC checks each model on a small instance;
TLAPS proves the most important results for every value of the constants.

## 1. The system

| Part | State it keeps | Operations | Talks to |
|---|---|---|---|
| Event generator (`soc_event_generator.sv`, `soc_event_queue.sv`) | a 2-bit counter per source, masks of three channels, error bits, software events, a 4-entry FIFO, the last event ID | event lines, arbitration, channel handshakes, APB accesses, core acknowledge | uDMA, cluster, FC interrupt 11, APB |
| Event arbiter (`soc_event_arbiter.sv`) | one-hot priority | grant, rotate on acknowledge | event generator |
| Event FIFO (`generic_fifo.sv`) | EMPTY/MIDDLE/FULL, two pointers, registers | push, pop, both | event generator |
| FC subsystem (`fc_subsystem.sv`) | 32 interrupt bits | latch, acknowledge | event generator, timers, GPIO, core |
| I2C slave (`apb_i2cs`) | message registers with status bits, two 256-byte FIFOs, interrupt enables, I2C state machine | APB and I2C register accesses | boot ROM, I2C host |
| Boot ROM (`a2_boot`) | loader flags, S-record machine, I2C frame buffer | poll UART, poll I2C, call for a download, copy, jump | UART 0, I2C slave, QSPI, SoC controller |
| Flash loader (`main.c`, `spi.c`, `boot_code.c`) | header, area table, place of its own data, interrupt controller | find a place, load sections, wait for the channel, jump | QSPI over uDMA |
| uDMA receive side (`udma_rx_channels.sv`, `udma_ch_addrgen.sv`) | per channel: counter, address, enable, pending; grant stage, priority, L2 FIFO | enqueue, clear, sample a datum, push to L2, raise an event | L2, peripherals, APB, event generator |
| Other uDMA parts (`rtl/udma`) | transmit channels, streams, protocol engines, dual-clock FIFOs | configure, transfer, events | L2, pads, event generator |
| SoC controller (`apb_soc_ctrl.sv`) | pads, watchdog, reset reason, JTAG register, ready timeout | APB accesses, watchdog expiry | everything |
| Timers, GPIO, FLL interface | counters, compare values, interrupt bits | APB accesses, clock edges | FC, event generator |
| Interconnects | pending requests, arbitration | route, respond, time out | all masters and slaves |

What is hard here, and where: two one-cycle-late copies of the FIFO's level on the
way to the core; a channel that stalls while another has already accepted the event;
error bits that software clears while hardware sets them; FIFOs whose flags are
registers of their own; two loaders that silence each other; a host that writes the
message register between two reads of it; blocking sends over a four-entry receive
FIFO; corrupted characters that change the length of a record; unsigned differences
that wrap; a loader that must not load over itself; an event that is taken for the
end of the wrong transfer; a transfer enqueued in the cycle in which its predecessor
ends; a register that all channels share. `PROJECT.json` lists each hazard at its line,
with the properties that would catch it.

## 2. Modules

| Module | Models | Correspondence |
|---|---|---|
| `BoundedFifo` | the promise of a FIFO | one step is one cycle with a push and a pop request |
| `GenericFifo` | `generic_fifo.sv` | `Clock` is one edge; `InEmpty`, `InMiddle`, `InFull` are the cases of the next-state block |
| `I2csFifo` | `FIFO_sync_256x8.v`, its RAM, the flush | one operator per register, all of them in `BytesClock`; `Reset` is the asynchronous flush |
| `EventArbiter` | `soc_event_arbiter.sv`, combinational part | the prefix network level by level, bit vectors as sets |
| `ArbiterUnit` | `soc_event_arbiter.sv` with its priority register | one step is one clock edge, for any number of lines |
| `SocEventGenerator` | event generator, queues, interrupt 11, the core's view of it | one `Tick` is one edge of HCLK; combinational signals are operators with the signals' names |
| `BootState` | flags, memory and jump shared by the loaders | `loaded` is the set of `memcpy` calls |
| `UartLoader` | `uartProtocol.c`, `atoh`, polling reads | one action per state of the machine, one character per call |
| `I2cLoader` | `I2CProtocol.c` and the mailbox registers | one action per register access |
| `A2Boot` | `main` with both loaders, the download script, an I2C host, a debugger | one action per part of the polling loop |
| `SRecordFiles` | what the theorems of `A2BootProofs` assume of the image, the frames and the errors | hypotheses, not code; `MC_A2Boot` has TLC evaluate them on the image and the frames of `a2_boot` |
| `Crc` | `crc.c` | `crcFast` and `crcSlow`; a byte and a remainder are the sets of their bit positions, so xor is the symmetric difference |
| `CrcUnit` | use of `crc.c` | a message growing byte by byte beside the noise it picks up, and what the CRC promises about both |
| `FlashLoader` | `load_section` to `bootFromRom` of `main.c` and `boot_code.c`, `udma_flash_read` | one action per loop body; memory byte by byte |
| `FlashBoot` | both ROMs around the loader: boot mode, JTAG boot, interrupt controller, waits | one action per function of `boot_code.c`, the loop of a wait in steps |
| `TransferQueue` | the promise of a uDMA channel | one step is one cycle: at most one datum moves, any channel may be given a transfer |
| `UdmaRx` | address generators, arbiter, grant stage, L2 FIFO, channel registers, APB phases, the HAL's `plp_udma_*` | one `Next` is one clock edge; combinational blocks are operators with the blocks' names |
| `MC_Units`, `MC_SocEvents`, `MC_A2Boot`, `MC_FlashBoot`, `MC_UdmaRx` | instances for TLC | `MC_Units` puts the FIFOs, the arbiter and the CRC side by side |
| `CommonLemmas`, `FifoProofs`, `CrcProofs`, `ArbiterProofs`, `SocEventProofs`, `A2BootProofs`, `FlashBootProofs`, `UdmaRxProofs` | theorems | |

`SocEventGenerator` uses `BoundedFifo` in the place of its FIFO. This is justified by
the theorems `Refinement` and `CycleForCycle` of `FifoProofs`. Variables that are not in
the code are histories: `log` in the event generator (arrivals, losses, pops, events owed to the
core, events taken without being popped, and which losses no read has returned yet or
happened in the cycle of a read), `hit` in the boot model (the lines that noise has
hit), `loaded` and `entry` in the boot model,
`loaded` in `FlashBoot` (the debugger has put its program into memory), and `wr` in
`UdmaRx` (the entry the last edge pushed into the L2 FIFO).

External code modelled from its use: the core (takes interrupt 11 when it runs and
its registered request is set, and stays in the handler for at least `HANDLER_MIN`
cycles), noise on the UART line, and the I2C host. The host follows the messages of
`I2CProtocol.h`: ready check, frames with a doorbell, one acknowledge per frame,
retry of a refused frame. No document describes the host without CRCs; the model's
host waits for an empty FIFO, and the properties leave that mode out.

Abstractions of data: an I2C frame is three words (header, payload, CRC), and its CRC
is taken to detect every corruption; what the real CRC detects, every burst of up to 16
bits, is checked in `units` and proved for messages of any length in `CrcProofs`.
S-record characters are the hex digits, `S` and
the line end; the checksum is computed as the code does, with its widths. Noise inverts
bits of digits; the `S` and the line end always arrive. Which digits it may hit is the
constant `HitFields`: the type digit, the two of the count, or those of the address, the
data and the checksum. The distinction is in the code: the type digit
(`uartProtocol.c:72`) is in no checksum, so one inverted bit can turn an S3 record into
an S1 record, whose bytes are stored at another address and answered with OK. What is
claimed of a record that was hit therefore depends on `HitFields`: it stays out of memory
(`LoadedFromOneHost`, without the type digit), or it stays alone (`DamageIsConfined`,
whatever is hit). Text on the debug UART is only time.

In `FlashLoader` a byte of memory is the flash address it was loaded from, so
"the image is in place" is a statement about every byte. The loader's own fields are
not in that memory: `Live` is the set of addresses it depends on (header, table, stack
and block size behind `flashBuffer`; the SPI driver's static words for `a2_boot`; the
old stack until it is left), and a store into `Live`, a table read past its end or a
read of length 0 ends in `pc = "lost"`, after which anything may happen. The loader's
contract with whoever writes the flash is `WellFormed`: areas sorted and disjoint, at
most 16 of them, block counts that match the sizes, flash ranges the read command can
address, areas that lie in memory with their last word rounded up and miss the SPI
driver's static words, and room for the loader: behind every area, or before the first.
The code checks none of it; the properties that need it say so. `STATIC`, `Stack` and
`TOP` are functions of the ROM, because the two linker scripts differ: `a2_boot` has its
static memory at the end of L2, `boot_code` at the start.
One assumption is about time: the SPI master raises its end-of-transfer event when the
last bit is in, without waiting for the uDMA, and the model lets the event reach the
core after the last word has reached L2. `boot_code.c` relies on the same; `a2_boot`
polls the channel's counter instead and does not.

In `UdmaRx` the L2 FIFO is its fill level and the entry pushed last. The address width
is left out (a transfer that runs over the end of L2 is not modelled), the code's
`r_ch_en` is omitted because it implies `r_en` wherever it is used, and the continuous
bit is 0, as the HAL leaves it. Software is any interleaving of the HAL's accesses, one
APB access at a time and two cycles each, that looks at PENDING before it enqueues;
`CLEAR_BUSY` lets it clear a channel without looking.

## 3. What TLC checks

| Run | Bounds | Shows |
|---|---|---|
| `units` | event FIFO: depth 4, 3 values; I2C FIFO: the real depth of 256, one value; arbiter: 2 to 7 lines, all requests and acknowledges; CRC: messages of up to 3 bytes, any first byte, error patterns of 1 or 2 bits in each byte | both FIFOs keep their registers in step, the event FIFO implements `BoundedFifo`; the network is a round robin, any-grant is exact, nobody is starved; the table-driven CRC is the division and detects bursts |
| `events_delivery` | 4 lines, FIFO of 2, 4 arrivals, all APB accesses, three channels | conservation, delivery to the FC, no interrupt without an event; a loss stays visible until a read of an error register has returned it, unless it falls into the cycle of a read of its own register |
| `events_live` | FC channel, fair clock and core | queues and FIFO drain |
| `a2_boot` | 3 records, 3 frames, 1 error (not in a type digit), both ready checks, both bootsel values | loaders exclude each other; memory, acknowledge, jump; the boot ends |
| `boot_noise` | 3 records, one of which hides a shorter one; 2 errors in any digits, type and count included | the damage stays in the records that were hit |
| `flash_boot` | 64 bytes of L2 and 16 below it, blocks of 8, loader data of 12, at most 3 areas, 524 tables with both ROMs; all JTAG and bootsel values; 2 reference ticks | the loader's place is free, it survives, the image is complete, reads are complete, a JTAG boot runs what was loaded, the boot ends |
| `udma_rx` | a byte and a word channel, transfers of 0 and 2 bytes, an L2 FIFO of 2 | two-place queues, no datum without a transfer, every transfer ends |

Why the bounds are enough: the FIFO sizes cover both kinds of wrap and every
pointer distance; the I2C FIFO has its real size because its thresholds are
constants, and every combination of count and address is reached. With one data
value the run says nothing about the order of the bytes, so the refinement of the
queue is not a property of it: it is proved instead. Seven lines include powers of two and
all residues of the last two levels of the network. Four arrivals fill a queue
counter and the small FIFO at once, and the fourth can be lost in any cycle of a read of
either error register, before it or after it. In the boot model both downloads may start at
any point of each other, and a single error can hit the count, the address, the
data or the checksum of every record and every word of a frame. In `boot_noise` two
errors can hit one record or two, and its first record is made for it: with 6 for 14 as
its count it is a shorter record with the right checksum, and the rest of its line reads
on like a good record, so the loader must still skip to the next `S`. The flash tables
keep the proportions of the real map (the loader's data is one and a half blocks) and have
unaligned and empty areas, gaps that are just large enough or too small, areas below L2
that are copied through the buffer, areas over the static data, too many blocks, more
areas than the table holds, and all orders of two areas. A transfer of 2 bytes is more
than one datum for the byte channel and less than one for the word channel; with a
FIFO of 2 a stall can last through an enqueue, a grant and the end of a transfer.
The real FIFO has 4 places; the proofs are for every depth.

Deadlock is checked except in the boot runs, where the ROM is done after the jump
and a refused script waits for ever, an aborted boot sleeps and a lost loader is not
followed any further.

Fairness. In `events_live`, HCLK runs (`WF` on `Next`), and the core takes an
interrupt that stays pending and leaves its handlers (`WF` on `CoreAcks` and
`CoreReturns`): software that does neither has no events. In the boot model the ROM
runs, the wires carry what was sent, the script runs, an I2C host that has begun goes
on (it need not begin), and the ROM's 90000-round counter makes it call for a
download again and again while nobody has answered (`SF` on `CallsForDownload`,
which is enabled once per round of the loop and not in between). In `flash_boot` the
core and the channel keep running and the reference clock ticks; nothing is assumed of
a debugger, so the claim that the boot ends is about boots from flash. In `udma_rx` the
clock runs, L2 has room again and again, and every peripheral has data again and again;
the arbiter needs no fairness of its own.

### Disagreements the runs exhibit

| Run | Code | Document |
|---|---|---|
| `events_error_read` | an overflow in the cycle of a read of `ERR_*` is lost | `apb_event_cntrl.rst:292` |
| `events_taken_twice` | a channel that accepted an event is offered it again while another stalls | `apb_event_cntrl.rst:439` |
| `boot_count_record` | an S5 record hangs the UART loader | `emulation/quickstart/README.md:253` |
| `boot_no_flash` | `flash_present` is always 1 | header of `a2_boot/main.c` |
| `udma_clear` | clearing a channel leaves PENDING set, and the next transfer runs twice | `udma_qspim.rst:848`, `archi/udma/udma_v3.h:107` |

Noted while modelling, without a run of their own: an event that arrives at a full queue
in the cycle in which the queue is popped is kept, but its error bit is set all the same,
because `soc_event_queue.sv:29` looks only at the count; `main` reads the reset
reason twice, and the register is cleared by the first read, so the I2C host is never
told why the chip was reset; after NOT OK the script and the ROM wait for each other;
in the mode without CRCs a frame pushed while the ROM drains its predecessor is
merged with it and lost; a script slower than the ROM's 90000 rounds is called twice
and sends two lines; `boot_code.c` hangs on a boot mode it does not know (its comment
at line 396 can be read as promising the boot from ROM); `spi.c` clears a channel by a
read-modify-write that sets EN again if the channel is busy, and the clear bit of
`udma_v3.h` is bit 5 where the hardware has bit 6.

## 4. What TLAPS proves

Every theorem holds for all values of the constants that satisfy the named assumptions
below. A name in the last column in brackets is the property of a run that it states.

| Theorem | For every | Argument |
|---|---|---|
| `FifoProofs!Invariance` [`StateMatchesPointers`], `PointersTyped` [`TypeOK`] | depth, data | both together are inductive: the two pointers determine the state except when they are equal |
| `FifoProofs!Refinement` [`ImplementsQueue`] | depth, data | each case of the next-state block is a cycle of the queue under the mapping `Contents` |
| `FifoProofs!BytesInvariance`, `FlagsNeverDrift` [`FlagsMatchCount`], `AddressesNeverDrift` [`AddressesMatchCount`] | data | flags, full and empty are functions of the count, addresses differ by the count; together inductive |
| `FifoProofs!BytesRefinement` | data | `ImplementsByteQueue`, as above, with the flush as a second kind of step |
| `FifoProofs!CycleForCycle`, `BytesCycleForCycle` | as above | what both refinements rest on: FIFO and queue get the same inputs, show the same outputs and stay in corresponding states, cycle for cycle |
| `CrcProofs!FastIsDivision`, `CrcAlwaysDivides` [`CrcIsDivision`] | messages of any length | the table-driven CRC is the bitwise division: the division is linear, so a byte can be folded in by xor with the table's entry; the published check value is computed step by step |
| `CrcProofs!EveryBurstIsDetected`, `BurstsAlwaysDetected` [`BurstsAreDetected`] | messages of any length, noise | a changed stretch of at most 16 bits changes the CRC, see below |
| `ArbiterProofs!NetworkIsRoundRobin`, `AnyGrantSeesAll` | number of lines from 2 on, all requests | induction over the levels (`LevelMeaning`): after level i, p says that the 2^i predecessors of a line are idle, and g that the priority bit is reached over idle lines within 2^i positions |
| `ArbiterProofs!RoundRobinAlways` [`GrantIsRoundRobin`], `AnyGrantAlways` [`AnyGrantIsAnyRequest`] | the same, every cycle | the priority stays one-hot, because it becomes the rotated grant and the grant is at most one line |
| `ArbiterProofs!NoStarvation` [`PassedOverGetsCloser`] | the same | the winner lies between the priority and the line passed over, so the distance shrinks |
| `SocEventProofs!EventsConserved` [`Conservation`], `RegistersTyped` [`TypeOK`] | number of lines, registers, FIFO depth, inputs | inductive together, since an acknowledge only goes to a line whose counter is not zero |
| `SocEventProofs!HandshakeSound` [`AckMeansEvent`] | the same | `IrqInv` says how far `r_int11` and `irq_q` may lag behind the FIFO while the core is in its handler |
| `SocEventProofs!FcGetsItsEvents` [`FcDelivery`] | the same | needs `OneHot`, the priority vector's, and with it `NetworkIsRoundRobin`: only then is the event that the FIFO takes the one that is popped |
| `SocEventProofs!TakenOnce` | the same, under `SeparateChannels` | `MaskInv`: a mask opens only what software can open. It states `TakenMeansPopped`, and the hypothesis is that no event is opened to two channels of which one may refuse; `events_taken_twice` shows what happens without it |
| `A2BootProofs!LoadersExclusive` [`NeverBothStopped`] | image, frames, errors on both wires | the I2C loader is only active while its own flag is clear |
| `A2BootProofs!BootTyped` [`TypeOK`] | the same | the record of the UART machine field by field, and which words can be in the I2C FIFO |
| `A2BootProofs!I2cDownloadSound` | the same | `HeardInv` and the phases of `I2cInv`, see below |
| `A2BootProofs!OneHostOnly` [`LoadedFromOneHost`], `AcknowledgementsAreTrue` [`AcknowledgedIsStored`], `JumpsAreSafe` [`JumpMeansLoaded`] | S-record file, frames; one corrupted digit of an address, the data or a checksum, or one word, or any number of words on the I2C bus | `BootInv`, see below |
| `A2BootProofs!DamageStaysInItsRecord` [`DamageIsConfined`] | S-record file, frames; any number of errors in any digits and words | `DamageInv`, see below |
| `FlashBootProofs!PlaceIsAlwaysFree` [`PlaceIsFree`] | table, block and data size, word width | the loop invariant of `findDataFit`: the candidate overlaps none of the areas passed so far; in a sorted table a move goes past the end of all of them; then the place is not changed any more |
| `FlashBootProofs!ReadsAreComplete` [`ReadsComplete`] | table, both ROMs, any debugger | the SoC event is in the status register only if the channel is done, and is cleared before the next read starts |
| `FlashBootProofs!JtagBootRunsTheProgram` [`JtagJumpMeansLoaded`] | any debugger | the JTAG branch is entered only on a request that the debugger has not yet completed (`JtagInv`) |
| `FlashBootProofs!LoaderAlwaysSurvives` [`LoaderSurvives`], `ImageIsComplete` [`ImageLoaded`] | well-formed table, both ROMs, block size, memory map | `ImageInv`: where the candidate place can be (`FitInv`), which areas are complete (`AreasDone`), how far the current section has got (`SectionInv`) and how many bytes of its block the channel has fetched (`ChannelInv`) |
| `UdmaRxProofs!GrantsHaveTransfers` [`GrantHasTransfer`], `RxTyped` [`TypeOK`] | channels, data sizes, transfers, FIFO depth | `RxInv`: types, the grant stage, and two parts about software (`PulseInv`, `SwInv`), without which a clear could fall on a running channel |
| `UdmaRxProofs!ChannelsAreTransferQueues` [`ImplementsTransferQueue`] | the same | under `RxInv` each cycle is a cycle of `TransferQueue`, one case per channel and event: enable, last datum, datum, nothing |

`CommonLemmas` holds the facts on sequences that the FIFO proofs share, and induction and
recursion over the naturals in first-order form: a set in place of a predicate
(`SetInduction`), a function in place of an operator (`Recursion`), which is what the
provers can instantiate. The arbiter's levels and the sum of a record's bytes are
recursive functions, and so are the two CRCs' loops over a message; these two lemmas are
how the proofs unfold them, for inputs of any length.

The CRC's argument: by linearity the CRC of a disturbed message differs from the good one
by the remainder of the noise alone, and that remainder is followed bit by bit. Before the
burst it is zero, and the burst's first bit sets its bit 0. A step whose result has no low
bits did not subtract the polynomial, which has bit 0, and so only shifted: were the
remainder zero at most 15 steps after that first bit, going back these steps would leave
bit 0 clear. After the burst the same argument says that a step never makes zero of a
remainder that is not zero.

The refinement mapping of `UdmaRx`: a channel's first transfer is in the address
generator, or in the peripheral's registers in the cycle of the enable pulse; the second
one is in those registers while PENDING or the pulse is set. The pulse matters: between
the write of EN and PENDING lies a cycle in which only the pulse shows the transfer.

### The boot ROM's invariant

None of the three properties of the memory is inductive: they say nothing of the record
or frame that is on its way. `BootInv` has five
parts.

- `BootType`, the types; `LoaderInv`, the stop flags.
- `HeardInv`: until a loader has heard its host the memory is empty, the S-record machine
  is in its first state and the I2C host has had no answer.
- `I2cInv`: the download with CRCs is in one of seven phases (asked, welcomed, sending,
  rung, draining, answered, jumped). Each fixes who owns the mailbox and the FIFO, and in
  all but one the memory holds the frames before the host's current one. A corrupted word
  makes the frame a different one, and the loader refuses it.
- `UartInv`: before the first `S`, the script is silent or its first line is under way;
  after it, the current line is arriving as it was sent or with one digit corrupted
  (`Arriving`). The loader has taken the first p - 1 characters of what arrives, its
  buffers and sums are those of these characters (`Parsed`), the rest is in the receive
  FIFO or not sent yet (`Coming`), and the memory holds the lines before. When the record
  is complete the ROM answers OK while the line end is still coming in (`LineDone`). A
  record that was damaged ends in one of two ways: it is refused, and nothing in the rest
  of the line begins a record (`Rejected`), or its count asks for more than the line has
  and the loader waits (`Starved`). The script sends nothing more in either case
  (`Refusing`).

One lemma per state of the S-record machine says what a character does to what has been
parsed (`TypeStep`, `CountStep`, `AddressStep`, `DataStep`, `CrcStep`), with the 16-bit
arithmetic of the code. `Layout` is what an error leaves of a record's layout, so that
these lemmas serve good and damaged lines alike. `Damaged` is where the checksum comes in:
one changed digit moves the sum of all bytes, the checksum's included, by at least 1 and
at most 128 (`ErrorShows`), never by a multiple of 256. This covers a digit of the
address, the data or the checksum, and the count of a jump record, which the loader only
adds up. Any other changed count shifts what follows: a larger one starves the loader
(`OverrunStarves`), and a smaller one is refused unless the file hides a record
(`NoHiddenRecord`). `BootInvariant` is proved for both cases (`Protected`); the theorems
of the table are about errors that do not hit the count and so need no such hypothesis.

`DamageStaysInItsRecord` leaves `UartInv` out and has an invariant of its own,
`DamageInv`, that knows nothing of checksums. It says of the current line only whether it
was hit. If it was, the loader may be anywhere in it and may believe anything about its
type and length, but what still comes holds no `S`, so the line begins one record and
stores one at most. If it was not, the loader parses it as it was sent, or is still in
what is left of a hit line before it, or took its `S` for the end of that line and
ignores the rest (`OnItsWay`); in the last case the script gets no answer and nothing is
claimed to be stored. Between two lines the loader holds nothing of the old one that
could be stored, because the script waits for an answer and the loader gives one per
record (`Confined` counts both sides of this).

TLC checked `BootInv` on the instance of `a2_boot` before it was proved: `UartInv` with
each bit of any digit inverted, the other parts with two errors on the bus as well.
`BootType`, `LoaderInv`, `HeardInv` and `I2cInv` need no hypothesis on the image or the
wires, and `I2cDownloadSound` rests on them alone.
Of the theorems that involve the UART's data, `DamageStaysInItsRecord` has the first of
these hypotheses, the others the first three, and `JumpsAreSafe` also the last. They are
in `A2Boot` and `SRecordFiles`, and TLC finds them true of the images, the frames and the
errors of the runs (`SmallImageIsAFile`, `HidingImageIsAFile`, `SmallFramesEndWithJump`),
except that `a2_boot` also lets the error hit a count, in a file without hidden records:

- `SRecordFile`: every line is a well-formed S-record with the right checksum and a line
  end (header, data or jump; header and data records have data, data and jump records no
  zero address) and the only jump record comes last. This is what a linker writes without
  count records; `boot_count_record` shows what a count record does.
- `OneErrorAtMost`: there is at most one error, on either wire, or the UART line is clean
  and any number of words on the I2C bus is corrupted. With two errors on the UART the
  claims are false: the checksum is a sum, and two errors can cancel.
- `HitFields \subseteq {"body"}`: the error hits a digit of an address, the data or a
  checksum. The type digit is in no checksum, and with one error in it the claims are
  false of any S3 record for an address in L2. With an error in the count they are false of
  some files: a smaller count makes the loader take two digits of the data for the
  checksum, and chance makes about one such shortened record in 256 one with the right
  checksum, so a large file may well hold one. Both kinds of error are among those that
  `DamageStaysInItsRecord` is about, and what it says is what the ROM still guarantees.
- `JumpFrameIsLast`: the I2C host sends its jump last.

### Assumptions on the constants

Sizes are positive naturals, the pointers' span is at least the depth. `FlashSizes`: the
flash buffer is a number of words and the first field of the loader's data, and the place
at the start of L2 does not wrap. `MemoryMap`: the stack in use until the move and the
driver's static words do not lie where the loader's data may be placed, as the linker
scripts arrange. `BootsAssumption`: table fields are naturals, and the external JTAG field
does not start as a boot request that is already marked as done. `BootAssumption` types
image and frames. `MaxLinesAssumption`: an arbiter has at least two lines. Software of the
uDMA looks before it enqueues or clears (`LooksFirst`, the negation of `CLEAR_BUSY`;
`udma_clear` shows what happens without), and the core's handler lasts at least two cycles (`HandlerAssumption`), which is what
`HandshakeSound` rests on: with a shorter handler the core could take the interrupt
on the copy of a level that is gone.

What the proofs corrected in the models: the area's last, rounded-up word is written too,
so `Room` is about `Written` and not only about the area; the two ROMs needed memory maps
of their own; and the I2C host's frames had no type.

Only model-checked: liveness under fairness, which the prover does not do, and the three
memory properties for an error in the count. Claimed nowhere: what a record contains that
two errors or one in its type digit hit, what an I2C host does to the ROM that writes its
next message before the last one is answered, and that a loss of an event in the cycle of
a read of its error register is seen (`events_error_read` shows that it is not). The boot
proofs take the CRC of a frame to detect every corruption (section 2); that it detects
every burst is proved apart from them.

## 5. Not modelled, and the plan

Not modelled:

- vendored cores and libraries, clock generation, pads, the eFPGA fabric, formatting and
  debug text;
- the register headers under `boot_code/include` and `tb`: 37000 of the repository's
  39900 lines of C are generated or vendored definitions of register offsets and
  accessors for chips of the same family, most of them for peripherals this SoC does not
  have. They have no control flow; the accessors that the boot code calls are part of the
  actions that call them. The behaviour of this repository is in its SystemVerilog and
  in about 2800 lines of C, and that is what the modules are about;
- uDMA transmit channels, streams, external channels and continuous mode, and the
  bit-level engines of the peripherals;
- watchdog and ready timeout of the SoC controller, the edge-detected interrupts of the
  FC subsystem, timers, GPIO;
- cycles of the I2C slave's two bus interfaces: the message register can be marked as
  read one cycle too long, but whether a host can hit that cycle is decided outside the
  sources of this repository.

Work to come: the parts of `SomeBootCompletes` that need no fairness, that is, that the
phases of both downloads only go forward.
