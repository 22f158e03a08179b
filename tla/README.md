# A TLA+ model of the Greaseweazle test board

The repository is the firmware of a test jig. An STM32F105 hosts the USB device
under test (a Greaseweazle floppy controller), sends it test commands over a CDC
bulk link, drives and reads the pins of a ribbon cable between the two, and
shows the result on a seven-segment display. There is no operating system: one
thread (`main`) polls, and interrupt handlers pre-empt it. Most of what can go
wrong is in what lies between two polls.

Paths below are relative to `src/src/`; `usb/stm32_usbh/` is written `u/`.

## 1. The system

### Components, state and operations

| component | state | operations | interacts with |
|---|---|---|---|
| main loop, `main.c` | `state`, `pin_iter`, `outer_iter`, `success`, `cmdrsp`, `rspbuf` | one numbered step of the test per pass; `command_response` and its handler; `check_pins`; `_error` | calls the host stack every pass; is called back by it; the pins; the display |
| CDC glue, `usb/usbh_glue.c` | `cdc_device_connected` | user callbacks of the host core; `usbh_cdc_connected` | main (reads), host core (calls) |
| CDC class, `u/usbh_cdc.c` | `_CDC_Handle`: the two pipes, `data_tx_state`, `data_rx_state`, lengths | init, class request, transmit, receive, one pass of each direction | host core (calls), channels, main (callbacks) |
| host core, `u/usbh_core.c` | `gState`, `gStateBkp`, `EnumState`, `Control` | `USBH_Process`, `USBH_HandleEnum`, `USBH_HandleControl`, `USBH_DeInit` | reads `ConnSts`, `PortEnabled`, `URB_State`, which the handler writes |
| requests, `u/usbh_ioreq.c`, `u/usbh_stdreq.c` | `RequestState`, `Rx_Buffer` | control and bulk transfers; descriptor parsing | host core, channels |
| channels, `u/usbh_hcs.c`, `u/usb_hcd.c`, `u/usb_core.c` | `channel[]`, `hc[]`, `URB_State[]`, `HC_Status[]`, `XferCnt[]` | allocate, open, start, halt, free; `HCD_Init` | the registers of the OTG core |
| interrupt handler, `u/usb_hcd_int.c` | the same arrays and the port flags | port, disconnect, channel and FIFO interrupts | pre-empts everything above |
| timeouts, `usb/usb_bsp.c`, `delay_ticks` in `stm32f10x.c` | `prev_stk`, `ticks` | start, poll | control transfers, every delay |
| system time and timers, `time.c`, `timer.c` | `time_stamp`; a sorted list of deadlines | `time_now`; set, cancel, interrupt | `command_response_handle` reads the time; the clock is itself a client of the timers |
| pins, `pins.c` | the port registers | `set_pinmask`, `read_pinmask` | main |
| console, `console.c` | a ring with a producer and a consumer | `vprintk`, a soft interrupt, a synchronous mode | everything |
| display, `led_7seg.c` | what is shown | two serial protocols, bit by bit | main |

### What is hard about it

* **Two copies of one fact.** Whether a device is there is in the port register,
  in `ConnSts`, in `PortEnabled`, in `gState` and in `cdc_device_connected`, each
  updated by somebody else at another time. A device can be pulled and another
  plugged in between any two of these updates.
* **Results that outlive what they answer.** `URB_State`, `XferCnt`,
  `HC_Status`, `Cfg_Rx_Buffer` and `rspbuf` are never cleared when a request
  ends; a transfer whose timer has run out is not halted.
* **Timeouts against late answers**, retries at an address the device may no
  longer hear, data toggles that decide whether a repeated packet counts.
* **Counters that go round**: 24 bits of SysTick under a 32-bit clock, a 16-bit
  hardware timer under that, a `uint8_t` of errors that nothing resets.
* **A long sequence with nested counters** that must not let a bad board pass,
  blame a good line, or leave a driver on.

`PROJECT.json` lists each of these at the line where it bites ("hazards"), with
the properties that catch it.

### What makes each part correct

* Host core: the device that is tested is the one that was enumerated; pulling it
  is always noticed; channels do not leak; the host comes to rest or hands over
  a device that stays.
* Enumeration: what is parsed answers what was asked; host and device agree on
  address and configuration; every request ends with a device that takes its status
  packet.
* Link: a command is executed at most once and answered by its own response, or
  the test fails; nothing stays outstanding; no interrupt starves the thread.
* Test: no defective board passes, no sound line is blamed, drivers are released.
* Time: the clock is right at every wrap; timers run in order and none is lost;
  a timeout is exact to the calls it is polled in.
* Registers of the OTG core: no write made from an older copy of a register undoes
  what the handler or the hardware did in between; every enabled channel is
  programmed for the endpoint the host means and its end is heard.
* Descriptors: a device is judged by its own.
* Console: what is printed goes out in order and once. Display: it shows what was
  written last, or the program knows that it does not.
* C library: what the standard says; a copy never overwrites what it has still to
  read, and a sort looks at nothing outside of its array.

## 2. The modules

| module | models | composed with |
|---|---|---|
| `HostCore` | `USBH_Process`, port part of the handler, bring-up of the core, glue, main's supervision of the connection | supplies "a device stays connected" to the next two |
| `HostCoreProofs` | theorems about `HostCore` | |
| `Enumeration` | `USBH_HandleEnum`, `USBH_CtlReq`, `USBH_HandleControl`, the control pipe's channels, a device | the inside of `HostCore`'s control transfers |
| `EnumerationProofs` | theorems about `Enumeration` | |
| `CdcLink` | `cmdrsp`, the CDC class driver, bulk channels and their interrupts, the bus, the device's bulk endpoints | implements `CmdRsp` |
| `CdcLinkProofs` | theorems about `CdcLink`, the refinement among them | |
| `CmdRsp` | what the test needs of the link (abstract) | assumed by `TestSequence` |
| `TestSequence` (`MCTestSequence`) | the 22 states of the test, `check_pins`, the cable, the board under test | |
| `TestSequenceProofs` | theorems about `TestSequence` | |
| `SystemTime` (`MCSystemTime`) | `time.c` over `timer.c` | |
| `SystemTimeProofs` | theorems about `SystemTime` | |
| `StkTimer` | the SysTick timeout of `usb_bsp.c` and `delay_ticks` | |
| `CfgDesc` | `USBH_ParseDevDesc`, `USBH_ParseCfgDesc` with its static variables, `USBH_CDC_InterfaceInit`, one device after another (`MCCfgDesc`: the devices of the run) | fed by the transfers of `Enumeration` |
| `CfgDescProofs` | theorems about `CfgDesc` | |
| `OtgCore` | the register layer: `usb_core.c`, `usbh_hcs.c`, `usb_hcd.c` and the masks and `HPRT0` in the handler, an access at a time | what `HostCore` takes in one step |
| `OtgCoreProofs` | theorems about `OtgCore`: the copies of `HPRT0`, and what its other registers say | |
| `Console` | `console.c`: the ring, the soft interrupt, a crash dump | |
| `Display` | `led_7seg.c` down to the wires, and the chips at their other end | |
| `Memory` | `memset`, `memcpy` and `memmove` of `util.c`, a turn of a loop at a time | |
| `Qsort` | `qsort_p` of `util.c`, a comparison at a time | |
| `CLib` | the rest of `util.c`, `string.c`, `crc.c` | |
| `MCParts` | `StkTimer`, `OtgCore`, `Console`, `Display`, `Memory`, `Qsort` and `CLib` side by side, one of them at a time | |
| `PartsProofs` | theorems about `StkTimer`, `Console`, `Display`, `Memory` and `Qsort` | |

The modules keep the names of the source for variables, states and functions.
A definition followed by `\* mutant` is not part of the model: it is an
operator changed the way a plausible mistake in that code would change it.
`PROJECT.json` names, for every property of every passing run, the mutant that
TLC must refute it with. That shows that the property depends on the code.

### HostCore

Three parties take steps. The *world* plugs and pulls devices and lets the core
drop `PRTENA`. The *handler* (`ISR`) reads `GINTSTS & GINTMSK` once and serves
port and disconnect in that order. The *thread* is main's loop, cut into
actions wherever a delay or a register access lets the others in; `pc` says
where it is: the check at the head of `USBH_Process`, the switch over `gState`,
the two halves of a port reset (which lasts for milliseconds), the three parts
of `HCD_Init`, the loop, or `_error`. The thread takes no step while an unmasked
interrupt is pending.

`enumDev` and `testDev` are history: which plug was on the port at the reset
before enumeration and at the beginning of the test. `DropIsJoint` stands for
what the manual of the OTG core leaves open: whether `PRTENA` falls together
with `DISCINT` or at some time after it. A control transfer is one answer
(`HcISR`) here; which request it is, and how it fails, is `Enumeration`'s
subject. `HOST_SUSPENDED` and `HOST_ERROR_STATE` are never entered by this
program and are left out.

### Enumeration

One action per case of the three functions, with the order of the checks the
code has: in the data stage the timer wins over a transfer that is done, in the
status stage it is the other way round. The two interrupts that end a channel's
transfer are one step (`End`). The device has an address, a configuration, the
request it received last and the stage it expects; the bus and the device fail
at most `MaxFaults` times, in the seven or eight ways `Faults` lists, but the device
may refuse the host's status packet (`RefuseStatus`) any number of times. It may
STALL the data stage and either status stage. An answer may arrive at a channel whose
transfer the host has given up (`hasty`), and a device may be slower than the timer
(`slow`).

Abstractions: a request is the enumeration state that makes it; descriptors are
a set of strings and a configuration that is good, too long or unsupported;
`ErrorCounts` = 5 stands for the 256 values of `errorcount`.

Left out, and why: the loss of the handshake that ends the *device's* status
packet (`in_ack_lost` can be chosen but no run chooses it) leaves a device that
does not know its request has ended, and USB gives the host no way to see that,
so `Agreed` cannot hold there; and an unlimited number of early answers could keep
host and device out of step for ever, which is why faults are counted.

A hang the code has: the status stage OUT (`u/usbh_core.c:818`) has no timer and no
case for `URB_STALL`. A device that stalls its status packet, as USB lets it, or
refuses it for ever, leaves the request under way until it is unplugged. The model
has both (`StallStatus`, `RefuseStatus`), and `StatusTaken` says that neither
happens; `RequestEnds` and `Configures` have it as a condition and fail without
either half of it.

### CdcLink and CmdRsp

The thread runs `CDC_ProcessTransmission`, `CDC_ProcessReception` and one pass
of main's loop in turn; the handler pre-empts it between them. A channel in
hardware is off, on or halting and raises one interrupt at a time: its cause
first, then, when it has halted, `chhltd`, which turns the noted cause into a
`URB_State`. Data received goes through the FIFO interrupt first. The device
checks the toggle of every packet, drops repetitions, executes a command when
its last packet has come and repeats its response until it sees the
acknowledgement. The model is that of slave mode, the one `usb_conf.h` chooses.
A response is represented by the number of its command, so that a stale one can
be told from a fresh one.

`CmdRsp` is what the test program needs: issue, execute, answer or fail, one
command at a time. `CdcLink` implements it under the mapping in `Abs`:
outstanding is every `cmdrsp.state` but `IDLE`, failed is an error on display.

### TestSequence

One action per state of the `switch` in `main`; `Iteration` and `EndIteration`
are shared by the two loops over the pin tables, the counters being the code's.
The cable is open-drain: a net is low if anything pulls it low and nothing holds
it high. A board has a model (one of those whose option bytes or CC lines the test
treats differently, or one that its `switch` over `hw_model` has no case for), any set of wiring defects (a line cut, held low, held
high, or shorted to another), there always or in a single round only, and any of
the defects in the other things the test looks at. The jig's
outputs are open-drain and its inputs floating (`pins.c:54`), so the lines must
be pulled up in hardware; the model assumes a pull-up at both ends, so that the
far end of a cut line reads high. Were it left floating, it could read anything,
and no test of levels could promise `Passed`. Which boards are tested is the
constant `Boards`, any set of boards with any number of defects in the proofs;
the run takes those of `MCTestSequence`, with up to `MaxWiring` wiring defects. A command and its
response are as in `CmdRsp`. The measurements of `test_wdat_osc` and
`test_usb_cc` are a good or a bad outcome: their arithmetic is not modelled.
Pulling a board resets the jig (`system_reset`), which `HostCore` shows in
detail.

### SystemTime

`time_now` in the thread is two reads with an interrupt possible between them;
in the handler it is one step. The list, `InsertAt`, `Reprogram` and the two
ranges of the hardware timer are the code's. The program itself sets one timer,
the one that refreshes the clock; the timers in `Others` stand for any further
caller of the interface and do not refresh anything, so that what the interface
promises is checked and not only what its single caller happens to use.
The assumptions of the module are the relations among the real constants that
the code depends on: the stamp is refreshed before SysTick goes round (500 ms
against 1.86 s), a coarse interrupt comes before its deadline and then a fine
one is due, the reload value of a fine interrupt fits the 16 bits of the timer,
and deadlines are less than half a turn of `time_t` ahead, so that differences
have the right sign. The values of `timer.c` and `time.c` satisfy them (24 and 32
bits, `SLACK_TICKS` 12, the fine prescaler below 0x10000 ticks, 900 ticks to a
coarse unit, 50 units early, a reload of at most 0xffff). `Latency`
and `MaxPause` bound how long the interrupt and the thread are held up. The
deadline of a timer that is not in the list is kept at 0 so that equal states
are equal.

### StkTimer

`USB_OTG_BSP_InitTimer` and `_TimerFired`: a timeout longer than a turn of the
counter is counted in pieces, each call taking away what has passed since the
last. `delay_ticks` is the same computation in a loop. `MaxGap < StkSize` is the
assumption that makes it right: the thread polls control transfers on every
pass of a loop none of whose delays comes near the 1.86 s of a turn.

### CfgDesc

One action stores the device descriptor (the first eight bytes or all of it),
one the configuration's header, one begins with the whole configuration, one is
`USBH_CDC_InterfaceInit`, and between any two calls the device may be pulled and
another one plugged in. In between, `USBH_ParseCfgDesc` looks at one descriptor per
step: `Outer` is a turn of its outer loop (`u/usbh_stdreq.c:409`), `Inner` one of the
loop over the endpoints of an interface, `ParseEnd` what comes after them, and
`Refuse` its two early returns. `parse` holds the local variables, as numbers of
descriptors where the code has pointers. `ptr` is modelled as it is, with the
header counted where the code counts it, since the outer loop ends by it and the
inner one does not look at it. The arrays are written at whatever index the code
comes to (`Put`): that it is one of theirs is part of `DescTypeOK`. What outlives a
device is what outlives it in the code: `prev_ep_size`, `prev_itf` and all of
`device_prop`. A device describes itself correctly (`AddsUp`). The
history variable `tainted` says that the parser refused the device before and
left its statics behind; `JudgedByItself` holds without it, and does not with it.

Three results are worth knowing though no document contradicts them. A device
whose first interface has no endpoint (`bare`) is judged by `Itf_Desc[0]` of the
device before, because the parser stores an interface when it finds an endpoint
that is as large as the last. A device whose second endpoint is smaller than the
first (`falling`) loses it: the parser leaves the interface
(`u/usbh_stdreq.c:437`), and the pipe is opened on the endpoint of another
device or on endpoint 0. And a device that is "not supported" is tested all the
same: `USBH_CDC_InterfaceInit` returns `USBH_OK` and the glue reports it as
connected.

### OtgCore

The thread makes the register accesses of `HCD_Init`, `USB_OTG_ResetPort`,
`USB_OTG_HC_Init` and `USB_OTG_HC_StartXfer` one by one, in the order in which
`USBH_Process` comes to them; the handler reads `GINTSTS & GINTMSK`, serves the
channels, reads `HPRT0` twice, writes it back and serves the disconnect; the
port and the bus act between any two accesses of either. A read-modify-write is
two steps with the copy in a variable (`hprt0`, `gmask`, `xfer.char`, `seen`,
`dup`), so that whatever is written back may be stale. `HPRT0` is the register
where that matters most: its change bits and `PRTENA` are cleared by writing
what was read.

What is assumed of the hardware, and of time: a reset of a device enables its
port within the 20 ms `USB_OTG_ResetPort` waits at its end, and not so soon that
the handler could not have heard the loss of the port before; a channel that
comes to an end leaves nothing in the FIFO. The `RegistersSound` mutant takes the
20 ms away: `USB_OTG_HC_Init` then overwrites the mask bit the handler has just
set, and the loss of the device is never heard.

The module assumes of its constants that no packet size is 0 and that a SETUP
packet and a command fit in the FIFO. `Steady`, the last part of `RegistersSound`,
is what ties the first four together: where the thread is, what the masks let
through, which channels are at rest, and what the transfer being started has in
the FIFO.

`NpDepth` is 8 words in the run, exactly a command of `CmdBytes` = 32 bytes,
and 96 in `usb_conf.h`: what fits in the former fits in the latter. `Fits` says
that `USB_OTG_USBH_handle_nptxfempty_ISR`, which would send a packet a second
time (`StartXfer` has written it already), is dead code; so is the handler of the
periodic FIFO.

One loss is not excluded: the port is disabled *after* the handler has looked at
an earlier change and before it acknowledges that one. `PortKept` allows it
(`told`), because the bit was looked at; `HostCore` has its consequence, a stale
`PortEnabled`, as the condition `PortTrue` of its liveness.

Left out: the polling loops on `GRSTCTL`, which give up after 200 000 readings;
clock selection and frame interval for devices of low speed; the receive FIFO,
which is `CdcLink`'s; the interrupts for suspend and wake-up, which are unmasked
but cannot occur while the port is not suspended.

### Console

`vprintk` stages a text in one step, because it runs with interrupts off; the
soft interrupt sends character by character, with `p` and `c` read at its start;
handlers may print between two of them, and a crash may come between two of
them, dump its own texts and switch to the synchronous mode. Characters carry
the number under which they were staged, so that one that is lost, repeated or
overtaken shows. The loop that stages a text is in closed form: `Pushes` counts what
its first characters become (a newline is a "\r\n", a CR nothing), `Stops` has the
places where the loop may end, the code's equality for a full ring among them, and
it ends at the first; the characters then lie in the ring one after the other, over
what was there if they do not fit. The soft interrupt is weakly fair (`ConsoleFairness`):
it is an interrupt, and the lowest only means that it waits for the others.

### Display

One action per function that drives the wires, `tm1651_start`, `tm1651_write`,
`tm1651_stop` and `shiftreg_update_display_u16`, and one pin change per step: `place`
says which change comes next, of which bit of which byte of the frame. The chip at the
other end reacts to each: a TM1651 counts bits, acknowledges, and obeys the byte that
is complete, by its bits, between START and STOP; two 74HC164 shift on each rising
clock. The TM1651 may miss a byte at any point, which is what the retries are for, and
lets go of DAT some time after its acknowledgement (`Release`). The probe by which
`led_7seg_init` finds out what is connected goes into the shift registers as well.

### Memory

`Call` makes one call of `memset`, `memcpy` or `memmove` with any areas that fit
(for `memcpy` they do not overlap, as its callers have to see to), and chooses the
way as the code does: `memmove` goes backwards unless the destination is below, in
which case it is `memcpy`; the others move blocks first if the addresses are
aligned and there is at least one. `MoveBlock` is a turn of the assembly loop, which
loads eight registers before it stores any, `MoveByte` and `MoveBack` are a turn of the
loops in C. A byte is named by the address it had before the call, so the memory
shows where each has come from.

### Qsort

`util.c` exports `qsort_p`, but the firmware calls `qsort_p` nowhere at present.
The state is the array and the calls of `__qsort_p` that are under way; a step is one
call of `compar` (`LookUp`, `LookDown`), the choice of a pivot (`Partition`), the
recursion (`Recurse`: the inner call is pushed, and the bounds of the outer are changed
for its next turn, which is what the code does when the inner one returns) or a
return. Items carry their key and where they began, so that one that is lost or
doubled shows. Integers are unbounded: `nr - 1` is -1 for an empty array, as it is
in `int`, and `(l+r)/2` overflows for no array that fits in the memory.

### CLib

Each function is the code's loop as a recursive function, compared with a
definition by what the standard says: comparisons; `vsnprintf` with one conversion
and every buffer size; `strtol` reading the number back; the CRC table against
division by the polynomial. The widths of the types are small constants. Two
details of `vsnprintf` follow the code and not the standard: `%#5x` pads after the
"0x", and `%hhd` prints a char, which has no sign on this processor.

### MCParts

The seven parts share no state here and never take turns: a behaviour is a
behaviour of one of them, and its first state says which. Their state spaces add up
and do not multiply.

## 3. The runs

| run | asks | bounds and why they are enough | result |
|---|---|---|---|
| `host` | safety and liveness of the host, `PRTENA` falling with `DISCINT` or later, with the inductive invariant of the proofs (channels included) | 3 plugs (one device replaces another, twice), 2 drops, 2 bounces; the proof covers every number | holds, 189 751 states |
| `host_bounce` | `Enumerated` without its condition, with two bounces | finding below | violated |
| `link` | refinement of `CmdRsp`, freshness, delivery, no bad callback, termination, the proofs' invariant | 3 commands (a stale response needs two, a third to act on it) of 2 packets (the toggle matters from the second on), every fault at any transaction | holds, 8 369 states |
| `link_zlp` | does `HCD_GetXferCnt` return what was transferred? | finding below | violated |
| `link_babble` | does the handler clear what it was called for? | finding below | violated |
| `enum` | the right answer, agreement, termination, configuration, the proofs' invariant | 3 faults of seven kinds at any point, any number of refused status packets; two errors exhaust the quick retries of `CTRL_ERROR` and the third goes back to the top | holds, 92 852 states |
| `enum_address` | is a device whose address the host has lost recovered? | finding below | violated |
| `test` | no bad board passes, no sound line is blamed, drivers released, a verdict in the end, the proofs' invariant | two pins per table, 5 rounds, two wiring defects per board (one may hide the other), there always or in any one round, any board after any other | holds, 71 129 states |
| `time_safe` | the clock at every wrap, order and punctuality of timers, the proofs' invariant | a clock of 32 with a counter of 16, so that both wrap, started at each of the 16 possible values; two further timers (before, between and after which the stamp timer may be), deadlines that are due now, in the range of the fine prescaler and in that of the coarse one | holds, 1 030 144 states |
| `desc` | does the parser stay inside its buffer and its arrays, and is a device judged by its own descriptors, whatever came before it? | ten kinds of devices (order and size of endpoints, alternate settings, too many of something, none of something), in every order, pulled between any two calls; the parser remembers one device, so the state closes | holds, 4 660 447 states |
| `desc_stale` | the same after a device that the parser refused | finding below | violated |
| `parts` | timer, console, display, copies, sorting, the rest of the C library and OTG core registers | below | holds, 759 813 states |

The bounds of `parts`:

* timer: a counter of 8, a timeout below a turn and one of two and a half turns,
  every polling pattern; the proof covers every width;
* console: a ring of 8 with counters modulo 32, begun at 0 and close to the wrap;
  two printing handlers or thread calls and two texts of a crash, which is
  enough to fill the ring, wrap it and overrun it;
* display: two writes, so that the second replaces the first; three bytes missed,
  so that all tries of a call can fail;
* memory: nine bytes with blocks of four, so that a copy can have a block, a
  remainder, neither or both, and overlap itself either way; the proof covers
  every size;
* sorting: up to six items with three keys, so that there are equal ones, parts of
  every size and calls three deep; the proof covers every number;
* library: integers of 6, 5 and 4 bits;
* registers: a device of full and one of low speed that come and go without
  limit; the state closes.

Every run but `parts` checks for deadlock; in `parts` a call of the library, a copy
or a sort is made once, writes are counted, and a crash ends in a reset: these parts come to an end.
Where the program stops on purpose the model
says so with a step that changes nothing (`_error` with the device still there,
an enumeration that is over).

### What the properties say

Each is stated in words above its definition. In short:

* `HostCore`: `SameDevice`, `NoStaleConnection`, `ChannelsSound`, `UnplugNoticed`,
  `Quiesces`, `Enumerated`, and the invariant `IInv`.
* `CdcLink`: `IInv`, `NoBadCallback` (errors 11 and 21 are impossible), `Delivered`,
  `FreshResponse`, `ImplementsCmdRsp`, `Resolved`, `OtherInterruptsCleared`.
* `Enumeration`: `IInv`, `RightAnswer`, `Agreed`, `RequestEnds`, `Configures`.
* `TestSequence`: `IInv`, `Passed`, `Blamed`, `Released`, `Decided`.
* `SystemTime`: `IInv`, `ClockTrue`, `NotForgotten`, `InOrder`.
* `StkTimer`: `Timely`, that is `NeverEarly` and `NeverLate`.
* `CfgDesc`: `DescTypeOK` (with the bounds of the arrays), `NothingInherited`,
  `LargestKept`.
* `OtgCore`: `RegistersSound`, in six parts: the loss of the port is heard
  (`Heard`), an enabled channel speaks to the right endpoint (`Programmed`) and its
  end is heard (`Ends`), what is sent fits (`Fits`), and every copy of `HPRT0` is
  safe to write (`Copied`), and what makes it so (`Steady`); and `PortKept`, about
  every step.
* `Console`: `InOrder`, `Drained`. `Display`: `Shown`.
* `Memory`: `MemoryRight`. `Qsort`: `Sorted`. `CLib`: `LibRight`.

The `IInv` of a module is the invariant its proofs go by (section 4); it contains
the module's type invariant, and its other parts say how the pieces of state fit
together at every point, which is why the runs check it as well.

Some liveness properties are conditional, on a finding unless it says otherwise: `Resolved` and
`OtherInterruptsCleared` on no babble error being stuck, `Configures` on the
host still having the device's address (`Recovers`), `Quiesces` and `Enumerated` on
`PortEnabled` not staying set for ever on a port that is not enabled
(`PortTrue`). `RequestEnds` and `Configures` are conditional on `StatusTaken`, the
hang described above under Enumeration; no document, comment or test of the
repository speaks of that case, so it has no run of its own.

### Findings

1. **`host_bounce`** (`u/usbh_core.c:363`). `HOST_DEV_DISCONNECTED` clears
   `ConnSts` and every channel "for new Enumeration" but leaves `PortEnabled`, and
   the reset of the core clears `PRTENA` without an interrupt. When contacts
   bounce during the 200 ms of debouncing, while `DISCINT` is still masked, the
   next device passes `HOST_WAIT_PRT_ENABLED` on a port that is not enabled and
   is never enumerated. It costs liveness, never safety (`host`).
2. **`link_zlp`** (`u/usbh_cdc.c:353`). `XferCnt` is written only when a packet
   carries data, so after a zero-length packet the length of the transfer before
   is taken for its own.
3. **`link_babble`** (`u/usb_core.c:872`). The babble interrupt is unmasked for IN
   channels and never cleared: the handler is entered for ever.
4. **`enum_address`** (`u/usbh_core.c:845`). A device that takes its address just
   after the 50 ms timer has run out no longer hears address 0; the request is
   repeated to address 0 for ever, the port is never reset.
5. **`desc_stale`** (`u/usbh_stdreq.c:452`). The early returns of
   `USBH_ParseCfgDesc` leave its static `prev_ep_size` and `prev_itf` behind. The
   next device's first endpoint is compared with the last one of a device that is
   gone; if it is smaller it is skipped with its interface, and a good CDC device
   is reported as not supported, with the numbers of the other one.

### Fairness

| module | assumed | why the code justifies it |
|---|---|---|
| `HostCore` | `WF(ISR)`, `WF(Thread)` | an unmasked interrupt is taken; the thread never blocks (its delays end, `StkTimer`) |
| | `WF(PortDrop)` on an empty port | the core disables a port whose device is gone |
| | `SF(HcISR)`, `SF(HostCtrlXfer(TRUE))` | a request that is retried for ever is answered and completed in the end: what `Enumeration` shows as `RequestEnds` and `Configures`, under their conditions `Recovers` and `StatusTaken`; a device that hangs its request is therefore outside of `Quiesces` and `Enumerated` |
| `Enumeration` | `WF` of the thread, of each direction of the bus, of the timer | the loop polls; the bus ends what is enabled; `StkTimer` |
| `CdcLink` | `SF(Thread)` | a device that answers every IN token with NAK raises interrupt after interrupt, but the handler is faster than the bus and the thread runs in between |
| | `WF(ISR)`, `WF(Tick)`, `WF(Halted)` | interrupts are taken, time passes, a channel told to halt does. The bus and the device are *not* fair: a packet may never be answered |
| `Console` | `WF` of the soft interrupt, of a crash dump under way and of the reset that ends it | a pending interrupt is taken; a dump runs to its end with interrupts off |
| `TestSequence` | `WF` of the loop, `WF(Execute \/ Timeout)` | `CdcLink`'s `Resolved`: a command is answered or times out |

## 4. The proofs

TLC checks small instances; the theorems of the eight modules whose names end in
`Proofs` hold for every value of the constants. They rest on one named assumption
per module and nothing else: `HostCoreAssumption`, `EnumerationAssumption`,
`CdcLinkAssumption`, `TestSequenceAssumption`, `SystemTimeAssumption`,
`StkTimerAssumption`, `ConsoleAssumption`, `DisplayAssumption`, `MemoryAssumption`,
`QsortAssumption`, `CfgDescAssumption` and `OtgCoreAssumption` (`CopiesSafe` and
`PortStaysKept` do without). TLC evaluates each of them for the constants of its runs. In every
module the theorem `Inductive` (`SoundStep` and its fellows for `OtgCore`) says that
an invariant is kept by every step, with one lemma per action, and the others read
their property off it. (`PartsProofs` has one for each of its modules: `TimerInductive`,
`ConsoleInductive`, `DisplayInductive`, `MemoryInductive` and `QsortInductive`.)

**HostCore.** `SessionSafety` (`Spec => []SameDevice`) and `ConnectionFresh`
(`Spec => NoStaleConnection`) follow from `Inductive` (`Spec => []IInv`);
`TypeCorrect` is its first part. `SameDevice` by itself is not inductive: it
speaks of the moment the loop looks at `Connected` and says nothing of what led
there. `IInv` adds three things.

* `ThreadInv`: where the thread is tells what `gState` can be. In particular
  `cdc_device_connected` is held only in `HOST_CLASS` and on the way through
  `HOST_DEV_DISCONNECTED`, which clears it before `HCD_Init` lets the port detect
  another device.
* `PortInv`: while anything is unmasked the port is powered, so that pulling a
  device is latched in `DISCINT`; once the handler has seen the port enabled,
  `DISCINT` is unmasked; and a session whose `ConnSts` is 0 has everything
  masked.
* `SessionInv`: an enabled port in a session belongs to the device that was
  reset; after its first answer that device is still there, or its disconnect is
  pending. A pending disconnect keeps the thread from its next look at
  `Connected`, and once it is served `ConnSts` is 0.

The proof has one lemma per party (`WorldIInv`, `IsrIInv`, `ProcessIInv`,
`MainIInv`, and `SystemResetIInv` for the reset two of main's actions share),
under each a step per action and per conjunct; `GetFreeChannelType` and
`ChannelBitsType` are the facts about channel allocation the type invariant
needs. It covers both readings of `DropIsJoint` and any number of plugs, spurious
drops and bounces: the bounce of finding 1 costs liveness, never safety.

`NoChannelLost` (`Spec => []ChannelsSound`) needs `ChannelInv`: which channels are
taken is always the same as saying how many (`FirstTaken`), because
`USBH_GetFreeChannel` takes the first free one and a session gives all of them back.
The enumeration holds two, the class driver takes the next two or none, and each
way out of a session, by `HOST_DEV_DISCONNECTED` or by main's reset, leaves none.
`NextChannel` and `TwoChannels` carry the search.

**Enumeration.** `RightAnswers` says that what is parsed answers the request that
was made. `Control` says which stages go with which request and when the OUT
channel can be enabled, `SameRequest` that the device is at the host's request from
when it took the SETUP packet: a SETUP packet of an earlier try that is still on
its way would break this, and is excluded because the channel is enabled in two
states of `USBH_HandleControl` only. Then a data stage that is done has filled the
buffer with the answer. `HostDeviceAgree` adds `CarriedOut`: a status stage that the
host saw the end of was seen by the device, which is where SET_ADDRESS and
SET_CONFIGURATION take effect. It has the hypothesis that no handshake of the
host's own is lost (`in_ack_lost`): with one lost the device really does not know,
and the property is false. `Inductive` and `RightAnswers` need no such hypothesis.

**CdcLink.** `Outgoing` and `Incoming` say what a channel, its pending interrupt, the
status noted for it, the URB and the two toggles can be together; `Packets` says
how many packets of the command the device has, by whether the packet under way
was taken (`Taken`: the toggles differ or the transfer is done). From these come
`CallbacksExpected` (the channels end only what was begun) and `CommandsDelivered` (a
command reported as sent was taken whole and executed once), for all faults.
`Responses` says which response is where: still with the device, in the FIFO, in
the buffer, or with the device although the host has it, because the
acknowledgement was lost, and in that case the toggles differ. It holds for a
device that sends no zero-length packet after a response, and `ResponsesFresh` and
`Implementation` have that hypothesis: finding 2 is what happens otherwise. The
refinement of `CmdRsp` is one lemma (`StepsRefine`): every step of the link is a
step of `CmdRsp` or leaves its variables as they are.

**TestSequence.** `DefectiveFail` is about combinations: one defect may hide another,
and a defect may show in one round and be hidden in the next. `CleanWiring` is the
fact that decides: if in a round each line of both tables, driven low alone, is
low and no other is, then no wiring defect shows in that round. `Found` says which
rounds and pins the loops have done, and what the states passed by so far rule
out; `FoundAll` puts the two together when the loops are over, for any tables
without a common line and any number of rounds. The rest of `IInv` says why an
observation is true when it is looked at: what was sent last (`Sent`), what the test
board drives (`Driven`), that an answered command was carried out and its response
is still what the lines say (`Obeyed`), and `WDAT` (`Oscillating`). `BlamedRightly` rests
on `CheckPinsSound`: the pin `check_pins` shows is the lowest that differs, and
without a defect on it it would not.

**SystemTime.** The clock is right because of a sum: the age of the time stamp and
the ticks left to the timer that refreshes it are always a `Period` (`StampTimed`).
That timer is in the list, whatever other timers are set and cancelled, and no
timer is overdue by more than an interrupt takes (`InTime`), so the stamp is never
older than `Period + Latency + 2`, SysTick has not gone round since, and the
computation of `time_now` is exact, at the wraps as well (`ClockRight`); a thread
that has read the stamp and is held up before it reads SysTick is covered by
`ReadYoung`. `InTime` in turn needs the list in order (`Ordered`, by signed
differences, which is where half a turn of `time_t` matters) and the hardware
timer programmed so that the next interrupt is not later than the head plus two
(`Awaited`). `InsertAtPlace`, `GrownSorted` and `WithoutSorted` are the facts about the
list, `DiffTick`, `AgeTick`, `Turns` and `TicksBound` those about the arithmetic.
`NoneForgotten` and `CallbacksInOrder` follow from `InTime` and `Ordered`.

**StkTimer.** `TimerInductive` proves the accounting: while the timer has not fired,
the ticks left and the time accounted for add up to the timeout, and the
counter has moved, modulo its width, by exactly the ticks since the last call.
The latter needs calls less than a turn apart, and `DiffTick` carries it across
the wrap. `Exact` reads off that the timer is never early and that a call after
the end sees it (`Timely`).

**OtgCore.** `PortStaysKept` (`OtgSpec => PortKept`) says of every step that it
neither disables the port nor takes its power nor swallows a change the handler has
not looked at. A step that
writes `HPRT0` writes a copy read some steps before, so the property needs an
invariant about copies: `Copied`, a part of `RegistersSound`, proved in
`CopiesSafe`. While the thread is between reading and writing `HPRT0`, its copy
has the power bit of the register, and the bits that a 1 clears are taken out of
it; while the handler is about to acknowledge, its copy also has the reset bit of
the register, and its change bits are those the handler looked at. The two do not
disturb one another: the thread takes no step inside the handler, and the
handler's write changes neither power nor reset. There is one lemma per party
(`CopiedPort`, `CopiedHandler`, `CopiedBringUp`, `CopiedReset`, `CopiedRest`) for the
invariant and one per writer (`KeptByAcknowledge`, `KeptByPower`, `KeptByReset`) for
the step; `MaskedType`, `WrittenType`, `AcknowledgedType` and `WrittenKeeps` are the
facts about the register they rest on.

`RegistersAreSound` (`OtgSpec => []RegistersSound`) proves the rest, with `Copied` and
`Steady` together as the inductive invariant (`SoundStep`). `Masks` follows the
interrupt masks through bring-up and reset, with the read-modify-write of
`GINTMSK` in `USB_OTG_HC_Init` among them: the handler cannot set the mask bit of the
disconnect between the two, because the port it has to hear of was enabled before
the reset ended. `Hearing` follows one enabling of the port through the three steps of the
handler. `Channel` says of each channel when it is at rest, that it speaks to the
endpoint meant for it once initialised, and that its end is unmasked as long as it
is enabled. `Starting` is about the transfer being set up: the copy of `HCCHAR` is for
the right endpoint, and the channel cannot end before its data is in the FIFO.
The properties are then read off by `LossHeard`, `AllProgrammed`, `EndsHeard` and
`FifoFits`.

**CfgDesc.** `ParserStaysInside` (`DescSpec => []DescTypeOK`), `JudgedByItsOwn`
(`NothingInherited`) and `KeepsTheLargest` (`LargestKept`) follow from `Inductive`
(`DescSpec => []DescInv`), for any set of devices that add up, with any number of
descriptors, interfaces and settings, in any order. The invariant has two layers.
`Based` says where the parser is: `ptr` is the place of the descriptor it has
reached, and the inner loop has counted the endpoints of its interface up to there
(`Inside`). From this and from counts that are true follows what the code never
checks: while endpoints are to come, one comes before the next interface and
before the buffer ends (`Room`, `OneMore`), and the outer loop, whose `ptr` is a
header ahead, misses no interface all the same (`OuterGoesOn`). `Followed` says of a plain device what is kept of it: of an interface of
which a setting was passed, one whole setting (`Passed`, `Kept`, `Whole`), because
the inner loop leaves either all endpoints of a setting or none; and as long as `prev_itf` is interface 1, `prev_ep_size` is the size in its
first entry and no endpoint passed was larger (`Largest`). The latter needs
`Uniform`, settings that follow one another with endpoints of one size, since the
code compares endpoints and not settings. `Entries` is what an array holds up to an
index, and `EntriesPut` how a store extends it. The library's induction theorems
cannot be used (they take an operator), but the least element of a set of numbers
can (`LeastNumber`), which is how `OneBehind` adds up the lengths.

**Console.** Two counters that wrap and the numbers of the characters have to agree.
`Window` says that as long as the ring was not overrun the characters that are not
sent are in it, in their order, `prod - cons` of them; `Counted` that before
`console_sync` all the others went out once, up to the place of the soft interrupt,
which itself stays between `cons` and `prod`. A crash in the middle of the soft
interrupt sends some again, since `cons` is written at its end only; from then on
the invariant is that no character goes out before the one staged before it
(`Following`), and that the last one staged is out (`LastSent`). An overrun needs
texts that pile up, because one text alone is shorter than the ring. That is
`ConsoleInv`, which `ConsoleInductive` proves and `SentInOrder` (`ConsoleSpec => []InOrder`)
reads the property off. The lemmas are about the counters (`Distance`, `MovedOn`,
`PlaceInRing`: positions agree across the wrap because the ring's size divides the
range of the counters, which is why 2048 is right and 2000 would not be), about
staging (`CountType`, `Staged`) and about sending (`ChainGrows`); `VprintkInv` is the
step of `vprintk` for all its callers.

**Display.** `ShowsLastWritten` (`DisplaySpec => []Shown`) holds for any texts and
numbers, any number of writes and any number of missed bytes, a bound only TLC needs.
`Shown` speaks of the time between calls; `DisplayInv`, which `DisplayInductive`
proves, says how it comes about. `Calls`: which frame belongs to what `led_7seg_init`
has still to do, and that `nr_digits` tells the two chips apart once the probe is over
unless a call has failed. `Places`: the levels of the wires at each place of the
program. `Follows`: what the chip has made of them, which is the heart of it. Within a
byte it has read the bits before the place (`HasRead`) and obeyed the bytes before
(`Obeyed`); on the ninth clock it has either obeyed the byte and pulls DAT, or missed it
and is off the bus, where it hears nothing until the next START (`Missed`), so `fail` is
the chip's own verdict; and it lets go of DAT only while the program holds it low, so no
START or STOP appears that the program did not make (`ReleaseKept`). `misses >= retry`
counts the tries, which is why a call that fails has cost three missed bytes. `Shows` is
what the registers hold while nothing else is written to them, and `Shifted` the same
for the shift registers: they hold the bits that went in, whatever the probe left there.
The lemmas are in two layers: what one change of a wire does to a chip (`Reads`,
`EndsByte`, `ObeysCommand`, ...), and one per step of a function (`WriteFalls`, `WriteSets`,
`WriteReads`, `WriteRises`); `FramePin` carries what they have in common.

**Memory.** `CopiesRight` (`MemorySpec => []MemoryRight`) holds for any size of memory,
block and alignment. `MemoryInv`, which `MemoryInductive` proves, says of every address
that it holds its wanted byte if the loop has passed it (`Moved`) and its old one if
not. That a byte still to be read is old is the point: upwards it lies at or above
`q`, while all that was written lies below `p`, and either the areas are apart or the
destination is the lower one; downwards it is the other way round (`Progress`). A
block is no different from a byte as long as it is loaded before it is stored and
fits in what is left; `UpwardsKeeps` is the step for any number of bytes at once, and
`MoveBlock` and `MoveByte` are two cases of it. `CalledIs` has the ways a call can begin.

**Qsort.** `QsortSorts` (`QsortSpec => []Sorted`) holds for any number of items and any
integers as keys. That the array is sorted at the end says nothing about the
middle of a sort; `Separated` does: any two items are in order unless some call has
both of them. An exchange inside a call keeps it (`SwapSeparates`), splitting a call
at the pivot keeps it because what the two parts do not share is in order
(`SplitSeparates`), and a call that returns has no two items (`ReturnKeeps`); with no
calls left it says that the array is sorted. `FramesApart` says that no place
belongs to two calls, which the exchanges rest on, and that each was given less
than half of what its caller was (`SplitFits`). `Searched` is about the two searches,
which have no bounds of their own: the one upwards stops at the latest at the pivot
or at an item the other has passed, the one downwards at the place of the other
(`LooksInside`). Where they meet everything is on its side (`PivotPlaced`). `Kept` is
about loss: every item is still there.

**Only model-checked.** Liveness under fairness and anything about `ENABLED` is
out of the proof system's reach here, so `UnplugNoticed`, `Quiesces`, `Enumerated`,
`Resolved`, `OtherInterruptsCleared`, `RequestEnds`, `Configures`, `Decided` and `Drained`
rest on TLC. Induction over data is out of reach as well, and with it what the
recursive functions of `CLib` compute for every argument (`LibRight`, the only
invariant of the runs that no theorem states).

## 5. Not modelled

* The half of `u/usb_core.c` for device and OTG mode, which is not compiled.
* Clocks and peripheral set-up (`stm32f10x.c`, `usb_bsp.c`): register writes
  without state of their own, done once. The polling of `GRSTCTL`.
* DMA mode, interrupt and isochronous channels, hubs, suspend and resume,
  `HOST_ERROR_STATE`: never reached by this program.
* Configurations that do not add up (lengths of 0, counts that are not true),
  and `USBH_ParseStringDesc`, whose text is only printed.
* ADC and timer-capture arithmetic of `test_usb_cc` and `test_wdat_osc`: hardware
  readings; only their outcome is modelled.
* The mapping of pins to ports and bits (`pins.c`), which is a table.
* `rand`, `popcount`, `toupper` and `strcpy`: no caller, and nothing to go wrong at
  their edges. Formats with several conversions: each is handled by itself.
* Scripts and build files: host tooling.

## 6. Plan

Done, in the order of importance: host core, link and its abstract specification,
enumeration, test sequence, time, descriptors, console, display, library, and the
registers of the OTG core; and proofs of every safety invariant but `LibRight` of
`CLib`, and of the link's refinement. Next:

1. A composition of `Enumeration` into `HostCore` as a refinement, so that the
   strong fairness of `HostCtrlXfer(TRUE)` becomes a consequence.
2. `OtgCore` as a refinement of the port part of `HostCore`.
