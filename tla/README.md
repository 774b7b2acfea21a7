# TLA+ verification of drquad32

drquad32 is a quadrocopter: firmware for an STM32F4 (`Source/`), a boot loader
for the same controller (`Bootloader/`) and a ground station for the PC
(`QuadControl/`, Qt). This directory holds TLA+ models of its core logic, the
TLC runs that check them on small instances, and TLAPS proofs that hold for
every value of the constants.

    tlasany M.tla                        # parse
    tlc -workers 2 -config X.cfg M       # model-check
    tlapm M_proofs.tla                   # check the proofs

Line numbers below are those of the modelled commit.

## 1. Inventory

### 1.1 Components

| Component | State | Operations | Hard behaviour |
|---|---|---|---|
| **Ring buffer** `ringbuf.h` | buffer, `read_pos`, `write_pos` | `rb_write`, `rb_read`, `rb_putchar`, `rb_getchar`, `rb_bytes_*` | lock-free between two contexts; wrap-around; one slot kept free |
| **Boot loader UART** `Bootloader/uart.c` | two rings, TXEIE, USART registers | `uart_putc/write/getc/flush`, `printf_putchar`, interrupt handler | the handler switches TXEIE off while the main program switches it on; `uart_flush` waits on a ring and then on a flag |
| **Packet layer** `msg_packet.c`, `Shared/cobsr.c` | receive buffer, position, time of the last byte | `msg_recv`, `msg_send` | resynchronisation after a lost byte, overlong packets, time-out inside a packet |
| **Boot loader protocol** `Bootloader/main.c` | flash, boot flag, time of the last message | enter, read, verify, write, erase, exit, message loop, start of the application | lost and late messages, half-programmed flash, power loss |
| **Update protocol** `QuadControl/BootProtocol.cpp`, `Connection.cpp` | sequence counter, outstanding acknowledgements | `bootEnter/EraseSector/WriteData/VerifyData/Exit`, `sendHexFile` | window of acknowledgements, retries, late answers taken for new ones |
| **I2C driver** `i2c_driver.c` | mutex, binary semaphore, peripheral, DMA | `i2c_read`, `i2c_write`, `i2c_transfer`, `i2c_init`, three interrupt handlers | time-out racing the completion; recovery of the bus inside a call; several tasks |
| **Sensor task** `sensors.c`, `i2c_mpu9150.c`, `i2c_bmp180.c` | cycle counter, conversion state of the barometer | `poll_i2c` and its schedule | failing transfers; a shell command uses the same barometer |
| **PPM receiver** `rc_ppm.c` | frame under construction, registers of TIM12, last frame, its time | capture and update interrupt, `rc_ppm_update` | edges and the end of a frame at once, a late handler, glitches, endless and stale frames |
| **DSM2, S.Bus receivers** | — | empty update functions | a frame of another receiver stays "valid" |
| **Flight control** `flight_ctrl.c`, `rc_input.c` | copy of the frame, `old_ok` | arming, set points, start and stop of the motors | preempted by the motor interrupt between two stores |
| **Motor control** `bldc_task.c`, `bldc_driver.c` | per motor: state, commutation step, time in the start sequence, voltage; limit errors | 20 kHz interrupt: `check_limits`, `update_motor`, outputs | broken-off starts, direction taken from the sign of a voltage, 16-bit timing |
| **Parameters** `parameter.c`, `param_table.c` | table in RAM, image in flash | set, reset, load, save, clear | power loss between erase and write; two shells; the flash stalls the CPU |
| **Terminals** `term_xbee.c`, `term_usb.c`, class driver `usbd_cdc_core.c` | two queues each, TXEIE; buffer with two pointers and a transfer in packets; last character read | write, read, USART interrupt, USB interrupt | several writers and one handler, queue full, wake-ups, host that stops collecting, CRLF across calls |
| **Shell** `shell_task.c`, `readline.c`, `command.c` | line, cursor, history | editing, history, completion, argument vector | boundaries of fixed-size buffers |
| Start-up, watchdog, LEDs, servo and LED DMA, system calls, filters, user interface | | | not protocol-like, see 7 |

### 1.2 How they interact

* **Calls.** Sensor task and shells call the I2C driver; the shells call
  parameters, `rc_show`, `i2c_scan`, `bmp180_test`. The boot loader's message
  loop calls the packet layer, which calls the UART, which uses the ring.
* **Shared memory.** Capture interrupt → `rc_ppm_input` → `flight_ctrl`
  (interrupts disabled for the copy). `flight_ctrl` → `bldc_state.motors[i]`
  (`u_d`, `state`) → motor interrupt, with no lock. The parameter table points
  straight into `bldc_state` and `rc_config`: `param set` and the load at boot
  write the variables the control code uses.
* **Messages.** Boot loader and QuadControl exchange COBS/R-framed packets with
  a CRC and an acknowledgement per request, over a radio or a serial line.
* **Events.** The I2C handlers give a binary semaphore; the terminal interrupt
  moves bytes between USART and FreeRTOS queues; the UART handler moves them
  between USART and the rings.

### 1.3 What makes each component correct

* Ring: a bounded queue; writer and reader never touch the same slot.
* UART: every byte is sent once and in order; no wake-up is lost; `uart_flush`
  returns only when everything is on the wire.
* I2C: one call at a time; nothing of a broken transfer disturbs the next; success
  is never reported for a transfer that did not take place; every call returns.
* Flight and motors: disarmed means that no motor is driven; a dead radio link
  stops the motors; a motor is always started from its alignment; a running motor
  keeps its direction; arming starts every motor.
* Update: an update reported as a success left exactly the image in the flash; an
  interrupted update never leaves an application that starts but is not whole;
  both sides return to a known state.
* Packets: a packet that comes through undisturbed is received once and as it was
  sent, whatever happened before it; no buffer is overrun, whatever the line does.
* Parameters: an image in flash with its magic word is whole; a save that returns
  has saved; start-up loads a whole image or the defaults.
* PPM: a valid frame is the one that was sent; after any disturbance the decoder gets back
  in step.
* Terminals: every byte written arrives once and in order, whoever else writes; no wake-up
  is lost; every call returns; each key is read once, whatever it is sent as. Shell: no key
  leaves the line buffer; what the terminal shows is what will be executed; the history holds
  the most recent lines.

The hazards, each at its line and with the properties that watch it, are listed
under "hazards" in `PROJECT.json`.

## 2. Plan

In order of importance for the system; steps 1 to 8 and 10 are done, and
step 11 but for the argument vector.

1. `RingOps`, `RingBuf`: the ring, with `RingFifo` as its abstract specification.
   Proved: `Uart_proofs`, which extends `RingBuf` along with `Uart`.
2. `Uart` on top of `RingOps`. Proved: `Uart_proofs`.
3. `I2cDriver`, with `BusService` as its abstract specification. Proved: `I2cDriver_proofs`.
4. `Flight`: PPM frame, `flight_ctrl`, motor state machine, composed. Proved:
   `Flight_proofs`.
5. `BootUpdate`: boot loader and QuadControl over a link that loses and delays,
   with power cuts, and `Firmware` as the boot loader's abstract specification.
   Proved: `BootUpdate_proofs`.
6. `Packets`: COBS/R as operators, and the two receivers of framed packets at the end of
   a line that loses, damages and pauses. Proved: `Packets_proofs`.
7. `Terminals`: `term_xbee` with its queues, its interrupt and several writers;
   `term_usb` with the part of the USB class driver that sends and receives. Proved:
   `Terminals_proofs`.
8. `RcPpm`: the decoder of edges and TIM12. What it publishes is the frame that
   `FrameEnd` of `Flight` takes from the air. Proved: `Flight_proofs`, which extends `RcPpm` along with
   `Flight`.
9. `Bldc`: the timing of `update_sensorless` with a small counter width (`% 2^w`).
10. `Parameter`: set, save, load, clear with power cuts and two shells. Proved:
   `Parameter_proofs`.
11. `Readline`: line editor, history buffer, completion and the terminal that shows them
   (done; proved: `Readline_proofs`); the argument vector of `buildargv` (open).
   Of the open steps, 9 and 12 are about behaviour that is known to be wrong in the end (a
   32-bit count that wraps after 59.6 hours; a reading of the barometer that is taken for one
   of the other kind after a failure or during `bmp180_test`), which no line of the
   repository excludes.
12. `Sensors`: schedule of `poll_i2c` with failing transfers and `bmp180_test`.

## 3. The modules and the code

Every definition that models code is listed with its lines under "map" in
`PROJECT.json`; definitions keep the names of the functions where they can.

**RingOps, RingBuf, RingFifo** (`ringbuf.h`). `RingOps` holds the pure operations
on a ring record (`buf`, `read_pos`, `write_pos`). `RingBuf` runs one writer and one
reader: a call reads the other side's position once, claims slots from it, copies
byte by byte, and stores its own position last, each in a step of its own.
What lies between the two positions is the queue of `RingFifo`, the abstract
specification. The model relies on the compiler keeping the stores into the buffer
before the store of the (volatile) position; the header states the one-reader,
one-writer contract. (`RingInit`, `RingSpec` and the like have names of their own, so that
one module can extend `RingBuf` and `Uart` and prove the lemmas about a ring once.)

**Uart** (`Bootloader/uart.c`). Main program and interrupt handler on one core: the
handler runs whole between two steps of the main program. State: two rings,
TXEIE, the USART's data and shift registers, the position in `uart_putc`,
`uart_getc` or `uart_flush`. Ghost sequences record what was given and what was sent.
A received byte that finds the ring full is dropped, as in the code.

**I2cDriver, BusService** (`i2c_driver.c`). Per task a program position in `i2c_read`,
`i2c_write` or `i2c_scan` and `i2c_transfer`; the mutex and the binary semaphore as
FreeRTOS implements them (a mutex can be given by anyone, giving a full semaphore
changes nothing); the peripheral as a small state machine that completes,
reports an error, or hangs; the three interrupt handlers; `i2c_init` with the
recovery of the bus, its `Create`, drain and give steps in order.
`Scenarios` fixes which tasks and which faults occur together. `BusService` is what the
tasks can rely on: a call has the bus for itself, the register number of a read and its data
together, and success means that the bus has completed all its transfers. Its `owner` is the task
between taking and giving the mutex, its `call` is `op`, where "done" stands for a length
returned by `i2c_transfer`; `served` is whether the bus has completed the transfer under way.

**Flight** (`flight_ctrl.c`, `rc_input.c`, `bldc_task.c`, `bldc_driver.c`). One step of
the task per store to shared memory, the motor interrupt whole between any two.
Of the channels only the arming switch is kept, of the battery voltage the five ranges
that `check_limits` tells apart; set points are small whole numbers, and when a running
motor commutates is left open. The start sequence counts interrupts up to times given
in the cfg file.
Left out: writes by the shell to the motors' parameters (`sp`, `param_reset`, `set_pwm`), a
change of `reverse` at run time, and the first second before `flight_ctrl`'s loop. The
receiver's mode changes at any time. The update functions of DSM2 and S.Bus are empty, so
that the last frame of another receiver stays as it is: `FailSafe` speaks about the times when
neither of them is selected, also after they were. The scheduling of the tasks is left open, which
allows more than the FreeRTOS priorities do.

**Firmware, BootUpdate** (`Bootloader/main.c`, `BootProtocol.cpp`, `UpdateWindow.cpp`,
`TryAction.h`). `flash` maps cells (the chunk of one write request) to their contents;
`boot` has `boot_active`, `boot_exit` and the flash operation that is running; `up` and
`down` are what is under way in either direction, including `messageQueue`; `host` is
the position in `sendHexFile`. A click makes a new `BootProtocol` with an
empty `messageQueue`; a retry by `tryAction` keeps it. A power cut or a flash error
leaves each cell an operation touches as it was, finished or mixed.
Times are abstract: a time-out that expires with nothing under way is free,
one that expires before an answer which is still coming is a fault, counted in
`faults` like a lost packet, a power cut, a flash error, or "Cancel".
The four data bytes of an answer without data are what an earlier packet left in an
uninitialised structure: a text, or the checksum of another section; neither is
the checksum the host asks for. Without its answer being fresh,
that is in an update that begins while answers to an earlier, canceled update are
still under way, `VerifiedSections` does not hold (a checksum of the earlier update
can be taken for the later one's); the premise `fresh` says so.

**Packets** (`cobsr.c`, `msg_packet.c`, `Connection.cpp`). `cobsr_encode` and
`cobsr_decode` are functions on sequences of bytes; the pointers of the code are the lengths
of what has been written. The encoder is its loop over the source, with the run that waits for
its length code as one of the loop's variables; the decoder puts together what each group
stands for (`Piece`), and, as every write of the code is behind a check of the room that is left,
fails when that does not fit as a whole. One step is one byte that comes off the wire. The two receivers
differ in when they give up: `msg_recv` after `PACKET_TIMEOUT` from the first byte of a
packet on or with a full buffer, `Connection` never. `side` chooses one of them, and with it
which of the two senders, each with its own size of buffer, is at the other end. The line
may replace or lose any byte, an end marker included, and be silent for any time. The
largest byte, 255 in the code, is a constant, as it is also the length code of a full run.

**Parameter** (`parameter.c`). One step per word that is read or programmed. The image is a
record of words: the magic word, the size in entries, and an id and a value per saved
parameter. A word is what was written to it, erased, or `Mixed` after an operation that was
cut short, in which case a reader may see anything. `locked` and `err` are the two bits of
the controller that `FLASH_ProgramWord` and `FLASH_EraseSector` look at: an error of one
operation, of which a write to the locked controller is one, makes all later ones return
at once, and `parameter.c` looks at no result. A power cut may come between two steps
or inside an operation on the flash. A size that is no number of entries takes
`param_load` out of the memory, which is a HardFault; `init_task` loads before it starts
the watchdog, so that only a shell's HardFault ends in a reset.
`cmd_sp` stands for every write to a saved parameter, that of the control code included.
Only the saved parameters are kept; their types, bounds and names are in `Values`.

**Readline** (`readline.c`, `command.c`, `shell_task.c`). One step is one key, from the
value `getchar_ex` returns to the `fflush` before the next key. The line is a sequence, the
history the flat buffer of zero-terminated strings that the code keeps, with its count of
lines. What the editor sends goes to `term`, one row of a VT100 with a cursor and the
insert mode; in an ANSI sequence the parameter 0 means 1, which is why the code sends none.
A step that ends a line also runs the command, which may leave anything on the terminal,
and begins the next `readline`. The terminal is assumed to be wide enough for the prompt
and the longest line: the shell's own sizes (2 and 79 characters, `TERMINAL_WIDTH` 80) miss that
by two columns. Behind the terminator of the line the buffer has bytes that nothing clears. They
matter in one place: `strncpy(s, ..., n-1)` puts no terminator behind a recalled line of
full length, and the line ends there only if the last byte of the buffer is 0. `last` is that
byte: 0, what was in it when the task began (the array is not initialised), or what a
completion has moved there. `Store` is what every key does to the buffer, with `top`, the last
byte it writes or looks at: the terminator of an ordinary edit, the end of the move at
`command.c:192`, the byte behind a recalled line that has no terminator. A key with a `top` behind the
buffer sets `overrun`, and the behaviour ends there, as what the program then reads and
overwrites is another part of the stack; this is why `shell` does not check for deadlock.
`MaxLines`, at which the lines that may be entered run out, ends no behaviour: other keys are
always possible. Left out: the other bytes behind the terminator, and control
characters at the end of an unknown key sequence (ESC RETURN, for example), which the code puts
into the line as they pass its test for control codes.

**Terminals** (`term_xbee.c`, `term_usb.c`, `usbd_cdc_core.c`). A behaviour has one of the two
terminals. A call on a queue is one step, as FreeRTOS makes it; a task is at a character of
its text, between the character and the `CR1 |= TXEIE` after it, or in a read. The USART is
its two data registers and TXEIE; the handler moves a byte in each direction. On USB one step is
one interrupt: bytes of the host (`usbd_cdc_DataOut`), a packet the host has collected
(`usbd_cdc_DataIn`), a start of frame that ends `CDC_IN_FRAME_INTERVAL`, each or none of them, and
`VCP_DataTx`, which moves half of the queue into `APP_Rx_Buffer`. The class driver's buffer,
pointers, rest of the transfer and packet are in `app`. Items in the transmit queue carry the task
that wrote them, which the code's bytes do not: it is how `owed` (what the peer is still to get, per
task) is compared with what is under way. `VCP_DataTx` does not look at the pointer behind which the
driver still has to send. When the pointers meet, which takes a host that does not
collect, the driver takes the full buffer for an empty one: `lapped` says so, and the history begins
again when nothing is left under way. In the same way `lost` says that `rx_queue` was full. Left
out: `xbee_poll_send`, statistics, set-up, and a reconfiguration by the host.
The peer sends one kind of line end (CR, LF or CRLF) for its new line; with mixed ones an LF typed
after a CRLF is swallowed, as `last_c` is then CR.

**RcPpm** (`rc_ppm.c`). Time is discrete. `wire` is the transmitter: channels, then a pause, as
often as it likes; `tim` is TIM12 in one-pulse mode, started by an edge, with a capture
register, ARR and two flags; `isr` is the position in the handler, whose accesses to the
timer are single steps with edges and ticks in between, up to the latency that other
interrupts and critical sections cause, at most `sync_width`. The update flag is set at start, as
`TIM_TimeBaseInit` generates an update event. `Quiet` says that from now on the signal is regular and the handler
in time. Premises: the pause is at least `sync_width` and twice the latency (a stall of the core by
a flash erase is longer, and could end in a frame that is made of two); no edge comes between
start-up and the first run of the handler; glitches follow a true edge within `min_width`, and
do not come together with frames that are too long. Of a frame longer than `FrameLimit` (50 ms) the
end may pass for a frame. `FrameLimit + sync_width` fits into 16 bits, which the parameter table
does not enforce (see the hazard at `rc_ppm.c:54`). Left out: the signal quality, the time stamp (its age is in `Flight`), and
a change of the widths or the polarity at run time. (`PpmInit`, `PpmSpec` and the like have names
of their own, so that one module can extend `Flight` and `RcPpm`.)

**MC modules.** They only give values to constants.

## 4. The runs

| Run | Instance | What it shows | States |
|---|---|---|---|
| `ring` | 4 slots, 2 bytes, requests of one to four bytes | `NoSlotRace`; the ring implements `RingFifo` | 146,896 |
| `uart` | rings of 3 slots, 2 bytes | order and completeness in both directions, no lost wake-up, `uart_flush` tells the truth, every byte is sent, every call returns | 154,884 |
| `i2c` | three tasks with slaves that may not answer; one task with every fault | mutual exclusion, a clean start, honest results, whole transactions (`BusService`), every call returns | 14,963 |
| `i2c_shared` | two shells scanning a bus with faults | **violation**: finding 1 | |
| `flight` | two motors, one reversed; short start sequence; PPM, an empty receiver and none | motors stop when disarmed and when the link is dead, start from rest, are started once armed, and keep their direction | 487,116 |
| `boot` | two sectors of two and one cells, a file of two sections, window of 1, four faults | only a whole image is started; the host is past a section only when it is in the flash; a retry succeeds; an intact application is started | 57,931 |
| `boot_enter` | the same with one fault | **violation**: finding 2 | |
| `packets` | bytes 0 to 4, messages of one to three bytes, one damaged or lost byte, time-out of one tick | no buffer is overrun; a packet that comes through undisturbed arrives once and as it was sent | 663,330 |
| `param` | two shells, two parameters of two values, one power cut | an image with its magic word is whole; a save that returns has saved; start-up loads an image or the defaults | 991,044 |
| `shell` | lines of three characters, three commands, a history of seven bytes, two more lines | the terminal shows the line and the cursor, the history holds the most recent lines that fit, and only a completion, or what it has left at the end of the buffer, makes the program leave the line buffer | 746,730 |
| `terminals` | queues of two, a USB buffer of four in packets of two; two writers to the radio; up to three keys in every line end | what is written arrives in order unless the host lets the buffer overrun, no lost wake-up, each key is read once, every call returns and everything gets sent | 89,779 |
| `ppm` | channels of 3 and 5 ticks, three per frame, room for four, frames of up to 16; glitches, late handlers and endless frames | a valid frame is the one that was sent, the counter gets to its end, the decoder recovers | 340,990 |

Why these bounds are enough. Ring and UART: positions wrap several times, the
rings are full and empty, a request is longer than the free space, and the
behaviour depends on positions only through their difference modulo the size.
I2C: two callers are needed for a conflict and a third to wait behind them; the
code treats all faults of one class alike. Flight: motors do not interact
except through the order in which the loop visits them and through `check_limits`;
two of opposite direction show both. The battery is fine throughout the run; the proofs
of section 6 cover every measurement, and a larger instance with a low battery (971,928 states)
gave the same result. Update: one section shorter and one longer than
the window, a sector with more than one cell (a half-erased one exists), an
old image that shares cells with the new one, and four faults, which allow for a
late answer, a lost packet, a power cut and a cancel in one behaviour. A
larger instance (a window of 2 with longer sections) was checked with the same result.
Packets: with bytes up to 4 a full run has three bytes, and with the checksum the messages
have runs shorter, equal and longer than that, zeros at every place, last bytes
below, at and above their length code, and the greatest length; the messages are
all there are of up to three bytes with the least or the greatest id. One damaged byte is
enough to lose an end marker, to make one, or to leave the receiver in the middle of a
packet; more of them add nothing between two end markers. Parameters: two entries are
a first and a last one; one cut, after which every image that a save or a clear can leave is
loaded, changed and saved again; two shells in every order. Shell: a line is empty, has one of each side of the
cursor, or is full; the commands have a common prefix, are prefixes of each other, and
are unique; a completion moves bytes that end before, at and behind the last one of the
buffer, and a line of full length is recalled after each of them; the history drops no line, one or two
for a new one, and is once filled to its last byte. Terminals: a queue of two is empty, partly
filled and full in front of each character; a text has a plain character and a newline, so that
two writers meet at every place of a call; the buffer wraps in the middle of a transfer, is
overrun, and holds two packets; a CRLF falls into one read, two, or a read that finds the second
byte missing. PPM: the number of channels is one too few, right, one too many and more than there is
room for; an edge is before, at and behind the end of a frame; a handler is as late as to miss
one edge and two; the end of a frame goes beyond `FrameLimit`, and 16-bit arithmetic wraps where it
can.

`TypeOK` of a module is its only type invariant. Where a proof establishes it for every value of
the constants and it is as plain as a type, the run spends its time on the other properties: that of
`RingBuf`, `I2cDriver`, `Flight`, `BootUpdate`, `Parameter` and `Readline` is proved and not run. So are `ClaimsValid` (ring),
`CallInProgress` (UART), `TransferPhases` (I2C) and `VerifyPhases` (update), which say what holds
between two steps of a call or a protocol: they are the inductive invariants of section 6, and were
checked by TLC before.

**Findings.** 1. `i2c_init` gives the mutex (`i2c_driver.c:384`) when it is called for
recovery inside a call that holds it: a second task enters, and the caller's own
give then releases the second task's mutex. 2. The answer to `bootResetHack` is not
ignored when it is late but taken by `bootEnter` (`BootProtocol.cpp:121`); every later
answer is then one request off, and `sendHexFile` keeps entering the boot loader for ever.
Seen while reading and not modelled: `cmd_set_pwm` checks `id` where it should check
`step`; the comments about step 0 ("Brake") and 7 ("Free-Wheel") of the motor driver do
not match its table.
Seen while modelling `Readline`, and in the model: the move with which `cmd_completion` makes
room for the completed name (`command.c:192`) takes `prefix_len` bytes too many from behind the
line, and puts them beyond the length that its comment (line 148, "maximum line length
(including \\0)") and the test at line 182 allow. With `help`, a blank and 73 characters in the
80 bytes of the shell, TAB behind `help` writes up to index 82; in the instance of `shell`, where
`~overrun` as an invariant would fail after three keys, a line of two characters in a buffer of four
is enough. A move that ends at the last byte of the buffer may leave another value than 0 there,
and a recalled line of full length then has no terminator.
Seen while modelling `Parameter`, and in the model, though no line of the repository
promises otherwise: when two shells save at once, the `FLASH_Lock` of one makes the next word
of the other an error that nobody clears, so that this and every later save until the
next reset fails without a word, and the magic word may vouch for an image that has holes.
An erase that is cut short may leave the magic word with a size that is erased; `param_load`
then runs out of the memory before the watchdog is started, and the board does not come up.
`param_set` takes a NaN for a float in range (`parameter.c:92`).
TAB with the cursor inside the first word loses what of the word is behind the cursor
(`cmd_completion` cuts the whole word and puts back the common prefix).

## 5. Fairness

* `Uart`: weak fairness of the main program's steps inside a call, of the handler
  while it has something to do, and of the shift register: one processor that never
  stops, and hardware that does its work (the peer keeps CTS asserted). Nothing makes
  the main program begin a call, and nothing is assumed about received bytes.
* `I2cDriver`: weak fairness of each task's steps, time-outs included, and of the bus:
  a transfer that runs ends with an interrupt, and a STOP condition frees the bus. Strong
  fairness of taking the mutex: FreeRTOS hands it to a task that waits for it, and
  the other tasks cannot overtake it for ever.
* `Flight`: weak fairness of the task and of the motor interrupt (20 kHz timer). No
  fairness for the radio, the pilot or the measurements.
* `BootUpdate`: weak fairness of the boot loader's and of the host's steps that are no
  faults, time-outs included. Nothing forces a fault or a click; `RetrySucceeds`
  speaks of states in which all faults have been used up.

* `Terminals`: strong fairness of each task in a call of `write_r`, as tasks that wait for room
  are of the same priority and FreeRTOS hands a free place to the one that waits longest; weak
  fairness of a read that has something to do, of the two handlers and of the USART's shift
  register; on USB the host keeps sending frames and collecting packets. Nothing makes a task begin
  a call or the peer type.
* `RcPpm`: weak fairness of time, of the edges of a transmitter that is in the middle of a frame,
  and of the handler. Nothing forces `Quiet`; `Recovers` speaks of behaviours in which it comes.

`RingBuf`, `Packets`, `Parameter` and `Readline` state safety only and assume no fairness.

## 6. Proofs

Each `_proofs` module proves its theorems for every value of the constants allowed by
the assumptions in the module it extends. All invariants are shown in the
same way: an inductive strengthening holds initially, one lemma per action
(or per group of similar actions) shows that a step keeps it, and the theorem
combines them with PTL.

* **Uart_proofs**, the ring: `ClaimsValid` is inductive: what each side has claimed lies inside
  what the positions grant it, and what has been copied so far is still there. From
  it `NoSlotRace`, and step simulation of `RingFifo`. Assumed: a buffer of at least
  one slot, and any set of write requests.
* **Uart_proofs**, the serial port: `TypeOK`, `CallInProgress` and the two order invariants together;
  `CallInProgress` is needed because the main program uses a free slot or a flag it
  looked at before interrupts that came in between.
* **I2cDriver_proofs**: `TransferPhases` ties each task's position to the owner of the
  mutex, the semaphore, the flags and the bus. Its premise `SafeUse` (several tasks
  use the bus only if its slaves do nothing worse than not to answer) is exactly
  what finding 1 violates. With it every step is one of `BusService` or changes nothing
  there: taking the mutex begins a call, a transfer that `i2c_transfer` reports as complete
  is one that was served, and giving the mutex ends the call.
* **BootUpdate_proofs**: (a) with "while the application runs no flash operation is
  under way", every step is one of `Firmware` or changes nothing there. (b)
  `TypeOK /\ VerifiedSections /\ VerifyPhases` is inductive. `VerifiedSections` alone is
  not: that a checksum is still true when the host sees it follows only from its being
  the last thing under way, which follows from the host sending nothing after a
  verify request. No premise on the number of faults.

* **Flight_proofs**, the motors: for every motor, a motor without a commutation step is at the
  beginning of its start sequence, and its voltage never has the sign of the other
  direction; that is what `StartsFromRest` and `KeepsDirection` need to be inductive. Between
  two iterations of `flight_ctrl` that find no valid and armed frame, every motor the loop
  has passed is stopped, which gives `StoppedWhenDisarmed`.
* **Flight_proofs**, the decoder: `PpmTypeOK`, and with it `Timely`: an edge that the handler has not taken yet is
  no older than the handler is late, so the counter has not gone on from it for longer than that,
  and the end that the handler sets (the edge and `sync_width`) is not behind the counter. That this
  holds in every phase of the handler rests on CC2IF being clear, or CNT being 0, whenever it
  returns. The assumption that the handler is late by at most `sync_width` (3.8 ms) is the weakest
  one: with a tick more, TLC finds a behaviour in which the counter restarts before the handler
  has seen that it expired, and passes the new ARR. A longer stall is that of a flash erase.
* **Parameter_proofs**: while the image is not tainted, at most one task is in
  `param_save` or `param_clear`, and its position says what the image holds: which
  entries are written, that the magic word and the size are still erased until all of them
  are, and that the controller is unlocked. An image with its magic word is whole.
  `tainted` is a ghost: an erase was cut short, or two tasks were in `param_save` or
  `param_clear` at once, and no erase by one of them alone has come since. While
  `init_task` loads, no shell runs, and the table is the image up to the entry that comes
  next. From it `WholeImage`, `SavedIsStored` and `LoadRestores`.

* **Terminals_proofs**: `TypeOK` and `NoLostWakeup`, with two facts that make them inductive: a
  task in a call of `write_r` has something left to write, and the shell in a call of `read_r` has
  room left to read into. That the queue and the buffer hold items whatever their sizes comes
  from lemmas on the parts of a sequence, that no packet leaves the buffer from one lemma
  per function of the class driver. No premise on the host: it may collect or not.
  `ReadsWhatWasTyped` needs `InInv`: a peer that sends LF for a new line never sends CR, and any
  other sends LF only after CR, so that an LF that is dropped was never a key of its own. Assumed
  is that CR is not 0, as `last_c` begins with 0 and an LF behind it would be dropped.
  `WritesInOrder` needs `OutInv`: the packet at the endpoint ends where the rest of the transfer
  begins, a transfer ends within what waits in the buffer, packet and rest together never fill
  it, a task between CR and LF has the LF next, and after an overrun nothing is owed until nothing
  is left under way. The lemmas say what each function of the class driver does to the bytes in
  the buffer: a new packet and a collected one take from the front, `VCP_DataTx` puts behind what
  waits and, without an overrun, writes over none of it, wraps included. What CRLF conversion,
  a recursive function, does to a text that gets shorter is proved by induction on its length;
  as the provers cannot instantiate the library's theorem, `Induction` states it for sets.
* **Packets_proofs**: `RoundTrip`: `cobsr_decode` of what `cobsr_encode` makes of any packet is that
  packet, the code has no 0, and it is no longer than `EncodedMax` says. The decoder's groups from a
  position on do not depend on what is in front of it. The encoder keeps `Coding`: its complete
  groups stand for a beginning of the source, whatever follows them; the run that is open is the
  rest of what was read; and as only a full run makes the code longer than the source, the number of
  full runs, times the length of one, is at most what was read. `TypeCorrect` uses it for the
  length of what waits on the wire: neither receive buffer is overrun, whatever the line does to
  the bytes. `CleanPacketTheorem` rests on `Undisturbed`: while a packet is not disturbed, what has
  been received and what is still on the wire are together that packet, the clock of `msg_recv`
  is not ahead of the packet's age, and behind an end marker nothing is kept. Assumed is only
  `PacketsAssumption`: sizes, and a time-out of zero or more; no premise on the number of faults.
* **Readline_proofs**: `RInv` says that the terminal shows the line and that the history holds the
  most recent lines. For the terminal, `Shows` gives its row place by place (`RowOf`), and one lemma
  per sequence of `ansi.h` says what the sequence does to it: `LeftShows` and `DelShows` need a
  count of at least 1, as the terminal takes 0 for 1; `ReprintShows` needs nothing but the insert
  mode, whatever a command has left on the row. For the history, `Holds` ties the buffer to a list of
  lines and the places where they end: `strlen` finds exactly these places, as no line has a
  terminator inside, and what `hist_get` reads is the line that was stored. `hist_add` drops
  lines only while the new one does not fit (`AddKeeps`): with the line before the oldest that is
  kept, those that are kept would not fit. For the line buffer, `RInv` has two facts about its
  last byte: it is 0 while the line has full length, and as long as it is what the task began
  with, no line of the history has full length, as storing one would have cleared it. So a recall
  stays in the buffer unless a completion has moved a byte to its end (`RecallSafe`), and with
  `EditSafe` for the other keys that is `OverrunsAreCompletions`. That the completion stays in
  the buffer is not proved, because it does not (section 4); `TypeOK` and the two invariants hold
  up to the step that leaves it, and say nothing of what comes after. Assumed are a prompt
  and a line that fit into the row, a line buffer no larger than the history, and first lines that
  a user could have typed and that are shorter than the buffer by two bytes or more; `MaxLines` is any
  number.

Only model-checked: all liveness (`EverythingIsSent`, `CallsReturn`, `FailSafe`,
`ArmedMotorsRun`, `RetrySucceeds`, `IntactAppRuns`, `OutputKeepsFlowing`, `Recovers`), which is out of
the prover's reach, and `ValidFrameIsWhatWasSent`, which is about sums of widths and holds only for
some combinations of widths and latencies. What a recursive function of a model computes
(`LineStart`, `Bytes`, the first history) is proved by induction on its argument: as the provers cannot
instantiate the library's theorem, `Induction` states it for sets.

## 7. Not modelled

* Steps 9, 12 and the rest of 11 of the plan: the timing of `update_sensorless`, the schedule and
  the readings of the sensors, the argument vector and the commands of the shell.
* A reconfiguration of the USB device by the host, `xbee_poll_send`.
* Damaged packets that a checksum does not detect: `BootUpdate` takes them for lost, and in
  `Packets` they are received, but no property is about them.
* Time together with the flash: that an erase stalls the processor, motor interrupt and
  watchdog task included.
* Vendored libraries (FreeRTOS, ST drivers, USB, CMSIS, FatFs), modelled only as this code
  uses them.
* Numeric code: filters, attitude, unit conversions, the barometer's compensation.
* Waveform generation by DMA (servo and LED outputs), the system-call glue, the crash
  record, the games, and the Qt windows and plots: no protocol, or state that does not feed
  back into the rest.
* `handle_boot_read_data`: it changes nothing and QuadControl never sends it.

How much of the code this is: nearly all of the 213,000 lines under `src/` that look like an
implementation are vendored (ST's and ARM's libraries, FreeRTOS, FatFs with its code pages,
QCustomPlot) or tables. The project's own files that keep state number about 6,200 lines; the
definitions listed under "map" stand for some 2,650 lines, among them one class driver of ST's
that the terminal depends on.
