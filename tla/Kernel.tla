--------------------------------- MODULE Kernel ---------------------------------
(***************************************************************************)
(* The kernel program: kernel.cbl from its entry to the menu and to the    *)
(* power-off, with the presentation of krnlpres.cbl, the PS/2 driver of    *)
(* krnlps2c.cbl, the hardware I/O program krnlhwio.cbl it calls, and the   *)
(* port accesses of main.c.                                                *)
(*                                                                         *)
(* The start-up is a fixed list of operations, one record each, with the   *)
(* paragraphs that are performed written out.  A read of a port is three   *)
(* accesses, a step each, for the devices go on in between: the drive may  *)
(* be absent, late or never ready, the serial port may loop or not.  All   *)
(* that is displayed goes to the first port of the serial port, too: of a  *)
(* text that follows an access only the last char is written here.         *)
(***************************************************************************)
EXTENDS Integers, Sequences

CONSTANTS
    Tries,      \* status reads of a wait of the ATAPI driver
    PacketSize, \* ATAPI-CMD-SIZE
    FrameBound  \* bound: slides on top of each other that are looked at

ASSUME KernelAssumption ==
    Tries \in Nat /\ PacketSize \in Nat /\ FrameBound \in Nat \ {0}

VARIABLES
    place,      \* "start-up", "menu", "slides", "shell" or "off"
    pc,         \* the operation of the start-up
    access,     \* the next access of a read: "C" 8, "H" 16, "S" 32 bits
    ioData,     \* IO-DATA, its four bytes from the lowest
    timeout, status,        \* WS-TIMEOUT, ATAPI-STATUS
    complaints,             \* what the checks have displayed
    hwioData, config, devices,  \* WS-HWIO-DATA, PS2-CONFIG, PS2-NUM-DEVICES
    hwioPorts,  \* history: the ports KRNLHWIO has accessed
    frames,     \* the slides that are performed, each by the one before
    drive,      \* external: the ATAPI drive
    uart        \* external: the serial port

wait == <<timeout, status>>
ps2  == <<hwioData, config, devices, hwioPorts>>
io   == <<access, ioData>>
vars == <<place, pc, io, wait, complaints, ps2, frames, drive, uart>>

-----------------------------------------------------------------------------
(* BITWISE-AND and SUBITAND: bit by bit until one operand is used up.      *)
BitAnd[a \in Nat] ==
    [b \in Nat |-> IF a = 0 \/ b = 0 THEN 0
                  ELSE (a % 2) * (b % 2) + 2 * BitAnd[a \div 2][b \div 2]]

(* IO-DATA under a mask of one byte.  The MOVE to WS-AND1 keeps eight      *)
(* decimal digits, which leaves the lowest byte as it is.                  *)
Masked(mask) == BitAnd[ioData[1]][mask]

Equals(byte) == ioData = <<byte, 0, 0, 0>>

-----------------------------------------------------------------------------
(* The operations of the start-up.                                         *)
Out8(port, data) == [do |-> "out", port |-> port, data |-> data]
In8(port)        == [do |-> "in", port |-> port]

(* IO-DATA is compared with a byte, and if it is (not) that byte something *)
(* is displayed.                                                           *)
Check(byte, equal, text) ==
    [do |-> "check", byte |-> byte, equal |-> equal, text |-> text]

Ata(n)  == 496 + n      \* ATAPI-BUS + n
Control == Ata(518)
Com(n)  == 1016 + n     \* UART-PORT + n

(* A wait reads the status until some bits are set, or are clear, and      *)
(* tests that before it reads.                                             *)
WaitUntil(set, mask) ==
    <<[do |-> "begin wait"], [do |-> "until", set |-> set],
      In8(Ata(7)), [do |-> "take status", mask |-> mask]>>

AtapiDrivesel ==
    <<In8(Ata(7)), Check(255, TRUE, "drive not present"), Out8(Ata(6), 160),
      In8(Control), In8(Control), In8(Control), In8(Control)>>

AtapiSendCommand ==
    <<Out8(Ata(1), 0), Out8(Ata(4), 0), Out8(Ata(5), 0), Out8(Ata(7), 160)>>
    \o WaitUntil(TRUE, 128) \o WaitUntil(FALSE, 9)
    \o <<[do |-> "error bit?"]>>
    \o [word \in 1 .. PacketSize |-> Out8(Ata(0), 0)]

AtapiRead == AtapiDrivesel \o AtapiSendCommand \o <<In8(Ata(5)), In8(Ata(4))>>

UartTest ==
    <<Out8(Com(0), 174), [do |-> "display"],
      In8(Com(0)), [do |-> "display"], Check(174, FALSE, "UART test failure")>>

(* Mutant: the divisor is written after its latch is closed.               *)
UartInitLatchClosed ==
    <<Out8(Com(1), 0), Out8(Com(3), 128), Out8(Com(3), 3),
      Out8(Com(0), 3), Out8(Com(1), 0), Out8(Com(2), 199),
      Out8(Com(4), 11), Out8(Com(4), 30)>> \o UartTest \o <<Out8(Com(4), 15)>>

UartInit ==
    <<Out8(Com(1), 0), Out8(Com(3), 128), Out8(Com(0), 3), Out8(Com(1), 0),
      Out8(Com(3), 3), Out8(Com(2), 199),
      Out8(Com(4), 11), Out8(Com(4), 30)>> \o UartTest \o <<Out8(Com(4), 15)>>

(* Calls of KRNLHWIO with the data that is in its record then: a value, or *)
(* PS2-CONFIG, or what was there before.  Some are made for two devices.   *)
Hw(mode, port, from, data) ==
    [do |-> "hwio", mode |-> mode, port |-> port, from |-> from, data |-> data,
     dual |-> FALSE]
Command(c)  == Hw("out", 100, "value", c)
Data(d)     == Hw("out", 96, "value", d)
Config      == Hw("out", 96, "config", 0)
Wait        == Hw("in", 100, "before", 0)     \* PS2-WAIT-INPUT, PS2-WAIT-OUTPUT
Read        == Hw("in", 96, "before", 0)
Ps2(what)   == [do |-> what, dual |-> FALSE]
Fails(text, byte) == [do |-> "fails?", text |-> text, byte |-> byte, dual |-> FALSE]
IfDual(ops) == [k \in DOMAIN ops |-> [ops[k] EXCEPT !.dual = TRUE]]

Ps2Init ==
    <<Command(173), Command(167), Read,
      Command(32), Wait, Read, Ps2("configure"),
      Command(96), Config,
      Command(170), Wait, Read, Fails("PS2 controller test", 85),
      Command(96), Config>>
    \o IfDual(<<Command(168), Command(32), Wait, Read, Ps2("second started?"),
                Command(167)>>)
    \o <<Wait, Command(171), Read, Fails("First port test", 0)>>
    \o IfDual(<<Wait, Command(169), Read, Fails("Second port test", 0)>>)
    \o <<Wait, Command(174)>> \o IfDual(<<Wait, Command(168)>>)

(* PS2-DEVSEL is never set: it is 0, the first port.  WRITE-FIRST selects  *)
(* it and waits, with the data in the record already.                      *)
WriteFirst(d) == Hw("in", 100, "value", d)

(* Mutant: the configuration is taken before it is asked for.              *)
Ps2InitKeyboardTooEarly ==
    <<WriteFirst(255), Data(255), Wait, Read, WriteFirst(246), Data(246), Wait, Read,
      WriteFirst(243), Data(243), WriteFirst(127), Data(127), Wait, Read,
      WriteFirst(244), Data(244), Wait, Read,
      Ps2("read configuration"), Command(32), Wait, Read,
      Command(96), Wait, Config,
      WriteFirst(240), Data(240), WriteFirst(1), Data(1)>>

Ps2InitKeyboard ==
    <<WriteFirst(255), Data(255), Wait, Read, WriteFirst(246), Data(246), Wait, Read,
      WriteFirst(243), Data(243), WriteFirst(127), Data(127), Wait, Read,
      WriteFirst(244), Data(244), Wait, Read,
      Command(32), Wait, Read, Ps2("read configuration"),
      Command(96), Wait, Config,
      WriteFirst(240), Data(240), WriteFirst(1), Data(1)>>

StartUp == AtapiRead \o UartInit \o Ps2Init \o Ps2InitKeyboard

-----------------------------------------------------------------------------
(* The devices.                                                            *)
Drives == {"absent", "ready", "busy", "asks", "error"}

(* The bits beside BSY mean nothing while that is set.                     *)
StatusBytes ==
    IF drive = "absent" THEN {255} ELSE IF drive = "ready" THEN {80}
    ELSE IF drive = "busy" THEN {128, 137} ELSE IF drive = "asks" THEN {88} ELSE {81}

Latched(u) == u.lcr >= 128
Looping(u) == u.mcr % 32 >= 16

(* The registers of a serial port from its first port on.                  *)
UartByte(n) ==
    IF uart.kind = "absent" THEN 255
    ELSE IF n = 0 THEN IF Latched(uart) THEN uart.dll ELSE uart.rbr
    ELSE IF n = 1 THEN IF Latched(uart) THEN uart.dlm ELSE uart.ier
    ELSE IF n = 2 THEN IF uart.fcr % 2 = 1 THEN 193 ELSE 1
    ELSE IF n = 3 THEN uart.lcr ELSE IF n = 4 THEN uart.mcr ELSE 0

(* Ports that no device has read as ones.                                  *)
ByteAt(port, statusByte) ==
    IF port \in {Ata(7), Control} THEN statusByte
    ELSE IF port \in Com(0) .. Com(7) THEN UartByte(port - Com(0))
    ELSE IF port \in Ata(0) .. Ata(6) /\ drive # "absent" THEN 0 ELSE 255

(* A byte that loops may be late or lost, for nobody waits for it.         *)
UartWritten(u, n, byte) ==
    IF u.kind = "absent" THEN {u}
    ELSE IF n = 0 THEN
        IF Latched(u) THEN {[u EXCEPT !.dll = byte]}
        ELSE IF Looping(u) /\ u.kind = "good" THEN {u, [u EXCEPT !.rbr = byte]} ELSE {u}
    ELSE IF n = 1 THEN
        {IF Latched(u) THEN [u EXCEPT !.dlm = byte] ELSE [u EXCEPT !.ier = byte]}
    ELSE IF n = 2 THEN {[u EXCEPT !.fcr = byte]}
    ELSE IF n = 3 THEN {[u EXCEPT !.lcr = byte]} ELSE {[u EXCEPT !.mcr = byte]}

(* A byte that is read is taken off; an empty register may go on showing   *)
(* it.                                                                     *)
UartRead(ports) ==
    IF Com(0) \in ports /\ ~ Latched(uart)
    THEN {uart, [uart EXCEPT !.rbr = 0]} ELSE {uart}

(* A command makes a drive busy, the words of a packet may.                *)
DriveWritten(port) ==
    IF port = Ata(7) /\ drive \in {"ready", "error"} THEN {"busy"}
    ELSE IF port = Ata(0) /\ drive = "asks" THEN {"asks", "busy"} ELSE {drive}

(* A busy drive gets ready, some time or never, or fails.                  *)
DriveGoes ==
    /\ drive = "busy" /\ drive' \in {"ready", "asks", "error"}
    /\ UNCHANGED <<place, pc, io, wait, complaints, ps2, frames, uart>>

-----------------------------------------------------------------------------
(* The firmware leaves the latch of the divisor closed: if it were open,   *)
(* the first write of UART-INIT would not disable the interrupts.          *)
Init ==
    /\ place = "start-up" /\ pc = 1
    /\ access = "C" /\ ioData = <<0, 0, 0, 0>>
    /\ timeout = 0 /\ status = 0 /\ complaints = {}
    /\ hwioData = 0 /\ config = 0 /\ devices = 0 /\ hwioPorts = {}
    /\ frames = <<>>
    /\ drive \in Drives \ {"asks"}
    /\ \E kind \in {"good", "broken", "absent"}, dlm \in {0, 4} :
          uart = [kind |-> kind, ier |-> 1, lcr |-> 3, dll |-> 1, dlm |-> dlm,
                  fcr |-> 0, mcr |-> 0, rbr |-> 0]

Op == StartUp[pc]

Doing(what) == place = "start-up" /\ pc <= Len(StartUp) /\ Op.do = what

(* What is only for two devices is passed over with one.                   *)
Wanted == Op.dual => devices = 2

Goes == pc' = pc + 1

(* addch writes each char of a text to port 0x3F8.                         *)
Blank == 32
CarriageReturn == 13
Shown(u, char) == UartWritten(u, 0, char)

(* IO_OUT, for a byte or for a word of which only the low byte matters.    *)
Out ==
    /\ Doing("out") /\ Goes
    /\ ioData' = <<Op.data, 0, 0, 0>>
    /\ \E u \in IF Op.port \in Com(0) .. Com(7)
               THEN UartWritten(uart, Op.port - Com(0), Op.data) ELSE {uart} :
          uart' \in Shown(u, Blank)
    /\ drive' \in DriveWritten(Op.port)
    /\ UNCHANGED <<place, access, wait, complaints, ps2, frames>>

BytesOf == [C |-> 1, H |-> 2, S |-> 4]

(* IO_IN falls through from each access to the wider ones.                 *)
Following == [C |-> "H", H |-> "S", S |-> "C"]

In ==
    /\ Doing("in")
    /\ \E statusByte \in StatusBytes :
          ioData' = [k \in 1 .. 4 |-> IF k > BytesOf[access] THEN 0
                                      ELSE ByteAt(Op.port + k - 1, statusByte)]
    /\ access' = Following[access]
    /\ \E u \in UartRead(Op.port .. Op.port + BytesOf[access] - 1) :
          uart' \in IF access' = "C" THEN Shown(u, Blank) ELSE {u}
    /\ pc' = IF access' = "C" THEN pc + 1 ELSE pc
    /\ UNCHANGED <<place, wait, complaints, ps2, frames, drive>>

Display ==
    /\ Doing("display") /\ Goes
    /\ uart' \in Shown(uart, CarriageReturn)
    /\ UNCHANGED <<place, io, wait, complaints, ps2, frames, drive>>

Checked ==
    /\ Doing("check") /\ Goes
    /\ IF Equals(Op.byte) = Op.equal
       THEN /\ complaints' = complaints \cup {Op.text}
            /\ uart' \in Shown(uart, CarriageReturn)
       ELSE UNCHANGED <<complaints, uart>>
    /\ UNCHANGED <<place, io, wait, ps2, frames, drive>>

(* Mutant: the second wait finds the status of the first.                  *)
BeginWaitKeepsStatus ==
    /\ Doing("begin wait") /\ Goes
    /\ timeout' = Tries /\ UNCHANGED status
    /\ UNCHANGED <<place, io, complaints, ps2, frames, drive, uart>>

BeginWait ==
    /\ Doing("begin wait") /\ Goes
    /\ timeout' = Tries /\ status' = 0
    /\ UNCHANGED <<place, io, complaints, ps2, frames, drive, uart>>

(* Mutant: the counter is tested when it is below zero.                    *)
EndsOneLater(set) == (status # 0) = set \/ timeout < 0

Ends(set) == (status # 0) = set \/ timeout = 0

Until ==
    /\ Doing("until")
    /\ pc' = IF Ends(Op.set) THEN pc + 3 ELSE pc + 1
    /\ UNCHANGED <<place, io, wait, complaints, ps2, frames, drive, uart>>

(* Mutant: the tries are not counted.                                      *)
TakeStatusUncounted ==
    /\ Doing("take status") /\ pc' = pc - 2
    /\ status' = Masked(Op.mask) /\ UNCHANGED timeout
    /\ UNCHANGED <<place, io, complaints, ps2, frames, drive, uart>>

TakeStatus ==
    /\ Doing("take status") /\ pc' = pc - 2
    /\ status' = Masked(Op.mask) /\ timeout' = timeout - 1
    /\ UNCHANGED <<place, io, complaints, ps2, frames, drive, uart>>

ErrorBit ==
    /\ Doing("error bit?") /\ Goes
    /\ complaints' = IF BitAnd[status][1] = 0 THEN complaints
                     ELSE complaints \cup {"bit 1 not clear"}
    /\ UNCHANGED <<place, io, wait, ps2, frames, drive, uart>>

(* KRNLHWIO has no USING: its mode and size are not those of the caller    *)
(* but whatever lies at address 0, and its port and data are its own, of   *)
(* which the port is never set.                                            *)
Accessed(op, data) ==
    /\ hwioPorts' \in {hwioPorts, hwioPorts \cup {0}}
    /\ hwioData' = data

Hwio ==
    /\ Doing("hwio") /\ Wanted /\ Goes
    /\ Accessed(Op, IF Op.from = "value" THEN Op.data
                    ELSE IF Op.from = "config" THEN config ELSE hwioData)
    /\ UNCHANGED <<place, io, wait, complaints, config, devices, frames, drive, uart>>

(* The configuration byte is masked before it is tested.                   *)
Configure ==
    /\ Doing("configure") /\ Goes
    /\ config' = BitAnd[hwioData][240]
    /\ devices' = IF BitAnd[config'][32] # 0 THEN 2 ELSE 1
    /\ UNCHANGED <<place, io, wait, complaints, hwioData, hwioPorts, frames, drive, uart>>

SecondStarted ==
    /\ Doing("second started?") /\ Wanted /\ Goes
    /\ config' = hwioData
    /\ devices' = IF BitAnd[hwioData][32] # 0 THEN 1 ELSE devices
    /\ UNCHANGED <<place, io, wait, complaints, hwioData, hwioPorts, frames, drive, uart>>

(* A test of the PS/2 driver; the second port is given up if it fails.     *)
Tested ==
    /\ Doing("fails?") /\ Wanted /\ Goes
    /\ LET failed == hwioData # Op.byte
       IN /\ complaints' = complaints \cup (IF failed THEN {Op.text} ELSE {})
          /\ devices' = IF failed /\ Op.text = "Second port test" THEN 1 ELSE devices
    /\ UNCHANGED <<place, io, wait, hwioData, config, hwioPorts, frames, drive, uart>>

ReadConfiguration ==
    /\ Doing("read configuration") /\ Goes
    /\ config' = hwioData
    /\ UNCHANGED <<place, io, wait, complaints, hwioData, devices, hwioPorts, frames, drive, uart>>

(* With one device what is for two is passed over.                         *)
Skip ==
    /\ Doing("hwio") \/ Doing("fails?") \/ Doing("second started?")
    /\ ~ Wanted /\ Goes
    /\ UNCHANGED <<place, io, wait, complaints, ps2, frames, drive, uart>>

EnterMenu ==
    /\ place = "start-up" /\ pc = Len(StartUp) + 1
    /\ place' = "menu"
    /\ UNCHANGED <<pc, io, wait, complaints, ps2, frames, drive, uart>>

StartUpStep ==
    \/ Out \/ In \/ Display \/ Checked \/ BeginWait \/ Until \/ TakeStatus \/ ErrorBit
    \/ Hwio \/ Configure \/ SecondStarted \/ Tested \/ ReadConfiguration \/ Skip
    \/ EnterMenu

-----------------------------------------------------------------------------
(* The menu, the presentation and the shell; the user chooses.             *)
unattended == <<pc, io, wait, complaints, ps2, drive, uart>>

Menu ==
    /\ place = "menu"
    /\ \/ place' = "slides" /\ frames' = <<1>>
       \/ place' = "shell" /\ UNCHANGED frames
    /\ UNCHANGED unattended

(* The last of three words that power virtual machines off, and STOP RUN.  *)
PowerOff ==
    /\ place = "menu" /\ place' = "off"
    /\ ioData' = <<0, 52, 0, 0>>
    /\ UNCHANGED <<pc, access, wait, complaints, ps2, frames, drive, uart>>

Slide == frames[Len(frames)]

(* A slide performs its neighbour, and neither ever returns to the other.  *)
Turn ==
    /\ place = "slides" /\ Len(frames) < FrameBound
    /\ \E next \in {Slide - 1, Slide + 1} \cap 1 .. 4 : frames' = Append(frames, next)
    /\ UNCHANGED <<place, unattended>>

(* B, or what is beyond the first and the last slide: GOBACK leaves the    *)
(* program from however deep.                                              *)
LeaveSlides ==
    /\ place = "slides"
    /\ place' = "menu" /\ frames' = <<>>
    /\ UNCHANGED unattended

LeaveShell ==
    /\ place = "shell" /\ place' = "menu"
    /\ UNCHANGED <<frames, unattended>>

Next ==
    \/ StartUpStep \/ DriveGoes
    \/ Menu \/ PowerOff \/ Turn \/ LeaveSlides \/ LeaveShell
    \/ place = "off" /\ UNCHANGED vars

(* The kernel does not wait for anybody on its way to the menu.            *)
Spec == Init /\ [][Next]_vars /\ WF_vars(StartUpStep)

-----------------------------------------------------------------------------
Bytes == 0 .. 255

TypeOK ==
    /\ place \in {"start-up", "menu", "slides", "shell", "off"}
    /\ pc \in 1 .. Len(StartUp) + 1
    /\ access \in {"C", "H", "S"} /\ ioData \in [1 .. 4 -> Bytes]
    /\ timeout \in 0 .. Tries /\ status \in Bytes
    /\ hwioData \in Bytes /\ config \in Bytes /\ devices \in 0 .. 2
    /\ Len(frames) <= FrameBound /\ drive \in Drives
    /\ (place = "slides") = (frames # <<>>)

(* Once the menu is there, a serial port that is there is set up: latch    *)
(* closed, 8 bits, FIFO on, no interrupt, no high byte of the divisor, and *)
(* out of the loop of its test, although what is displayed in between is   *)
(* written to its first port.                                              *)
UartReady ==
    place # "start-up" /\ uart.kind # "absent" =>
        /\ uart.lcr = 3 /\ uart.ier = 0 /\ uart.fcr % 2 = 1 /\ uart.mcr = 15
        /\ uart.dlm = 0

(* The checks of the start-up say the same whatever devices there are: an  *)
(* absent drive and one that reports an error are not noticed, and a good  *)
(* serial port and every PS/2 controller fail their tests.  IO_IN reads 32 *)
(* bits of ports for a byte, the second wait ends before it reads a        *)
(* status, and the PS/2 driver tests its own commands.                     *)
ChecksSayTheSame ==
    LET failures == {"UART test failure", "PS2 controller test", "First port test"}
    IN /\ complaints \subseteq failures
       /\ place # "start-up" => complaints = failures

(* The PS/2 driver never touches the controller: what it reads is what it  *)
(* wrote last.  So it takes its own command for the configuration, finds a *)
(* second channel in it, and then takes the next command for the proof     *)
(* that this channel did not start; whatever the controller would say.     *)
ReadsItself ==
    /\ {96, 100} \cap hwioPorts = {}
    /\ place # "start-up" => devices = 1 /\ config = 32

(* However late the drive is, and without one, the menu comes up.          *)
MenuReached == <>(place = "menu")
=============================================================================
