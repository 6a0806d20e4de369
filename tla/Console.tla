------------------------------ MODULE Console -------------------------------
(***************************************************************************)
(* The console (console.c) and the UART driver (uart.c): readers that wait *)
(* for a line, writers that wait for room in the transmit buffer, and the  *)
(* interrupt handler that edits the line, echoes it, and sends what is     *)
(* buffered.  The 16550 is modelled from how the driver uses it.           *)
(*                                                                         *)
(* The handler and the processes run on different CPUs.  An action is what *)
(* one of them does between two accesses to the UART, or while it has a    *)
(* lock and touches no UART.  sleep() releases the lock and                *)
(* sleeps in one step (module Proc).  The three bytes that rub out a       *)
(* character count as one.  A place of a ring is blanked when its byte is  *)
(* taken or erased, which nobody sees.                                     *)
(***************************************************************************)
EXTENDS Naturals, Sequences, FiniteSets

CONSTANTS Reader, Writer,
          INPUT_BUF_SIZE, UART_TX_BUF_SIZE,
          UintMod,         \* the indices are computed modulo this
          Byte,            \* what writers write
          Scene,           \* bound: what is typed, who reads and who writes
          ReadLen,         \* bound: the lengths of reads
          None

\* What consoleintr() tells apart: ordinary characters ("a"), the two that end a
\* line, return (which it replaces by newline), and ^D, ^H, ^U and ^P.
Key == {"a", "nl", "cr", "D", "H", "U", "P"}

intr  == "intr"        \* the handler as a holder of locks
Actor == Writer \cup {intr}

ASSUME ConsoleAssumption ==
    /\ {INPUT_BUF_SIZE, UART_TX_BUF_SIZE, UintMod} \subseteq Nat \ {0}
    /\ UintMod % INPUT_BUF_SIZE = 0 /\ UintMod % UART_TX_BUF_SIZE = 0
    /\ UintMod > INPUT_BUF_SIZE /\ UintMod > UART_TX_BUF_SIZE
    /\ \A s \in Scene : s.typed \subseteq Key /\ s.readers \subseteq Reader
                       /\ s.writers \subseteq Writer
    /\ ReadLen \subseteq Nat \ {0}
    /\ None \notin Actor \cup Byte \cup Key /\ intr \notin Writer

VARIABLES buf, r, w, e,          \* cons: read, write and edit index
          clock,                 \* cons.lock
          rpc, n, got,           \* consoleread(): bytes to go, bytes copied
          killed,
          txbuf, txr, txw,       \* uart_tx_buf
          tlock,                 \* uart_tx_lock
          wpc, ch,               \* writers, and the handler in uartstart(); the byte of a writer
          taken,                 \* the byte that left uart_tx_buf last
          ipc, key,              \* uartintr(): its byte
          scene,                 \* the element of Scene that is played
          rx, thr, irq           \* the UART: received byte, number of bytes to send, interrupt

input  == <<buf, r, w, e>>
reader == <<rpc, n, got, killed>>
output == <<txbuf, txr, txw, tlock, wpc, ch, taken>>
vars   == <<input, clock, reader, output, ipc, key, rx, thr, irq, scene>>

Plus(i, k)  == (i + k) % UintMod
Minus(i, j) == (i + UintMod - j) % UintMod
In(i)  == i % INPUT_BUF_SIZE
Out(i) == i % UART_TX_BUF_SIZE

\* consoleinit(), uartinit()
Init ==
    /\ buf = [i \in 0..(INPUT_BUF_SIZE - 1) |-> None] /\ r = 0 /\ w = 0 /\ e = 0
    /\ clock = None /\ killed = {}
    /\ rpc = [p \in Reader |-> "user"] /\ n = [p \in Reader |-> 0] /\ got = [p \in Reader |-> 0]
    /\ txbuf = [i \in 0..(UART_TX_BUF_SIZE - 1) |-> None] /\ txr = 0 /\ txw = 0
    /\ tlock = None /\ taken = None
    /\ wpc = [a \in Actor |-> "user"] /\ ch = [p \in Writer |-> None]
    /\ ipc = "idle" /\ key = None
    /\ rx = None /\ thr = 0 /\ irq = FALSE /\ scene \in Scene

-----------------------------------------------------------------------------
(* The UART (external).  It interrupts when a byte has arrived, and when it *)
(* has nothing more to send.  The handler deals with a byte before the next *)
(* one arrives.                                                             *)

TxIdle == thr = 0

Type(c) == /\ rx = None /\ key = None /\ rx' = c /\ irq' = TRUE
           /\ UNCHANGED <<input, clock, reader, output, ipc, key, thr, scene>>

Transmit == /\ thr > 0 /\ thr' = thr - 1
            /\ irq' = (irq \/ thr = 1)
            /\ UNCHANGED <<input, clock, reader, output, ipc, key, rx, scene>>

-----------------------------------------------------------------------------
(* consoleread()                                                            *)

\* (A process that was killed exits when it returns to user space.)
Read(p, k) == /\ rpc[p] = "user" /\ p \notin killed
              /\ rpc' = [rpc EXCEPT ![p] = "lock"] /\ n' = [n EXCEPT ![p] = k]
              /\ UNCHANGED <<input, clock, got, killed, output, ipc, key, rx, thr, irq, scene>>

\* How many bytes the loop of consoleread() takes: up to the end of a line or
\* of the file, as many as are wanted, as many as there are, or up to one that
\* cannot be copied out.
Complete == [i \in 1..Minus(w, r) |-> buf[In(r + i - 1)]]
Takes(p, bad) ==
    LET stop == {i \in DOMAIN Complete : Complete[i] \in {"nl", "D"} \/ i \in {n[p], bad}}
    IN  IF stop = {} THEN Len(Complete) ELSE CHOOSE i \in stop : \A j \in stop : i <= j

\* From acquire(&cons.lock) to the release, or the sleep.  ^D ends the read; it
\* stays in the buffer when the read has bytes to return.
ReadLoop(p, bad) ==
    LET k    == Takes(p, bad)
        last == IF k = 0 THEN None ELSE Complete[k]
        ends == last \in {"nl", "D"} \/ k = n[p] \/ k = bad \/ p \in killed
        keep == last = "D" /\ got[p] + k > 1
        used == IF keep THEN k - 1 ELSE k
    IN  /\ rpc[p] = "lock" /\ clock = None
        /\ r' = Plus(r, used)
        /\ buf' = [i \in DOMAIN buf |->
                      IF \E j \in 1..used : i = In(r + j - 1) THEN None ELSE buf[i]]
        /\ rpc' = [rpc EXCEPT ![p] = IF ends THEN "user" ELSE "asleep"]
        /\ n' = [n EXCEPT ![p] = IF ends THEN 0 ELSE @ - k]
        /\ got' = [got EXCEPT ![p] = IF ends THEN 0 ELSE IF k > 0 THEN 1 ELSE @]
        /\ UNCHANGED <<w, e, clock, killed, output, ipc, key, rx, thr, irq, scene>>

Kill(p) == /\ p \notin killed /\ killed' = killed \cup {p}
           /\ rpc' = [rpc EXCEPT ![p] = IF @ = "asleep" THEN "lock" ELSE @]
           /\ UNCHANGED <<input, clock, n, got, output, ipc, key, rx, thr, irq, scene>>

-----------------------------------------------------------------------------
(* consolewrite(), uartputc(), and uartstart() for its callers              *)

GoW(a, l) == wpc' = [wpc EXCEPT ![a] = l]

Write(p, c) == /\ wpc[p] = "user" /\ GoW(p, "lock") /\ ch' = [ch EXCEPT ![p] = c]
               /\ UNCHANGED <<input, clock, reader, txbuf, txr, txw, tlock, taken,
                              ipc, key, rx, thr, irq, scene>>

TooFull == txw = Plus(txr, UART_TX_BUF_SIZE + 1)                        \* mutant
TxFull == txw = Plus(txr, UART_TX_BUF_SIZE)

\* From acquire(&uart_tx_lock) to the sleep, or to uartstart()
WriteSleep(p) == /\ wpc[p] = "lock" /\ tlock = None /\ TxFull /\ GoW(p, "asleep")
                 /\ UNCHANGED <<input, clock, reader, txbuf, txr, txw, tlock, ch, taken,
                                ipc, key, rx, thr, irq, scene>>

WritePut(p) == /\ wpc[p] = "lock" /\ tlock = None /\ ~TxFull /\ tlock' = p /\ GoW(p, "start")
               /\ txbuf' = [txbuf EXCEPT ![Out(txw)] = ch[p]] /\ txw' = Plus(txw, 1)
               /\ ch' = [ch EXCEPT ![p] = None]
               /\ UNCHANGED <<input, clock, reader, txr, taken, ipc, key, rx, thr, irq, scene>>

WakeNobody(f, chan)  == f                                               \* mutant
WakeWriters(f, chan) == [a \in Actor |-> IF f[a] = "asleep" THEN "lock" ELSE f[a]]

\* A turn of uartstart() up to the write of THR
Startable == txw # txr /\ TxIdle

StartTake(a) ==
    /\ wpc[a] = "start" /\ Startable
    /\ taken' = txbuf[Out(txr)] /\ txr' = Plus(txr, 1)
    /\ txbuf' = [txbuf EXCEPT ![Out(txr)] = None]
    /\ wpc' = [WakeWriters(wpc, "txr") EXCEPT ![a] = "send"]
    /\ UNCHANGED <<input, clock, reader, txw, tlock, ch, ipc, key, rx, thr, irq, scene>>

StartSend(a) ==
    /\ wpc[a] = "send" /\ thr' = thr + 1 /\ GoW(a, "start")
    /\ UNCHANGED <<input, clock, reader, txbuf, txr, txw, tlock, ch, taken,
                   ipc, key, rx, irq, scene>>

\* Nothing to send or the UART is busy: uartstart() returns, and its caller
StartDone(a) ==
    /\ wpc[a] = "start" /\ ~Startable /\ GoW(a, "user") /\ tlock' = None
    /\ ipc' = IF a = intr THEN "idle" ELSE ipc
    /\ UNCHANGED <<input, clock, reader, txbuf, txr, txw, ch, taken, key, rx, thr, irq, scene>>

-----------------------------------------------------------------------------
(* uartintr() and consoleintr()                                             *)

Intr == /\ ipc = "idle" /\ irq /\ irq' = FALSE /\ ipc' = "getc"
        /\ UNCHANGED <<input, clock, reader, output, key, rx, thr, scene>>

Getc == /\ ipc = "getc" /\ rx # None /\ clock = None
        /\ key' = rx /\ rx' = None /\ ipc' = "edit" /\ clock' = intr
        /\ UNCHANGED <<input, reader, output, thr, irq, scene>>

NoRoomCheck == TRUE                                                     \* mutant
Room == Minus(e, r) < INPUT_BUF_SIZE

\* The characters that erase; ^U returns to look at the character before.
Erases == /\ key \in {"U", "H"} /\ e # w
          /\ key = "U" => buf[In(Minus(e, 1))] # "nl"

Release == ipc' = "getc" /\ clock' = None /\ key' = None
Echo    == ipc' = "echo" /\ UNCHANGED <<clock, key>>

Edit ==
    /\ ipc = "edit"
    /\ IF Erases
       THEN e' = Minus(e, 1) /\ buf' = [buf EXCEPT ![In(e')] = None] /\ Echo
       ELSE /\ IF key \in {"U", "H", "P"} \/ ~Room THEN Release ELSE Echo
            /\ UNCHANGED <<buf, e>>
    /\ UNCHANGED <<r, w, reader, output, rx, thr, irq, scene>>

\* uartputc_sync() spins until the UART is idle, and then writes THR.
DoNotWait == TRUE                                                       \* mutant
SyncReady == TxIdle

EchoWait == /\ ipc = "echo" /\ SyncReady /\ ipc' = "send"
            /\ UNCHANGED <<input, clock, reader, output, key, rx, thr, irq, scene>>

EchoErased ==
    /\ ipc = "send" /\ key \in {"U", "H"} /\ thr' = thr + 1
    /\ IF key = "U" THEN ipc' = "edit" /\ UNCHANGED <<clock, key>> ELSE Release
    /\ UNCHANGED <<input, reader, output, rx, irq, scene>>

IsComplete(c, len) == c \in {"nl", "D"} \/ len = INPUT_BUF_SIZE

EchoStore ==
    LET c    == IF key = "cr" THEN "nl" ELSE key
        done == IsComplete(c, Minus(Plus(e, 1), r))
    IN  /\ ipc = "send" /\ key \notin {"U", "H"} /\ thr' = thr + 1
        /\ buf' = [buf EXCEPT ![In(e)] = c] /\ e' = Plus(e, 1)
        /\ w' = IF done THEN e' ELSE w
        /\ rpc' = [p \in Reader |-> IF done /\ rpc[p] = "asleep" THEN "lock" ELSE rpc[p]]
        /\ Release
        /\ UNCHANGED <<r, n, got, killed, output, rx, irq, scene>>

\* No more input: send buffered characters.
NothingToSend == ipc = "getc" /\ rx = None /\ ipc' = "idle"             \* mutant
    /\ UNCHANGED <<input, clock, reader, output, key, rx, thr, irq, scene>>
IntrStart ==
    /\ ipc = "getc" /\ rx = None /\ ipc' = "start" /\ GoW(intr, "txlock")
    /\ UNCHANGED <<input, clock, reader, txbuf, txr, txw, tlock, ch, taken,
                   key, rx, thr, irq, scene>>

IntrTxLock ==
    /\ wpc[intr] = "txlock" /\ tlock = None /\ tlock' = intr /\ GoW(intr, "start")
    /\ UNCHANGED <<input, clock, reader, txbuf, txr, txw, ch, taken, ipc, key, rx, thr, irq, scene>>

-----------------------------------------------------------------------------

ReaderStep(p) == \E bad \in 1..(INPUT_BUF_SIZE + 1) : ReadLoop(p, bad)
WriterStep(p) == WriteSleep(p) \/ WritePut(p)
Uartstart(a)  == StartTake(a) \/ StartSend(a) \/ StartDone(a)
Handler == \/ Intr \/ Getc \/ Edit \/ EchoWait \/ EchoErased \/ EchoStore
           \/ IntrStart \/ IntrTxLock

Next == \/ Transmit \/ Handler
        \/ \E c \in scene.typed : Type(c)
        \/ \E p \in Reader : ReaderStep(p)
        \/ \E p \in Writer : WriterStep(p)
        \/ \E p \in scene.readers : Kill(p) \/ \E k \in ReadLen : Read(p, k)
        \/ \E p \in scene.writers, c \in Byte : Write(p, c)
        \/ \E a \in Actor : Uartstart(a)

Spec == Init /\ [][Next]_vars

-----------------------------------------------------------------------------

Ring(b, from, to, size) == [i \in 1..Minus(to, from) |-> b[(from + i - 1) % size]]

Editor == INSTANCE LineEditor WITH
    Char <- {"a", "nl", "D"}, Ends <- {"nl", "D"}, Capacity <- INPUT_BUF_SIZE,
    committed <- Ring(buf, r, w, INPUT_BUF_SIZE), line <- Ring(buf, w, e, INPUT_BUF_SIZE)

TxQueue == INSTANCE Fifo WITH
    Capacity <- UART_TX_BUF_SIZE, NoByte <- None,
    queue <- Ring(txbuf, txr, txw, UART_TX_BUF_SIZE), out <- taken

\* The ring and its three indices are an editor of lines: what is complete
\* cannot be erased or overwritten, no byte is read before its line is
\* complete or more than once, also when the ring is full, when a read stops
\* at ^D, and when the indices wrap.
ImplementsLineEditor == Editor!LSpec

\* uart_tx_buf is a queue: bytes of writers leave it once and in order.
ImplementsFifo == TxQueue!FOpenSpec

\* A reader sleeps only while no complete line is there, a writer only while
\* the transmit buffer is full: wakeup() never comes too early or not at all.
SleepsForAReason ==
    /\ \A p \in Reader : rpc[p] = "asleep" => r = w
    /\ \A p \in Writer : wpc[p] = "asleep" => TxFull

\* The echo and uartstart() look at the UART under different locks, so both may
\* find it idle: it is given two bytes at most, which its FIFO can hold.
NoOverrun == thr <= 2

\* What is in the transmit buffer will be sent: the UART is busy and will
\* interrupt, or has done so, or somebody is on the way to uartstart().  The
\* interrupt is not lost, though the echo makes the UART busy and idle behind
\* the driver's back.
OutputMoves ==
    txw # txr => \/ ~TxIdle \/ irq \/ ipc # "idle"
                 \/ \E a \in Actor : wpc[a] \in {"start", "send"}
=============================================================================
