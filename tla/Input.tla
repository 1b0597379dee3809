------------------------------- MODULE Input -------------------------------
(***************************************************************************)
(* Where the menu's keys come from: the countdown that any input cancels,  *)
(* InputMux, which merges stdin with the evdev devices, and read_key,      *)
(* which puts bytes together to keys (kexec-menu/src/main.rs, tui.rs and   *)
(* evdev.rs).                                                              *)
(*                                                                         *)
(* The kernel is external: what is typed at a terminal reaches stdin byte  *)
(* by byte, what is pressed on an evdev device becomes an event of it, and *)
(* a keyboard of the machine does both, since the console is a VT          *)
(* (console=tty0) and the devices are not grabbed.  A device may be pulled *)
(* out: its descriptor then polls as hung up for ever, and what was not    *)
(* read of it is lost (ENODEV).  The console itself does not close.        *)
(***************************************************************************)
EXTENDS Integers, Sequences, FiniteSets

CONSTANTS
    NumDevices,   \* the evdev devices, numbered in the order of opening
    Keyboards,    \* those whose keys also reach stdin
    Keys,         \* the keys there are: see Symbol
    Timeout,      \* the autoboot timeout in seconds
    MaxKeys,      \* bound: how many keys and events of the countdown there are in all
    MaxWaiting    \* bound: how many events wait at a device when another comes that is no key

Devices == 1..NumDevices
Stdin == 0
Origins == {Stdin} \cup Devices
Several == NumDevices + 1

ASSUME ConstantsAssumption ==
    /\ NumDevices \in Nat /\ Keyboards \subseteq Devices
    /\ Keys \subseteq {"Up", "Down", "Enter", "Escape", "r"}
    /\ Timeout \in Nat /\ MaxKeys \in Nat /\ MaxWaiting \in Nat

VARIABLES
    phase,       \* "countdown", "menu" or "booted"
    remaining,   \* the countdown's loop variable
    waited,      \* milliseconds spent in polls that timed out
    line,        \* external: bytes on their way to stdin
    tty,         \* external: bytes to be read from stdin
    events,      \* external: events[d], the events to be read from device d
    gone,        \* external: the devices that were pulled out
    ready,       \* the devices the last poll found ready and that are still to be read
    buf,         \* InputMux.buf: the rest of a translated key
    got,         \* the bytes read_key has of the key it is reading
    sent,        \* history: sent[o], the keys put into o, and in the countdown other events
    due,         \* history: due[o], those of them that read_key is to return
    delivered    \* history: the keys read_key returned whose bytes are all of o, or of Several

kernel == <<line, tty, events, gone, sent, due>>
reader == <<ready, buf, got, delivered>>
clock == <<phase, remaining, waited>>
vars == <<clock, kernel, reader>>

----------------------------------------------------------------------------
(* Bytes and keys *)

Arrows == {"Up", "Down"}
Symbol == [Up |-> "A", Down |-> "B", Enter |-> "CR", Escape |-> "ESC", r |-> "r"]

\* What a terminal sends for a key, and what evdev_key_to_bytes gives.
Bytes(key) == IF key \in Arrows THEN <<"ESC", "[", Symbol[key]>> ELSE <<Symbol[key]>>

\* try_read_key and evdev_key_to_bytes: letters, releases and other events are no
\* keys, and Escape becomes nothing.
EventBytes(event) == IF event \in Arrows \cup {"Enter"} THEN Bytes(event) ELSE <<>>

\* read_key: a first byte ESC takes two more, whatever they are.
Complete(bytes) == bytes[1] # "ESC" \/ Len(bytes) = 3
Decode(bytes) ==
    IF bytes[1] = "ESC"
    THEN IF \E key \in Arrows : bytes = Bytes(key)
         THEN CHOOSE key \in Arrows : bytes = Bytes(key) ELSE "Unknown"
    ELSE IF \E key \in DOMAIN Symbol : bytes = Bytes(key)
         THEN CHOOSE key \in DOMAIN Symbol : bytes = Bytes(key) ELSE bytes[1]

Syms(bytes) == [i \in DOMAIN bytes |-> bytes[i].sym]
From(o, syms) == [i \in DOMAIN syms |-> [sym |-> syms[i], from |-> o]]
FirstN(s, n) == SubSeq(s, 1, IF n < Len(s) THEN n ELSE Len(s))
After(s, n) == SubSeq(s, n + 1, Len(s))

OriginOf(bytes) ==
    IF \A i \in DOMAIN bytes : bytes[i].from = bytes[1].from THEN bytes[1].from ELSE Several

\* read_exact asks for one byte, and after an ESC for two.
Wanted == IF got = <<>> THEN 1 ELSE 3 - Len(got)

\* read_key goes on with these bytes.
Accept(bytes) ==
    LET all == got \o bytes IN
    IF Complete(Syms(all))
    THEN /\ got' = <<>>
         /\ delivered' = [delivered EXCEPT ![OriginOf(all)] = Append(@, Decode(Syms(all)))]
    ELSE got' = all /\ UNCHANGED delivered

----------------------------------------------------------------------------

\* With a timeout and a default entry there is a countdown.
Init ==
    /\ phase \in {"countdown", "menu"} /\ waited = 0
    /\ remaining = IF Timeout = 0 THEN 1 ELSE Timeout
    /\ line = <<>> /\ tty = <<>> /\ events = [d \in Devices |-> <<>>] /\ gone = {}
    /\ ready = {} /\ buf = <<>> /\ got = <<>>
    /\ sent = [o \in Origins |-> <<>>] /\ due = sent
    /\ delivered = [o \in Origins \cup {Several} |-> <<>>]

(* The surroundings *)

TotalSent[n \in 0..NumDevices] ==
    Len(sent[n]) + IF n = 0 THEN 0 ELSE TotalSent[n - 1]

\* A key at a terminal.
Type(key) ==
    /\ phase # "booted" /\ TotalSent[NumDevices] < MaxKeys
    /\ line' = line \o From(Stdin, Bytes(key))
    /\ sent' = [sent EXCEPT ![Stdin] = Append(@, key)]
    /\ due' = [due EXCEPT ![Stdin] = Append(@, key)]
    /\ UNCHANGED <<tty, events, gone, reader, clock>>

\* A key on device d; "release" stands for the events that are no key, of which these
\* are those of the countdown.
Press(d, key) ==
    /\ phase # "booted" /\ (key = "release" => phase = "countdown")
    /\ d \notin gone /\ TotalSent[NumDevices] < MaxKeys
    /\ events' = [events EXCEPT ![d] = Append(@, key)]
    /\ LET both == d \in Keyboards /\ key # "release"
           echo == IF both THEN {Stdin} ELSE {}
           Put(lists, here) == [o \in Origins |-> IF o \in here THEN Append(lists[o], key) ELSE lists[o]]
       IN  /\ line' = IF both THEN line \o From(Stdin, Bytes(key)) ELSE line
           /\ sent' = Put(sent, echo \cup {d})
           /\ due' = Put(due, echo \cup IF EventBytes(key) # <<>> THEN {d} ELSE {})
    /\ UNCHANGED <<tty, gone, reader, clock>>

\* In the menu there is no end of them, and nobody has to remember them.
Stir(d) ==
    /\ phase = "menu" /\ d \notin gone /\ Len(events[d]) < MaxWaiting
    /\ events' = [events EXCEPT ![d] = Append(@, "release")]
    /\ UNCHANGED <<line, tty, gone, sent, due, reader, clock>>

Arrive(n) ==
    /\ phase # "booted" /\ n \in 1..Len(line)
    /\ tty' = tty \o FirstN(line, n) /\ line' = After(line, n)
    /\ UNCHANGED <<events, gone, sent, due, reader, clock>>

PullOut(d) ==
    /\ phase # "booted" /\ d \in Devices \ gone
    /\ gone' = gone \cup {d} /\ events' = [events EXCEPT ![d] = <<>>]
    /\ UNCHANGED <<line, tty, sent, due, reader, clock>>

(* run_tui's countdown *)

\* Mutant of PollMs: every poll is a short one.
PollShort == 100

PollMs == IF Timeout = 0 THEN 100 ELSE 1000

\* Mutant of Pending: stdin alone is polled.
StdinPending == tty # <<>>

\* InputMux::poll looks at all descriptors, and at whatever poll reports of them.
Pending == tty # <<>> \/ (\E d \in Devices : events[d] # <<>>) \/ gone # {}

\* That cancels the countdown; what there is to be read is left to be read.
PollReady ==
    /\ phase = "countdown" /\ Pending
    /\ phase' = "menu"
    /\ UNCHANGED <<remaining, waited, kernel, reader>>

\* The loop runs from iterations down to 0, and the poll at 0 that times out boots.
PollTimesOut ==
    /\ phase = "countdown" /\ ~Pending
    /\ waited' = waited + PollMs
    /\ IF remaining = 0 THEN phase' = "booted" /\ UNCHANGED remaining
       ELSE remaining' = remaining - 1 /\ UNCHANGED phase
    /\ UNCHANGED <<kernel, reader>>

(* InputMux::read, for read_key *)

\* The buffer is drained before anything else is looked at.
ReadBuffer ==
    /\ phase = "menu" /\ buf # <<>>
    /\ Accept(FirstN(buf, Wanted)) /\ buf' = After(buf, Wanted)
    /\ UNCHANGED <<ready, kernel, clock>>

\* stdin goes before the devices.
ReadStdin ==
    /\ phase = "menu" /\ buf = <<>> /\ ready = {} /\ tty # <<>>
    /\ Accept(FirstN(tty, Wanted)) /\ tty' = After(tty, Wanted)
    /\ UNCHANGED <<line, events, gone, sent, due, ready, buf, clock>>

\* When poll reports a device that is gone and nothing to read, it is called again.
PollDevices ==
    /\ phase = "menu" /\ buf = <<>> /\ ready = {} /\ tty = <<>> /\ Pending
    /\ ready' = {d \in Devices : events[d] # <<>>}
    /\ UNCHANGED <<buf, got, delivered, kernel, clock>>

\* Mutant of ReadEvent: the bytes that do not fit are dropped.
ReadEventUnbuffered(d) ==
    /\ phase = "menu" /\ d \in ready \ gone /\ \A e \in ready : d <= e
    /\ events' = [events EXCEPT ![d] = Tail(@)]
    /\ LET bytes == From(d, EventBytes(Head(events[d]))) IN
       IF bytes = <<>>
       THEN ready' = ready \ {d} /\ UNCHANGED <<buf, got, delivered>>
       ELSE Accept(FirstN(bytes, Wanted)) /\ ready' = {} /\ UNCHANGED buf
    /\ UNCHANGED <<line, tty, gone, sent, due, clock>>

\* Mutant of ReadEvent: all bytes are buffered, the ones handed out as well.
ReadEventRebuffered(d) ==
    /\ phase = "menu" /\ d \in ready \ gone /\ \A e \in ready : d <= e
    /\ events' = [events EXCEPT ![d] = Tail(@)]
    /\ LET bytes == From(d, EventBytes(Head(events[d]))) IN
       IF bytes = <<>>
       THEN ready' = ready \ {d} /\ UNCHANGED <<buf, got, delivered>>
       ELSE Accept(FirstN(bytes, Wanted)) /\ buf' = bytes /\ ready' = {}
    /\ UNCHANGED <<line, tty, gone, sent, due, clock>>

\* Mutant of ReadEvent: after an event that is no key everything is polled again.
ReadEventPollsAgain(d) ==
    /\ phase = "menu" /\ d \in ready \ gone /\ \A e \in ready : d <= e
    /\ events' = [events EXCEPT ![d] = Tail(@)]
    /\ LET bytes == From(d, EventBytes(Head(events[d]))) IN
       /\ ready' = {}
       /\ IF bytes = <<>> THEN UNCHANGED <<buf, got, delivered>>
          ELSE Accept(FirstN(bytes, Wanted)) /\ buf' = After(bytes, Wanted)
    /\ UNCHANGED <<line, tty, gone, sent, due, clock>>

\* One event of the first ready device; if it is a key its bytes are handed out and
\* the rest is buffered, else the next ready device has its turn.
ReadEvent(d) ==
    /\ phase = "menu" /\ d \in ready \ gone /\ \A e \in ready : d <= e
    /\ events' = [events EXCEPT ![d] = Tail(@)]
    /\ LET bytes == From(d, EventBytes(Head(events[d]))) IN
       IF bytes = <<>>
       THEN ready' = ready \ {d} /\ UNCHANGED <<buf, got, delivered>>
       ELSE Accept(FirstN(bytes, Wanted)) /\ buf' = After(bytes, Wanted) /\ ready' = {}
    /\ UNCHANGED <<line, tty, gone, sent, due, clock>>

\* try_read_key of a device that went after the poll: the next one has its turn.
ReadFails(d) ==
    /\ phase = "menu" /\ d \in ready \cap gone /\ \A e \in ready : d <= e
    /\ ready' = ready \ {d} /\ UNCHANGED <<buf, got, delivered, kernel, clock>>

Program == PollReady \/ PollTimesOut \/ ReadBuffer \/ ReadStdin \/ PollDevices
               \/ \E d \in Devices : ReadEvent(d) \/ ReadFails(d)
Transmit == \E n \in 1..Len(line) : Arrive(n)

Next ==
    \/ Program \/ Transmit
    \/ \E key \in Keys : Type(key)
    \/ \E d \in Devices, key \in Keys \cup {"release"} : Press(d, key)
    \/ \E d \in Devices : Stir(d) \/ PullOut(d)

\* The program is one thread that runs whenever a poll has something for it or
\* times out, and bytes that were sent arrive.
Fairness == WF_vars(Program) /\ WF_vars(Transmit)

Spec == Init /\ [][Next]_vars /\ Fairness

----------------------------------------------------------------------------
(* Properties *)

TypeOK ==
    /\ phase \in {"countdown", "menu", "booted"}
    /\ remaining \in 0..(Timeout + 1) /\ waited \in Nat
    /\ \A i \in DOMAIN tty : tty[i].from = Stdin
    /\ \A i \in DOMAIN buf : buf[i].from \in Devices
    /\ Len(buf) <= 2 /\ Len(got) <= 2
    /\ ready \subseteq {d \in Devices : events[d] # <<>>} \cup gone

\* "Any key cancels": what the countdown boots it boots with no byte received on
\* stdin, no event on any device and no device pulled out since it began.
AutobootOnlyUntouched ==
    phase = "booted" =>
        /\ \A o \in DOMAIN delivered : delivered[o] = <<>>
        /\ tty = <<>> /\ gone = {} /\ \A d \in Devices : sent[d] = <<>>

\* "Booted automatically after this many seconds" (nixos.nix:174), or 0 "for
\* near-instant boot (100ms interrupt window)": never earlier, and since the loop
\* polls at 0 as well, one poll later.
CountdownTakesItsTime ==
    phase = "booted" =>
        LET full == IF Timeout = 0 THEN 100 ELSE 1000 * Timeout IN
        full <= waited /\ waited <= full + PollMs

\* No ESC byte is left alone on stdin, and no key was put together of bytes from
\* two places.
Unmixed ==
    /\ \A i \in DOMAIN due[Stdin] : due[Stdin][i] # "Escape"
    /\ delivered[Several] = <<>>

\* Short of that, every key of stdin and of every device is read as what it is,
\* once, and in the order of its device: no byte is lost, left over or put into
\* the wrong key, however the readings interleave.
FaithfulPerDevice ==
    Unmixed => \A o \in Origins :
        /\ Len(delivered[o]) <= Len(due[o])
        /\ \A i \in DOMAIN delivered[o] : delivered[o][i] = due[o][i]

\* Nothing that read puts before device d is waiting: no byte at stdin, which is
\* always served first, and no key at a device that was opened earlier.
Quiet(d) ==
    /\ tty = <<>>
    /\ \A e \in 1..(d - 1) : \A i \in DOMAIN events[e] : EventBytes(events[e][i]) = <<>>

\* Keys that never pause, on stdin or on an earlier device, starve a device: that they
\* do pause is the premise, and MaxKeys sees to it.  Nothing else starves it: once it is
\* quiet before d, its events are read for as long as there are any, even if every
\* device has an event that is no key at each poll, now and for ever, or is gone and
\* keeps poll from sleeping.
DevicesAreRead ==
    \A d \in Devices :
        <>[]Quiet(d) => \/ []<>(events[d] = <<>>)
                        \/ []<><<Len(events'[d]) < Len(events[d])>>_vars

----------------------------------------------------------------------------
(* What a doc says and the code does not do *)

\* "input may come from gpio-keys (volume buttons, power button) rather than a
\* terminal keyboard" (evdev.rs:3-4): from the one or the other, so that no key is
\* read more often than it was pressed.
TimesIn(lists, key) ==
    Cardinality(UNION {{<<o, i>> : i \in {j \in DOMAIN lists[o] : lists[o][j] = key}} : o \in DOMAIN lists})

KeyReadOnce ==
    \A key \in Keys : TimesIn(delivered, key) <= TimesIn([o \in Origins \ Keyboards |-> sent[o]], key)

=============================================================================
