---------------------------- MODULE InputProofs ----------------------------
(***************************************************************************)
(* What the countdown and the reading of keys promise, for any number of   *)
(* devices, any keys and any timeout.                                      *)
(*                                                                         *)
(* A poll looks at what is to be read now, and the countdown's promise is  *)
(* about all that was ever sent.  The two are the same as long as nothing  *)
(* is read, and so CInv has to say that the countdown leaves every event   *)
(* where it is, and how far the clock is at each turn of the loop.         *)
(*                                                                         *)
(* That keys are read as what they are is about what is still to be read:  *)
(* FInv says that the bytes in read_key, in the console and on their way   *)
(* to it, one after the other, spell the keys that are due and not yet     *)
(* returned, and that the events of a device hold them.  It is in the way  *)
(* of an invariant that bytes may mix, and that this shows in delivered    *)
(* only when the key is complete: until then GotMixed says so.             *)
(***************************************************************************)
EXTENDS Input, SequenceTheorems, TLAPS

Start == IF Timeout = 0 THEN 1 ELSE Timeout

Events == Keys \cup {"release"}

QueuesOK ==
    /\ events \in [Devices -> Seq(Events)]
    /\ sent \in [Origins -> Seq(Events)]

\* What is to be read of a device is there, or the device is gone.
ReadyIsThere == ready \subseteq {d \in Devices : events[d] # <<>>} \cup gone

\* Every turn of the loop has taken one poll.
ClockRuns ==
    phase = "countdown" =>
        /\ remaining \in 0..Start
        /\ waited = (Start - remaining) * PollMs

\* A device with something sent has something to be read, or is gone.
NothingRead ==
    phase = "countdown" =>
        /\ \A o \in DOMAIN delivered : delivered[o] = <<>>
        /\ \A d \in Devices : events[d] = <<>> /\ d \notin gone => sent[d] = <<>>

CInv ==
    /\ QueuesOK
    /\ ReadyIsThere
    /\ ClockRuns
    /\ NothingRead
    /\ AutobootOnlyUntouched
    /\ CountdownTakesItsTime

Promises == ClockRuns /\ NothingRead /\ AutobootOnlyUntouched /\ CountdownTakesItsTime

----------------------------------------------------------------------------
(* Lemmas *)

\* In the menu the countdown's promises are about nothing any more.
LEMMA MenuPromises ==
  ASSUME phase' = "menu"
  PROVE  Promises'
  BY DEF Promises, ClockRuns, NothingRead, AutobootOnlyUntouched, CountdownTakesItsTime

\* Nothing that happens around the program disturbs the clock, nor a program that has
\* booted.
LEMMA ClockKept ==
  ASSUME ClockRuns, CountdownTakesItsTime, UNCHANGED clock
  PROVE  ClockRuns' /\ CountdownTakesItsTime'
  BY DEF clock, ClockRuns, CountdownTakesItsTime, PollMs, Start

----------------------------------------------------------------------------
(* The steps *)

LEMMA InputInitial == Init => CInv
<1> SUFFICES ASSUME Init PROVE CInv
  OBVIOUS
<1>1. QueuesOK /\ ReadyIsThere
  BY DEF Init, QueuesOK, ReadyIsThere
<1>2. ClockRuns
  BY ConstantsAssumption DEF Init, ClockRuns, Start, PollMs
<1>3. NothingRead
  BY DEF Init, NothingRead, Origins
<1>4. AutobootOnlyUntouched /\ CountdownTakesItsTime
  BY DEF Init, AutobootOnlyUntouched, CountdownTakesItsTime
<1> QED
  BY <1>1, <1>2, <1>3, <1>4 DEF CInv

LEMMA TypePreserves ==
  ASSUME CInv, NEW key \in Keys, Type(key)
  PROVE  CInv'
<1>1. /\ phase # "booted" /\ sent' = [sent EXCEPT ![Stdin] = Append(@, key)]
      /\ UNCHANGED <<clock, phase, events, gone, ready, delivered>>
  BY DEF Type, reader, clock
<1>2. Stdin \notin Devices /\ Stdin \in Origins /\ Devices \subseteq Origins
  BY ConstantsAssumption DEF Stdin, Devices, Origins
<1>3. QueuesOK'
  <2>1. Append(sent[Stdin], key) \in Seq(Events)
    BY <1>2, AppendProperties DEF CInv, QueuesOK, Events
  <2> QED
    BY <1>1, <2>1 DEF CInv, QueuesOK
<1>4. \A d \in Devices : sent'[d] = sent[d]
  BY <1>1, <1>2 DEF CInv, QueuesOK
<1>5. NothingRead' /\ AutobootOnlyUntouched' /\ ReadyIsThere'
  BY <1>1, <1>4 DEF CInv, NothingRead, AutobootOnlyUntouched, ReadyIsThere
<1> QED
  BY <1>1, <1>3, <1>5, ClockKept DEF CInv

\* What is pressed is there to be read.
LEMMA PressPreserves ==
  ASSUME CInv, NEW d \in Devices, NEW key \in Events, Press(d, key)
  PROVE  CInv'
<1>1. /\ phase # "booted" /\ events' = [events EXCEPT ![d] = Append(@, key)]
      /\ UNCHANGED <<clock, phase, gone, ready, delivered>>
  BY DEF Press, reader, clock
<1>2. PICK here \in SUBSET {Stdin, d} :
        sent' = [o \in Origins |-> IF o \in here THEN Append(sent[o], key) ELSE sent[o]]
  BY DEF Press
<1>3. Stdin \notin Devices /\ Stdin \in Origins /\ Devices \subseteq Origins
  BY ConstantsAssumption DEF Stdin, Devices, Origins
<1>4. /\ events[d] \in Seq(Events) /\ sent[d] \in Seq(Events) /\ sent[Stdin] \in Seq(Events)
  BY <1>3 DEF CInv, QueuesOK
<1>5. QueuesOK'
  <2>1. /\ Append(events[d], key) \in Seq(Events)
        /\ \A o \in Origins : Append(sent[o], key) \in Seq(Events)
    BY <1>4, AppendProperties DEF CInv, QueuesOK
  <2>2. events' \in [Devices -> Seq(Events)]
    BY <1>1, <2>1 DEF CInv, QueuesOK
  <2>3. sent' \in [Origins -> Seq(Events)]
    BY <1>2, <2>1 DEF CInv, QueuesOK
  <2> QED
    BY <2>2, <2>3 DEF QueuesOK
<1>6. events'[d] # <<>>
  BY <1>1, <1>4, AppendProperties DEF CInv, QueuesOK
<1>7. \A e \in Devices \ {d} : events'[e] = events[e] /\ sent'[e] = sent[e]
  BY <1>1, <1>2, <1>3 DEF CInv, QueuesOK
<1>8. NothingRead' /\ AutobootOnlyUntouched' /\ ReadyIsThere'
  BY <1>1, <1>6, <1>7 DEF CInv, NothingRead, AutobootOnlyUntouched, ReadyIsThere
<1> QED
  BY <1>1, <1>5, <1>8, ClockKept DEF CInv

\* In the menu the countdown's promises are over.
LEMMA StirPreserves ==
  ASSUME CInv, NEW d \in Devices, Stir(d)
  PROVE  CInv'
<1>1. /\ phase = "menu" /\ phase' = "menu" /\ events' = [events EXCEPT ![d] = Append(@, "release")]
      /\ UNCHANGED <<gone, sent, ready>>
  BY DEF Stir, reader, clock
<1>2. Append(events[d], "release") \in Seq(Events) /\ Append(events[d], "release") # <<>>
  BY AppendProperties DEF CInv, QueuesOK, Events
<1>3. QueuesOK' /\ ReadyIsThere'
  BY <1>1, <1>2 DEF CInv, QueuesOK, ReadyIsThere
<1> QED
  BY <1>1, <1>3, MenuPromises DEF CInv, Promises

\* What is lost with a device that is pulled out leaves the device to be noticed.
LEMMA PullOutPreserves ==
  ASSUME CInv, NEW d \in Devices, PullOut(d)
  PROVE  CInv'
<1>1. /\ phase # "booted" /\ gone' = gone \cup {d} /\ events' = [events EXCEPT ![d] = <<>>]
      /\ UNCHANGED <<clock, phase, sent, ready, delivered>>
  BY DEF PullOut, reader, clock
<1>2. QueuesOK'
  BY <1>1 DEF CInv, QueuesOK
<1>3. \A e \in Devices \ {d} : events'[e] = events[e]
  BY <1>1 DEF CInv, QueuesOK
<1>4. NothingRead' /\ AutobootOnlyUntouched' /\ ReadyIsThere'
  BY <1>1, <1>3 DEF CInv, NothingRead, AutobootOnlyUntouched, ReadyIsThere
<1> QED
  BY <1>1, <1>2, <1>4, ClockKept DEF CInv

LEMMA ArrivePreserves ==
  ASSUME CInv, NEW n \in 1..Len(line), Arrive(n)
  PROVE  CInv'
<1>1. phase # "booted" /\ UNCHANGED <<clock, phase, events, gone, sent, ready, delivered>>
  BY DEF Arrive, reader, clock
<1>2. QueuesOK' /\ ReadyIsThere' /\ NothingRead' /\ AutobootOnlyUntouched'
  BY <1>1 DEF CInv, QueuesOK, ReadyIsThere, NothingRead, AutobootOnlyUntouched
<1> QED
  BY <1>1, <1>2, ClockKept DEF CInv

\* The loop's last poll boots: it has seen that nothing is to be read, and so nothing
\* was sent.
LEMMA PollTimesOutPreserves ==
  ASSUME CInv, PollTimesOut
  PROVE  CInv'
<1>1. /\ phase = "countdown" /\ waited' = waited + PollMs
      /\ tty = <<>> /\ gone = {} /\ \A d \in Devices : events[d] = <<>>
      /\ UNCHANGED <<tty, events, gone, sent, ready, delivered>>
  BY DEF PollTimesOut, Pending, kernel, reader
<1>2. (\A o \in DOMAIN delivered : delivered[o] = <<>>) /\ \A d \in Devices : sent[d] = <<>>
  BY <1>1 DEF CInv, NothingRead
<1>3. QueuesOK' /\ ReadyIsThere' /\ NothingRead' /\ AutobootOnlyUntouched'
  BY <1>1, <1>2 DEF CInv, QueuesOK, ReadyIsThere, NothingRead, AutobootOnlyUntouched
<1>4. Timeout \in Nat /\ Start \in Nat /\ remaining \in 0..Start /\ waited = (Start - remaining) * PollMs
  BY <1>1, ConstantsAssumption DEF CInv, ClockRuns, Start
<1>5. CASE remaining = 0
  <2>1. phase' = "booted"
    BY <1>5 DEF PollTimesOut
  <2>2. waited' = Start * PollMs + PollMs
    BY <1>1, <1>4, <1>5 DEF PollMs
  <2>3. ClockRuns' /\ CountdownTakesItsTime'
    BY <1>4, <2>1, <2>2 DEF ClockRuns, CountdownTakesItsTime, Start, PollMs
  <2> QED
    BY <1>3, <2>3 DEF CInv
<1>6. CASE remaining # 0
  <2>1. phase' = "countdown" /\ remaining' = remaining - 1
    BY <1>1, <1>6 DEF PollTimesOut
  <2>2. (Start - (remaining - 1)) * PollMs = (Start - remaining) * PollMs + PollMs
    BY <1>4 DEF PollMs
  <2>3. ClockRuns' /\ CountdownTakesItsTime'
    BY <1>1, <1>4, <1>6, <2>1, <2>2 DEF ClockRuns, CountdownTakesItsTime, Start, PollMs
  <2> QED
    BY <1>3, <2>3 DEF CInv
<1> QED
  BY <1>5, <1>6

\* All that is ever read is read in the menu, and only there.
LEMMA ReadingPreserves ==
  ASSUME CInv, PollReady \/ ReadBuffer \/ ReadStdin \/ PollDevices \/ (\E d \in Devices : ReadFails(d))
  PROVE  CInv'
<1>1. phase' = "menu" /\ UNCHANGED <<events, sent, gone>>
  BY DEF PollReady, ReadBuffer, ReadStdin, PollDevices, ReadFails, kernel, clock
<1>2. ready' \subseteq ready \cup {d \in Devices : events[d] # <<>>}
  BY DEF PollReady, ReadBuffer, ReadStdin, PollDevices, ReadFails, reader
<1>3. Promises' /\ QueuesOK' /\ ReadyIsThere'
  BY <1>1, <1>2, MenuPromises DEF CInv, QueuesOK, ReadyIsThere
<1> QED
  BY <1>3 DEF CInv, Promises

LEMMA ReadEventPreserves ==
  ASSUME CInv, NEW d \in Devices, ReadEvent(d)
  PROVE  CInv'
<1>1. /\ phase' = "menu" /\ events' = [events EXCEPT ![d] = Tail(@)] /\ UNCHANGED <<sent, gone>>
      /\ d \in ready \ gone /\ ready' \subseteq ready \ {d}
  BY DEF ReadEvent, clock
<1>2. events[d] # <<>>
  BY <1>1 DEF CInv, ReadyIsThere
<1>3. Tail(events[d]) \in Seq(Events)
  BY <1>2, HeadTailProperties DEF CInv, QueuesOK
<1>4. QueuesOK'
  BY <1>1, <1>3 DEF CInv, QueuesOK
<1>5. ReadyIsThere'
  BY <1>1 DEF CInv, QueuesOK, ReadyIsThere
<1> QED
  BY <1>1, <1>4, <1>5, MenuPromises DEF CInv, Promises

LEMMA StutterPreserves ==
  ASSUME CInv, UNCHANGED vars
  PROVE  CInv'
<1>1. UNCHANGED <<clock, phase, tty, events, gone, sent, ready, delivered>>
  BY DEF vars, clock, kernel, reader
<1> QED
  BY <1>1, ClockKept DEF CInv, QueuesOK, ReadyIsThere, NothingRead, AutobootOnlyUntouched

----------------------------------------------------------------------------

\* The inductive invariant of the countdown.
THEOREM CountdownInvariant == Spec => []CInv
<1>1. CInv /\ [Next]_vars => CInv'
  <2> SUFFICES ASSUME CInv, [Next]_vars PROVE CInv'
    OBVIOUS
  <2>1. CASE Program
    BY <2>1, PollTimesOutPreserves, ReadingPreserves, ReadEventPreserves DEF Program
  <2>2. CASE Transmit
    BY <2>2, ArrivePreserves DEF Transmit
  <2>3. CASE \E key \in Keys : Type(key)
    BY <2>3, TypePreserves
  <2>4. CASE \E d \in Devices, key \in Keys \cup {"release"} : Press(d, key)
    BY <2>4, PressPreserves DEF Events
  <2>5. CASE \E d \in Devices : Stir(d) \/ PullOut(d)
    BY <2>5, StirPreserves, PullOutPreserves
  <2> QED
    BY <2>1, <2>2, <2>3, <2>4, <2>5, StutterPreserves DEF Next
<1> QED
  BY <1>1, InputInitial, PTL DEF Spec

\* What the countdown boots it boots untouched, by stdin or by any device.
THEOREM BootsOnlyUntouched == Spec => []AutobootOnlyUntouched
<1>1. CInv => AutobootOnlyUntouched
  BY DEF CInv
<1> QED
  BY <1>1, CountdownInvariant, PTL

\* It boots after the timeout, and at most one poll later.
THEOREM BootsInTime == Spec => []CountdownTakesItsTime
<1>1. CInv => CountdownTakesItsTime
  BY DEF CInv
<1> QED
  BY <1>1, CountdownInvariant, PTL

----------------------------------------------------------------------------
(* Types: no key takes more bytes than read_key has room for *)

Chars == {"A", "B", "CR", "ESC", "r", "["}

ByteOf(O) == [sym : Chars, from : O]

BytesOK ==
    /\ line \in Seq(ByteOf({Stdin})) /\ tty \in Seq(ByteOf({Stdin}))
    /\ buf \in Seq(ByteOf(Devices)) /\ Len(buf) <= 2
    /\ got \in Seq(ByteOf(Origins)) /\ Len(got) <= 2

ClockOK ==
    /\ phase \in {"countdown", "menu", "booted"}
    /\ remaining \in 0..(Timeout + 1)
    /\ waited \in Nat

TInv == BytesOK /\ ClockOK

LEMMA OneOrThree ==
  ASSUME NEW S, NEW a \in S, NEW b \in S, NEW c \in S
  PROVE  /\ <<a, b, c>> \in Seq(S) /\ Len(<<a, b, c>>) = 3
         /\ <<c>> \in Seq(S) /\ Len(<<c>>) = 1
  OBVIOUS

LEMMA BytesOfKey ==
  ASSUME NEW key \in Events, key # "release" \/ key \in Arrows \cup {"Enter"}
  PROVE  Bytes(key) \in Seq(Chars) /\ Len(Bytes(key)) \in {1, 3}
<1>1. key \in {"Up", "Down", "Enter", "Escape", "r"}
  BY ConstantsAssumption DEF Events, Arrows
<1>2. /\ Symbol["Up"] = "A" /\ Symbol["Down"] = "B" /\ Symbol["Enter"] = "CR"
      /\ Symbol["Escape"] = "ESC" /\ Symbol["r"] = "r"
  BY DEF Symbol
<1>3. Symbol[key] \in Chars
  BY <1>1, <1>2 DEF Chars
<1>4. "ESC" \in Chars /\ "[" \in Chars
  BY DEF Chars
<1>5. Bytes(key) = <<"ESC", "[", Symbol[key]>> \/ Bytes(key) = <<Symbol[key]>>
  BY DEF Bytes
<1>6. /\ <<"ESC", "[", Symbol[key]>> \in Seq(Chars) /\ Len(<<"ESC", "[", Symbol[key]>>) = 3
      /\ <<Symbol[key]>> \in Seq(Chars) /\ Len(<<Symbol[key]>>) = 1
  BY <1>3, <1>4, OneOrThree, Zenon
<1>7. CASE Bytes(key) = <<"ESC", "[", Symbol[key]>>
  BY <1>6, <1>7
<1>8. CASE Bytes(key) = <<Symbol[key]>>
  BY <1>6, <1>8
<1> QED
  BY <1>5, <1>7, <1>8

\* What evdev_key_to_bytes makes of an event.
LEMMA BytesOfEvent ==
  ASSUME NEW event \in Events
  PROVE  /\ EventBytes(event) \in Seq(Chars)
         /\ EventBytes(event) # <<>> => Len(EventBytes(event)) \in {1, 3}
<1>1. CASE event \in Arrows \cup {"Enter"}
  BY <1>1, BytesOfKey DEF EventBytes
<1>2. CASE event \notin Arrows \cup {"Enter"}
  BY <1>2 DEF EventBytes
<1> QED
  BY <1>1, <1>2

LEMMA FromIsSeq ==
  ASSUME NEW O, NEW o \in O, NEW syms \in Seq(Chars)
  PROVE  From(o, syms) \in Seq(ByteOf(O)) /\ Len(From(o, syms)) = Len(syms)
<1>1. DOMAIN syms = 1..Len(syms) /\ Len(syms) \in Nat
  BY LenProperties
<1>2. \A i \in 1..Len(syms) : [sym |-> syms[i], from |-> o] \in ByteOf(O)
  BY DEF ByteOf
<1> QED
  BY <1>1, <1>2 DEF From

LEMMA FirstNIsSeq ==
  ASSUME NEW S, NEW s \in Seq(S), NEW n \in Nat
  PROVE  FirstN(s, n) \in Seq(S) /\ Len(FirstN(s, n)) = IF n < Len(s) THEN n ELSE Len(s)
<1> DEFINE m == IF n < Len(s) THEN n ELSE Len(s)
<1>1. m \in 0..Len(s)
  BY LenProperties
<1>2. \A i \in 1..m : s[i] \in S
  BY <1>1, ElementOfSeq
<1>3. SubSeq(s, 1, m) \in Seq(S) /\ Len(SubSeq(s, 1, m)) = IF 1 <= m THEN m - 1 + 1 ELSE 0
  BY <1>1, <1>2, SubSeqProperties
<1> QED
  BY <1>1, <1>3 DEF FirstN

LEMMA AfterIsSeq ==
  ASSUME NEW S, NEW s \in Seq(S), NEW n \in Nat
  PROVE  After(s, n) \in Seq(S) /\ Len(After(s, n)) = IF n < Len(s) THEN Len(s) - n ELSE 0
<1>1. Len(s) \in Nat
  BY LenProperties
<1>2. \A i \in (n + 1)..Len(s) : s[i] \in S
  BY <1>1, ElementOfSeq
<1>3. /\ SubSeq(s, n + 1, Len(s)) \in Seq(S)
      /\ Len(SubSeq(s, n + 1, Len(s))) = IF n + 1 <= Len(s) THEN Len(s) - (n + 1) + 1 ELSE 0
  BY <1>1, <1>2, SubSeqProperties
<1> QED
  BY <1>1, <1>3 DEF After

LEMMA WantedIsSmall ==
  ASSUME BytesOK
  PROVE  /\ Wanted \in 1..3 /\ Len(got) + Wanted <= 3
         /\ got # <<>> => Len(got) + Wanted = 3
  BY EmptySeq DEF BytesOK, Wanted

\* What is handed out is no more than was asked for, and of three bytes two are left.
LEMMA WantedCut ==
  ASSUME BytesOK, NEW S, NEW s \in Seq(S)
  PROVE  /\ FirstN(s, Wanted) \in Seq(S) /\ Len(FirstN(s, Wanted)) <= Wanted
         /\ After(s, Wanted) \in Seq(S) /\ (Len(s) <= 3 => Len(After(s, Wanted)) <= 2)
<1>1. Wanted \in Nat /\ Wanted >= 1 /\ Len(s) \in Nat
  BY WantedIsSmall, LenProperties
<1>2. FirstN(s, Wanted) \in Seq(S) /\ Len(FirstN(s, Wanted)) = IF Wanted < Len(s) THEN Wanted ELSE Len(s)
  BY <1>1, FirstNIsSeq
<1>3. After(s, Wanted) \in Seq(S) /\ Len(After(s, Wanted)) = IF Wanted < Len(s) THEN Len(s) - Wanted ELSE 0
  BY <1>1, AfterIsSeq
<1> QED
  BY <1>1, <1>2, <1>3

\* A key that three bytes do not complete there is not.
LEMMA AcceptKeeps ==
  ASSUME BytesOK, NEW bytes \in Seq(ByteOf(Origins)), Len(bytes) <= Wanted, Accept(bytes)
  PROVE  got' \in Seq(ByteOf(Origins)) /\ Len(got') <= 2
<1> DEFINE all == got \o bytes
<1>1. all \in Seq(ByteOf(Origins)) /\ Len(all) = Len(got) + Len(bytes)
  BY ConcatProperties DEF BytesOK
<1>2. Len(all) \in 0..3
  BY <1>1, WantedIsSmall, LenProperties DEF BytesOK
<1>3. CASE Complete(Syms(all))
  BY <1>3, EmptySeq DEF Accept
<1>4. CASE ~Complete(Syms(all))
  <2>1. got' = all
    BY <1>4 DEF Accept
  <2>2. Len(Syms(all)) = Len(all)
    BY <1>1, LenProperties DEF Syms
  <2>3. Len(all) # 3
    BY <1>4, <2>2 DEF Complete
  <2> QED
    BY <1>1, <1>2, <2>1, <2>3
<1> QED
  BY <1>3, <1>4

LEMMA TypeInitial == Init => TInv
<1> SUFFICES ASSUME Init PROVE TInv
  OBVIOUS
<1>1. BytesOK
  BY EmptySeq DEF Init, BytesOK
<1>2. ClockOK
  BY ConstantsAssumption DEF Init, ClockOK
<1> QED
  BY <1>1, <1>2 DEF TInv

\* What is sent is bytes of stdin.
LEMMA SendingKeepsBytes ==
  ASSUME TInv, NEW key \in Events,
         \/ key \in Keys /\ Type(key)
         \/ \E d \in Devices : Press(d, key) \/ Stir(d)
  PROVE  TInv'
<1>1. UNCHANGED <<tty, buf, got, phase, remaining, waited>>
      /\ \/ UNCHANGED line
         \/ key \in Keys \cup (Events \ {"release"}) /\ line' = line \o From(Stdin, Bytes(key))
  BY DEF Type, Press, Stir, reader, clock
<1>2. CASE UNCHANGED line
  BY <1>1, <1>2 DEF TInv, BytesOK, ClockOK
<1>3. CASE line' = line \o From(Stdin, Bytes(key)) /\ key \in Keys \cup (Events \ {"release"})
  <2>1. key # "release"
    BY <1>3, ConstantsAssumption
  <2>2. From(Stdin, Bytes(key)) \in Seq(ByteOf({Stdin}))
    BY <2>1, BytesOfKey, FromIsSeq
  <2>3. line' \in Seq(ByteOf({Stdin}))
    BY <1>3, <2>2, ConcatProperties DEF TInv, BytesOK
  <2> QED
    BY <1>1, <2>3 DEF TInv, BytesOK, ClockOK
<1> QED
  BY <1>1, <1>2, <1>3

LEMMA ArrivingKeepsBytes ==
  ASSUME TInv, NEW n \in 1..Len(line), Arrive(n)
  PROVE  TInv'
<1>1. /\ tty' = tty \o FirstN(line, n) /\ line' = After(line, n)
      /\ UNCHANGED <<buf, got, phase, remaining, waited>>
  BY DEF Arrive, reader, clock
<1>2. FirstN(line, n) \in Seq(ByteOf({Stdin})) /\ After(line, n) \in Seq(ByteOf({Stdin}))
  BY FirstNIsSeq, AfterIsSeq DEF TInv, BytesOK
<1>3. tty' \in Seq(ByteOf({Stdin}))
  BY <1>1, <1>2, ConcatProperties DEF TInv, BytesOK
<1> QED
  BY <1>1, <1>2, <1>3 DEF TInv, BytesOK, ClockOK

LEMMA PollingKeepsBytes ==
  ASSUME TInv, PollReady \/ PollTimesOut \/ PollDevices \/ (\E d \in Devices : ReadFails(d) \/ PullOut(d))
  PROVE  TInv'
<1>1. UNCHANGED <<line, tty, buf, got>>
  BY DEF PollReady, PollTimesOut, PollDevices, ReadFails, PullOut, kernel, reader
<1>2. ClockOK'
  <2>1. CASE PollTimesOut
    BY <2>1, ConstantsAssumption DEF PollTimesOut, TInv, ClockOK, PollMs
  <2>2. CASE ~PollTimesOut
    <3>1. phase' \in {phase, "menu"} /\ UNCHANGED <<remaining, waited>>
      BY <2>2 DEF PollReady, PollDevices, ReadFails, PullOut, clock
    <3> QED
      BY <3>1 DEF TInv, ClockOK
  <2> QED
    BY <2>1, <2>2
<1> QED
  BY <1>1, <1>2 DEF TInv, BytesOK

LEMMA ReadingStdinKeepsBytes ==
  ASSUME TInv, ReadStdin
  PROVE  TInv'
<1>1. /\ Accept(FirstN(tty, Wanted)) /\ tty' = After(tty, Wanted)
      /\ UNCHANGED <<line, buf, phase, remaining, waited>>
  BY DEF ReadStdin, clock
<1>2. /\ FirstN(tty, Wanted) \in Seq(ByteOf({Stdin})) /\ Len(FirstN(tty, Wanted)) <= Wanted
      /\ After(tty, Wanted) \in Seq(ByteOf({Stdin}))
  BY WantedCut DEF TInv, BytesOK
<1>3. ByteOf({Stdin}) \subseteq ByteOf(Origins)
  BY DEF ByteOf, Origins
<1>4. FirstN(tty, Wanted) \in Seq(ByteOf(Origins))
  BY <1>2, <1>3, SeqMonotonic
<1>5. got' \in Seq(ByteOf(Origins)) /\ Len(got') <= 2
  BY <1>1, <1>2, <1>4, AcceptKeeps DEF TInv
<1> QED
  BY <1>1, <1>2, <1>5 DEF TInv, BytesOK, ClockOK

LEMMA ReadingBufferKeepsBytes ==
  ASSUME TInv, ReadBuffer
  PROVE  TInv'
<1>1. /\ Accept(FirstN(buf, Wanted)) /\ buf' = After(buf, Wanted)
      /\ UNCHANGED <<line, tty, phase, remaining, waited>>
  BY DEF ReadBuffer, kernel, clock
<1>2. /\ FirstN(buf, Wanted) \in Seq(ByteOf(Devices)) /\ Len(FirstN(buf, Wanted)) <= Wanted
      /\ After(buf, Wanted) \in Seq(ByteOf(Devices)) /\ Len(After(buf, Wanted)) <= 2
  <2>1. buf \in Seq(ByteOf(Devices)) /\ Len(buf) <= 3 /\ BytesOK
    BY LenProperties DEF TInv, BytesOK
  <2> QED
    BY <2>1, WantedCut
<1>3. ByteOf(Devices) \subseteq ByteOf(Origins)
  BY DEF ByteOf, Origins
<1>4. FirstN(buf, Wanted) \in Seq(ByteOf(Origins))
  BY <1>2, <1>3, SeqMonotonic
<1>5. got' \in Seq(ByteOf(Origins)) /\ Len(got') <= 2
  BY <1>1, <1>2, <1>4, AcceptKeeps DEF TInv
<1> QED
  BY <1>1, <1>2, <1>5 DEF TInv, BytesOK, ClockOK

\* The first byte of a key is handed out, which leaves two.
LEMMA ReadingEventsKeepsBytes ==
  ASSUME TInv, CInv, NEW d \in Devices, ReadEvent(d)
  PROVE  TInv'
<1> DEFINE bytes == From(d, EventBytes(Head(events[d])))
<1>1. Head(events[d]) \in Events
  BY HeadTailProperties DEF CInv, QueuesOK, ReadyIsThere, ReadEvent
<1>2. bytes \in Seq(ByteOf(Devices)) /\ Len(bytes) <= 3
  <2> DEFINE syms == EventBytes(Head(events[d]))
  <2>1. syms \in Seq(Chars) /\ (syms # <<>> => Len(syms) \in {1, 3})
    BY <1>1, BytesOfEvent
  <2> HIDE DEF syms
  <2>2. From(d, syms) \in Seq(ByteOf(Devices)) /\ Len(From(d, syms)) = Len(syms)
    BY <2>1, FromIsSeq
  <2>3. Len(syms) <= 3
    <3>1. CASE syms = <<>>
      <4>1. Len(<<>>) = 0
        BY EmptySeq
      <4> QED
        BY <3>1, <4>1
    <3>2. CASE syms # <<>>
      <4>1. Len(syms) = 1 \/ Len(syms) = 3
        BY <2>1, <3>2, Zenon
      <4> QED
        BY <4>1
    <3> QED
      BY <3>1, <3>2
  <2> QED
    BY <2>2, <2>3 DEF syms
<1>3. UNCHANGED <<line, tty, phase, remaining, waited>>
  BY DEF ReadEvent, clock
<1>4. CASE bytes = <<>>
  BY <1>3, <1>4 DEF ReadEvent, TInv, BytesOK, ClockOK
<1>5. CASE bytes # <<>>
  <2>1. Accept(FirstN(bytes, Wanted)) /\ buf' = After(bytes, Wanted)
    BY <1>5 DEF ReadEvent
  <2>2. /\ FirstN(bytes, Wanted) \in Seq(ByteOf(Devices)) /\ Len(FirstN(bytes, Wanted)) <= Wanted
        /\ After(bytes, Wanted) \in Seq(ByteOf(Devices)) /\ Len(After(bytes, Wanted)) <= 2
    <3> HIDE DEF bytes
    <3> QED
      BY <1>2, WantedCut DEF TInv
  <2>3. ByteOf(Devices) \subseteq ByteOf(Origins)
    BY DEF ByteOf, Origins
  <2>4. FirstN(bytes, Wanted) \in Seq(ByteOf(Origins))
    BY <2>2, <2>3, SeqMonotonic
  <2>5. got' \in Seq(ByteOf(Origins)) /\ Len(got') <= 2
    BY <2>1, <2>2, <2>4, AcceptKeeps DEF TInv
  <2> QED
    BY <1>3, <2>1, <2>2, <2>5 DEF TInv, BytesOK, ClockOK
<1> QED
  BY <1>4, <1>5

LEMMA StutterKeepsBytes ==
  ASSUME TInv, UNCHANGED vars
  PROVE  TInv'
  BY DEF vars, clock, kernel, reader, TInv, BytesOK, ClockOK

\* The inductive invariant of the types: no key takes more bytes than there is room for.
THEOREM BytesInvariant == Spec => []TInv
<1>1. TInv /\ CInv /\ [Next]_vars => TInv'
  <2> SUFFICES ASSUME TInv, CInv, [Next]_vars PROVE TInv'
    OBVIOUS
  <2>1. CASE Program
    BY <2>1, PollingKeepsBytes, ReadingStdinKeepsBytes, ReadingBufferKeepsBytes, ReadingEventsKeepsBytes
       DEF Program
  <2>2. CASE Transmit
    BY <2>2, ArrivingKeepsBytes DEF Transmit
  <2>3. CASE \E key \in Keys : Type(key)
    BY <2>3, SendingKeepsBytes DEF Events
  <2>4. CASE \E d \in Devices, key \in Keys \cup {"release"} : Press(d, key)
    BY <2>4, SendingKeepsBytes DEF Events
  <2>5. CASE \E d \in Devices : Stir(d) \/ PullOut(d)
    BY <2>5, SendingKeepsBytes, PollingKeepsBytes DEF Events
  <2> QED
    BY <2>1, <2>2, <2>3, <2>4, <2>5, StutterKeepsBytes DEF Next
<1> QED
  BY <1>1, TypeInitial, CountdownInvariant, PTL DEF Spec

\* The type invariant.
THEOREM InputTypeOK == Spec => []TypeOK
<1>1. TInv /\ CInv => TypeOK
  <2> SUFFICES ASSUME TInv, CInv PROVE TypeOK
    OBVIOUS
  <2>1. \A i \in DOMAIN tty : tty[i].from = Stdin
    <3>1. \A i \in DOMAIN tty : tty[i] \in ByteOf({Stdin})
      BY LenProperties, ElementOfSeq DEF TInv, BytesOK
    <3> QED
      BY <3>1 DEF ByteOf
  <2>2. \A i \in DOMAIN buf : buf[i].from \in Devices
    <3>1. \A i \in DOMAIN buf : buf[i] \in ByteOf(Devices)
      BY LenProperties, ElementOfSeq DEF TInv, BytesOK
    <3> QED
      BY <3>1 DEF ByteOf
  <2> QED
    BY <2>1, <2>2 DEF TInv, BytesOK, ClockOK, CInv, ReadyIsThere, TypeOK
<1> QED
  BY <1>1, BytesInvariant, CountdownInvariant, PTL

----------------------------------------------------------------------------
(* Every key is read as what it is: what is under way *)

\* The keys from the k-th on are what the bytes of flow spell; c[j] is the number of
\* bytes up to the end of key j.
Cuts(keys, k, flow, c) ==
    /\ c[k] = 0 /\ c[Len(keys)] = Len(flow)
    /\ \A i, j \in k..Len(keys) : i <= j => c[i] <= c[j]
    /\ \A j \in (k + 1)..Len(keys) :
          /\ c[j] = c[j - 1] + Len(Bytes(keys[j]))
          /\ \A b \in 1..Len(Bytes(keys[j])) : flow[c[j - 1] + b].sym = Bytes(keys[j])[b]

Spells(keys, k, flow) == \E c \in [k..Len(keys) -> 0..Len(flow)] : Cuts(keys, k, flow, c)

\* The keys from the k-th on are those among the events of queue; r[i] is the number of
\* keys up to event i.
Counts(keys, k, queue, r) ==
    /\ r[0] = k /\ r[Len(queue)] = Len(keys)
    /\ \A i \in 1..Len(queue) :
          IF EventBytes(queue[i]) = <<>> THEN r[i] = r[i - 1]
          ELSE r[i] = r[i - 1] + 1 /\ keys[r[i]] = queue[i]

Holds(keys, k, queue) == \E r \in [0..Len(queue) -> 0..Len(keys)] : Counts(keys, k, queue, r)

Pressable == {"Up", "Down", "Enter", "Escape", "r"}

\* The bytes of a key.
LEMMA KeyBytes ==
  ASSUME NEW key \in Pressable
  PROVE  /\ Bytes(key) \in Seq(Chars)
         /\ key \in Arrows => Bytes(key) = <<"ESC", "[", Symbol[key]>> /\ Len(Bytes(key)) = 3
         /\ key \notin Arrows => Bytes(key) = <<Symbol[key]>> /\ Len(Bytes(key)) = 1
<1>2. /\ Symbol["Up"] = "A" /\ Symbol["Down"] = "B" /\ Symbol["Enter"] = "CR"
      /\ Symbol["Escape"] = "ESC" /\ Symbol["r"] = "r"
  BY DEF Symbol
<1>3. Symbol[key] \in Chars
  BY <1>2 DEF Chars, Pressable
<1>4. "ESC" \in Chars /\ "[" \in Chars
  BY DEF Chars
<1>5. /\ <<"ESC", "[", Symbol[key]>> \in Seq(Chars) /\ Len(<<"ESC", "[", Symbol[key]>>) = 3
      /\ <<Symbol[key]>> \in Seq(Chars) /\ Len(<<Symbol[key]>>) = 1
  BY <1>3, <1>4, OneOrThree, Zenon
<1>6. CASE key \in Arrows
  <2>1. Bytes(key) = <<"ESC", "[", Symbol[key]>>
    BY <1>6 DEF Bytes
  <2> QED
    BY <1>5, <1>6, <2>1
<1>7. CASE key \notin Arrows
  <2>1. Bytes(key) = <<Symbol[key]>>
    BY <1>7 DEF Bytes
  <2> QED
    BY <1>5, <1>7, <2>1
<1> QED
  BY <1>6, <1>7

\* What is where in two sequences put together.
LEMMA ConcatAt ==
  ASSUME NEW S, NEW s \in Seq(S), NEW t \in Seq(S)
  PROVE  /\ s \o t \in Seq(S) /\ Len(s) \in Nat /\ Len(t) \in Nat /\ Len(s \o t) = Len(s) + Len(t)
         /\ \A i \in 1..Len(s) : (s \o t)[i] = s[i]
         /\ \A i \in 1..Len(t) : (s \o t)[Len(s) + i] = t[i]
<1>1. /\ s \o t \in Seq(S) /\ Len(s) \in Nat /\ Len(t) \in Nat /\ Len(s \o t) = Len(s) + Len(t)
      /\ \A i \in 1..(Len(s) + Len(t)) : (s \o t)[i] = IF i <= Len(s) THEN s[i] ELSE t[i - Len(s)]
  BY ConcatProperties, LenProperties
<1> DEFINE whole == s \o t
<1> HIDE DEF whole
<1>2. \A i \in 1..Len(s) : whole[i] = s[i]
  BY <1>1 DEF whole
<1>3. \A i \in 1..Len(t) : whole[Len(s) + i] = t[i]
  <2> TAKE i \in 1..Len(t)
  <2>1. Len(s) + i \in 1..(Len(s) + Len(t)) /\ ~(Len(s) + i <= Len(s)) /\ (Len(s) + i) - Len(s) = i
    BY <1>1
  <2> QED
    BY <1>1, <2>1 DEF whole
<1> QED
  BY <1>1, <1>2, <1>3 DEF whole

\* Nothing is spelt by nothing.
LEMMA SpellsNothing == Spells(<<>>, 0, <<>>)
<1> DEFINE c == [j \in 0..0 |-> 0]
<1>1. Len(<<>>) = 0
  BY EmptySeq
<1>2. c \in [0..0 -> 0..0] /\ Cuts(<<>>, 0, <<>>, c)
  BY <1>1 DEF Cuts
<1> QED
  BY <1>1, <1>2 DEF Spells

\* Nothing is held by nothing.
LEMMA HoldsNothing == Holds(<<>>, 0, <<>>)
<1> DEFINE r == [j \in 0..0 |-> 0]
<1>1. Len(<<>>) = 0
  BY EmptySeq
<1>2. r \in [0..0 -> 0..0] /\ Counts(<<>>, 0, <<>>, r)
  BY <1>1 DEF Counts
<1> QED
  BY <1>1, <1>2 DEF Holds

\* Another key is typed.
LEMMA SpellsMore ==
  ASSUME NEW keys \in Seq(Pressable), NEW key \in Pressable, NEW k \in 0..Len(keys),
         NEW B, NEW flow \in Seq(B), NEW more \in Seq(B), Spells(keys, k, flow),
         Len(more) = Len(Bytes(key)), \A b \in 1..Len(more) : more[b].sym = Bytes(key)[b]
  PROVE  Spells(Append(keys, key), k, flow \o more)
<1> DEFINE n == Len(keys)
           new == Append(keys, key)
           whole == flow \o more
<1>1. /\ n \in Nat /\ Len(new) = n + 1 /\ new[n + 1] = key /\ \A j \in 1..n : new[j] = keys[j]
      /\ k \in 0..n
  BY AppendProperties, LenProperties
<1>2. /\ Len(flow) \in Nat /\ Len(more) \in Nat /\ Len(whole) = Len(flow) + Len(more)
      /\ \A i \in 1..Len(flow) : whole[i] = flow[i]
      /\ \A b \in 1..Len(more) : whole[Len(flow) + b] = more[b]
  BY ONLY flow \in Seq(B), more \in Seq(B), ConcatAt
<1>3. PICK c \in [k..n -> 0..Len(flow)] : Cuts(keys, k, flow, c)
  BY DEF Spells
<1> HIDE DEF n, new, whole
<1>4. /\ c[k] = 0 /\ c[n] = Len(flow)
      /\ \A i, j \in k..n : i <= j => c[i] <= c[j]
      /\ \A j \in (k + 1)..n :
            /\ c[j] = c[j - 1] + Len(Bytes(keys[j]))
            /\ \A b \in 1..Len(Bytes(keys[j])) : flow[c[j - 1] + b].sym = Bytes(keys[j])[b]
  BY <1>3 DEF Cuts, n
<1> DEFINE d == [j \in k..(n + 1) |-> IF j = n + 1 THEN Len(whole) ELSE c[j]]
<1>5. d \in [k..(n + 1) -> 0..Len(whole)]
  BY <1>1, <1>2, <1>3
<1>6. /\ d[k] = 0 /\ d[n + 1] = Len(whole) /\ d[n] = Len(flow)
      /\ \A j \in k..n : d[j] = c[j]
  BY <1>1, <1>4
<1>7. \A i, j \in k..(n + 1) : i <= j => d[i] <= d[j]
  <2> TAKE i, j \in k..(n + 1)
  <2> HAVE i <= j
  <2>1. CASE j = n + 1
    BY <1>1, <1>5, <1>6, <2>1
  <2>2. CASE j # n + 1
    <3>1. i \in k..n /\ j \in k..n
      BY <1>1, <2>2
    <3> QED
      BY <1>4, <1>6, <3>1
  <2> QED
    BY <2>1, <2>2
<1>8. ASSUME NEW j \in (k + 1)..(n + 1)
      PROVE  /\ d[j] = d[j - 1] + Len(Bytes(new[j]))
             /\ \A b \in 1..Len(Bytes(new[j])) : whole[d[j - 1] + b].sym = Bytes(new[j])[b]
  <2>1. CASE j = n + 1
    <3>1. d[j] = Len(flow) + Len(more) /\ d[j - 1] = Len(flow) /\ new[j] = key
      BY <1>1, <1>2, <1>6, <2>1
    <3> QED
      BY <1>2, <3>1
  <2>2. CASE j # n + 1
    <3>1. j \in (k + 1)..n /\ j - 1 \in k..n /\ j \in k..n /\ j \in 1..n
      BY <1>1, <2>2
    <3>2. d[j] = c[j] /\ d[j - 1] = c[j - 1] /\ new[j] = keys[j]
      BY <1>1, <1>6, <3>1
    <3>3. c[j] \in 0..Len(flow) /\ c[j - 1] \in 0..Len(flow) /\ c[j] = c[j - 1] + Len(Bytes(keys[j]))
      BY <1>3, <1>4, <3>1
    <3>4. ASSUME NEW b \in 1..Len(Bytes(keys[j]))
          PROVE  whole[c[j - 1] + b].sym = Bytes(keys[j])[b]
      <4>1. keys[j] \in Pressable /\ Len(Bytes(keys[j])) \in Nat
        BY <3>1, ElementOfSeq, KeyBytes DEF n
      <4>2. c[j - 1] + b \in 1..Len(flow)
        BY <1>2, <3>3, <4>1
      <4>3. flow[c[j - 1] + b].sym = Bytes(keys[j])[b]
        BY <1>4, <3>1
      <4> QED
        BY <1>2, <4>2, <4>3
    <3> QED
      BY <3>2, <3>3, <3>4
  <2> QED
    BY <2>1, <2>2
<1>9. Cuts(new, k, whole, d)
  BY <1>1, <1>6, <1>7, <1>8 DEF Cuts
<1> QED
  BY <1>1, <1>5, <1>9 DEF Spells, new, whole, n

\* What is left of what is spelt, without its first key.
LEMMA SpellsLess ==
  ASSUME NEW keys \in Seq(Pressable), NEW k \in 0..Len(keys),
         NEW B, NEW flow \in Seq(B), flow # <<>>, Spells(keys, k, flow)
  PROVE  /\ k < Len(keys) /\ keys[k + 1] \in Pressable
         /\ Len(Bytes(keys[k + 1])) <= Len(flow)
         /\ \A b \in 1..Len(Bytes(keys[k + 1])) : flow[b].sym = Bytes(keys[k + 1])[b]
         /\ \A rest \in Seq(B) :
               /\ Len(rest) = Len(flow) - Len(Bytes(keys[k + 1]))
               /\ \A i \in 1..Len(rest) : rest[i] = flow[Len(Bytes(keys[k + 1])) + i]
               => Spells(keys, k + 1, rest)
<1> DEFINE n == Len(keys)
           m == Len(Bytes(keys[k + 1]))
<1>0. n \in Nat /\ Len(flow) \in Nat /\ Len(flow) # 0 /\ k \in 0..n
  BY LenProperties, EmptySeq
<1>1. PICK c \in [k..n -> 0..Len(flow)] : Cuts(keys, k, flow, c)
  BY DEF Spells
<1> HIDE DEF n, m
<1>2. /\ c[k] = 0 /\ c[n] = Len(flow)
      /\ \A i, j \in k..n : i <= j => c[i] <= c[j]
      /\ \A j \in (k + 1)..n :
            /\ c[j] = c[j - 1] + Len(Bytes(keys[j]))
            /\ \A b \in 1..Len(Bytes(keys[j])) : flow[c[j - 1] + b].sym = Bytes(keys[j])[b]
  BY <1>1 DEF Cuts, n
<1>3. k < n
  BY <1>0, <1>2
<1>4. k + 1 \in (k + 1)..n /\ k + 1 \in 1..n /\ (k + 1) - 1 = k /\ k + 1 \in k..n
  BY <1>0, <1>3
<1>5. keys[k + 1] \in Pressable /\ m \in Nat
  BY <1>4, ElementOfSeq, KeyBytes DEF n, m
<1>6. c[k + 1] = m /\ m <= Len(flow)
  <2>1. c[k + 1] = c[k] + m
    BY <1>2, <1>4 DEF m
  <2> QED
    BY <1>1, <1>2, <1>4, <1>5, <2>1
<1>7. \A b \in 1..m : flow[b].sym = Bytes(keys[k + 1])[b]
  <2> TAKE b \in 1..m
  <2>1. flow[c[k] + b].sym = Bytes(keys[k + 1])[b]
    BY <1>2, <1>4 DEF m
  <2> QED
    BY <1>2, <1>5, <2>1
<1>8. ASSUME NEW rest \in Seq(B), Len(rest) = Len(flow) - m, \A i \in 1..Len(rest) : rest[i] = flow[m + i]
      PROVE  Spells(keys, k + 1, rest)
  <2> DEFINE d == [j \in (k + 1)..n |-> c[j] - m]
  <2>1. /\ d \in [(k + 1)..n -> 0..Len(rest)]
        /\ \A j \in (k + 1)..n : d[j] = c[j] - m /\ j \in k..n /\ c[j] \in m..Len(flow)
    <3>1. ASSUME NEW j \in (k + 1)..n
          PROVE  j \in k..n /\ c[j] \in m..Len(flow) /\ c[j] - m \in 0..Len(rest)
      <4>1. j \in k..n /\ k + 1 <= j
        BY <1>0
      <4>2. c[k + 1] <= c[j] /\ c[j] \in 0..Len(flow)
        BY <1>1, <1>2, <1>4, <4>1
      <4> QED
        BY <1>0, <1>5, <1>6, <1>8, <4>1, <4>2
    <3> QED
      BY <3>1
  <2>2. d[k + 1] = 0 /\ d[n] = Len(rest)
    <3>1. k + 1 \in (k + 1)..n /\ n \in (k + 1)..n
      BY <1>0, <1>3
    <3> QED
      BY <1>2, <1>5, <1>6, <1>8, <2>1, <3>1
  <2> HIDE DEF d
  <2>3. \A i, j \in (k + 1)..n : i <= j => d[i] <= d[j]
    BY <1>0, <1>2, <1>5, <2>1
  <2>4. ASSUME NEW j \in ((k + 1) + 1)..n
        PROVE  /\ d[j] = d[j - 1] + Len(Bytes(keys[j]))
               /\ \A b \in 1..Len(Bytes(keys[j])) : rest[d[j - 1] + b].sym = Bytes(keys[j])[b]
    <3>1. j \in (k + 1)..n /\ j - 1 \in (k + 1)..n /\ j \in 1..n
      BY <1>0
    <3>2. keys[j] \in Pressable /\ Len(Bytes(keys[j])) \in Nat
      BY <3>1, ElementOfSeq, KeyBytes DEF n
    <3>3. /\ c[j] = c[j - 1] + Len(Bytes(keys[j])) /\ c[j] \in m..Len(flow) /\ c[j - 1] \in m..Len(flow)
          /\ d[j] = c[j] - m /\ d[j - 1] = c[j - 1] - m
      BY <1>2, <2>1, <3>1
    <3>4. ASSUME NEW b \in 1..Len(Bytes(keys[j]))
          PROVE  rest[d[j - 1] + b].sym = Bytes(keys[j])[b]
      <4>0. b \in Nat /\ 1 <= b /\ b <= Len(Bytes(keys[j]))
        BY <3>2
      <4> DEFINE len == Len(Bytes(keys[j]))
      <4>4. len \in Nat /\ c[j - 1] + len <= Len(flow) /\ m <= c[j - 1] /\ c[j - 1] \in Nat /\ b <= len
        BY <1>0, <1>5, <3>2, <3>3, <4>0
      <4> HIDE DEF len
      <4>5. d[j - 1] = c[j - 1] - m /\ Len(rest) = Len(flow) - m /\ m \in Nat /\ Len(flow) \in Nat
        BY <1>0, <1>5, <1>8, <3>3
      <4>1. d[j - 1] + b \in 1..Len(rest) /\ m + (d[j - 1] + b) = c[j - 1] + b
        <5> DEFINE x == c[j - 1]
                   y == d[j - 1]
                   u == Len(flow)
                   v == Len(rest)
        <5>1. /\ x \in Nat /\ m \in Nat /\ u \in Nat /\ len \in Nat /\ b \in Nat /\ 1 <= b /\ b <= len
              /\ x + len <= u /\ m <= x /\ y = x - m /\ v = u - m
          BY <4>0, <4>4, <4>5
        <5> HIDE DEF x, y, u, v
        <5>2. y + b \in 1..v /\ m + (y + b) = x + b
          BY <5>1
        <5> QED
          BY <5>2 DEF x, y, v
      <4>2. rest[d[j - 1] + b] = flow[m + (d[j - 1] + b)]
        BY <1>8, <4>1
      <4>3. flow[c[j - 1] + b].sym = Bytes(keys[j])[b]
        BY <1>2, <3>1
      <4> QED
        BY <4>1, <4>2, <4>3
    <3>5. d[j] = d[j - 1] + Len(Bytes(keys[j]))
      BY <1>0, <1>5, <3>2, <3>3
    <3> QED
      BY <3>4, <3>5
  <2>5. Cuts(keys, k + 1, rest, d)
    BY <2>2, <2>3, <2>4 DEF Cuts, n
  <2> QED
    BY <2>1, <2>5 DEF Spells, n
<1> QED
  BY <1>3, <1>5, <1>6, <1>7, <1>8 DEF n, m

\* Another event is waiting.
LEMMA HoldsMore ==
  ASSUME NEW S, NEW T, NEW keys \in Seq(S), NEW k \in Nat, NEW queue \in Seq(T), NEW event \in T,
         Holds(keys, k, queue), NEW new, event \in S,
         new = IF EventBytes(event) # <<>> THEN Append(keys, event) ELSE keys
  PROVE  Holds(new, k, Append(queue, event))
<1> DEFINE n == Len(keys)
           m == Len(queue)
           longer == Append(queue, event)
           last == IF EventBytes(event) # <<>> THEN n + 1 ELSE n
<1>1. /\ n \in Nat /\ Len(new) = last /\ \A j \in 1..n : new[j] = keys[j]
      /\ EventBytes(event) # <<>> => new[n + 1] = event
  BY AppendProperties, LenProperties
<1>2. m \in Nat /\ Len(longer) = m + 1 /\ longer[m + 1] = event /\ \A i \in 1..m : longer[i] = queue[i]
  BY AppendProperties, LenProperties
<1>3. PICK r \in [0..m -> 0..n] : Counts(keys, k, queue, r)
  BY DEF Holds
<1> HIDE DEF n, m, longer
<1>4. /\ r[0] = k /\ r[m] = n
      /\ \A i \in 1..m :
            IF EventBytes(queue[i]) = <<>> THEN r[i] = r[i - 1]
            ELSE r[i] = r[i - 1] + 1 /\ keys[r[i]] = queue[i]
  BY <1>3 DEF Counts, n, m
<1> DEFINE q == [i \in 0..(m + 1) |-> IF i = m + 1 THEN last ELSE r[i]]
<1>5. q \in [0..(m + 1) -> 0..last] /\ last \in Nat
  BY <1>1, <1>2, <1>3
<1>6. q[0] = k /\ q[m + 1] = last /\ q[m] = n /\ \A i \in 0..m : q[i] = r[i]
  BY <1>2, <1>4
<1> HIDE DEF q
<1>7. ASSUME NEW i \in 1..(m + 1)
      PROVE  IF EventBytes(longer[i]) = <<>> THEN q[i] = q[i - 1]
             ELSE q[i] = q[i - 1] + 1 /\ new[q[i]] = longer[i]
  <2>1. CASE i = m + 1
    <3>1. q[i] = last /\ q[i - 1] = n /\ longer[i] = event
      BY <1>2, <1>6, <2>1
    <3> QED
      BY <1>1, <3>1
  <2>2. CASE i # m + 1
    <3>1. i \in 1..m /\ i \in 0..m /\ i - 1 \in 0..m
      BY <1>2, <2>2
    <3>2. q[i] = r[i] /\ q[i - 1] = r[i - 1] /\ longer[i] = queue[i] /\ r[i] \in 0..n /\ r[i - 1] \in 0..n
      BY <1>2, <1>3, <1>6, <3>1
    <3>3. r[i] = r[i - 1] + 1 => r[i] \in 1..n
      BY <1>1, <3>2
    <3> QED
      BY <1>1, <1>4, <3>1, <3>2, <3>3
  <2> QED
    BY <2>1, <2>2
<1>8. Counts(new, k, longer, q)
  BY <1>1, <1>2, <1>6, <1>7 DEF Counts
<1> QED
  BY <1>1, <1>2, <1>5, <1>8 DEF Holds, longer

\* The first event is taken.
LEMMA HoldsLess ==
  ASSUME NEW keys, Len(keys) \in Nat, NEW k \in Nat, NEW T, NEW queue \in Seq(T), queue # <<>>, Holds(keys, k, queue)
  PROVE  IF EventBytes(Head(queue)) = <<>> THEN Holds(keys, k, Tail(queue))
         ELSE k < Len(keys) /\ keys[k + 1] = Head(queue) /\ Holds(keys, k + 1, Tail(queue))
<1> DEFINE n == Len(keys)
           m == Len(queue)
           rest == Tail(queue)
           next == IF EventBytes(Head(queue)) = <<>> THEN k ELSE k + 1
<1>1. /\ m \in Nat /\ m # 0 /\ Len(rest) = m - 1 /\ \A i \in 1..(m - 1) : rest[i] = queue[i + 1]
      /\ Head(queue) = queue[1] /\ n \in Nat
  BY HeadTailProperties, LenProperties, EmptySeq
<1>2. PICK r \in [0..m -> 0..n] : Counts(keys, k, queue, r)
  BY DEF Holds
<1> HIDE DEF n, m, rest
<1>3. /\ r[0] = k /\ r[m] = n
      /\ \A i \in 1..m :
            IF EventBytes(queue[i]) = <<>> THEN r[i] = r[i - 1]
            ELSE r[i] = r[i - 1] + 1 /\ keys[r[i]] = queue[i]
  BY <1>2 DEF Counts, n, m
<1>4. 1 \in 1..m /\ 1 \in 0..m /\ 1 - 1 = 0
  BY <1>1
<1>5. r[1] = next /\ (EventBytes(Head(queue)) # <<>> => keys[k + 1] = Head(queue))
  BY <1>1, <1>3, <1>4
<1>6. r[1] \in 0..n
  BY <1>2, <1>4
<1> DEFINE q == [i \in 0..(m - 1) |-> r[i + 1]]
<1>7. q \in [0..(m - 1) -> 0..n] /\ \A i \in 0..(m - 1) : q[i] = r[i + 1] /\ i + 1 \in 0..m
  BY <1>1, <1>2
<1> HIDE DEF q
<1>8. q[0] = next /\ q[m - 1] = n
  BY <1>1, <1>3, <1>5, <1>7
<1>9. ASSUME NEW i \in 1..(m - 1)
      PROVE  IF EventBytes(rest[i]) = <<>> THEN q[i] = q[i - 1]
             ELSE q[i] = q[i - 1] + 1 /\ keys[q[i]] = rest[i]
  <2>1. i + 1 \in 1..m /\ i \in 0..(m - 1) /\ i - 1 \in 0..(m - 1) /\ (i + 1) - 1 = i /\ (i - 1) + 1 = i
    BY <1>1
  <2>2. q[i] = r[i + 1] /\ q[i - 1] = r[i] /\ rest[i] = queue[i + 1]
    BY <1>1, <1>7, <2>1
  <2> QED
    BY <1>3, <2>1, <2>2
<1>10. Counts(keys, next, rest, q)
  BY <1>1, <1>8, <1>9 DEF Counts, n
<1>11. Holds(keys, next, rest)
  BY <1>1, <1>7, <1>10 DEF Holds, n
<1> QED
  BY <1>1, <1>5, <1>6, <1>11 DEF n, rest

----------------------------------------------------------------------------
(* The invariant *)

\* Of an event of a device there may be a part in the buffer, and then the part before
\* it is in read_key.
InHand == IF buf = <<>> THEN got ELSE <<>>
PendingOf(d) == IF buf # <<>> /\ buf[1].from = d THEN 1 ELSE 0

GotMixed == \E i, j \in DOMAIN got : got[i].from # got[j].from

Upcoming(o) == Len(delivered[o]) + 1

HandOK ==
    IF buf = <<>> THEN (\A i \in DOMAIN got : got[i].from = Stdin) /\ (got # <<>> => got[1].sym = "ESC")
    ELSE \E d \in Devices, key \in Arrows :
            /\ got = From(d, <<"ESC">>) /\ buf = From(d, <<"[", Symbol[key]>>)
            /\ Upcoming(d) <= Len(due[d]) /\ due[d][Upcoming(d)] = key

StdinOK == Spells(due[Stdin], Len(delivered[Stdin]), InHand \o (tty \o line))
DeviceOK(d) == d \notin gone => Holds(due[d], Len(delivered[d]) + PendingOf(d), events[d])
UnderWay == HandOK /\ StdinOK /\ \A d \in Devices : DeviceOK(d)

ReadAsDue ==
    \A o \in Origins :
        /\ Len(delivered[o]) <= Len(due[o])
        /\ \A i \in DOMAIN delivered[o] : delivered[o][i] = due[o][i]

Readable == Pressable \cup Chars \cup {"Unknown"}

HistoriesOK ==
    /\ due \in [Origins -> Seq(Pressable)]
    /\ delivered \in [Origins \cup {Several} -> Seq(Readable)]

ReadyIsAlone == ready # {} => buf = <<>>

FInv ==
    /\ HistoriesOK /\ ReadyIsAlone
    /\ Unmixed => ReadAsDue /\ (GotMixed \/ UnderWay)

\* stdin, the devices and Several are told apart.
LEMMA OriginsAre ==
  /\ Stdin \in Origins /\ Devices \subseteq Origins /\ Stdin \notin Devices
  /\ Several \notin Origins
BY ConstantsAssumption DEF Stdin, Devices, Origins, Several

\* What is typed and what becomes of an event are keys.
LEMMA KeysArePressable == Keys \subseteq Pressable /\ \A event \in Events : EventBytes(event) # <<>> => event \in Pressable
BY ConstantsAssumption DEF Pressable, Events, EventBytes, Arrows

\* A key's bytes are the key's again.
LEMMA DecodeBytes ==
  ASSUME NEW key \in Pressable, key # "Escape"
  PROVE  Complete(Bytes(key)) /\ Decode(Bytes(key)) = key
<1>1. /\ Symbol["Up"] = "A" /\ Symbol["Down"] = "B" /\ Symbol["Enter"] = "CR"
      /\ Symbol["Escape"] = "ESC" /\ Symbol["r"] = "r" /\ DOMAIN Symbol = Pressable
  BY DEF Symbol, Pressable
<1>2. CASE key \in Arrows
  <2>1. Bytes(key) = <<"ESC", "[", Symbol[key]>> /\ Len(Bytes(key)) = 3
    BY <1>2, KeyBytes
  <2>2. Bytes(key)[1] = "ESC" /\ Bytes(key)[3] = Symbol[key]
    BY <2>1
  <2>3. ASSUME NEW k \in Arrows, Bytes(key) = Bytes(k) PROVE k = key
    <3>1. Bytes(k)[3] = Symbol[k]
      BY DEF Bytes
    <3> QED
      BY <1>1, <1>2, <2>2, <2>3, <3>1 DEF Arrows
  <2>4. (CHOOSE k \in Arrows : Bytes(key) = Bytes(k)) = key
    BY <1>2, <2>3
  <2> QED
    BY <1>2, <2>1, <2>2, <2>4 DEF Decode, Complete
<1>3. CASE key \notin Arrows
  <2>1. Bytes(key) = <<Symbol[key]>>
    BY <1>3, KeyBytes
  <2>2. Bytes(key)[1] = Symbol[key] /\ Symbol[key] # "ESC"
    BY <1>1, <2>1 DEF Pressable
  <2>3. ASSUME NEW k \in Pressable, Bytes(key) = Bytes(k) PROVE k = key
    <3>1. k \notin Arrows
      <4>1. k \in Arrows => Bytes(k)[1] = "ESC"
        BY DEF Bytes
      <4> QED
        BY <2>2, <2>3, <4>1
    <3>2. Bytes(k)[1] = Symbol[k]
      BY <3>1 DEF Bytes
    <3> QED
      BY <1>1, <1>3, <2>2, <2>3, <3>1, <3>2 DEF Pressable, Arrows
  <2>4. (CHOOSE k \in DOMAIN Symbol : Bytes(key) = Bytes(k)) = key
    BY <1>1, <2>3
  <2> QED
    BY <1>1, <2>2, <2>4 DEF Decode, Complete
<1> QED
  BY <1>2, <1>3

\* What read_key returns of any bytes.
LEMMA DecodeType ==
  ASSUME NEW syms \in Seq(Chars), syms # <<>>
  PROVE  Decode(syms) \in Readable
<1>1. syms[1] \in Readable
  <2>1. 1 \in 1..Len(syms)
    BY EmptySeq
  <2> QED
    BY <2>1, ElementOfSeq DEF Readable
<1>2. DOMAIN Symbol = Pressable /\ Arrows \subseteq Readable /\ Pressable \subseteq Readable /\ "Unknown" \in Readable
  BY DEF Symbol, Pressable, Arrows, Readable
<1>3. (\E key \in Arrows : syms = Bytes(key)) => (CHOOSE key \in Arrows : syms = Bytes(key)) \in Readable
  BY <1>2
<1>4. (\E key \in Pressable : syms = Bytes(key)) => (CHOOSE key \in Pressable : syms = Bytes(key)) \in Readable
  BY <1>2
<1> QED
  BY <1>1, <1>2, <1>3, <1>4 DEF Decode

\* What is taken from the front and what is left are the whole.
LEMMA CutWhole ==
  ASSUME NEW S, NEW s \in Seq(S), NEW n \in Nat
  PROVE  FirstN(s, n) \o After(s, n) = s /\ FirstN(s, n) \in Seq(S) /\ After(s, n) \in Seq(S)
<1>1. Len(s) \in Nat
  BY LenProperties
<1>2. FirstN(s, n) \in Seq(S) /\ After(s, n) \in Seq(S)
  BY FirstNIsSeq, AfterIsSeq
<1>3. CASE n < Len(s)
  <2>1. FirstN(s, n) = SubSeq(s, 1, n) /\ After(s, n) = SubSeq(s, n + 1, Len(s))
    BY <1>3 DEF FirstN, After
  <2>2. 1 \in 1..(Len(s) + 1) /\ n \in (1 - 1)..Len(s) /\ Len(s) \in n..Len(s)
    BY <1>1, <1>3
  <2>3. SubSeq(s, 1, n) \o SubSeq(s, n + 1, Len(s)) = SubSeq(s, 1, Len(s))
    BY <2>2, ConcatAdjacentSubSeq
  <2> QED
    BY <1>2, <2>1, <2>3, SubSeqFull
<1>4. CASE ~(n < Len(s))
  <2>1. FirstN(s, n) = s
    BY <1>4, SubSeqFull DEF FirstN
  <2>2. After(s, n) = <<>>
    BY <1>1, <1>4, SubSeqEmpty DEF After
  <2> QED
    BY <1>2, <2>1, <2>2, ConcatEmptySeq
<1> QED
  BY <1>3, <1>4

\* The symbols of some bytes.
LEMMA SymsAre ==
  ASSUME NEW O, NEW bytes \in Seq(ByteOf(O))
  PROVE  Syms(bytes) \in Seq(Chars) /\ Len(Syms(bytes)) = Len(bytes) /\ \A i \in 1..Len(bytes) : Syms(bytes)[i] = bytes[i].sym
<1>1. DOMAIN bytes = 1..Len(bytes) /\ Len(bytes) \in Nat
  BY LenProperties
<1>2. \A i \in 1..Len(bytes) : bytes[i].sym \in Chars
  <2>1. \A i \in 1..Len(bytes) : bytes[i] \in ByteOf(O)
    BY ElementOfSeq
  <2> QED
    BY <2>1 DEF ByteOf
<1> QED
  BY <1>1, <1>2 DEF Syms

----------------------------------------------------------------------------
(* What read_key makes of the bytes it is given *)

\* The bytes read_key has with those it is given.
LEMMA AllBytes ==
  ASSUME TInv, NEW bytes \in Seq(ByteOf(Origins)), bytes # <<>>
  PROVE  LET all == got \o bytes IN
         /\ all \in Seq(ByteOf(Origins)) /\ DOMAIN all = 1..Len(all) /\ 1 \in 1..Len(all)
         /\ Len(all) \in Nat /\ Len(got) \in Nat /\ Len(bytes) \in Nat /\ Len(bytes) # 0
         /\ Len(all) = Len(got) + Len(bytes) /\ DOMAIN got = 1..Len(got) /\ DOMAIN bytes = 1..Len(bytes)
         /\ \A i \in DOMAIN got : i \in DOMAIN all /\ all[i] = got[i]
         /\ \A i \in DOMAIN bytes : Len(got) + i \in DOMAIN all /\ all[Len(got) + i] = bytes[i]
         /\ \A i \in DOMAIN all : all[i].from \in Origins
<1> DEFINE all == got \o bytes
<1>1. got \in Seq(ByteOf(Origins))
  BY DEF TInv, BytesOK
<1>2. /\ all \in Seq(ByteOf(Origins)) /\ Len(got) \in Nat /\ Len(bytes) \in Nat
      /\ Len(all) = Len(got) + Len(bytes)
      /\ \A i \in 1..Len(got) : all[i] = got[i]
      /\ \A i \in 1..Len(bytes) : all[Len(got) + i] = bytes[i]
  BY ONLY <1>1, bytes \in Seq(ByteOf(Origins)), ConcatAt
<1> HIDE DEF all
<1>3. DOMAIN all = 1..Len(all) /\ DOMAIN got = 1..Len(got) /\ DOMAIN bytes = 1..Len(bytes) /\ Len(bytes) # 0
  BY <1>1, <1>2, LenProperties, EmptySeq
<1>4. \A i \in DOMAIN all : all[i].from \in Origins
  <2>1. \A i \in DOMAIN all : all[i] \in ByteOf(Origins)
    BY <1>2, <1>3, ElementOfSeq
  <2> QED
    BY <2>1 DEF ByteOf
<1> QED
  BY <1>2, <1>3, <1>4 DEF all

\* What is returned stays returned.
LEMMA AcceptHistory ==
  ASSUME TInv, HistoriesOK, NEW bytes \in Seq(ByteOf(Origins)), bytes # <<>>, Accept(bytes), UNCHANGED due
  PROVE  /\ HistoriesOK'
         /\ Unmixed' => Unmixed
<1> DEFINE all == got \o bytes
           o == OriginOf(all)
           key == Decode(Syms(all))
<1>1. /\ all \in Seq(ByteOf(Origins)) /\ DOMAIN all = 1..Len(all) /\ 1 \in 1..Len(all)
      /\ \A i \in DOMAIN all : all[i].from \in Origins
  BY AllBytes
<1>2. CASE ~Complete(Syms(all))
  <2>1. UNCHANGED delivered
    BY <1>2 DEF Accept
  <2> QED
    BY <2>1 DEF HistoriesOK, Unmixed
<1>3. CASE Complete(Syms(all))
  <2>1. delivered' = [delivered EXCEPT ![o] = Append(@, key)]
    BY <1>3 DEF Accept
  <2>2. o \in Origins \cup {Several}
    BY <1>1 DEF OriginOf
  <2>3. key \in Readable
    <3>1. Syms(all) \in Seq(Chars) /\ Len(Syms(all)) = Len(all)
      BY <1>1, SymsAre
    <3>2. Len(Syms(all)) # 0
      BY <1>1, <3>1
    <3>3. Syms(all) # <<>>
      BY <3>2, EmptySeq
    <3> QED
      BY <3>1, <3>3, DecodeType
  <2> HIDE DEF o, key
  <2>4. \A p \in Origins \cup {Several} : Append(delivered[p], key) \in Seq(Readable) /\ Append(delivered[p], key) # <<>>
    BY <2>3, AppendProperties DEF HistoriesOK
  <2>5. HistoriesOK'
    BY <2>1, <2>2, <2>4 DEF HistoriesOK
  <2>6. delivered'[Several] = <<>> => delivered[Several] = <<>>
    BY <2>1, <2>4 DEF HistoriesOK
  <2> QED
    BY <2>5, <2>6 DEF Unmixed
<1> QED
  BY <1>2, <1>3

\* Bytes from two places stay in read_key until they make a key of Several.
LEMMA MixedStays ==
  ASSUME TInv, HistoriesOK, NEW bytes \in Seq(ByteOf(Origins)), bytes # <<>>, Accept(bytes), UNCHANGED due,
         NEW i \in DOMAIN (got \o bytes), NEW j \in DOMAIN (got \o bytes),
         (got \o bytes)[i].from # (got \o bytes)[j].from
  PROVE  Unmixed' => GotMixed' /\ UNCHANGED delivered
<1> DEFINE all == got \o bytes
<1>1. CASE ~Complete(Syms(all))
  <2>1. got' = all /\ UNCHANGED delivered
    BY <1>1 DEF Accept
  <2> QED
    BY <2>1 DEF GotMixed
<1>2. CASE Complete(Syms(all))
  <2>1. OriginOf(all) = Several
    BY DEF OriginOf
  <2>2. delivered' = [delivered EXCEPT ![Several] = Append(@, Decode(Syms(all)))]
    BY <1>2, <2>1 DEF Accept
  <2>3. delivered'[Several] # <<>>
    <3>1. Syms(all) \in Seq(Chars) /\ Len(Syms(all)) = Len(all) /\ 1 \in 1..Len(all)
      BY AllBytes, SymsAre
    <3>2. Syms(all) # <<>>
      <4>1. Len(Syms(all)) # 0
        BY <3>1
      <4> QED
        BY <4>1, EmptySeq
    <3>3. Decode(Syms(all)) \in Readable
      BY <3>1, <3>2, DecodeType
    <3>4. delivered'[Several] = Append(delivered[Several], Decode(Syms(all))) /\ delivered[Several] \in Seq(Readable)
      BY <2>2 DEF HistoriesOK
    <3> QED
      BY <3>3, <3>4, AppendProperties
  <2> QED
    BY <2>3 DEF Unmixed
<1> QED
  BY <1>1, <1>2

\* What was mixed stays so, whatever is read.
LEMMA MixedKeeps ==
  ASSUME TInv, FInv, NEW bytes \in Seq(ByteOf(Origins)), bytes # <<>>, Accept(bytes), UNCHANGED due,
         ReadyIsAlone', GotMixed
  PROVE  FInv'
<1>1. HistoriesOK' /\ (Unmixed' => Unmixed)
  BY AcceptHistory DEF FInv
<1>2. Unmixed' => GotMixed' /\ UNCHANGED delivered
  <2>1. PICK i, j \in DOMAIN got : got[i].from # got[j].from
    BY DEF GotMixed
  <2>2. /\ i \in DOMAIN (got \o bytes) /\ j \in DOMAIN (got \o bytes)
        /\ (got \o bytes)[i].from # (got \o bytes)[j].from
    BY <2>1, AllBytes
  <2> QED
    BY <2>2, MixedStays DEF FInv
<1> QED
  BY <1>1, <1>2 DEF FInv, ReadAsDue

\* A key is returned as what it is.
LEMMA KeyReturned ==
  ASSUME TInv, HistoriesOK, ReadAsDue, NEW bytes \in Seq(ByteOf(Origins)), bytes # <<>>, Accept(bytes), UNCHANGED due,
         NEW o \in Origins, \A i \in DOMAIN (got \o bytes) : (got \o bytes)[i].from = o,
         NEW key \in Pressable, key # "Escape", Syms(got \o bytes) = Bytes(key),
         Upcoming(o) <= Len(due[o]), due[o][Upcoming(o)] = key
  PROVE  /\ got' = <<>> /\ ReadAsDue'
         /\ Len(delivered'[o]) = Len(delivered[o]) + 1
         /\ \A p \in Origins \ {o} : delivered'[p] = delivered[p]
<1> DEFINE all == got \o bytes
<1>1. Complete(Syms(all)) /\ Decode(Syms(all)) = key
  BY DecodeBytes
<1>2. OriginOf(all) = o
  BY AllBytes DEF OriginOf
<1>3. got' = <<>> /\ delivered' = [delivered EXCEPT ![o] = Append(@, key)]
  BY <1>1, <1>2 DEF Accept
<1>4. delivered[o] \in Seq(Readable) /\ key \in Readable
  BY DEF HistoriesOK, Readable
<1>5. delivered'[o] = Append(delivered[o], key) /\ \A p \in Origins \ {o} : delivered'[p] = delivered[p]
  BY <1>3 DEF HistoriesOK
<1>6. /\ Len(delivered[o]) \in Nat /\ Len(delivered'[o]) = Len(delivered[o]) + 1
      /\ DOMAIN delivered'[o] = 1..(Len(delivered[o]) + 1) /\ DOMAIN delivered[o] = 1..Len(delivered[o])
      /\ \A i \in 1..Len(delivered[o]) : delivered'[o][i] = delivered[o][i]
      /\ delivered'[o][Len(delivered[o]) + 1] = key
  BY <1>4, <1>5, AppendProperties, LenProperties
<1>7. ReadAsDue'
  <2> SUFFICES ASSUME NEW p \in Origins
               PROVE  /\ Len(delivered'[p]) <= Len(due[p])
                      /\ \A i \in DOMAIN delivered'[p] : delivered'[p][i] = due[p][i]
    BY DEF ReadAsDue
  <2>1. CASE p # o
    BY <1>5, <2>1 DEF ReadAsDue
  <2>2. CASE p = o
    BY <1>6, <2>2 DEF ReadAsDue, Upcoming
  <2> QED
    BY <2>1, <2>2
<1> QED
  BY <1>3, <1>5, <1>6, <1>7

----------------------------------------------------------------------------
(* The steps *)

\* Nothing is under way and nothing due.
LEMMA FaithfulInitial == Init => FInv
<1> SUFFICES ASSUME Init PROVE FInv
  OBVIOUS
<1>1. /\ due = [o \in Origins |-> <<>>] /\ delivered = [o \in Origins \cup {Several} |-> <<>>]
      /\ line = <<>> /\ tty = <<>> /\ events = [d \in Devices |-> <<>>]
      /\ ready = {} /\ buf = <<>> /\ got = <<>>
  BY DEF Init
<1>2. Len(<<>>) = 0 /\ <<>> \o (<<>> \o <<>>) = <<>>
  BY EmptySeq, ConcatEmptySeq
<1>3. HistoriesOK /\ ReadyIsAlone
  BY <1>1, EmptySeq DEF HistoriesOK, ReadyIsAlone
<1>4. ReadAsDue
  BY <1>1, <1>2 DEF ReadAsDue
<1>5. HandOK
  BY <1>1 DEF HandOK
<1>6. StdinOK
  <2>1. due[Stdin] = <<>> /\ delivered[Stdin] = <<>> /\ InHand = <<>>
    BY <1>1, OriginsAre DEF InHand
  <2> QED
    BY <1>1, <1>2, <2>1, SpellsNothing DEF StdinOK
<1>7. ASSUME NEW d \in Devices PROVE DeviceOK(d)
  <2>1. due[d] = <<>> /\ delivered[d] = <<>> /\ events[d] = <<>> /\ PendingOf(d) = 0
    BY <1>1, OriginsAre DEF PendingOf
  <2> QED
    BY <1>2, <2>1, HoldsNothing DEF DeviceOK
<1> QED
  BY <1>3, <1>4, <1>5, <1>6, <1>7 DEF FInv, UnderWay

\* What moves no byte past read_key and puts none in.
LEMMA IdleKeeps ==
  ASSUME FInv, UNCHANGED <<due, delivered, buf, got>>, tty' \o line' = tty \o line, ReadyIsAlone',
         \A d \in Devices : d \notin gone' => d \notin gone /\ events'[d] = events[d]
  PROVE  FInv'
<1>1. HistoriesOK' /\ (Unmixed' => Unmixed) /\ (ReadAsDue => ReadAsDue') /\ (GotMixed => GotMixed')
  BY DEF FInv, HistoriesOK, Unmixed, ReadAsDue, GotMixed
<1>2. HandOK => HandOK'
  BY DEF HandOK, Upcoming
<1>3. StdinOK => StdinOK'
  BY DEF StdinOK, InHand
<1>4. \A d \in Devices : DeviceOK(d) => DeviceOK(d)'
  BY DEF DeviceOK, PendingOf
<1> QED
  BY <1>1, <1>2, <1>3, <1>4 DEF FInv, UnderWay

\* Bytes that arrive are under way as before.
LEMMA ArriveKeeps ==
  ASSUME TInv, FInv, NEW n \in 1..Len(line), Arrive(n)
  PROVE  FInv'
<1>1. /\ tty' = tty \o FirstN(line, n) /\ line' = After(line, n)
      /\ UNCHANGED <<events, gone, due, ready, buf, got, delivered>>
  BY DEF Arrive, reader
<1>2. tty \in Seq(ByteOf({Stdin})) /\ line \in Seq(ByteOf({Stdin}))
  BY DEF TInv, BytesOK
<1>3. FirstN(line, n) \o After(line, n) = line /\ FirstN(line, n) \in Seq(ByteOf({Stdin})) /\ After(line, n) \in Seq(ByteOf({Stdin}))
  BY <1>2, CutWhole
<1>4. tty' \o line' = tty \o line
  <2> DEFINE first == FirstN(line, n)
             rest == After(line, n)
  <2>1. /\ tty \in Seq(ByteOf({Stdin})) /\ first \in Seq(ByteOf({Stdin})) /\ rest \in Seq(ByteOf({Stdin}))
    BY <1>2, <1>3
  <2>2. first \o rest = line /\ tty' = tty \o first /\ line' = rest
    BY <1>1, <1>3
  <2> HIDE DEF first, rest
  <2>3. (tty \o first) \o rest = tty \o (first \o rest)
    BY ONLY <2>1, ConcatAssociative
  <2> QED
    BY <2>2, <2>3
<1>5. ReadyIsAlone'
  BY <1>1 DEF FInv, ReadyIsAlone
<1> QED
  BY <1>1, <1>4, <1>5, IdleKeeps

\* A poll and a read that fails leave everything where it is.
LEMMA PollKeeps ==
  ASSUME FInv, PollReady \/ PollTimesOut \/ PollDevices \/ (\E d \in Devices : ReadFails(d)) \/ UNCHANGED vars
  PROVE  FInv'
<1>1. UNCHANGED <<due, delivered, buf, got, tty, line, events, gone>>
  BY DEF PollReady, PollTimesOut, PollDevices, ReadFails, vars, kernel, reader
<1>2. buf = <<>> \/ ready' \subseteq ready
  BY DEF PollReady, PollTimesOut, PollDevices, ReadFails, vars, reader
<1>3. ReadyIsAlone'
  BY <1>1, <1>2 DEF FInv, ReadyIsAlone
<1> QED
  BY <1>1, <1>3, IdleKeeps

\* Nothing is said of the events of a device that is gone.
LEMMA PullOutKeeps ==
  ASSUME CInv, FInv, NEW e \in Devices, PullOut(e)
  PROVE  FInv'
<1>1. /\ gone' = gone \cup {e} /\ events' = [events EXCEPT ![e] = <<>>]
      /\ UNCHANGED <<due, delivered, buf, got, tty, line, ready>>
  BY DEF PullOut, reader
<1>2. \A d \in Devices : d \notin gone' => d \notin gone /\ events'[d] = events[d]
  BY <1>1 DEF CInv, QueuesOK
<1>3. ReadyIsAlone'
  BY <1>1 DEF FInv, ReadyIsAlone
<1> QED
  BY <1>1, <1>2, <1>3, IdleKeeps

\* Another key is due, somewhere.
LEMMA DueGrows ==
  ASSUME FInv, UNCHANGED <<delivered, buf, got, gone, ready>>, NEW key,
         due' \in [Origins -> Seq(Pressable)],
         \A o \in Origins : due'[o] = due[o] \/ (key \in Pressable /\ due'[o] = Append(due[o], key)),
         ReadAsDue /\ UnderWay => StdinOK' /\ \A d \in Devices : DeviceOK(d)'
  PROVE  FInv'
<1>1. \A o \in Origins : /\ Len(due[o]) \in Nat /\ Len(due'[o]) \in Nat /\ Len(due[o]) <= Len(due'[o])
                          /\ DOMAIN due[o] = 1..Len(due[o]) /\ DOMAIN due'[o] = 1..Len(due'[o])
                          /\ \A i \in 1..Len(due[o]) : due'[o][i] = due[o][i]
  <2> TAKE o \in Origins
  <2>1. due[o] \in Seq(Pressable) /\ due'[o] \in Seq(Pressable)
    BY DEF FInv, HistoriesOK
  <2>2. CASE due'[o] = due[o]
    BY <2>1, <2>2, LenProperties
  <2>3. CASE key \in Pressable /\ due'[o] = Append(due[o], key)
    BY <2>1, <2>3, LenProperties, AppendProperties
  <2> QED
    BY <2>2, <2>3
<1>2. \A o \in Origins : delivered[o] \in Seq(Readable) /\ Len(delivered[o]) \in Nat /\ DOMAIN delivered[o] = 1..Len(delivered[o])
  BY LenProperties DEF FInv, HistoriesOK
<1>3. HistoriesOK' /\ ReadyIsAlone'
  BY DEF FInv, HistoriesOK, ReadyIsAlone
<1>4. Unmixed' => Unmixed
  <2> SUFFICES ASSUME Unmixed' PROVE Unmixed
    OBVIOUS
  <2>1. \A i \in DOMAIN due[Stdin] : i \in DOMAIN due'[Stdin] /\ due'[Stdin][i] = due[Stdin][i]
    BY <1>1, OriginsAre
  <2> QED
    BY <2>1 DEF Unmixed
<1>5. ReadAsDue => ReadAsDue'
  <2> SUFFICES ASSUME ReadAsDue, NEW o \in Origins
               PROVE  /\ Len(delivered'[o]) <= Len(due'[o])
                      /\ \A i \in DOMAIN delivered'[o] : delivered'[o][i] = due'[o][i]
    BY DEF ReadAsDue
  <2>1. Len(delivered[o]) <= Len(due[o]) /\ \A i \in DOMAIN delivered[o] : delivered[o][i] = due[o][i]
    BY DEF ReadAsDue
  <2> QED
    BY <1>1, <1>2, <2>1
<1>6. HandOK => HandOK'
  <2>1. CASE buf = <<>>
    BY <2>1 DEF HandOK
  <2>2. CASE buf # <<>>
    <3> SUFFICES ASSUME NEW d \in Devices, NEW k \in Arrows,
                        got = From(d, <<"ESC">>), buf = From(d, <<"[", Symbol[k]>>),
                        Upcoming(d) <= Len(due[d]), due[d][Upcoming(d)] = k
                 PROVE  Upcoming(d)' <= Len(due'[d]) /\ due'[d][Upcoming(d)'] = k
      BY <2>2 DEF HandOK
    <3>1. Upcoming(d)' = Upcoming(d) /\ Upcoming(d) \in 1..Len(due[d]) /\ d \in Origins
      BY <1>1, <1>2, OriginsAre DEF Upcoming
    <3> QED
      BY <1>1, <3>1
  <2> QED
    BY <2>1, <2>2
<1>7. GotMixed => GotMixed'
  BY DEF GotMixed
<1> QED
  BY <1>3, <1>4, <1>5, <1>6, <1>7 DEF FInv, UnderWay

\* The bytes that are still to be read.
LEMMA FlowType ==
  ASSUME TInv
  PROVE  /\ InHand \in Seq(ByteOf(Origins)) /\ tty \in Seq(ByteOf(Origins)) /\ line \in Seq(ByteOf(Origins))
         /\ got \in Seq(ByteOf(Origins)) /\ buf \in Seq(ByteOf(Origins))
         /\ tty \o line \in Seq(ByteOf(Origins)) /\ InHand \o (tty \o line) \in Seq(ByteOf(Origins))
<1>1. ByteOf({Stdin}) \subseteq ByteOf(Origins) /\ ByteOf(Devices) \subseteq ByteOf(Origins)
  BY DEF ByteOf, Origins
<1>2. tty \in Seq(ByteOf(Origins)) /\ line \in Seq(ByteOf(Origins)) /\ got \in Seq(ByteOf(Origins)) /\ buf \in Seq(ByteOf(Origins))
  BY <1>1, SeqMonotonic DEF TInv, BytesOK
<1>3. InHand \in Seq(ByteOf(Origins))
  BY <1>2, EmptySeq DEF InHand
<1>4. tty \o line \in Seq(ByteOf(Origins))
  BY <1>2, ConcatProperties
<1> QED
  BY <1>2, <1>3, <1>4, ConcatProperties

\* A key's bytes are put behind what is under way to stdin.
LEMMA LineGrows ==
  ASSUME TInv, FInv, StdinOK, NEW key \in Pressable, UNCHANGED <<tty, buf, got, delivered>>,
         line' = line \o From(Stdin, Bytes(key)), due'[Stdin] = Append(due[Stdin], key),
         ReadAsDue
  PROVE  StdinOK'
<1> DEFINE more == From(Stdin, Bytes(key))
           flow == InHand \o (tty \o line)
<1>1. Bytes(key) \in Seq(Chars) /\ Len(Bytes(key)) \in Nat /\ DOMAIN Bytes(key) = 1..Len(Bytes(key))
  BY KeyBytes, LenProperties
<1>2. more \in Seq(ByteOf(Origins)) /\ Len(more) = Len(Bytes(key))
  BY <1>1, FromIsSeq, OriginsAre
<1>3. \A b \in 1..Len(more) : more[b].sym = Bytes(key)[b]
  BY <1>1, <1>2 DEF From
<1>4. InHand' = InHand
  BY DEF InHand
<1>5. InHand \o (tty \o (line \o more)) = flow \o more
  <2>1. more \in Seq(ByteOf(Origins)) /\ tty \in Seq(ByteOf(Origins)) /\ line \in Seq(ByteOf(Origins))
        /\ InHand \in Seq(ByteOf(Origins)) /\ tty \o line \in Seq(ByteOf(Origins))
    BY <1>2, FlowType
  <2> HIDE DEF more
  <2>2. (tty \o line) \o more = tty \o (line \o more)
    BY ONLY <2>1, ConcatAssociative
  <2>3. (InHand \o (tty \o line)) \o more = InHand \o ((tty \o line) \o more)
    BY ONLY <2>1, ConcatAssociative
  <2> QED
    BY <2>2, <2>3
<1>6. Spells(due[Stdin], Len(delivered[Stdin]), flow)
  BY DEF StdinOK
<1>7. due[Stdin] \in Seq(Pressable) /\ Len(delivered[Stdin]) \in 0..Len(due[Stdin])
  <2>1. delivered[Stdin] \in Seq(Readable) /\ due[Stdin] \in Seq(Pressable) /\ Len(delivered[Stdin]) <= Len(due[Stdin])
    BY OriginsAre DEF FInv, HistoriesOK, ReadAsDue
  <2> QED
    BY <2>1, LenProperties
<1> HIDE DEF more, flow
<1>8. flow \in Seq(ByteOf(Origins))
  BY FlowType DEF flow
<1>9. Spells(Append(due[Stdin], key), Len(delivered[Stdin]), flow \o more)
  BY <1>2, <1>3, <1>6, <1>7, <1>8, SpellsMore
<1> QED
  BY <1>4, <1>5, <1>9 DEF StdinOK, flow, more

\* What read_exact is given of stdin is the whole next key, or the start of one.
LEMMA ReadStdinKeeps ==
  ASSUME TInv, FInv, ReadStdin
  PROVE  FInv'
<1> DEFINE bytes == FirstN(tty, Wanted)
           rest == After(tty, Wanted)
           all == got \o bytes
           flow == InHand \o (tty \o line)
<1>1. /\ buf = <<>> /\ tty # <<>> /\ Accept(bytes) /\ tty' = rest /\ ready = {} /\ ready' = ready
      /\ UNCHANGED <<line, events, gone, due, buf>>
  BY DEF ReadStdin
<1>2. /\ bytes \in Seq(ByteOf(Origins)) /\ rest \in Seq(ByteOf(Origins)) /\ bytes \o rest = tty
      /\ line \in Seq(ByteOf(Origins)) /\ got \in Seq(ByteOf(Origins)) /\ tty \in Seq(ByteOf(Origins))
      /\ bytes \in Seq(ByteOf({Stdin}))
  <2>1. Wanted \in Nat /\ tty \in Seq(ByteOf(Origins)) /\ tty \in Seq(ByteOf({Stdin}))
    BY WantedIsSmall, FlowType DEF TInv, BytesOK
  <2> QED
    BY <2>1, CutWhole, FlowType
<1>3. /\ bytes # <<>> /\ Len(bytes) = (IF Wanted < Len(tty) THEN Wanted ELSE Len(tty))
      /\ Len(tty) \in Nat /\ Len(tty) # 0 /\ Wanted \in 1..3
  <2>1. Len(tty) \in Nat /\ Len(tty) # 0 /\ Wanted \in 1..3
    BY <1>1, <1>2, EmptySeq, WantedIsSmall DEF TInv
  <2>2. Len(bytes) = (IF Wanted < Len(tty) THEN Wanted ELSE Len(tty))
    BY <1>2, <2>1, FirstNIsSeq
  <2>3. Len(bytes) # 0
    BY <2>1, <2>2
  <2>4. bytes # <<>>
    BY <2>3, EmptySeq
  <2> QED
    BY <2>1, <2>2, <2>4
<1>4. ReadyIsAlone'
  BY <1>1 DEF ReadyIsAlone
<1>5. CASE GotMixed
  <2> HIDE DEF bytes
  <2> QED
    BY <1>1, <1>2, <1>3, <1>4, <1>5, MixedKeeps
<1> HIDE DEF bytes, rest
<1>6. HistoriesOK' /\ (Unmixed' => Unmixed)
  BY <1>1, <1>2, <1>3, AcceptHistory DEF FInv
<1>7. SUFFICES ASSUME ~GotMixed, Unmixed', Unmixed, ReadAsDue, UnderWay
               PROVE  ReadAsDue' /\ UnderWay'
  BY <1>4, <1>5, <1>6 DEF FInv
<1>8. /\ all \in Seq(ByteOf(Origins)) /\ DOMAIN all = 1..Len(all) /\ 1 \in 1..Len(all) /\ Len(all) \in Nat
      /\ Len(got) \in Nat /\ Len(bytes) \in Nat /\ Len(all) = Len(got) + Len(bytes)
      /\ \A i \in DOMAIN got : i \in DOMAIN all /\ all[i] = got[i]
      /\ DOMAIN got = 1..Len(got) /\ DOMAIN bytes = 1..Len(bytes)
      /\ \A i \in DOMAIN bytes : all[Len(got) + i] = bytes[i]
  BY <1>2, <1>3, AllBytes
<1>9. \A i \in DOMAIN all : all[i].from = Stdin
  <2> TAKE i \in DOMAIN all
  <2>1. CASE i \in DOMAIN got
    BY <1>1, <1>7, <1>8, <2>1 DEF UnderWay, HandOK
  <2>2. CASE i \notin DOMAIN got
    <3>1. i - Len(got) \in DOMAIN bytes /\ Len(got) + (i - Len(got)) = i
      BY <1>8, <2>2
    <3>2. bytes[i - Len(got)] \in ByteOf({Stdin})
      BY <1>2, <1>8, <3>1, ElementOfSeq
    <3>3. all[i] = bytes[i - Len(got)]
      BY <1>8, <3>1
    <3> QED
      BY <3>2, <3>3 DEF ByteOf
  <2> QED
    BY <2>1, <2>2
<1>10. flow = all \o (rest \o line) /\ flow \in Seq(ByteOf(Origins)) /\ rest \o line \in Seq(ByteOf(Origins))
  <2>1. flow = got \o ((bytes \o rest) \o line)
    BY <1>1, <1>2 DEF InHand
  <2>2. got \o ((bytes \o rest) \o line) = (got \o bytes) \o (rest \o line)
    <3>1. /\ got \in Seq(ByteOf(Origins)) /\ bytes \in Seq(ByteOf(Origins))
          /\ rest \in Seq(ByteOf(Origins)) /\ line \in Seq(ByteOf(Origins))
      BY <1>2
    <3>2. bytes \o rest \in Seq(ByteOf(Origins)) /\ rest \o line \in Seq(ByteOf(Origins))
      BY ONLY <3>1, ConcatProperties
    <3>3. (bytes \o rest) \o line = bytes \o (rest \o line)
      BY ONLY <3>1, ConcatAssociative
    <3>4. (got \o bytes) \o (rest \o line) = got \o (bytes \o (rest \o line))
      BY ONLY <3>1, <3>2, ConcatAssociative
    <3> QED
      BY <3>3, <3>4
  <2>3. rest \o line \in Seq(ByteOf(Origins))
    BY <1>2, ConcatProperties
  <2> QED
    BY <2>1, <2>2, <2>3, FlowType
<1>11. Spells(due[Stdin], Len(delivered[Stdin]), flow)
  BY <1>7 DEF UnderWay, StdinOK
<1>12. Syms(all) \in Seq(Chars) /\ Len(Syms(all)) = Len(all) /\ \A i \in 1..Len(all) : Syms(all)[i] = all[i].sym
  BY <1>8, SymsAre
<1>13. CASE ~Complete(Syms(all))
  <2>1. got' = all /\ UNCHANGED delivered
    BY <1>1, <1>13 DEF Accept
  <2>2. ReadAsDue'
    BY <1>1, <1>7, <2>1 DEF ReadAsDue
  <2>3. HandOK'
    <3>1. all[1].sym = "ESC"
      BY <1>8, <1>12, <1>13 DEF Complete
    <3> QED
      BY <1>1, <1>9, <2>1, <3>1 DEF HandOK
  <2>4. StdinOK'
    <3>1. (InHand \o (tty \o line))' = flow
      BY <1>1, <1>10, <2>1 DEF InHand
    <3> QED
      BY <1>1, <1>11, <2>1, <3>1 DEF StdinOK
  <2>5. \A d \in Devices : DeviceOK(d)'
    BY <1>1, <1>7, <2>1 DEF UnderWay, DeviceOK, PendingOf
  <2> QED
    BY <2>2, <2>3, <2>4, <2>5 DEF UnderWay
<1>14. CASE Complete(Syms(all))
  <2> DEFINE k == Len(delivered[Stdin])
             key == due[Stdin][k + 1]
  <2>1. due[Stdin] \in Seq(Pressable) /\ k \in 0..Len(due[Stdin]) /\ k \in Nat /\ Len(due[Stdin]) \in Nat
    <3>1. delivered[Stdin] \in Seq(Readable) /\ due[Stdin] \in Seq(Pressable) /\ k <= Len(due[Stdin])
      BY <1>7, OriginsAre DEF FInv, HistoriesOK, ReadAsDue
    <3> QED
      BY <3>1, LenProperties
  <2>2. /\ flow # <<>> /\ Len(flow) = Len(all) + Len(rest \o line)
        /\ \A i \in 1..Len(all) : flow[i] = all[i]
        /\ \A i \in 1..Len(rest \o line) : flow[Len(all) + i] = (rest \o line)[i]
        /\ Len(rest \o line) \in Nat
    <3> DEFINE left == rest \o line
    <3>1. left \in Seq(ByteOf(Origins)) /\ all \in Seq(ByteOf(Origins)) /\ flow = all \o left
      BY <1>8, <1>10
    <3> HIDE DEF left, all, flow
    <3>2. /\ Len(flow) = Len(all) + Len(left) /\ Len(left) \in Nat
          /\ \A i \in 1..Len(all) : flow[i] = all[i]
          /\ \A i \in 1..Len(left) : flow[Len(all) + i] = left[i]
      BY ONLY <3>1, ConcatAt
    <3>3. Len(flow) # 0
      BY <1>8, <3>2
    <3>4. flow # <<>>
      BY <3>3, EmptySeq
    <3> QED
      BY <3>2, <3>4 DEF left
  <2> HIDE DEF flow, k
  <2>3. /\ k < Len(due[Stdin]) /\ key \in Pressable
        /\ Len(Bytes(key)) <= Len(flow)
        /\ \A b \in 1..Len(Bytes(key)) : flow[b].sym = Bytes(key)[b]
        /\ \A left \in Seq(ByteOf(Origins)) :
              /\ Len(left) = Len(flow) - Len(Bytes(key))
              /\ \A i \in 1..Len(left) : left[i] = flow[Len(Bytes(key)) + i]
              => Spells(due[Stdin], k + 1, left)
    BY <1>10, <1>11, <2>1, <2>2, SpellsLess DEF k
  <2>4. key # "Escape"
    <3>1. k + 1 \in DOMAIN due[Stdin]
      BY <2>1, <2>3, LenProperties
    <3> QED
      BY <1>7, <3>1 DEF Unmixed
  <2> HIDE DEF key
  <2>5. Len(Bytes(key)) \in 1..3 /\ flow[1].sym = Bytes(key)[1] /\ all[1].sym = Bytes(key)[1]
    <3>1. Len(Bytes(key)) = 3 \/ Len(Bytes(key)) = 1
      BY <2>3, KeyBytes
    <3> QED
      BY <1>8, <2>2, <2>3, <3>1
  <2>6. Len(all) = Len(Bytes(key))
    <3>1. CASE key \in Arrows
      <4>1. Bytes(key)[1] = "ESC" /\ Len(Bytes(key)) = 3
        BY <2>3, <3>1, KeyBytes
      <4> QED
        BY <1>8, <1>12, <1>14, <2>5, <4>1 DEF Complete
    <3>2. CASE key \notin Arrows
      <4>1. Bytes(key) = <<Symbol[key]>> /\ Len(Bytes(key)) = 1
        BY <2>3, <3>2, KeyBytes
      <4>2. Bytes(key)[1] # "ESC"
        BY <2>3, <2>4, <4>1 DEF Pressable, Symbol
      <4>3. got = <<>>
        BY <1>1, <1>2, <1>7, <1>8, <2>5, <4>2, EmptySeq DEF UnderWay, HandOK
      <4>4. Wanted = 1 /\ Len(got) = 0
        BY <4>3, EmptySeq DEF Wanted
      <4> QED
        BY <1>3, <1>8, <4>1, <4>4
    <3> QED
      BY <3>1, <3>2
  <2>7. Syms(all) = Bytes(key)
    <3>1. Bytes(key) \in Seq(Chars)
      BY <2>3, KeyBytes
    <3>2. \A i \in 1..Len(all) : Syms(all)[i] = Bytes(key)[i]
      BY <1>12, <2>2, <2>3, <2>6
    <3> QED
      BY <1>12, <2>6, <3>1, <3>2, SeqEqual
  <2>8. Upcoming(Stdin) <= Len(due[Stdin]) /\ due[Stdin][Upcoming(Stdin)] = key
    BY <2>1, <2>3 DEF Upcoming, k, key
  <2>9. /\ got' = <<>> /\ ReadAsDue'
        /\ Len(delivered'[Stdin]) = Len(delivered[Stdin]) + 1
        /\ \A p \in Origins \ {Stdin} : delivered'[p] = delivered[p]
    BY <1>1, <1>2, <1>3, <1>7, <1>9, <2>3, <2>4, <2>7, <2>8, OriginsAre, KeyReturned DEF FInv
  <2>10. Spells(due[Stdin], k + 1, rest \o line)
    <3> DEFINE left == rest \o line
    <3>1. left \in Seq(ByteOf(Origins)) /\ \A i \in 1..Len(left) : left[i] = flow[Len(all) + i]
      BY <1>10, <2>2
    <3>2. Len(flow) = Len(all) + Len(left) /\ Len(left) \in Nat
      BY <2>2
    <3> HIDE DEF left
    <3>3. Len(left) = Len(flow) - Len(Bytes(key)) /\ \A i \in 1..Len(left) : left[i] = flow[Len(Bytes(key)) + i]
      <4> DEFINE m == Len(Bytes(key))
                 u == Len(flow)
                 v == Len(left)
      <4>1. Len(all) = m /\ m \in Nat
        BY <2>5, <2>6
      <4>2. u = m + v /\ v \in Nat /\ \A i \in 1..v : left[i] = flow[m + i]
        BY <3>1, <3>2, <4>1
      <4> HIDE DEF m, u, v
      <4>3. v = u - m
        BY <4>1, <4>2
      <4> QED
        BY <4>2, <4>3 DEF m, u, v
    <3>4. Spells(due[Stdin], k + 1, left)
      BY <2>3, <3>1, <3>3
    <3> QED
      BY <3>4 DEF left
  <2>11. StdinOK'
    <3>1. (InHand \o (tty \o line))' = <<>> \o (rest \o line)
      BY <1>1, <2>9 DEF InHand
    <3>2. <<>> \o (rest \o line) = rest \o line
      BY <1>10, ConcatEmptySeq
    <3> QED
      BY <1>1, <2>9, <2>10, <3>1, <3>2 DEF StdinOK, k
  <2>12. HandOK'
    BY <1>1, <2>9 DEF HandOK
  <2>13. ASSUME NEW d \in Devices PROVE DeviceOK(d)'
    <3>1. delivered'[d] = delivered[d] /\ PendingOf(d)' = PendingOf(d)
      BY <1>1, <2>9, OriginsAre DEF PendingOf
    <3> QED
      BY <1>1, <1>7, <3>1 DEF UnderWay, DeviceOK
  <2> QED
    BY <2>9, <2>11, <2>12, <2>13 DEF UnderWay
<1> QED
  BY <1>13, <1>14

\* A key typed is due, and its bytes are on their way.
LEMMA TypeKeeps ==
  ASSUME TInv, FInv, NEW key \in Keys, Type(key)
  PROVE  FInv'
<1>1. /\ line' = line \o From(Stdin, Bytes(key)) /\ due' = [due EXCEPT ![Stdin] = Append(@, key)]
      /\ UNCHANGED <<tty, events, gone, ready, buf, got, delivered>>
  BY DEF Type, reader
<1>2. key \in Pressable
  BY KeysArePressable
<1>3. due'[Stdin] = Append(due[Stdin], key) /\ \A o \in Origins \ {Stdin} : due'[o] = due[o]
  BY <1>1, OriginsAre DEF FInv, HistoriesOK
<1>4. due' \in [Origins -> Seq(Pressable)]
  <2>1. Append(due[Stdin], key) \in Seq(Pressable)
    BY <1>2, OriginsAre, AppendProperties DEF FInv, HistoriesOK
  <2> QED
    BY <1>1, <2>1 DEF FInv, HistoriesOK
<1>5. ASSUME ReadAsDue, UnderWay PROVE StdinOK' /\ \A d \in Devices : DeviceOK(d)'
  <2>1. StdinOK'
    BY <1>1, <1>2, <1>3, <1>5, LineGrows DEF UnderWay
  <2>2. \A d \in Devices : DeviceOK(d)'
    BY <1>1, <1>3, <1>5, OriginsAre DEF UnderWay, DeviceOK, PendingOf
  <2> QED
    BY <2>1, <2>2
<1>6. \A o \in Origins : due'[o] = due[o] \/ (key \in Pressable /\ due'[o] = Append(due[o], key))
  BY <1>2, <1>3
<1> QED
  BY <1>1, <1>4, <1>5, <1>6, DueGrows

\* A key pressed is an event of its device, and perhaps bytes on their way as well; any
\* other event is due nowhere.
LEMMA PressKeeps ==
  ASSUME TInv, CInv, FInv, NEW d \in Devices, NEW key \in Events,
         Press(d, key) \/ (key = "release" /\ Stir(d))
  PROVE  FInv'
<1> DEFINE both == d \in Keyboards /\ key # "release"
<1>1. /\ d \notin gone /\ events' = [events EXCEPT ![d] = Append(@, key)]
      /\ line' = IF both THEN line \o From(Stdin, Bytes(key)) ELSE line
      /\ due' = [o \in Origins |-> IF (both /\ o = Stdin) \/ (EventBytes(key) # <<>> /\ o = d)
                                   THEN Append(due[o], key) ELSE due[o]]
      /\ UNCHANGED <<tty, gone, ready, buf, got, delivered>>
  <2>1. CASE Press(d, key)
    BY <2>1 DEF Press, reader
  <2>2. CASE key = "release" /\ Stir(d)
    <3>1. ~both /\ EventBytes(key) = <<>> /\ due = [o \in Origins |-> due[o]]
      BY <2>2 DEF EventBytes, Arrows, FInv, HistoriesOK
    <3> QED
      BY <2>2, <3>1 DEF Stir, reader
  <2> QED
    BY <2>1, <2>2
<1>2. (both => key \in Pressable) /\ (EventBytes(key) # <<>> => key \in Pressable)
  BY KeysArePressable DEF Events
<1> HIDE DEF both
<1>3. /\ due'[Stdin] = (IF both THEN Append(due[Stdin], key) ELSE due[Stdin])
      /\ due'[d] = (IF EventBytes(key) # <<>> THEN Append(due[d], key) ELSE due[d])
      /\ \A e \in Devices \ {d} : due'[e] = due[e] /\ events'[e] = events[e]
      /\ events'[d] = Append(events[d], key)
  BY <1>1, OriginsAre DEF CInv, QueuesOK
<1>4. \A o \in Origins : due'[o] = due[o] \/ (key \in Pressable /\ due'[o] = Append(due[o], key))
  BY <1>1, <1>2
<1>5. due' \in [Origins -> Seq(Pressable)]
  <2>1. \A o \in Origins : key \in Pressable => Append(due[o], key) \in Seq(Pressable)
    BY AppendProperties DEF FInv, HistoriesOK
  <2>2. \A o \in Origins : due'[o] \in Seq(Pressable)
    BY <1>4, <2>1 DEF FInv, HistoriesOK
  <2> QED
    BY <1>1, <2>2
<1>6. ASSUME ReadAsDue, UnderWay PROVE StdinOK' /\ \A e \in Devices : DeviceOK(e)'
  <2>1. StdinOK'
    <3>1. CASE both
      BY <1>1, <1>2, <1>3, <1>6, <3>1, LineGrows DEF UnderWay
    <3>2. CASE ~both
      BY <1>1, <1>3, <1>6, <3>2 DEF UnderWay, StdinOK, InHand
    <3> QED
      BY <3>1, <3>2
  <2>2. \A e \in Devices \ {d} : DeviceOK(e)'
    BY <1>1, <1>3, <1>6 DEF UnderWay, DeviceOK, PendingOf
  <2>3. DeviceOK(d)'
    <3> DEFINE k == Len(delivered[d]) + PendingOf(d)
               S == Pressable \cup Events
               queue == events[d]
    <3>1. Holds(due[d], k, queue) /\ k' = k
      BY <1>1, <1>6 DEF UnderWay, DeviceOK, PendingOf
    <3>2. k \in Nat
      <4>1. delivered[d] \in Seq(Readable)
        BY OriginsAre DEF FInv, HistoriesOK
      <4>2. Len(delivered[d]) \in Nat
        BY <4>1, LenProperties
      <4>3. PendingOf(d) = 0 \/ PendingOf(d) = 1
        BY DEF PendingOf
      <4> QED
        BY <4>2, <4>3
    <3>3. due[d] \in Seq(S) /\ queue \in Seq(Events) /\ key \in S
      <4>1. due[d] \in Seq(Pressable) /\ Pressable \subseteq S
        BY OriginsAre DEF FInv, HistoriesOK
      <4> QED
        BY <4>1, SeqMonotonic DEF CInv, QueuesOK
    <3> HIDE DEF k, S, queue
    <3>4. Holds(due'[d], k, Append(queue, key))
      BY <1>3, <3>1, <3>2, <3>3, HoldsMore
    <3> QED
      BY <1>3, <3>1, <3>4 DEF DeviceOK, k, queue
  <2> QED
    BY <2>1, <2>2, <2>3
<1> QED
  BY <1>1, <1>4, <1>5, <1>6, DueGrows

\* What is where in the two parts of a sequence.
LEMMA CutAt ==
  ASSUME NEW S, NEW s \in Seq(S), NEW n \in Nat, n <= Len(s)
  PROVE  /\ FirstN(s, n) \in Seq(S) /\ After(s, n) \in Seq(S)
         /\ Len(FirstN(s, n)) = n /\ Len(After(s, n)) = Len(s) - n
         /\ \A i \in 1..n : FirstN(s, n)[i] = s[i]
         /\ \A i \in 1..(Len(s) - n) : After(s, n)[i] = s[n + i]
<1> DEFINE first == FirstN(s, n)
           rest == After(s, n)
<1>1. first \o rest = s /\ first \in Seq(S) /\ rest \in Seq(S)
  BY CutWhole
<1>2. Len(first) = n /\ Len(rest) = Len(s) - n
  <2>1. Len(s) \in Nat
    BY LenProperties
  <2>2. Len(first) = (IF n < Len(s) THEN n ELSE Len(s)) /\ Len(rest) = IF n < Len(s) THEN Len(s) - n ELSE 0
    BY FirstNIsSeq, AfterIsSeq
  <2> HIDE DEF first, rest
  <2> QED
    BY <2>1, <2>2
<1> HIDE DEF first, rest
<1>3. /\ \A i \in 1..Len(first) : (first \o rest)[i] = first[i]
      /\ \A i \in 1..Len(rest) : (first \o rest)[Len(first) + i] = rest[i]
  BY ONLY <1>1, ConcatAt
<1>4. /\ \A i \in 1..n : s[i] = first[i]
      /\ \A i \in 1..(Len(s) - n) : s[n + i] = rest[i]
  BY <1>1, <1>2, <1>3
<1> QED
  BY <1>1, <1>2, <1>4 DEF first, rest

\* The first byte of an arrow key has been handed out: the two that are left follow.
LEMMA ReadBufferKeeps ==
  ASSUME TInv, FInv, ReadBuffer
  PROVE  FInv'
<1> DEFINE bytes == FirstN(buf, Wanted)
           all == got \o bytes
<1>1. /\ buf # <<>> /\ Accept(bytes) /\ buf' = After(buf, Wanted) /\ ready' = ready
      /\ UNCHANGED <<tty, line, events, gone, due>>
  BY DEF ReadBuffer, kernel
<1>2. ReadyIsAlone'
  BY <1>1 DEF FInv, ReadyIsAlone
<1>3. bytes \in Seq(ByteOf(Origins)) /\ bytes # <<>> /\ buf \in Seq(ByteOf(Origins))
  <2>1. Wanted \in 1..3 /\ buf \in Seq(ByteOf(Origins)) /\ Len(buf) \in Nat /\ Len(buf) # 0
    BY <1>1, WantedIsSmall, FlowType, LenProperties, EmptySeq DEF TInv
  <2>2. bytes \in Seq(ByteOf(Origins)) /\ Len(bytes) = IF Wanted < Len(buf) THEN Wanted ELSE Len(buf)
    BY <2>1, FirstNIsSeq
  <2>3. Len(bytes) # 0
    BY <2>1, <2>2
  <2> QED
    BY <2>1, <2>2, <2>3, EmptySeq
<1>4. CASE GotMixed
  <2> HIDE DEF bytes
  <2> QED
    BY <1>1, <1>2, <1>3, <1>4, MixedKeeps
<1>5. HistoriesOK' /\ (Unmixed' => Unmixed)
  <2> HIDE DEF bytes
  <2> QED
    BY <1>1, <1>3, AcceptHistory DEF FInv
<1>6. SUFFICES ASSUME ~GotMixed, Unmixed', Unmixed, ReadAsDue, UnderWay
               PROVE  ReadAsDue' /\ UnderWay'
  BY <1>2, <1>4, <1>5 DEF FInv
<1>7. PICK d \in Devices, key \in Arrows :
        /\ got = From(d, <<"ESC">>) /\ buf = From(d, <<"[", Symbol[key]>>)
        /\ Upcoming(d) <= Len(due[d]) /\ due[d][Upcoming(d)] = key
  BY <1>1, <1>6 DEF UnderWay, HandOK
<1>8. /\ Len(got) = 1 /\ got[1] = [sym |-> "ESC", from |-> d]
      /\ Len(buf) = 2 /\ buf[1] = [sym |-> "[", from |-> d] /\ buf[2] = [sym |-> Symbol[key], from |-> d]
  BY <1>7 DEF From
<1>9. bytes = buf /\ buf' = <<>>
  <2>1. Wanted = 2
    BY <1>8, EmptySeq DEF Wanted
  <2>2. bytes = buf
    BY <1>3, <1>8, <2>1, SubSeqFull DEF FirstN
  <2>3. buf' = <<>>
    <3>1. Len(After(buf, 2)) = 0
      <4>1. Len(After(buf, 2)) = IF 2 < Len(buf) THEN Len(buf) - 2 ELSE 0
        BY <1>3, AfterIsSeq
      <4> QED
        BY <1>8, <4>1
    <3>2. After(buf, 2) \in Seq(ByteOf(Origins))
      BY <1>3, AfterIsSeq
    <3> QED
      BY <1>1, <2>1, <3>1, <3>2, EmptySeq
  <2> QED
    BY <2>2, <2>3
<1>10. /\ all \in Seq(ByteOf(Origins)) /\ DOMAIN all = 1..3 /\ Len(all) = 3
       /\ all[1] = got[1] /\ all[2] = buf[1] /\ all[3] = buf[2]
  <2> HIDE DEF bytes
  <2>1. /\ all \in Seq(ByteOf(Origins)) /\ DOMAIN all = 1..Len(all) /\ Len(all) = Len(got) + Len(bytes)
        /\ DOMAIN got = 1..Len(got) /\ DOMAIN bytes = 1..Len(bytes)
        /\ \A i \in DOMAIN got : all[i] = got[i]
        /\ \A i \in DOMAIN bytes : all[Len(got) + i] = bytes[i]
    BY <1>3, AllBytes
  <2>2. 1 \in DOMAIN got /\ 1 \in DOMAIN bytes /\ 2 \in DOMAIN bytes
    BY <1>8, <1>9, <2>1
  <2> HIDE DEF all
  <2> QED
    BY <1>8, <1>9, <2>1, <2>2
<1> HIDE DEF bytes
<1>11. Syms(all) = Bytes(key)
  <2>1. Bytes(key) = <<"ESC", "[", Symbol[key]>> /\ Bytes(key) \in Seq(Chars) /\ Len(Bytes(key)) = 3
    BY KeyBytes DEF Arrows, Pressable
  <2>2. Syms(all) \in Seq(Chars) /\ Len(Syms(all)) = 3 /\ \A i \in 1..3 : Syms(all)[i] = all[i].sym
    BY <1>10, SymsAre
  <2>3. /\ Bytes(key)[1] = "ESC" /\ Bytes(key)[2] = "[" /\ Bytes(key)[3] = Symbol[key]
    BY <2>1
  <2>4. \A i \in 1..3 : Syms(all)[i] = Bytes(key)[i]
    BY <1>8, <1>10, <2>2, <2>3
  <2> QED
    BY <2>1, <2>2, <2>4, SeqEqual
<1>12. \A i \in DOMAIN all : all[i].from = d
  BY <1>8, <1>10
<1>13. d \in Origins /\ d # Stdin /\ key \in Pressable /\ key # "Escape"
  BY OriginsAre DEF Arrows, Pressable
<1>14. /\ got' = <<>> /\ ReadAsDue'
       /\ Len(delivered'[d]) = Len(delivered[d]) + 1
       /\ \A p \in Origins \ {d} : delivered'[p] = delivered[p]
  BY <1>1, <1>3, <1>6, <1>7, <1>11, <1>12, <1>13, KeyReturned DEF FInv
<1>15. HandOK'
  BY <1>9, <1>14 DEF HandOK
<1>16. StdinOK'
  <2>1. InHand = <<>> /\ InHand' = <<>>
    BY <1>1, <1>14 DEF InHand
  <2>2. delivered'[Stdin] = delivered[Stdin]
    BY <1>13, <1>14, OriginsAre
  <2> QED
    BY <1>1, <1>6, <2>1, <2>2 DEF UnderWay, StdinOK
<1>17. ASSUME NEW e \in Devices PROVE DeviceOK(e)'
  <2>1. PendingOf(e) = (IF e = d THEN 1 ELSE 0) /\ PendingOf(e)' = 0
    BY <1>1, <1>8, <1>9 DEF PendingOf
  <2>2. Len(delivered'[e]) + PendingOf(e)' = Len(delivered[e]) + PendingOf(e)
    <3>1. Len(delivered[e]) \in Nat
      <4>1. delivered[e] \in Seq(Readable)
        BY OriginsAre DEF FInv, HistoriesOK
      <4> QED
        BY <4>1, LenProperties
    <3>2. Len(delivered'[e]) = Len(delivered[e]) + IF e = d THEN 1 ELSE 0
      <4>1. CASE e = d
        BY <1>14, <4>1
      <4>2. CASE e # d
        <5>1. delivered'[e] = delivered[e]
          BY <1>14, <4>2, OriginsAre
        <5> QED
          BY <3>1, <4>2, <5>1
      <4> QED
        BY <4>1, <4>2
    <3> QED
      BY <2>1, <3>1, <3>2
  <2> QED
    BY <1>1, <1>6, <2>2 DEF UnderWay, DeviceOK
<1> QED
  BY <1>14, <1>15, <1>16, <1>17 DEF UnderWay

\* An event of a device: no key, a key of one byte, or the first byte of three.
LEMMA ReadEventKeeps ==
  ASSUME TInv, CInv, FInv, NEW d \in Devices, ReadEvent(d)
  PROVE  FInv'
<1> DEFINE event == Head(events[d])
           bytes == From(d, EventBytes(event))
           given == FirstN(bytes, Wanted)
           all == got \o given
           k == Len(delivered[d])
<1>1. /\ d \in ready /\ d \notin gone /\ events' = [events EXCEPT ![d] = Tail(@)]
      /\ IF bytes = <<>>
         THEN ready' = ready \ {d} /\ UNCHANGED <<buf, got, delivered>>
         ELSE Accept(given) /\ buf' = After(bytes, Wanted) /\ ready' = {}
      /\ UNCHANGED <<line, tty, gone, due>>
  BY DEF ReadEvent
<1>2. buf = <<>> /\ events[d] # <<>> /\ events[d] \in Seq(Events) /\ event \in Events
  <2>1. buf = <<>> /\ events[d] # <<>> /\ events[d] \in Seq(Events)
    BY <1>1 DEF FInv, ReadyIsAlone, CInv, ReadyIsThere, QueuesOK
  <2> QED
    BY <2>1, HeadTailProperties
<1>3. events'[d] = Tail(events[d]) /\ \A e \in Devices \ {d} : events'[e] = events[e]
  BY <1>1 DEF CInv, QueuesOK
<1>4. EventBytes(event) \in Seq(Chars) /\ Len(EventBytes(event)) \in Nat /\ DOMAIN EventBytes(event) = 1..Len(EventBytes(event))
  BY <1>2, BytesOfEvent, LenProperties
<1>5. /\ bytes \in Seq(ByteOf(Origins)) /\ Len(bytes) = Len(EventBytes(event))
      /\ \A i \in 1..Len(bytes) : bytes[i] = [sym |-> EventBytes(event)[i], from |-> d]
  <2>1. bytes \in Seq(ByteOf(Origins)) /\ Len(bytes) = Len(EventBytes(event))
    BY <1>4, FromIsSeq, OriginsAre
  <2> QED
    BY <1>4, <2>1 DEF From
<1>6. bytes = <<>> <=> EventBytes(event) = <<>>
  BY <1>4, <1>5, EmptySeq
<1>7. d \in Origins /\ d # Stdin
  BY OriginsAre
<1>8. k \in Nat /\ PendingOf(d) = 0
  <2>1. delivered[d] \in Seq(Readable)
    BY <1>7 DEF FInv, HistoriesOK
  <2> QED
    BY <1>2, <2>1, LenProperties DEF PendingOf
\* What is waiting of d without the event.
<1>9. ASSUME UnderWay
      PROVE  IF EventBytes(event) = <<>> THEN Holds(due[d], k, events'[d])
             ELSE k < Len(due[d]) /\ due[d][k + 1] = event /\ Holds(due[d], k + 1, events'[d])
  <2>1. Holds(due[d], k, events[d])
    <3>1. k + PendingOf(d) = k
      BY <1>8
    <3> QED
      BY <1>1, <1>9, <3>1 DEF UnderWay, DeviceOK
  <2>2. Len(due[d]) \in Nat
    BY <1>7, LenProperties DEF FInv, HistoriesOK
  <2> HIDE DEF k
  <2> QED
    BY <1>2, <1>3, <1>8, <2>1, <2>2, HoldsLess
<1> HIDE DEF event, bytes, k
<1>10. CASE bytes = <<>>
  <2>1. ready' = ready \ {d} /\ UNCHANGED <<buf, got, delivered>>
    BY <1>1, <1>10
  <2>2. HistoriesOK' /\ ReadyIsAlone' /\ (Unmixed' => Unmixed) /\ (ReadAsDue => ReadAsDue') /\ (GotMixed => GotMixed')
    BY <1>1, <2>1 DEF FInv, HistoriesOK, ReadyIsAlone, Unmixed, ReadAsDue, GotMixed
  <2>3. ASSUME UnderWay PROVE UnderWay'
    <3>1. HandOK'
      BY <1>1, <2>1, <2>3 DEF UnderWay, HandOK, Upcoming
    <3>2. StdinOK'
      BY <1>1, <2>1, <2>3 DEF UnderWay, StdinOK, InHand
    <3>3. \A e \in Devices \ {d} : DeviceOK(e)'
      BY <1>1, <1>3, <2>1, <2>3 DEF UnderWay, DeviceOK, PendingOf
    <3>4. DeviceOK(d)'
      <4>1. Len(delivered'[d]) + PendingOf(d)' = k
        <5>1. PendingOf(d)' = PendingOf(d) /\ Len(delivered'[d]) = k
          BY <2>1 DEF k, PendingOf
        <5> QED
          BY <1>8, <5>1
      <4> QED
        BY <1>1, <1>6, <1>9, <1>10, <2>3, <4>1 DEF DeviceOK
    <3> QED
      BY <3>1, <3>2, <3>3, <3>4 DEF UnderWay
  <2> QED
    BY <2>2, <2>3 DEF FInv
<1>11. CASE bytes # <<>>
  <2>1. Accept(given) /\ buf' = After(bytes, Wanted) /\ ready' = {}
    BY <1>1, <1>11
  <2>2. ReadyIsAlone'
    BY <2>1 DEF ReadyIsAlone
  <2>3. Len(bytes) \in Nat /\ Len(bytes) # 0 /\ Wanted \in 1..3
    BY <1>4, <1>5, <1>11, EmptySeq, WantedIsSmall DEF TInv
  <2>4. given \in Seq(ByteOf(Origins)) /\ given # <<>> /\ 1 \in DOMAIN given /\ given[1] = bytes[1]
    <3> DEFINE n == IF Wanted < Len(bytes) THEN Wanted ELSE Len(bytes)
    <3>1. n \in Nat /\ 1 <= n /\ n <= Len(bytes)
      BY <2>3
    <3>2. given = FirstN(bytes, n)
      BY <2>3 DEF FirstN
    <3> HIDE DEF n, given
    <3>3. /\ FirstN(bytes, n) \in Seq(ByteOf(Origins)) /\ Len(FirstN(bytes, n)) = n
          /\ \A i \in 1..n : FirstN(bytes, n)[i] = bytes[i]
      <4>1. bytes \in Seq(ByteOf(Origins)) /\ n \in Nat /\ n <= Len(bytes)
        BY <1>5, <3>1
      <4> QED
        BY ONLY <4>1, CutAt
    <3>4. given \in Seq(ByteOf(Origins)) /\ Len(given) = n /\ given[1] = bytes[1]
      BY <3>1, <3>2, <3>3
    <3> QED
      BY <3>1, <3>4, EmptySeq, LenProperties
  <2>5. given[1].from = d
    <3> HIDE DEF given
    <3>1. bytes[1] = [sym |-> EventBytes(event)[1], from |-> d]
      BY <1>5, <2>3
    <3> QED
      BY <2>4, <3>1
  <2> HIDE DEF given
  <2>6. CASE GotMixed
    BY <1>1, <2>1, <2>2, <2>4, <2>6, MixedKeeps
  <2>7. HistoriesOK' /\ (Unmixed' => Unmixed)
    BY <1>1, <2>1, <2>4, AcceptHistory DEF FInv
  <2>8. SUFFICES ASSUME ~GotMixed, Unmixed', Unmixed, ReadAsDue, UnderWay
                 PROVE  ReadAsDue' /\ (GotMixed' \/ UnderWay')
    BY <2>2, <2>6, <2>7 DEF FInv
  <2>9. /\ all \in Seq(ByteOf(Origins)) /\ DOMAIN all = 1..Len(all) /\ Len(all) = Len(got) + Len(given)
        /\ DOMAIN got = 1..Len(got) /\ DOMAIN given = 1..Len(given) /\ Len(got) \in Nat /\ Len(given) \in Nat
        /\ \A i \in DOMAIN got : i \in DOMAIN all /\ all[i] = got[i]
        /\ \A i \in DOMAIN given : Len(got) + i \in DOMAIN all /\ all[Len(got) + i] = given[i]
    BY <2>4, AllBytes
  <2>10. CASE got # <<>>
    <3>1. 1 \in DOMAIN got /\ got[1].from = Stdin
      <4>1. Len(got) # 0
        BY <2>10, EmptySeq, FlowType
      <4> QED
        BY <1>2, <2>8, <2>9, <4>1 DEF UnderWay, HandOK
    <3>2. 1 \in DOMAIN all /\ Len(got) + 1 \in DOMAIN all /\ all[1].from # all[Len(got) + 1].from
      BY <1>7, <2>4, <2>5, <2>9, <3>1
    <3>3. GotMixed' /\ UNCHANGED delivered
      BY <1>1, <2>1, <2>4, <2>8, <3>2, MixedStays DEF FInv
    <3> QED
      BY <1>1, <2>8, <3>3 DEF ReadAsDue
  <2>11. CASE got = <<>>
    <3>1. Wanted = 1 /\ Len(got) = 0
      BY <2>11, EmptySeq DEF Wanted
    <3>2. /\ Len(given) = 1 /\ After(bytes, 1) \in Seq(ByteOf(Origins)) /\ Len(After(bytes, 1)) = Len(bytes) - 1
          /\ \A i \in 1..(Len(bytes) - 1) : After(bytes, 1)[i] = bytes[1 + i]
      <4>1. bytes \in Seq(ByteOf(Origins)) /\ 1 \in Nat /\ 1 <= Len(bytes)
        BY <1>5, <2>3
      <4>2. given = FirstN(bytes, 1)
        BY <3>1 DEF given
      <4> HIDE DEF given
      <4>3. /\ Len(FirstN(bytes, 1)) = 1 /\ After(bytes, 1) \in Seq(ByteOf(Origins))
            /\ Len(After(bytes, 1)) = Len(bytes) - 1
            /\ \A i \in 1..(Len(bytes) - 1) : After(bytes, 1)[i] = bytes[1 + i]
        BY ONLY <4>1, CutAt
      <4> QED
        BY <4>2, <4>3
    <3>3. Len(all) = 1 /\ all[1] = bytes[1]
      BY <2>4, <2>9, <3>1, <3>2
    <3>4. Syms(all) \in Seq(Chars) /\ Len(Syms(all)) = 1 /\ Syms(all)[1] = all[1].sym
      <4>1. all \in Seq(ByteOf(Origins)) /\ Len(all) = 1
        BY <2>9, <3>3
      <4> HIDE DEF all
      <4>2. Syms(all) \in Seq(Chars) /\ Len(Syms(all)) = Len(all) /\ \A i \in 1..Len(all) : Syms(all)[i] = all[i].sym
        BY <4>1, SymsAre
      <4> QED
        BY <4>1, <4>2
    <3>5. k < Len(due[d]) /\ due[d][k + 1] = event /\ Holds(due[d], k + 1, events'[d])
      BY <1>6, <1>9, <1>11, <2>8
    <3>6. Upcoming(d) = k + 1 /\ Upcoming(d) <= Len(due[d]) /\ due[d][Upcoming(d)] = event
      <4>1. Len(due[d]) \in Nat
        BY <1>7, LenProperties DEF FInv, HistoriesOK
      <4>2. Upcoming(d) = k + 1
        BY DEF Upcoming, k
      <4> QED
        BY <1>8, <3>5, <4>1, <4>2
    <3>7. bytes[1] = [sym |-> EventBytes(event)[1], from |-> d]
      BY <1>5, <2>3
    <3>8. event \in Arrows \cup {"Enter"} /\ EventBytes(event) = Bytes(event) /\ event \in Pressable
      BY <1>6, <1>11 DEF EventBytes, Arrows, Pressable
    <3>9. CASE event \notin Arrows
      <4>1. /\ Bytes(event) = <<Symbol[event]>> /\ Bytes(event) \in Seq(Chars) /\ Len(Bytes(event)) = 1
            /\ event # "Escape"
        BY <3>8, <3>9, KeyBytes
      <4>2. Syms(all) = Bytes(event)
        BY <3>3, <3>4, <3>7, <3>8, <4>1, SeqEqual
      <4>3. \A i \in DOMAIN all : all[i].from = d
        BY <2>9, <3>3, <3>7
      <4>4. /\ got' = <<>> /\ ReadAsDue'
            /\ Len(delivered'[d]) = Len(delivered[d]) + 1
            /\ \A p \in Origins \ {d} : delivered'[p] = delivered[p]
        BY <1>1, <1>7, <2>1, <2>4, <2>8, <3>6, <3>8, <4>1, <4>2, <4>3, KeyReturned DEF FInv
      <4>5. buf' = <<>>
        <5>1. Len(After(bytes, 1)) = 0
          BY <1>5, <3>2, <3>8, <4>1
        <5> QED
          BY <2>1, <3>1, <3>2, <5>1, EmptySeq
      <4>6. HandOK'
        BY <4>4, <4>5 DEF HandOK
      <4>7. StdinOK'
        <5>1. InHand = <<>> /\ InHand' = <<>>
          BY <2>11, <4>4 DEF InHand
        <5> QED
          BY <1>1, <1>7, <2>8, <4>4, <5>1, OriginsAre DEF UnderWay, StdinOK
      <4>8. \A e \in Devices \ {d} : DeviceOK(e)'
        <5> TAKE e \in Devices \ {d}
        <5>1. delivered'[e] = delivered[e] /\ PendingOf(e)' = PendingOf(e)
          BY <1>2, <4>4, <4>5, OriginsAre DEF PendingOf
        <5> QED
          BY <1>1, <1>3, <2>8, <5>1 DEF UnderWay, DeviceOK
      <4>9. DeviceOK(d)'
        <5>1. Len(delivered'[d]) + PendingOf(d)' = k + 1
          BY <1>8, <4>4, <4>5 DEF k, PendingOf
        <5> QED
          BY <1>1, <3>5, <5>1 DEF DeviceOK
      <4> QED
        BY <4>4, <4>6, <4>7, <4>8, <4>9 DEF UnderWay
    <3>10. CASE event \in Arrows
      <4>1. Bytes(event) = <<"ESC", "[", Symbol[event]>> /\ Len(Bytes(event)) = 3
        BY <3>8, <3>10, KeyBytes
      <4>2. /\ Len(bytes) = 3 /\ bytes[1] = [sym |-> "ESC", from |-> d]
            /\ bytes[2] = [sym |-> "[", from |-> d] /\ bytes[3] = [sym |-> Symbol[event], from |-> d]
        <5>1. /\ Len(bytes) = 3
              /\ \A i \in 1..3 : bytes[i] = [sym |-> Bytes(event)[i], from |-> d]
          BY <1>5, <3>8, <4>1
        <5>2. Bytes(event)[1] = "ESC" /\ Bytes(event)[2] = "[" /\ Bytes(event)[3] = Symbol[event]
          BY <4>1
        <5> QED
          BY <5>1, <5>2
      <4>3. ~Complete(Syms(all))
        BY <3>3, <3>4, <4>2 DEF Complete
      <4>4. got' = all /\ UNCHANGED delivered
        BY <2>1, <4>3 DEF Accept
      <4>5. got' = From(d, <<"ESC">>)
        <5>1. "ESC" \in Chars /\ <<"ESC">> \in Seq(Chars) /\ Len(<<"ESC">>) = 1
          BY DEF Chars
        <5>2. From(d, <<"ESC">>) \in Seq(ByteOf(Origins)) /\ Len(From(d, <<"ESC">>)) = 1
          BY <1>7, <5>1, FromIsSeq
        <5>3. From(d, <<"ESC">>)[1] = [sym |-> "ESC", from |-> d]
          BY DEF From
        <5>4. \A i \in 1..1 : From(d, <<"ESC">>)[i] = all[i]
          BY <3>3, <4>2, <5>3
        <5>5. From(d, <<"ESC">>) = all
          BY <2>9, <3>3, <5>2, <5>4, SeqEqual
        <5> QED
          BY <4>4, <5>5
      <4>6. buf' = From(d, <<"[", Symbol[event]>>) /\ buf'[1].from = d
        <5> DEFINE two == <<"[", Symbol[event]>>
        <5>1. two \in Seq(Chars) /\ Len(two) = 2 /\ two[1] = "[" /\ two[2] = Symbol[event]
          <6>1. "[" \in Chars /\ Symbol[event] \in Chars
            BY <3>10 DEF Arrows, Symbol, Chars
          <6> QED
            BY <6>1
        <5> HIDE DEF two
        <5>2. From(d, two) \in Seq(ByteOf(Origins)) /\ Len(From(d, two)) = 2
          BY <1>7, <5>1, FromIsSeq
        <5>3. \A i \in 1..2 : From(d, two)[i] = [sym |-> two[i], from |-> d]
          BY <5>1, LenProperties DEF From
        <5>4. /\ buf' \in Seq(ByteOf(Origins)) /\ Len(buf') = 2
              /\ buf'[1] = bytes[2] /\ buf'[2] = bytes[3]
          BY <2>1, <3>1, <3>2, <4>2
        <5>5. \A i \in 1..2 : From(d, two)[i] = buf'[i]
          BY <4>2, <5>1, <5>3, <5>4
        <5>6. From(d, two) = buf'
          BY <5>2, <5>4, <5>5, SeqEqual
        <5> QED
          BY <4>2, <5>4, <5>6 DEF two
      <4>7. buf' # <<>>
        <5>1. Len(buf') = 2
          BY <2>1, <3>1, <3>2, <4>2
        <5> QED
          BY <5>1, EmptySeq
      <4>8. HandOK'
        <5>1. Upcoming(d)' = Upcoming(d)
          BY <4>4 DEF Upcoming
        <5> QED
          BY <1>1, <3>6, <3>10, <4>5, <4>6, <4>7, <5>1 DEF HandOK
      <4>9. StdinOK'
        <5>1. InHand = <<>> /\ InHand' = <<>>
          BY <2>11, <4>7 DEF InHand
        <5> QED
          BY <1>1, <2>8, <4>4, <5>1 DEF UnderWay, StdinOK
      <4>10. \A e \in Devices \ {d} : DeviceOK(e)'
        <5> TAKE e \in Devices \ {d}
        <5>1. delivered'[e] = delivered[e] /\ PendingOf(e)' = PendingOf(e)
          BY <1>2, <4>4, <4>6, <4>7 DEF PendingOf
        <5> QED
          BY <1>1, <1>3, <2>8, <5>1 DEF UnderWay, DeviceOK
      <4>11. DeviceOK(d)'
        <5>1. Len(delivered'[d]) + PendingOf(d)' = k + 1
          BY <1>8, <4>4, <4>6, <4>7 DEF k, PendingOf
        <5> QED
          BY <1>1, <3>5, <5>1 DEF DeviceOK
      <4>12. ReadAsDue'
        BY <1>1, <2>8, <4>4 DEF ReadAsDue
      <4> QED
        BY <4>8, <4>9, <4>10, <4>11, <4>12 DEF UnderWay
    <3> QED
      BY <3>9, <3>10
  <2> QED
    BY <2>10, <2>11
<1> QED
  BY <1>10, <1>11

----------------------------------------------------------------------------

\* The inductive invariant of the reading, for any number of devices and any keys.
THEOREM ReadingInvariant == Spec => []FInv
<1>1. TInv /\ CInv /\ FInv /\ [Next]_vars => FInv'
  <2> SUFFICES ASSUME TInv, CInv, FInv, [Next]_vars PROVE FInv'
    OBVIOUS
  <2>1. CASE Program
    BY <2>1, PollKeeps, ReadBufferKeeps, ReadStdinKeeps, ReadEventKeeps DEF Program
  <2>2. CASE Transmit
    BY <2>2, ArriveKeeps DEF Transmit
  <2>3. CASE \E key \in Keys : Type(key)
    BY <2>3, TypeKeeps
  <2>4. CASE \E d \in Devices, key \in Keys \cup {"release"} : Press(d, key)
    BY <2>4, PressKeeps DEF Events
  <2>5. CASE \E d \in Devices : Stir(d) \/ PullOut(d)
    BY <2>5, PressKeeps, PullOutKeeps DEF Events
  <2> QED
    BY <2>1, <2>2, <2>3, <2>4, <2>5, PollKeeps DEF Next
<1> QED
  BY <1>1, FaithfulInitial, BytesInvariant, CountdownInvariant, PTL DEF Spec

\* Every key is read as what it is, once and in the order of its device, unless an
\* ESC byte alone or a key in the middle of another has put bytes together.
THEOREM InputFaithful == Spec => []FaithfulPerDevice
<1>1. FInv => FaithfulPerDevice
  BY DEF FInv, ReadAsDue, FaithfulPerDevice
<1> QED
  BY <1>1, ReadingInvariant, PTL

=============================================================================
