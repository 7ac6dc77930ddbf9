-------------------------- MODULE SignalPathProofs --------------------------
(***************************************************************************)
(* Proofs about SignalPath, for any number of signals, with and without    *)
(* single-stepping.                                                        *)
(***************************************************************************)
EXTENDS SignalPath, TLAPS

USE SMTT(60)

Full == <<"clear", "ack", "print">>

(* The inductive invariant, for the edge-triggered line of amd64.  No      *)
(* signal reaches the line before it is unmasked.  A line that is high     *)
(* without a request belongs to a handler that has still to lower it: it   *)
(* has not begun, or the vCPU goroutine is at its hypercall.               *)
SInv ==
    /\ line \in BOOLEAN /\ irr \in BOOLEAN /\ enabled \in BOOLEAN
    /\ vcpu = "guest" => call = "none"
    /\ call = "clear" => reason = "mmio" /\ vcpu = "exited"
    /\ arch = "amd64" =>
        /\ sigc > 0 \/ handler = "inject" \/ line => enabled
        /\ line /\ ~irr => /\ isr = "signal" /\ pc = "signal"
                           /\ todo = Full \/ call = "clear"

LEMMA SInitInv == Init => SInv
<1> SUFFICES ASSUME Init PROVE SInv
  OBVIOUS
<1>1. ~ (sigc > 0)
  BY DEF Init
<1> QED
  BY <1>1, Zenon DEF Init, SInv

(* What the handler still has to do, when it is not at its beginning.      *)
LEMMA HeadOfFull == Full # << >> /\ Head(Full) = "clear"
  BY DEF Full

LEMMA SNextInv ==
  ASSUME "amd64" \notin EarlySignals
  PROVE  SInv /\ [Next]_vars => SInv'
<1> SUFFICES ASSUME SInv, [Next]_vars PROVE SInv'
  OBVIOUS
<1> USE DEF SInv
<1>1. CASE OsSignal
  BY <1>1 DEF OsSignal, irqVars
<1>2. CASE Receive
  BY <1>2 DEF Receive, irqVars
<1>3. CASE Signal
  BY <1>3 DEF Signal, InjectIrq
<1>4. CASE interrupts_init
  BY <1>4 DEF interrupts_init, hostVars, Goto, Running
<1>5. CASE kmain \/ syscall_handler \/ Syscall \/ Exit
  BY <1>5 DEF kmain, syscall_handler, Syscall, Exit, hostVars, irqVars, Goto, Hypercall, Running
<1>6. CASE UserTimer \/ TimerTick \/ TakeTimer
  BY <1>6 DEF UserTimer, TimerTick, TakeTimer, hostVars, Goto, Running
<1>7. CASE TakeSignal
  <2>1. arch = "amd64" => todo' = Full
    BY <1>7 DEF TakeSignal, SignalHandler, Full
  <2> QED
    BY <1>7, <2>1, Zenon DEF TakeSignal, hostVars, Goto, Running
<1>8. CASE HandlerStep
  <2>1. call = "none" /\ vcpu = "guest" /\ pc = "signal"
    BY <1>8 DEF HandlerStep, Running
  <2>2. CASE Head(todo) = "clear" /\ Hypercall("clear", "signal") /\ UNCHANGED isr
    BY <1>8, <2>1, <2>2 DEF HandlerStep, Hypercall, hostVars
  <2>3. CASE Head(todo) # "clear"
    <3>1. arch = "amd64" => ~ (line /\ ~irr)
      BY <2>1, <2>3, HeadOfFull
    <3> QED
      BY <1>8, <2>1, <2>3, <3>1 DEF HandlerStep, Hypercall, Goto, hostVars
  <2> QED
    BY <1>8, <2>2, <2>3 DEF HandlerStep
<1>9. CASE HandlerDone
  BY <1>9, HeadOfFull DEF HandlerDone, hostVars, irqVars, Goto, Running
<1>10. CASE KvmRunReturns
  BY <1>10 DEF KvmRunReturns, hostVars, irqVars, Running
<1>11. CASE RunOnce
  <2>1. CASE call = "clear"
    <3>1. line' = FALSE /\ irr' = irr /\ Resume
      BY <1>11, <2>1, Zenon DEF RunOnce, InjectIrq
    <3> QED
      BY <1>11, <3>1, Zenon DEF RunOnce, hostVars, Resume
  <2>2. CASE call # "clear"
    <3>1. UNCHANGED <<line, irr>> /\ call' # "clear" /\ (Resume \/ Stop)
      BY <1>11, <2>2, Zenon DEF RunOnce, Resume, Stop
    <3> QED
      BY <1>11, <2>2, <3>1 DEF RunOnce, hostVars, Resume, Stop
  <2> QED
    BY <2>1, <2>2
<1>12. CASE ReadReturns
  BY <1>12 DEF ReadReturns, hostVars, irqVars, Resume
<1>13. CASE Boot
  BY <1>13 DEF Boot, irqVars
<1>14. CASE UNCHANGED vars
  BY <1>14 DEF vars
<1> QED
  BY <1>1, <1>2, <1>3, <1>4, <1>5, <1>6, <1>7, <1>8, <1>9, <1>10, <1>11, <1>13, <1>14, <1>12
     DEF Next, KernelStep

(* However many signals come, and however they interleave with the guest   *)
(* and its hypercalls, a line that is high has its interrupt on the way,   *)
(* as long as on amd64 no signal comes before the line is unmasked.        *)
THEOREM LineAlwaysHasInterrupt ==
  ASSUME "amd64" \notin EarlySignals
  PROVE  Spec => []LineHasInterrupt
<1>1. SInv => LineHasInterrupt
  BY DEF SInv, LineHasInterrupt, Pending
<1> QED
  BY <1>1, SInitInv, SNextInv, PTL DEF Spec

-----------------------------------------------------------------------------
(* What can be left of a handler, on either machine.                       *)
Rests ==
  {Full, <<"ack", "print">>, <<"print">>, << >>,
   <<"print", "clear", "ack">>, <<"clear", "ack">>, <<"ack">>}

TInv ==
    /\ arch \in Archs
    /\ raised \in 0 .. MaxSignals /\ sigc \in 0 .. 1
    /\ handler \in {"receive", "inject"}
    /\ line \in BOOLEAN /\ enabled \in BOOLEAN
    /\ irr \in BOOLEAN /\ timer \in BOOLEAN
    /\ isr \in {"none", "timer", "signal"}
    /\ pc \in {"boot", "kmain", "user", "kernel", "timer", "signal", "exit", "gone"}
    /\ todo \in Rests
    /\ vcpu \in {"guest", "exited", "stopped"}
    /\ reason \in {"none", "mmio", "intr", "debug", "other"}
    /\ call \in {"none", "read", "write", "clear", "exit"}
    /\ main \in {"wait", "returned"}

LEMMA RestsShort == \A t \in Rests : Len(t) <= 3 /\ (t # << >> => Tail(t) \in Rests)
<1>1. \A t \in Rests : Len(t) <= 3
  <2>1. /\ Len(Full) = 3 /\ Len(<<"ack", "print">>) = 2 /\ Len(<<"print">>) = 1
        /\ Len(<<"print", "clear", "ack">>) = 3 /\ Len(<<"clear", "ack">>) = 2
        /\ Len(<<"ack">>) = 1 /\ Len(<< >>) = 0
    BY DEF Full
  <2>2. \A t \in Rests : Len(t) \in {0, 1, 2, 3}
    BY <2>1, Zenon DEF Rests
  <2>3. \A n \in {0, 1, 2, 3} : n <= 3
    OBVIOUS
  <2> QED
    BY <2>2, <2>3, Zenon
<1>2. /\ Tail(Full) = <<"ack", "print">> /\ Tail(<<"ack", "print">>) = <<"print">>
      /\ Tail(<<"print">>) = << >> /\ Tail(<<"print", "clear", "ack">>) = <<"clear", "ack">>
      /\ Tail(<<"clear", "ack">>) = <<"ack">> /\ Tail(<<"ack">>) = << >>
  BY DEF Full
<1>3. ASSUME NEW t \in Rests, t # << >> PROVE Tail(t) \in Rests
  BY <1>2, <1>3, Zenon DEF Rests
<1> QED
  BY <1>1, <1>3

LEMMA TInvariant == Spec => []TInv
<1>1. Init => TInv
  <2> SUFFICES ASSUME Init PROVE TInv
    OBVIOUS
  <2>1. raised \in 0 .. MaxSignals /\ sigc \in 0 .. 1
    BY SignalPathConstants DEF Init
  <2> QED
    BY <2>1, Zenon DEF Init, TInv, Rests
<1>2. TInv /\ [Next]_vars => TInv'
  <2> SUFFICES ASSUME TInv, [Next]_vars PROVE TInv'
    OBVIOUS
  <2> USE DEF TInv
  <2>1. CASE OsSignal
    <3>1. raised' \in 0 .. MaxSignals /\ sigc' \in 0 .. 1
      BY <2>1, SignalPathConstants DEF OsSignal, Notify, ChanSize
    <3> QED
      BY <2>1, <3>1 DEF OsSignal, irqVars
  <2>2. CASE Receive
    <3>1. sigc' \in 0 .. 1
      BY <2>2 DEF Receive
    <3> QED
      BY <2>2, <3>1 DEF Receive, irqVars
  <2>3. CASE Signal
    <3>1. line' \in BOOLEAN /\ irr' \in BOOLEAN
      BY <2>3, Zenon DEF Signal, InjectIrq
    <3> QED
      BY <2>3, <3>1 DEF Signal
  <2>4. CASE interrupts_init
    BY <2>4 DEF interrupts_init, hostVars, Goto
  <2>5. CASE kmain
    BY <2>5, ZenonT(40) DEF kmain, hostVars, irqVars, Goto, Hypercall
  <2>6. CASE syscall_handler
    BY <2>6, ZenonT(40) DEF syscall_handler, hostVars, irqVars, Goto, Hypercall
  <2>7. CASE Syscall \/ HandlerDone
    BY <2>7, Zenon DEF Syscall, HandlerDone, AfterSignal, hostVars, irqVars, Goto
  <2>8. CASE Exit
    BY <2>8, Zenon DEF Exit, hostVars, irqVars, Hypercall
  <2>9. CASE UserTimer \/ TimerTick \/ TakeTimer
    BY <2>9, Zenon DEF UserTimer, TimerAck, TimerTick, TakeTimer, hostVars, Goto
  <2>10. CASE TakeSignal
    <3>1. todo' \in Rests
      BY <2>10 DEF TakeSignal, SignalHandler, Rests, Full
    <3>2. /\ irr' = FALSE /\ isr' = "signal" /\ pc' = "signal"
          /\ line' = line /\ enabled' = enabled /\ timer' = timer
          /\ vcpu' = vcpu /\ reason' = reason /\ call' = call
      BY <2>10, Zenon DEF TakeSignal, Goto
    <3>3. /\ arch' = arch /\ raised' = raised /\ sigc' = sigc
          /\ handler' = handler /\ main' = main
      BY <2>10, Zenon DEF TakeSignal, hostVars
    <3>4. /\ line' \in BOOLEAN /\ enabled' \in BOOLEAN
          /\ irr' \in BOOLEAN /\ timer' \in BOOLEAN
      BY <3>2, Zenon
    <3>5. /\ arch' \in Archs /\ raised' \in 0 .. MaxSignals /\ sigc' \in 0 .. 1
          /\ handler' \in {"receive", "inject"} /\ main' \in {"wait", "returned"}
      BY <3>3, Zenon
    <3>6. /\ vcpu' \in {"guest", "exited", "stopped"}
          /\ reason' \in {"none", "mmio", "intr", "debug", "other"}
          /\ call' \in {"none", "read", "write", "clear", "exit"}
      BY <3>2, Zenon
    <3>7. /\ isr' \in {"none", "timer", "signal"}
          /\ pc' \in {"boot", "kmain", "user", "kernel", "timer", "signal", "exit", "gone"}
      BY <3>2
    <3> QED
      BY <3>1, <3>4, <3>5, <3>6, <3>7, Zenon
  <2>11. CASE HandlerStep
    <3>1. todo' \in Rests
      BY <2>11, RestsShort DEF HandlerStep
    <3>2. isr' \in {"none", "timer", "signal"} /\ pc' = "signal"
          /\ vcpu' \in {"guest", "exited", "stopped"}
          /\ reason' \in {"none", "mmio", "intr", "debug", "other"}
          /\ call' \in {"none", "read", "write", "clear", "exit"}
      BY <2>11 DEF HandlerStep, Hypercall, Goto
    <3> QED
      BY <2>11, <3>1, <3>2 DEF HandlerStep, hostVars
  <2>12. CASE KvmRunReturns
    <3>1. reason' \in {"none", "mmio", "intr", "debug", "other"}
      BY <2>12 DEF KvmRunReturns
    <3> QED
      BY <2>12, <3>1 DEF KvmRunReturns, hostVars, irqVars
  <2>13. CASE RunOnce
    <3>1. line' \in BOOLEAN /\ irr' \in BOOLEAN
      BY <2>13, Zenon DEF RunOnce, InjectIrq
    <3>2. vcpu' \in {"guest", "exited", "stopped"}
          /\ reason' \in {"none", "mmio", "intr", "debug", "other"}
          /\ call' \in {"none", "read", "write", "clear", "exit"}
      BY <2>13, Zenon DEF RunOnce, Resume, Stop
    <3> QED
      BY <2>13, <3>1, <3>2, Zenon DEF RunOnce, hostVars
  <2>14. CASE ReadReturns
    BY <2>14 DEF ReadReturns, hostVars, irqVars, Resume
  <2>15. CASE Boot
    BY <2>15 DEF Boot, irqVars
  <2>16. CASE UNCHANGED vars
    BY <2>16 DEF vars
  <2> QED
    BY <2>1, <2>2, <2>3, <2>4, <2>5, <2>6, <2>7, <2>8, <2>9, <2>10, <2>11, <2>12, <2>13,
       <2>14, <2>15, <2>16 DEF Next, KernelStep
<1> QED
  BY <1>1, <1>2, PTL DEF Spec

(* Every variable keeps its type, for any number of signals: the channel   *)
(* of registerSignals never holds more than the one signal it has room     *)
(* for, because signal.Notify drops what does not fit.                     *)
THEOREM SignalTypes == Spec => []TypeOK
<1>1. TInv => TypeOK
  BY RestsShort DEF TInv, TypeOK
<1> QED
  BY <1>1, TInvariant, PTL
=============================================================================
