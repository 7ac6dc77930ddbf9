----------------------------- MODULE SignalPath -----------------------------
(***************************************************************************)
(* How a host signal ends the guest: the goroutine of registerSignals, the *)
(* vCPU goroutine that runs KVM_RUN and serves hypercalls, the interrupt   *)
(* controller between them, and the guest kernel that takes the interrupt, *)
(* lowers the line with a hypercall and exits.  The goroutines and the     *)
(* guest interleave freely; the guest kernel runs with interrupts off.     *)
(***************************************************************************)
EXTENDS Naturals, Sequences

CONSTANTS
    Archs,         \* machines: "amd64" (edge-triggered IOAPIC pin), "arm64" (level PPI)
    trace,         \* the -trace flag: single-step the guest
    EarlySignals,  \* machines whose signals may come before the line is unmasked
    MaxSignals     \* bound: signals the host delivers

ASSUME SignalPathConstants ==
    /\ Archs \subseteq {"amd64", "arm64"}
    /\ trace \in BOOLEAN /\ EarlySignals \subseteq Archs
    /\ MaxSignals \in Nat

VARIABLES
    arch,     \* the machine, which never changes
    raised,   \* signals delivered to the process so far
    sigc,     \* signals waiting in the channel
    handler,  \* the signal goroutine: "receive" or "inject"
    line,     \* level of the interrupt line, as set by InjectIrq
    enabled,  \* the guest has unmasked the line
    irr,      \* amd64: the request latched in the local APIC
    isr,      \* the interrupt in service: "none", "timer" or "signal"
    timer,    \* a timer interrupt is pending
    pc,       \* where the guest is
    todo,     \* what is left of the signal handler
    vcpu,     \* the vCPU goroutine: "guest" (in KVM_RUN), "exited", "stopped"
    reason,   \* why KVM_RUN returned
    call,     \* the hypercall the guest is waiting for
    main      \* the main goroutine: "wait" or "returned"

irqVars == <<line, irr, isr, timer, enabled>>
hostVars == <<arch, raised, sigc, handler, main>>
vars == <<arch, raised, sigc, handler, line, enabled, irr, isr, timer, pc, todo,
          vcpu, reason, call, main>>

Init ==
    /\ arch \in Archs
    /\ raised = 0 /\ sigc = 0 /\ handler = "receive"
    /\ line = FALSE /\ enabled = FALSE /\ irr = FALSE
    /\ isr = "none" /\ timer = FALSE
    /\ pc = "boot" /\ todo = << >>
    /\ vcpu = "guest" /\ reason = "none" /\ call = "none"
    /\ main = "wait"

-----------------------------------------------------------------------------
(* The host's signal goroutine. *)

\* The capacity registerSignals makes the channel with.
ChanSize_Two == 2

ChanSize == 1

\* A send that finds the channel full is dropped by signal.Notify.
Notify == IF sigc = ChanSize THEN sigc ELSE sigc + 1

OsSignal ==
    /\ main = "wait" /\ raised < MaxSignals
    /\ arch \in EarlySignals \/ enabled
    /\ raised' = raised + 1
    /\ sigc' = Notify
    /\ UNCHANGED <<arch, handler, main, irqVars, pc, todo, vcpu, reason, call>>

Receive ==
    /\ main = "wait" /\ handler = "receive" /\ sigc > 0
    /\ sigc' = sigc - 1
    /\ handler' = "inject"
    /\ UNCHANGED <<arch, raised, main, irqVars, pc, todo, vcpu, reason, call>>

\* KVM_IRQ_LINE.  An edge-triggered pin makes a request only on a rising edge
\* it sees unmasked; a level-triggered one is pending while the line is high.
InjectIrq(level) ==
    /\ line' = level
    /\ irr' = (irr \/ (arch = "amd64" /\ level /\ ~line /\ enabled))

Pending == IF arch = "amd64" THEN irr ELSE line /\ enabled

\* Container.Signal, whatever the signal was.
Signal ==
    /\ main = "wait" /\ handler = "inject"
    /\ InjectIrq(TRUE)
    /\ handler' = "receive"
    /\ UNCHANGED <<arch, raised, sigc, main, enabled, isr, timer, pc, todo, vcpu,
                   reason, call>>

-----------------------------------------------------------------------------
(* The guest. *)

Running == main = "wait" /\ vcpu = "guest"

\* A hypercall stores to the device page: KVM_RUN returns with an MMIO exit,
\* and the guest goes on at next once the call has been served.
Hypercall(c, next) ==
    /\ pc' = next
    /\ vcpu' = "exited" /\ reason' = "mmio" /\ call' = c

Goto(next) == pc' = next /\ UNCHANGED <<vcpu, reason, call>>

\* Unmasking an edge-triggered pin makes no request for an edge already past.
interrupts_init ==
    /\ Running /\ pc = "boot"
    /\ enabled' = TRUE
    /\ Goto("kmain")
    /\ UNCHANGED <<hostVars, line, irr, isr, timer, todo>>

\* Either the first process runs, or kmain prints an error and returns.
kmain ==
    /\ Running /\ pc = "kmain"
    /\ Goto("user") \/ Hypercall("write", "exit")
    /\ UNCHANGED <<hostVars, irqVars, todo>>

Syscall ==
    /\ Running /\ pc = "user"
    /\ Goto("kernel")
    /\ UNCHANGED <<hostVars, irqVars, todo>>

\* A system call returns to user mode, perhaps after a hypercall, or exits.
syscall_handler ==
    /\ Running /\ pc = "kernel"
    /\ \/ Goto("user")
       \/ Hypercall("read", "user")
       \/ Hypercall("write", "user")
       \/ Hypercall("write", "exit")
    /\ UNCHANGED <<hostVars, irqVars, todo>>

\* The local APIC timer is periodic; arm64 never arms its timer.
TimerTick ==
    /\ Running /\ arch = "amd64" /\ enabled /\ ~timer
    /\ timer' = TRUE
    /\ UNCHANGED <<hostVars, line, enabled, irr, isr, pc, todo, vcpu, reason, call>>

\* Interrupts are on in user mode only, and one of a priority class waits for
\* the acknowledgement of another; the signal has the higher vector.
TakeTimer ==
    /\ Running /\ pc = "user" /\ isr = "none" /\ timer /\ ~Pending
    /\ timer' = FALSE /\ isr' = "timer"
    /\ Goto("timer")
    /\ UNCHANGED <<hostVars, line, enabled, irr, todo>>

TimerAck_Missing == isr

TimerAck == "none"

UserTimer ==
    /\ Running /\ pc = "timer"
    /\ isr' = TimerAck
    /\ Goto("user")
    /\ UNCHANGED <<hostVars, line, enabled, irr, timer, todo>>

\* What the two architectures do with the signal interrupt, in order.
SignalHandler_AckFirst ==
    IF arch = "amd64" THEN <<"ack", "clear", "print">>
                      ELSE <<"ack", "print", "clear">>

SignalHandler ==
    IF arch = "amd64" THEN <<"clear", "ack", "print">>
                      ELSE <<"print", "clear", "ack">>

TakeSignal ==
    /\ Running /\ pc = "user" /\ isr = "none" /\ Pending
    /\ irr' = FALSE /\ isr' = "signal"
    /\ todo' = SignalHandler
    /\ Goto("signal")
    /\ UNCHANGED <<hostVars, line, enabled, timer>>

HandlerStep ==
    /\ Running /\ pc = "signal" /\ todo # << >>
    /\ todo' = Tail(todo)
    /\ \/ Head(todo) = "clear" /\ Hypercall("clear", "signal") /\ UNCHANGED isr
       \/ Head(todo) = "print" /\ Hypercall("write", "signal") /\ UNCHANGED isr
       \/ Head(todo) = "ack" /\ isr' = "none" /\ Goto("signal")
    /\ UNCHANGED <<hostVars, line, enabled, irr, timer>>

\* signal returns Action.EXIT, so sys_exit, the scheduler and exit follow.
AfterSignal == "exit"

HandlerDone ==
    /\ Running /\ pc = "signal" /\ todo = << >>
    /\ Goto(AfterSignal)
    /\ UNCHANGED <<hostVars, irqVars, todo>>

Exit ==
    /\ Running /\ pc = "exit"
    /\ Hypercall("exit", "gone")
    /\ UNCHANGED <<hostVars, irqVars, todo>>

-----------------------------------------------------------------------------
(* The vCPU goroutine. *)

\* KVM_RUN also returns when a host signal reaches its thread, after each
\* instruction under -trace, and with reasons RunOnce does not know.
KvmRunReturns ==
    /\ Running
    /\ vcpu' = "exited"
    /\ reason' \in {"intr", "other"} \cup (IF trace THEN {"debug"} ELSE {})
    /\ UNCHANGED <<hostVars, irqVars, pc, todo, call>>

Resume == vcpu' = "guest" /\ reason' = "none" /\ call' = "none"

Stop == vcpu' = "stopped" /\ UNCHANGED <<reason, call>>

\* RunOnce on the exit reason, and the loops of RunInfiniteLoop and StartVCPU.
RunOnce ==
    /\ main = "wait" /\ vcpu = "exited" /\ call # "read"
    /\ \/ reason \in {"intr", "debug"} /\ Resume /\ UNCHANGED <<line, irr>>
       \/ reason = "mmio" /\ call = "write" /\ Resume /\ UNCHANGED <<line, irr>>
       \/ reason = "mmio" /\ call = "clear" /\ Resume /\ InjectIrq(FALSE)
       \/ reason = "mmio" /\ call = "exit" /\ Stop /\ UNCHANGED <<line, irr>>
       \/ reason = "other" /\ Stop /\ UNCHANGED <<line, irr>>
    /\ UNCHANGED <<hostVars, enabled, isr, timer, pc, todo>>

\* A read of the host's standard input blocks until there is input.
ReadReturns ==
    /\ main = "wait" /\ vcpu = "exited" /\ call = "read"
    /\ Resume
    /\ UNCHANGED <<hostVars, irqVars, pc, todo>>

\* wg.Done lets Boot return, and main with it.
Boot ==
    /\ main = "wait" /\ vcpu = "stopped"
    /\ main' = "returned"
    /\ UNCHANGED <<arch, raised, sigc, handler, irqVars, pc, todo, vcpu, reason, call>>

KernelStep ==
    \/ interrupts_init
    \/ kmain
    \/ syscall_handler
    \/ UserTimer
    \/ HandlerStep
    \/ HandlerDone
    \/ Exit

Next ==
    \/ OsSignal
    \/ Receive
    \/ Signal
    \/ KernelStep
    \/ Syscall
    \/ TimerTick
    \/ TakeTimer
    \/ TakeSignal
    \/ KvmRunReturns
    \/ RunOnce
    \/ ReadReturns
    \/ Boot

\* Goroutines are scheduled; kernel code runs on between two returns of
\* KVM_RUN; an interrupt that stays pending is taken in user mode.  Nothing
\* says that input ever comes for a read that waits for it.
Fairness ==
    /\ WF_vars(Receive) /\ WF_vars(Signal)
    /\ WF_vars(RunOnce) /\ WF_vars(Boot)
    /\ SF_vars(KernelStep) /\ SF_vars(TakeSignal) /\ SF_vars(TakeTimer)

Spec == Init /\ [][Next]_vars /\ Fairness

-----------------------------------------------------------------------------
(* Properties. *)

\* Every variable has its type; in particular the channel of registerSignals
\* never holds more than its capacity of one signal.
TypeOK ==
    /\ arch \in Archs
    /\ raised \in 0 .. MaxSignals /\ sigc \in 0 .. 1
    /\ handler \in {"receive", "inject"}
    /\ line \in BOOLEAN /\ enabled \in BOOLEAN
    /\ irr \in BOOLEAN /\ timer \in BOOLEAN
    /\ isr \in {"none", "timer", "signal"}
    /\ pc \in {"boot", "kmain", "user", "kernel", "timer", "signal", "exit", "gone"}
    /\ Len(todo) <= 3
    /\ vcpu \in {"guest", "exited", "stopped"}
    /\ reason \in {"none", "mmio", "intr", "debug", "other"}
    /\ call \in {"none", "read", "write", "clear", "exit"}
    /\ main \in {"wait", "returned"}

\* A line that is high always has its interrupt on the way: requested, or in
\* service with the hypercall that lowers it still to come.  A high line with
\* nothing behind it would swallow every later edge of InjectIrq.
LineHasInterrupt ==
    line /\ enabled => Pending \/ isr = "signal"

WaitsForInput == vcpu = "exited" /\ call = "read"

\* Once the host has delivered a signal, the guest ends and revisor's main
\* returns, unless from some point on the vCPU goroutine sits in a read of the
\* host for which no input ever comes: neither the channel's dropping a
\* signal, nor two signals meeting on the line, nor a signal raised while the
\* kernel runs or a hypercall is served, loses the last one.
SignalEndsGuest ==
    (raised > 0) ~> (main = "returned" \/ []WaitsForInput)
=============================================================================
