----------------------------- MODULE Container -----------------------------
(***************************************************************************)
(* The host side of a container (container.go, hypercall.go) facing an     *)
(* arbitrary guest kernel, which may issue any hypercall with any          *)
(* descriptor at any time.  The vCPU's goroutine runs a hypercall to its   *)
(* end before the guest goes on, so a hypercall is one step.               *)
(***************************************************************************)
EXTENDS Hypercalls

VARIABLES
  container, \* fdtable (tab), nextfd (next), and the host's files: which exist, their sizes
  closed,    \* history: the descriptors the guest has closed
  loop,      \* "run", or why the vCPU's loop ended: "exit", "unknown", "panic"
  r0         \* what the last hypercall returned

cvars == <<container, closed, loop, r0>>

Hypercall(outcomes) ==
  /\ loop = "run"
  /\ \E o \in outcomes : Bounded(o.host) /\ container' = o.host /\ r0' = o.r
  /\ UNCHANGED loop

CallOpen(path, acc, flags) == Hypercall(hypOpen(container, path, acc, flags)) /\ UNCHANGED closed

CallClose(fd) ==
  /\ Hypercall(hypClose(container, fd))
  /\ closed' = IF Open(container, fd) THEN closed \cup {fd} ELSE closed

CallRead(fd, n) == Hypercall(hypRead(container, fd, n)) /\ UNCHANGED closed
CallWrite(fd, n) == Hypercall(hypWrite(container, fd, n)) /\ UNCHANGED closed
CallLseek(fd, off, whence) == Hypercall(hypLseek(container, fd, off, whence)) /\ UNCHANGED closed
CallFstat(fd) == Hypercall(hypFstat(container, fd)) /\ UNCHANGED closed
CallGetdents64(fd, n) == Hypercall(hypGetdents64(container, fd, n)) /\ UNCHANGED closed
CallTime == Hypercall(hypTime(container)) /\ UNCHANGED closed
CallClearSignal == Hypercall(hypClearSignal(container)) /\ UNCHANGED closed

(* hypExit, and a number that no case handles: RunOnce returns the error   *)
(* and the vCPU's loop ends.  A buffer outside guest memory: Slice panics. *)
CallStop(why) ==
  /\ loop = "run"
  /\ loop' = why
  /\ UNCHANGED <<container, closed, r0>>

CInit ==
  /\ container = NewContainer
  /\ closed = {}
  /\ loop = "run"
  /\ r0 = 0

CNext ==
  \/ \E fd \in 0 .. fdMax : CallWrite(fd, 1) \/ CallRead(fd, 1) \/ CallClose(fd) \/ CallFstat(fd)
                            \/ CallGetdents64(fd, 1)
  \/ CallTime \/ CallClearSignal
  \/ \E p \in Paths, a \in Acc, flags \in Flags : CallOpen(p, a, flags)
  \/ \E fd \in 0 .. fdMax, off \in {-1, 0, 1}, w \in {"SET", "CUR", "END"} : CallLseek(fd, off, w)
  \/ \E why \in {"exit", "unknown", "panic"} : CallStop(why)

CSpec == CInit /\ [][CNext]_cvars
-----------------------------------------------------------------------------
(* The host's table and its counter stay within their types: offsets are   *)
(* never negative, and nextfd never passes fdMax.                          *)
CTypeOK ==
  /\ HostOK(container)
  /\ closed \subseteq Fd
  /\ loop \in {"run", "exit", "unknown", "panic"}
  /\ r0 \in Int

(* A descriptor number that the guest closed never names a file again: a   *)
(* stale number gets errFail, never another file.                          *)
NeverReused == \A fd \in closed : ~ Open(container, fd)

(* A hypercall that answers errFail leaves the guest's descriptors as they *)
(* were: it enters no file, takes no number and moves no offset, on every  *)
(* path that leads to the error.  The host's files are as before too, with *)
(* one exception: hypOpen opens the file before addFile checks its limit,  *)
(* so with the table full the file may have been created or truncated.     *)
ErrFailKeepsTable ==
  [][r0' = errFail => /\ container'.tab = container.tab
                      /\ container'.next = container.next
                      /\ container' # container => container.next = fdMax]_cvars
=============================================================================
