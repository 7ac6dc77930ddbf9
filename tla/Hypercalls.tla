----------------------------- MODULE Hypercalls -----------------------------
(***************************************************************************)
(* The host side of a container as operators: the file descriptor table    *)
(* that the Go hypervisor keeps for the guest and the hypercalls on it     *)
(* (container.go, hypercall.go).                                           *)
(*                                                                         *)
(* The state of the host is one record, and a hypercall is an operator     *)
(* from a host to the set of its outcomes [host, r].  Container lets a     *)
(* guest issue any of them at any time; FileStack composes the system      *)
(* calls of the guest kernel from them.  A path is a sequence of           *)
(* characters; the data of a file is its size, in units of one page, and   *)
(* whether it is there at all (made).                                      *)
(***************************************************************************)
EXTENDS Integers, Sequences

CONSTANTS
  Paths,     \* the absolute paths the guest names
  Existing,  \* those with a file on the host before the guest runs
  dirs,      \* the directories the guest may access
  fdMax,     \* first descriptor number that is never handed out
  MaxSize    \* bound: sizes of files and offsets

ASSUME HypercallConstants ==
  /\ fdMax \in Nat /\ fdMax > 3
  /\ MaxSize \in Nat
  /\ Existing \subseteq Paths

errFail == -1
Fd == 0 .. (fdMax - 1)
NoFile == [path |-> <<>>, acc |-> "none", off |-> 0]
Std == [path |-> <<>>, acc |-> "std", off |-> 0]
Acc == {"r", "w", "rw"}  \* O_RDONLY, O_WRONLY, O_RDWR
Flags == SUBSET {"O_CREAT", "O_TRUNC"}

Least(a, b) == IF a <= b THEN a ELSE b
Greatest(a, b) == IF a >= b THEN a ELSE b

Open(h, fd) == fd \in Fd /\ h.tab[fd].acc # "none"
Result(h, r) == [host |-> h, r |-> r]
Fails(h) == {Result(h, errFail)}

CanAccess(path) == \E dir \in dirs : \E n \in 0 .. Len(path) : SubSeq(path, 1, n) = dir

\* mutant: the next number is not advanced
addFile_NoIncrement(h, path, acc) ==
  [tab  |-> [h.tab EXCEPT ![h.next] = [path |-> path, acc |-> acc, off |-> 0]],
   next |-> h.next,
   made |-> h.made,
   size |-> h.size]

addFile(h, path, acc) ==
  [tab  |-> [h.tab EXCEPT ![h.next] = [path |-> path, acc |-> acc, off |-> 0]],
   next |-> h.next + 1,
   made |-> h.made,
   size |-> h.size]

(* What os.OpenFile does to the files of the host when it succeeds.        *)
OpenedFile(h, path, flags) ==
  [tab  |-> h.tab,
   next |-> h.next,
   made |-> h.made \cup {path},
   size |-> IF "O_TRUNC" \in flags THEN [h.size EXCEPT ![path] = 0] ELSE h.size]

CanOpen(h, path, flags) == CanAccess(path) /\ (path \in h.made \/ "O_CREAT" \in flags)

\* mutant: addFile's limit is off by one
hypOpen_PastLimit(h, path, acc, flags) ==
  LET g == OpenedFile(h, path, flags)
  IN  Fails(h) \cup
      (IF ~ CanOpen(h, path, flags) THEN {}
       ELSE IF h.next > fdMax THEN {Result(g, errFail)}
       ELSE {Result(addFile(g, path, acc), h.next)})

\* mutant: the number is taken before the host opens the file
hypOpen_TakesNumber(h, path, acc, flags) ==
  IF CanOpen(h, path, flags) /\ h.next < fdMax
  THEN {Result(addFile(OpenedFile(h, path, flags), path, acc), h.next),
        Result([h EXCEPT !.next = h.next + 1], errFail)}
  ELSE Fails(h)

(* Blocked, or refused by the host's os.OpenFile; else the file is there,  *)
(* and truncated if so asked, before addFile looks whether the table has   *)
(* reached its maximum.                                                    *)
hypOpen(h, path, acc, flags) ==
  LET g == OpenedFile(h, path, flags)
  IN  Fails(h) \cup
      (IF ~ CanOpen(h, path, flags) THEN {}
       ELSE IF h.next >= fdMax THEN {Result(g, errFail)}
       ELSE {Result(addFile(g, path, acc), h.next)})

\* mutant: a closed number is handed out again
hypClose_Reuses(h, fd) ==
  IF Open(h, fd)
  THEN {Result([h EXCEPT !.tab[fd] = NoFile, !.next = IF fd < 3 THEN @ ELSE fd], 0)}
  ELSE Fails(h)

hypClose(h, fd) ==
  IF Open(h, fd)
  THEN {Result([tab |-> [h.tab EXCEPT ![fd] = NoFile], next |-> h.next,
                made |-> h.made, size |-> h.size], 0)}
  ELSE Fails(h)

(* The host with the offset of fd at off, and the sizes size.              *)
At(h, fd, off, size) ==
  [tab  |-> [h.tab EXCEPT ![fd] = [path |-> h.tab[fd].path, acc |-> h.tab[fd].acc, off |-> off]],
   next |-> h.next,
   made |-> h.made,
   size |-> size]

(* Units that File.Read delivers at the offset; 0 is io.EOF.               *)
Available(h, fd) == Greatest(0, h.size[h.tab[fd].path] - h.tab[fd].off)

hypRead(h, fd, n) ==
  IF ~ Open(h, fd) \/ h.tab[fd].acc = "w" THEN Fails(h)
  ELSE IF h.tab[fd].acc = "std" THEN {Result(h, k) : k \in 0 .. n}
  ELSE LET k == Least(n, Available(h, fd))
       IN  {Result(At(h, fd, h.tab[fd].off + k, h.size), k)}

\* fmt.Fprint on a file that can be written
Written(h, fd, n) ==
  LET to == h.tab[fd].off + n
  IN  At(h, fd, to, [h.size EXCEPT ![h.tab[fd].path] = Greatest(@, to)])

(* The result of fmt.Fprint is not looked at: a write that the host        *)
(* refuses, on a file opened for reading, is reported as done.             *)
hypWrite(h, fd, n) ==
  IF ~ Open(h, fd) THEN Fails(h)
  ELSE IF h.tab[fd].acc \in {"r", "std"} THEN {Result(h, n)}
  ELSE {Result(Written(h, fd, n), n)}

hypLseek(h, fd, off, whence) ==
  IF ~ Open(h, fd) \/ h.tab[fd].acc = "std" THEN Fails(h)
  ELSE LET to == off + (CASE whence = "SET" -> 0
                          [] whence = "CUR" -> h.tab[fd].off
                          [] whence = "END" -> h.size[h.tab[fd].path])
       IN  IF to < 0 THEN Fails(h) ELSE {Result(At(h, fd, to, h.size), to)}

(* f.Stat of an open file; what it writes to guest memory is left out.     *)
hypFstat(h, fd) == IF Open(h, fd) THEN {Result(h, 0)} ELSE Fails(h)

(* syscall.ReadDirent: an error, on what is no directory, or up to n units *)
(* of entries.  Where the listing stands is left out.                      *)
hypGetdents64(h, fd, n) ==
  Fails(h) \cup (IF Open(h, fd) THEN {Result(h, k) : k \in 0 .. n} ELSE {})

(* The clock is read, or the line lowered (see SignalPath); the error of   *)
(* InjectIrq is not looked at.                                             *)
hypTime(h) == {Result(h, 0)}
hypClearSignal(h) == {Result(h, 0)}

(* The standard streams, and the files that exist, of one unit each.       *)
NewContainer ==
  [tab  |-> [fd \in Fd |-> IF fd < 3 THEN Std ELSE NoFile],
   next |-> 3,
   made |-> Existing,
   size |-> [p \in Paths |-> IF p \in Existing THEN 1 ELSE 0]]

(* Bound: hypercalls that would exceed MaxSize are not taken.              *)
Bounded(h) == /\ \A fd \in Fd : h.tab[fd].off <= MaxSize
              /\ \A p \in Paths : h.size[p] <= MaxSize
-----------------------------------------------------------------------------
HostOK(h) ==
  /\ h = [tab |-> h.tab, next |-> h.next, made |-> h.made, size |-> h.size]
  /\ h.tab \in [Fd -> [path : Paths \cup {<<>>}, acc : Acc \cup {"none", "std"}, off : Nat]]
  /\ h.next \in 3 .. fdMax
  /\ h.made \subseteq Paths
  /\ h.size \in [Paths -> Nat]
  /\ \A fd \in Fd : h.tab[fd].acc \in Acc => h.tab[fd].path \in Paths
=============================================================================
