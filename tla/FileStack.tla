----------------------------- MODULE FileStack -----------------------------
(***************************************************************************)
(* The files of a guest process through all their layers: the descriptor   *)
(* table of the process (rekernel/file.d), the system calls on it          *)
(* (rekernel/syscall.d, and the file part of mmap in proc.d), the C        *)
(* library's streams, and the host's table behind the hypercalls           *)
(* (Hypercalls).  A system call runs to its end before user code goes on    *)
(* and only the one vCPU issues hypercalls, so it is one step.             *)
(*                                                                         *)
(* The streams are external (picolibc): a stream may read ahead and may    *)
(* hold written data back, up to BUFSIZ units, and seeking empties its     *)
(* buffer.  The kernel opens them with fdopen and never calls fflush.      *)
(* Sizes are in units of one page, the unit in which sys_read and          *)
(* sys_write walk the user's buffer.                                       *)
(***************************************************************************)
EXTENDS Hypercalls

CONSTANTS
  NUM_FILE,   \* slots of the descriptor table
  BUFSIZ,     \* units a stream can buffer
  Booted,     \* files the kernel opened and closed to load the program
  MaxIo,      \* bound: units in one read or write
  Fds,        \* the descriptors user code passes
  Modes,      \* the access modes it opens files with
  OpenFlags,  \* and the flags
  FdopenMayFail  \* whether fdopen may return null

ASSUME FileStackConstants ==
  /\ NUM_FILE \in Nat /\ NUM_FILE > 3
  /\ BUFSIZ \in Nat /\ MaxIo \in Nat
  /\ Booted \in 1 .. (fdMax - 3)
  /\ Fds \subseteq Nat /\ Modes \subseteq Acc /\ OpenFlags \subseteq Flags
  /\ FdopenMayFail \in BOOLEAN

VARIABLES
  host,       \* the host's table, as in Container
  status,     \* "run", or "exit" when the vCPU's loop has ended
  allocated,  \* FdTable.allocated
  files,      \* FdTable.files: the stream (VFile.dev) of each slot, 0 if none yet
  streams,    \* the streams ever opened, numbered from 1
  ret         \* the result of the last system call

vars == <<host, status, allocated, files, streams, ret>>

Slot == 0 .. (NUM_FILE - 1)
Buffers == {"mapped", "unmapped", "refused"}  \* the user's buffer of a pread64
BADF == -9
FAULT == -14
NFILE == -23
INVAL == -22

Stream(hfd, mode) == [hfd |-> hfd, mode |-> mode, rbuf |-> 0, wbuf |-> 0]

(* flags2cmode: O_RDONLY is 0, so no flags ever give "r".                  *)
flags2cmode(acc) == IF acc = "w" THEN "w" ELSE "r+"
-----------------------------------------------------------------------------
(* The streams, on a world w = [host, streams]; d is the stream's number.  *)

World == [host |-> host, streams |-> streams]

(* The position that user code sees.                                       *)
Position(w, d) ==
  LET s == w.streams[d]
      f == w.host.tab[s.hfd]
  IN  f.off - s.rbuf + (IF f.acc = "r" THEN 0 ELSE s.wbuf)

InWorld(w, h, d, rbuf, wbuf) ==
  [host |-> h, streams |-> [w.streams EXCEPT ![d] =
     [hfd |-> @.hfd, mode |-> @.mode, rbuf |-> rbuf, wbuf |-> wbuf]]]

(* Empty the buffer: write what was held back, seek back over what was     *)
(* read ahead.                                                             *)
Sync(w, d) ==
  LET s == w.streams[d]
      outcomes == IF s.wbuf > 0 THEN hypWrite(w.host, s.hfd, s.wbuf)
                  ELSE IF s.rbuf > 0 THEN hypLseek(w.host, s.hfd, 0 - s.rbuf, "CUR")
                  ELSE {Result(w.host, 0)}
  IN  {InWorld(w, o.host, d, 0, 0) : o \in outcomes}

fseek(w, d, off, whence) ==
  UNION {{[w |-> InWorld(x, o.host, d, 0, 0), r |-> o.r] :
            o \in hypLseek(x.host, x.streams[d].hfd, off, whence)} : x \in Sync(w, d)}

(* n units wanted; k are read ahead of what the caller takes.              *)
fread(w, d, n) ==
  LET Take(x, k) ==
        LET s == x.streams[d]
        IN  {[w |-> InWorld(x, o.host, d, Greatest(0, s.rbuf + o.r - n), 0),
              r |-> Least(n, s.rbuf + o.r)] :
               o \in {q \in hypRead(x.host, s.hfd, Greatest(0, n + k - s.rbuf)) : q.r >= 0}}
  IN  IF n = 0 \/ w.streams[d].mode = "w" THEN {[w |-> w, r |-> 0]}
      ELSE IF w.host.tab[w.streams[d].hfd].acc = "std" THEN {[w |-> w, r |-> k] : k \in 0 .. n}
      ELSE UNION {UNION {Take(x, k) : k \in 0 .. BUFSIZ} :
                    x \in IF w.streams[d].wbuf > 0 THEN Sync(w, d) ELSE {w}}

(* All but k of the units written so far reach the host; the standard      *)
(* streams hold nothing back.                                              *)
fwrite(w, d, n) ==
  LET Put(x, k) ==
        LET s == x.streams[d]
        IN  {InWorld(x, o.host, d, 0, k) : o \in hypWrite(x.host, s.hfd, s.wbuf + n - k)}
      hold == IF w.host.tab[w.streams[d].hfd].acc = "std" THEN 0 ELSE BUFSIZ
  IN  UNION {UNION {Put(x, k) : k \in 0 .. Least(hold, w.streams[d].wbuf + n)} :
               x \in IF w.streams[d].rbuf > 0 THEN Sync(w, d) ELSE {w}}
-----------------------------------------------------------------------------
(* How a system call ends.                                                 *)

Has(fd) == fd \in Slot /\ allocated[fd]

Ends(w, r) ==
  /\ Bounded(w.host)
  /\ host' = w.host /\ streams' = w.streams /\ ret' = r

Refused(r) == Ends(World, r) /\ UNCHANGED <<status, allocated, files>>

InUse == UNCHANGED <<status, allocated, files>>  \* what I/O leaves alone

\* FdTable.alloc stops at the first slot that is free, if there is one
FirstFree(fd) == ~ allocated[fd] /\ \A x \in Slot : x < fd => allocated[x]
SomeFree == \E fd \in Slot : FirstFree(fd)
LowestFree == CHOOSE fd \in Slot : FirstFree(fd)

\* mutant: the slot is not released when file_new fails
OpenFails_KeepsSlot(h, r) ==
  /\ Ends([host |-> h, streams |-> streams], r)
  /\ allocated' = [allocated EXCEPT ![LowestFree] = TRUE]
  /\ UNCHANGED <<status, files>>

\* file_new failed, or the path could not be copied; the slot is released
OpenFails(h, r) ==
  Ends([host |-> h, streams |-> streams], r) /\ UNCHANGED <<status, allocated, files>>

(* The early returns of sys_openat: dirfd is not AT_FDCWD, or checkstr     *)
(* refuses the path.                                                       *)
sys_openat_refused == status = "run" /\ \E r \in {BADF, FAULT} : Refused(r)

(* sys_openat beyond them, and file_new.  fdopen may fail, and then the    *)
(* host's descriptor stays open.                                           *)
sys_openat(path, acc, flags) ==
  /\ status = "run"
  /\ \/ ~ SomeFree /\ Refused(NFILE)
     \/ /\ SomeFree
        /\ \E o \in hypOpen(host, path, acc, flags) :
             \/ o.r < 0 /\ OpenFails(o.host, o.r)
             \/ /\ o.r >= 0 /\ FdopenMayFail
                /\ host' = o.host /\ ret' = BADF
                /\ UNCHANGED <<status, allocated, files, streams>>
             \/ /\ o.r >= 0
                /\ host' = o.host /\ ret' = LowestFree
                /\ streams' = Append(streams, Stream(o.r, flags2cmode(acc)))
                /\ files' = [files EXCEPT ![LowestFree] = Len(streams) + 1]
                /\ allocated' = [allocated EXCEPT ![LowestFree] = TRUE]
                /\ UNCHANGED status

(* sys_close: the slot is released; the stream and the host's descriptor   *)
(* are not closed.                                                         *)
sys_close(fd) ==
  /\ status = "run"
  /\ \/ ~ Has(fd) /\ Refused(BADF)
     \/ /\ Has(fd)
        /\ Ends(World, 0)
        /\ allocated' = [allocated EXCEPT ![fd] = FALSE]
        /\ UNCHANGED <<status, files>>

(* sys_lseek: file_lseek is fseek, then ftell.                             *)
sys_lseek(fd, off, whence) ==
  /\ status = "run"
  /\ \/ ~ Has(fd) /\ Refused(BADF)
     \/ Has(fd) /\ InUse /\ \E o \in fseek(World, files[fd], off, whence) : Ends(o.w, o.r)

(* sys_read of n units into a buffer whose first good units are mapped:    *)
(* the loop faults at the first unit that is not, after it has consumed    *)
(* the units before it, unless the file ends first.  A buffer that         *)
(* checkptr refuses has good = -1.                                         *)
sys_read(fd, n, good) ==
  /\ status = "run"
  /\ \/ ~ Has(fd) /\ Refused(BADF)
     \/ Has(fd) /\ good < 0 /\ Refused(FAULT)
     \/ /\ Has(fd) /\ good >= 0 /\ InUse
        /\ \E o \in fread(World, files[fd], Least(n, good)) :
             Ends(o.w, IF good < n /\ o.r = good THEN FAULT ELSE o.r)

(* sys_write, and sys_writev, which is a sequence of them.                 *)
sys_write(fd, n, good) ==
  /\ status = "run"
  /\ \/ ~ Has(fd) /\ Refused(BADF)
     \/ Has(fd) /\ good < 0 /\ Refused(FAULT)
     \/ /\ Has(fd) /\ good >= 0 /\ InUse
        /\ \E w \in fwrite(World, files[fd], Least(n, good)) :
             Ends(w, IF good < n THEN FAULT ELSE n)

\* mutant: the position is not restored
ReadAt_NoRestore(w, d, n, offset) ==
  UNION {fread(a.w, d, n) : a \in fseek(w, d, offset, "SET")}

(* Remember the position, seek, read, seek back; no error is looked at.    *)
ReadAt(w, d, n, offset) ==
  UNION {UNION {UNION {{[w |-> z.w, r |-> c.r] :
    z \in fseek(c.w, d, a.r, "SET")} :
    c \in fread(b.w, d, n)} :
    b \in fseek(a.w, d, offset, "SET")} :
    a \in fseek(w, d, 0, "CUR")}

(* sys_pread64 reads straight into the user's buffer: if it is not mapped, *)
(* the first unit that arrives faults in the kernel, which panics.         *)
sys_pread64(fd, n, offset, buf) ==
  /\ status = "run"
  /\ \/ ~ Has(fd) /\ Refused(BADF)
     \/ Has(fd) /\ buf = "refused" /\ Refused(FAULT)
     \/ /\ Has(fd) /\ buf # "refused"
        /\ \E o \in ReadAt(World, files[fd], n, offset) :
             /\ Ends(o.w, o.r)
             /\ status' = IF buf = "mapped" \/ o.r = 0 THEN status ELSE "exit"
             /\ UNCHANGED <<allocated, files>>

(* The file part of map_vma_no_overlap: reads at most n units into the     *)
(* fresh mapping.                                                          *)
MmapFile(fd, n, offset) ==
  /\ status = "run"
  /\ Has(fd) /\ InUse
  /\ \E o \in ReadAt(World, files[fd], n, offset) : Ends(o.w, 0)

(* Only AT_EMPTY_PATH is supported; args tells what else is refused.       *)
sys_fstatat(args, fd) ==
  /\ status = "run"
  /\ \/ args = "flags" /\ Refused(INVAL)
     \/ args \in {"pathname", "statbuf"} /\ Refused(FAULT)
     \/ args = "ok" /\ ~ Has(fd) /\ Refused(BADF)
     \/ /\ args = "ok" /\ Has(fd)
        /\ \E o \in hypFstat(host, streams[files[fd]].hfd) :
             Refused(IF o.r < 0 THEN INVAL ELSE 0)

(* sys_exit of the only process: the scheduler exits through hypExit.      *)
sys_exit == /\ status = "run"
            /\ status' = "exit"
            /\ UNCHANGED <<host, allocated, files, streams, ret>>

Init ==
  /\ host = [NewContainer EXCEPT !.next = 3 + Booted]
  /\ status = "run"
  /\ streams = [d \in 1 .. 3 |-> Stream(d - 1, IF d = 1 THEN "r+" ELSE "w")]
  /\ files = [fd \in Slot |-> IF fd < 3 THEN fd + 1 ELSE 0]
  /\ allocated = [fd \in Slot |-> fd < 3]
  /\ ret = 0

Next ==
  \/ sys_openat_refused
  \/ \E p \in Paths, a \in Modes, flags \in OpenFlags : sys_openat(p, a, flags)
  \/ \E fd \in Fds : sys_close(fd)
  \/ \E args \in {"ok", "flags", "pathname", "statbuf"}, fd \in Fds : sys_fstatat(args, fd)
  \/ \E fd \in Fds, off \in {-1, 0, 1}, wh \in {"SET", "CUR", "END"} : sys_lseek(fd, off, wh)
  \/ \E fd \in Fds, n \in 0 .. MaxIo : \E good \in -1 .. n :
       sys_read(fd, n, good) \/ sys_write(fd, n, good)
  \/ \E fd \in Fds, off \in {-1, 0, 1}, buf \in Buffers : sys_pread64(fd, 1, off, buf)
  \/ \E fd \in Fds, off \in {-1, 0, 1} : MmapFile(fd, MaxIo, off)
  \/ sys_exit

Spec == Init /\ [][Next]_vars
-----------------------------------------------------------------------------
\* the step changes the position of fd
Moved(fd) ==
  Position([host |-> host', streams |-> streams'], files'[fd]) # Position(World, files[fd])

Backed(d) == d \in DOMAIN streams /\ Open(host, streams[d].hfd)

(* Every variable has its type: offsets on the host are never negative,    *)
(* and a slot refers to a stream that exists.                              *)
TypeOK ==
  /\ HostOK(host)
  /\ status \in {"run", "exit"}
  /\ allocated \in [Slot -> BOOLEAN]
  /\ files \in [Slot -> 0 .. Len(streams)]
  /\ streams \in Seq([hfd : Fd, mode : {"r+", "w"}, rbuf : 0 .. BUFSIZ, wbuf : 0 .. BUFSIZ])
  /\ ret \in Int

(* Through all three tables, a descriptor that user code holds leads to a  *)
(* file that is open on the host, and to one that no other descriptor      *)
(* leads to: slots of the process have different streams, and streams have *)
(* different descriptors of the host, however slots were reused.           *)
FdsBacked ==
  /\ \A fd \in Slot : allocated[fd] => Backed(files[fd])
  /\ \A a, b \in Slot : allocated[a] /\ allocated[b] /\ a # b => files[a] # files[b]
  /\ \A d, e \in DOMAIN streams : d # e => streams[d].hfd # streams[e].hfd

(* sys_openat allocates a slot before it knows whether the open succeeds:  *)
(* on every error path the slot is given back.                             *)
FailedOpenKeepsSlots == [][ret' < 0 => allocated' = allocated]_vars

(* pread64 and the file part of mmap borrow the position of the file and   *)
(* give it back, also when the stream had read ahead or held writes back,  *)
(* and when the seek to the offset fails.                                  *)
PositionRestored ==
  [][\A fd \in Slot :
       allocated[fd] /\ Moved(fd)
         => ~ \E off \in {-1, 0, 1} :
                \/ \E buf \in Buffers : sys_pread64(fd, 1, off, buf)
                \/ MmapFile(fd, MaxIo, off)]_vars

(* No system call moves the positions of two descriptors: they share       *)
(* neither a stream nor an offset on the host, also when both are open on  *)
(* the same file or one reuses the slot of another.                        *)
PositionsIndependent ==
  [][\A a \in Slot : allocated[a] /\ Moved(a)
       => \A b \in Slot \ {a} : allocated[b] => ~ Moved(b)]_vars
=============================================================================
