-------------------------- MODULE FileStackProofs --------------------------
(***************************************************************************)
(* Proofs about FileStack, for tables and buffers of any size and any      *)
(* files: which layers a system call leaves alone, and what it does to the *)
(* buffers and the position of the file it works on.                       *)
(* And about Container, the host's side of them, under any guest kernel.   *)
(***************************************************************************)
EXTENDS FileStack, Container, TLAPS

USE SMTT(60)

LEMMA SeqOfFunction ==
  ASSUME NEW S, NEW n \in Nat, NEW f \in [1 .. n -> S]
  PROVE  f \in Seq(S) /\ Len(f) = n
OBVIOUS

LEMMA SeqLen ==
  ASSUME NEW S, NEW s \in Seq(S)
  PROVE  Len(s) \in Nat /\ DOMAIN s = 1 .. Len(s) /\ s \in [1 .. Len(s) -> S]
OBVIOUS

(* A world in which every stream has a descriptor of the host.             *)
WorldOK(w) ==
  /\ DOMAIN w.host.tab = Fd
  /\ \E n \in Nat : DOMAIN w.streams = 1 .. n
  /\ w.streams = [e \in DOMAIN w.streams |-> w.streams[e]]
  /\ \A e \in DOMAIN w.streams : w.streams[e].hfd \in Fd

(* From host h to host g only the offset of fd may change.                 *)
OnlyFd(h, g, fd) ==
  /\ DOMAIN g.tab = Fd
  /\ g.next = h.next
  /\ \A f \in Fd : g.tab[f].acc = h.tab[f].acc /\ (f # fd => g.tab[f] = h.tab[f])

(* From world w to world x only stream d and its descriptor may change.    *)
Only(w, x, d) ==
  /\ WorldOK(x)
  /\ OnlyFd(w.host, x.host, w.streams[d].hfd)
  /\ DOMAIN x.streams = DOMAIN w.streams
  /\ \A e \in DOMAIN w.streams : /\ x.streams[e].hfd = w.streams[e].hfd
                                 /\ e # d => x.streams[e] = w.streams[e]
-----------------------------------------------------------------------------
(* The hypercalls on an open file.                                         *)
LEMMA AtOnly ==
  ASSUME NEW h, DOMAIN h.tab = Fd, NEW fd \in Fd, NEW off, NEW size
  PROVE  OnlyFd(h, At(h, fd, off, size), fd)
  BY DEF OnlyFd, At

LEMMA SameOnly ==
  ASSUME NEW h, DOMAIN h.tab = Fd, NEW fd
  PROVE  OnlyFd(h, h, fd)
  BY DEF OnlyFd

LEMMA ReadOnly ==
  ASSUME NEW h, DOMAIN h.tab = Fd, NEW fd \in Fd, NEW n, NEW o \in hypRead(h, fd, n)
  PROVE  OnlyFd(h, o.host, fd)
  BY AtOnly, SameOnly DEF hypRead, Fails, Result

LEMMA WriteOnly ==
  ASSUME NEW h, DOMAIN h.tab = Fd, NEW fd \in Fd, NEW n, NEW o \in hypWrite(h, fd, n)
  PROVE  OnlyFd(h, o.host, fd)
  BY AtOnly, SameOnly DEF hypWrite, Written, Fails, Result

LEMMA LseekOnly ==
  ASSUME NEW h, DOMAIN h.tab = Fd, NEW fd \in Fd, NEW off, NEW whence,
         NEW o \in hypLseek(h, fd, off, whence)
  PROVE  OnlyFd(h, o.host, fd)
<1> DEFINE to == off + (CASE whence = "SET" -> 0
                          [] whence = "CUR" -> h.tab[fd].off
                          [] whence = "END" -> h.size[h.tab[fd].path])
<1>1. o = Result(h, errFail) \/ o = Result(At(h, fd, to, h.size), to)
  BY Zenon DEF hypLseek, Fails
<1> HIDE DEF to
<1> QED
  BY <1>1, AtOnly, SameOnly DEF Result
-----------------------------------------------------------------------------
(* The streams.                                                            *)
LEMMA OnlyItself ==
  ASSUME NEW w, WorldOK(w), NEW d
  PROVE  Only(w, w, d)
  BY SameOnly, Zenon DEF Only, WorldOK

LEMMA OnlyTwice ==
  ASSUME NEW w, NEW x, NEW y, NEW d \in DOMAIN w.streams, Only(w, x, d), Only(x, y, d)
  PROVE  Only(w, y, d)
  BY DEF Only, OnlyFd

LEMMA InWorldOnly ==
  ASSUME NEW w, WorldOK(w), NEW d \in DOMAIN w.streams, NEW g, NEW rbuf, NEW wbuf,
         OnlyFd(w.host, g, w.streams[d].hfd)
  PROVE  Only(w, InWorld(w, g, d, rbuf, wbuf), d)
<1> DEFINE x == InWorld(w, g, d, rbuf, wbuf)
<1>1. x.host = g /\ DOMAIN x.streams = DOMAIN w.streams
  BY DEF InWorld
<1>2. x.streams = [e \in DOMAIN x.streams |-> x.streams[e]]
  BY DEF InWorld
<1>3. \A e \in DOMAIN w.streams : /\ x.streams[e].hfd = w.streams[e].hfd
                                  /\ e # d => x.streams[e] = w.streams[e]
  BY DEF InWorld
<1>4. WorldOK(x)
  BY <1>1, <1>2, <1>3 DEF WorldOK, OnlyFd
<1> HIDE DEF x
<1> QED
  BY <1>1, <1>3, <1>4 DEF Only, x

LEMMA SyncOnly ==
  ASSUME NEW w, WorldOK(w), NEW d \in DOMAIN w.streams, NEW x \in Sync(w, d)
  PROVE  Only(w, x, d)
<1>1. w.streams[d].hfd \in Fd /\ DOMAIN w.host.tab = Fd
  BY DEF WorldOK
<1>2. PICK o : /\ x = InWorld(w, o.host, d, 0, 0)
               /\ \/ o \in hypWrite(w.host, w.streams[d].hfd, w.streams[d].wbuf)
                  \/ o \in hypLseek(w.host, w.streams[d].hfd, 0 - w.streams[d].rbuf, "CUR")
                  \/ o = Result(w.host, 0)
  BY DEF Sync
<1>3. OnlyFd(w.host, o.host, w.streams[d].hfd)
  BY <1>1, <1>2, WriteOnly, LseekOnly, SameOnly DEF Result
<1> QED
  BY <1>2, <1>3, InWorldOnly

LEMMA SeekOnly ==
  ASSUME NEW w, WorldOK(w), NEW d \in DOMAIN w.streams, NEW off, NEW whence,
         NEW o \in fseek(w, d, off, whence)
  PROVE  Only(w, o.w, d)
<1>0. PICK x \in Sync(w, d) :
        \E q \in hypLseek(x.host, x.streams[d].hfd, off, whence) :
          o = [w |-> InWorld(x, q.host, d, 0, 0), r |-> q.r]
  BY DEF fseek
<1>1. PICK q \in hypLseek(x.host, x.streams[d].hfd, off, whence) :
        o = [w |-> InWorld(x, q.host, d, 0, 0), r |-> q.r]
  BY <1>0
<1>2. Only(w, x, d) /\ WorldOK(x) /\ d \in DOMAIN x.streams
  BY SyncOnly DEF Only
<1>3. x.streams[d].hfd \in Fd /\ DOMAIN x.host.tab = Fd
  BY <1>2 DEF WorldOK
<1>4. OnlyFd(x.host, q.host, x.streams[d].hfd)
  BY <1>3, LseekOnly
<1>5. Only(x, InWorld(x, q.host, d, 0, 0), d)
  BY <1>2, <1>4, InWorldOnly
<1>6. o.w = InWorld(x, q.host, d, 0, 0)
  BY <1>1
<1> QED
  BY <1>2, <1>5, <1>6, OnlyTwice

LEMMA FreadOnly ==
  ASSUME NEW w, WorldOK(w), NEW d \in DOMAIN w.streams, NEW n, NEW o \in fread(w, d, n)
  PROVE  Only(w, o.w, d)
<1>1. CASE o.w = w
  BY <1>1, OnlyItself
<1>2. CASE o.w # w
  <2>1. PICK x \in Sync(w, d) \cup {w}, k \in 0 .. BUFSIZ :
          \E q \in hypRead(x.host, x.streams[d].hfd, Greatest(0, n + k - x.streams[d].rbuf)) :
            o.w = InWorld(x, q.host, d, Greatest(0, x.streams[d].rbuf + q.r - n), 0)
    BY <1>2 DEF fread
  <2>2. PICK q \in hypRead(x.host, x.streams[d].hfd, Greatest(0, n + k - x.streams[d].rbuf)) :
          o.w = InWorld(x, q.host, d, Greatest(0, x.streams[d].rbuf + q.r - n), 0)
    BY <2>1
  <2>3. Only(w, x, d) /\ WorldOK(x) /\ d \in DOMAIN x.streams
    BY SyncOnly, OnlyItself DEF Only
  <2>4. x.streams[d].hfd \in Fd /\ DOMAIN x.host.tab = Fd
    BY <2>3 DEF WorldOK
  <2>5. OnlyFd(x.host, q.host, x.streams[d].hfd)
    BY <2>4, ReadOnly
  <2>6. Only(x, o.w, d)
    BY <2>2, <2>3, <2>5, InWorldOnly
  <2> QED
    BY <2>3, <2>6, OnlyTwice
<1> QED
  BY <1>1, <1>2

LEMMA FwriteOnly ==
  ASSUME NEW w, WorldOK(w), NEW d \in DOMAIN w.streams, NEW n, NEW y \in fwrite(w, d, n)
  PROVE  Only(w, y, d)
<1>0. PICK x \in Sync(w, d) \cup {w} :
        \E k : \E q \in hypWrite(x.host, x.streams[d].hfd, x.streams[d].wbuf + n - k) :
          y = InWorld(x, q.host, d, 0, k)
  BY DEF fwrite
<1>1. PICK k :
        \E q \in hypWrite(x.host, x.streams[d].hfd, x.streams[d].wbuf + n - k) :
          y = InWorld(x, q.host, d, 0, k)
  BY <1>0
<1>2. PICK q \in hypWrite(x.host, x.streams[d].hfd, x.streams[d].wbuf + n - k) :
        y = InWorld(x, q.host, d, 0, k)
  BY <1>1
<1>3. Only(w, x, d) /\ WorldOK(x) /\ d \in DOMAIN x.streams
  BY SyncOnly, OnlyItself DEF Only
<1>4. x.streams[d].hfd \in Fd /\ DOMAIN x.host.tab = Fd
  BY <1>3 DEF WorldOK
<1>5. OnlyFd(x.host, q.host, x.streams[d].hfd)
  BY <1>4, WriteOnly
<1>6. Only(x, y, d)
  BY <1>2, <1>3, <1>5, InWorldOnly
<1> QED
  BY <1>3, <1>6, OnlyTwice

LEMMA ReadAtOnly ==
  ASSUME NEW w, WorldOK(w), NEW d \in DOMAIN w.streams, NEW n, NEW offset,
         NEW o \in ReadAt(w, d, n, offset)
  PROVE  Only(w, o.w, d)
<1>1. PICK a \in fseek(w, d, 0, "CUR") : \E b \in fseek(a.w, d, offset, "SET") :
        \E c \in fread(b.w, d, n) : \E z \in fseek(c.w, d, a.r, "SET") : o = [w |-> z.w, r |-> c.r]
  BY DEF ReadAt
<1>2. PICK b \in fseek(a.w, d, offset, "SET") :
        \E c \in fread(b.w, d, n) : \E z \in fseek(c.w, d, a.r, "SET") : o = [w |-> z.w, r |-> c.r]
  BY <1>1
<1>3. PICK c \in fread(b.w, d, n) : \E z \in fseek(c.w, d, a.r, "SET") : o = [w |-> z.w, r |-> c.r]
  BY <1>2
<1>4. PICK z \in fseek(c.w, d, a.r, "SET") : o = [w |-> z.w, r |-> c.r]
  BY <1>3
<1>5. Only(w, a.w, d) /\ WorldOK(a.w) /\ d \in DOMAIN a.w.streams
  BY SeekOnly DEF Only
<1>6. Only(a.w, b.w, d) /\ WorldOK(b.w) /\ d \in DOMAIN b.w.streams
  BY <1>5, SeekOnly DEF Only
<1>7. Only(b.w, c.w, d) /\ WorldOK(c.w) /\ d \in DOMAIN c.w.streams
  BY <1>6, FreadOnly DEF Only
<1>8. Only(c.w, z.w, d)
  BY <1>7, SeekOnly
<1>9. Only(w, b.w, d)
  BY <1>5, <1>6, OnlyTwice
<1>10. Only(w, c.w, d)
  BY <1>7, <1>9, OnlyTwice
<1>11. Only(w, z.w, d)
  BY <1>8, <1>10, OnlyTwice
<1> QED
  BY <1>4, <1>11
-----------------------------------------------------------------------------
(* The inductive invariant.  FdsBacked is not inductive: that a new stream *)
(* shares its host descriptor with no other needs every stream, those of   *)
(* released slots included, to have a number below nextfd.                 *)
FInv ==
  /\ WorldOK(World)
  /\ 1 \in DOMAIN streams
  /\ host.next \in 3 .. fdMax
  /\ allocated \in [Slot -> BOOLEAN]
  /\ DOMAIN files = Slot
  /\ \A d \in DOMAIN streams : streams[d].hfd < host.next /\ Open(host, streams[d].hfd)
  /\ \A d, e \in DOMAIN streams : d # e => streams[d].hfd # streams[e].hfd
  /\ \A fd \in Slot : allocated[fd] => files[fd] \in DOMAIN streams
  /\ \A a, b \in Slot : allocated[a] /\ allocated[b] /\ a # b => files[a] # files[b]

(* A step that opens nothing: at most one stream and its descriptor        *)
(* change, and at most one slot is released.                               *)
Uses ==
  /\ files' = files
  /\ allocated' \in [Slot -> BOOLEAN]
  /\ \A fd \in Slot : allocated'[fd] => allocated[fd]
  /\ ret' < 0 => allocated' = allocated
  /\ \E d \in DOMAIN streams : Only(World, World', d)

(* hypOpen fails, perhaps after the file was opened, or enters the file.   *)
LEMMA OpenOutcome ==
  ASSUME NEW h, h.next \in Nat, NEW path, NEW acc, NEW flags, NEW o \in hypOpen(h, path, acc, flags)
  PROVE  \/ /\ o.r = errFail
            /\ o.host = h \/ (o.host = OpenedFile(h, path, flags) /\ h.next >= fdMax)
         \/ /\ o.r = h.next /\ h.next < fdMax
            /\ o.host = addFile(OpenedFile(h, path, flags), path, acc)
  BY HypercallConstants DEF hypOpen, Fails, Result

LEMMA OpenedKeeps ==
  ASSUME NEW h, NEW path, NEW flags
  PROVE  OpenedFile(h, path, flags).tab = h.tab /\ OpenedFile(h, path, flags).next = h.next
  BY DEF OpenedFile

LEMMA OpenedOK ==
  ASSUME NEW h, HostOK(h), NEW path \in Paths, NEW flags
  PROVE  HostOK(OpenedFile(h, path, flags))
<1> DEFINE g == OpenedFile(h, path, flags)
<1>1. /\ g = [tab |-> g.tab, next |-> g.next, made |-> g.made, size |-> g.size]
      /\ g.made = h.made \cup {path}
      /\ g.size = IF "O_TRUNC" \in flags THEN [h.size EXCEPT ![path] = 0] ELSE h.size
  BY DEF OpenedFile
<1>2. g.tab = h.tab /\ g.next = h.next
  BY OpenedKeeps
<1> HIDE DEF g
<1>3. g.size \in [Paths -> Nat] /\ g.made \subseteq Paths
  BY <1>1 DEF HostOK
<1>4. HostOK(g)
  BY <1>1, <1>2, <1>3 DEF HostOK
<1> QED
  BY <1>4 DEF g

(* A step that opens a file on the host, with a stream and a slot, or      *)
(* without when fdopen fails.                                              *)
Opens(path, acc, flags) ==
  /\ acc \in Acc
  /\ host.next < fdMax
  /\ host' = addFile(OpenedFile(host, path, flags), path, acc)
  /\ \/ UNCHANGED <<allocated, files, streams>>
     \/ /\ SomeFree
        /\ ret' = LowestFree
        /\ streams' = Append(streams, Stream(host.next, flags2cmode(acc)))
        /\ files' = [files EXCEPT ![LowestFree] = Len(streams) + 1]
        /\ allocated' = [allocated EXCEPT ![LowestFree] = TRUE]

LEMMA StreamsSeq ==
  ASSUME FInv
  PROVE  /\ Len(streams) \in Nat /\ DOMAIN streams = 1 .. Len(streams)
         /\ \A s : /\ DOMAIN Append(streams, s) = 1 .. Len(streams) + 1
                   /\ Append(streams, s)[Len(streams) + 1] = s
                   /\ \A d \in DOMAIN streams : Append(streams, s)[d] = streams[d]
                   /\ Append(streams, s) = [d \in DOMAIN Append(streams, s) |-> Append(streams, s)[d]]
<1>1. PICK n \in Nat : DOMAIN streams = 1 .. n
  BY DEF FInv, WorldOK, World
<1>2. streams = [d \in 1 .. n |-> streams[d]]
  BY <1>1 DEF FInv, WorldOK, World
<1>3. ASSUME NEW s
      PROVE  LET S == {streams[d] : d \in 1 .. n} \cup {s}
             IN  streams \in Seq(S) /\ s \in S
  <2> DEFINE S == {streams[d] : d \in 1 .. n} \cup {s}
  <2>1. streams \in [1 .. n -> S]
    BY <1>2
  <2> HIDE DEF S
  <2>2. streams \in Seq(S)
    BY <2>1, SeqOfFunction
  <2> QED
    BY <2>2 DEF S
<1>4. ASSUME NEW s
      PROVE  /\ DOMAIN Append(streams, s) = 1 .. Len(streams) + 1
             /\ Append(streams, s)[Len(streams) + 1] = s
             /\ \A d \in DOMAIN streams : Append(streams, s)[d] = streams[d]
             /\ Append(streams, s) = [d \in DOMAIN Append(streams, s) |-> Append(streams, s)[d]]
             /\ Len(streams) \in Nat /\ DOMAIN streams = 1 .. Len(streams)
  <2> DEFINE S == {streams[d] : d \in 1 .. n} \cup {s}
  <2>1. streams \in Seq(S) /\ s \in S
    BY <1>3, Zenon
  <2> HIDE DEF S
  <2>2. Append(streams, s) \in Seq(S)
    BY <2>1
  <2>3. Append(streams, s) = [d \in DOMAIN Append(streams, s) |-> Append(streams, s)[d]]
    BY <2>2, SeqLen, Zenon
  <2>4. /\ DOMAIN Append(streams, s) = 1 .. Len(streams) + 1
        /\ Append(streams, s)[Len(streams) + 1] = s
        /\ \A d \in DOMAIN streams : Append(streams, s)[d] = streams[d]
    BY <2>1
  <2>5. Len(streams) \in Nat /\ DOMAIN streams = 1 .. Len(streams)
    BY <2>1
  <2> QED
    BY <2>3, <2>4, <2>5
<1> QED
  BY <1>4

LEMMA LowestFreeIsFree ==
  ASSUME SomeFree
  PROVE  LowestFree \in Slot /\ ~ allocated[LowestFree]
<1>1. LowestFree \in Slot /\ FirstFree(LowestFree)
  BY Zenon DEF SomeFree, LowestFree
<1> QED
  BY <1>1, Zenon DEF FirstFree

LEMMA RefusedUses ==
  ASSUME FInv, NEW r, Refused(r)
  PROVE  Uses
<1>1. Only(World, World, 1)
  BY OnlyItself DEF FInv
<1>2. World' = World
  BY DEF Refused, Ends, World
<1> QED
  BY <1>1, <1>2 DEF FInv, Uses, Refused

LEMMA IoUses ==
  ASSUME FInv, NEW fd, Has(fd), NEW w, NEW r, Only(World, w, files[fd]), Ends(w, r),
         UNCHANGED <<allocated, files>>
  PROVE  Uses
<1>1. World' = [host |-> w.host, streams |-> w.streams]
  BY DEF Ends, World
<1>2. Only(World, World', files[fd])
  BY <1>1, Zenon DEF Only, WorldOK
<1> QED
  BY <1>2 DEF FInv, Uses, Has

(* A failing open may have created or truncated the file, no more.         *)
LEMMA OpenFailsUses ==
  ASSUME FInv, NEW path, NEW acc, NEW flags, NEW o \in hypOpen(host, path, acc, flags), o.r < 0,
         OpenFails(o.host, o.r)
  PROVE  Uses
<1>1. host.next \in Nat /\ WorldOK(World) /\ 1 \in DOMAIN streams
  BY HypercallConstants DEF FInv
<1>2. o.host.tab = host.tab /\ o.host.next = host.next
  BY <1>1, OpenOutcome, OpenedKeeps
<1>3. /\ World' = [host |-> o.host, streams |-> streams]
      /\ files' = files /\ allocated' = allocated /\ streams' = streams
  BY DEF OpenFails, Ends, World
<1>4. WorldOK(World')
  BY <1>1, <1>2, <1>3, Zenon DEF WorldOK, World
<1>5. Only(World, World', 1)
  BY <1>1, <1>2, <1>3, <1>4 DEF Only, OnlyFd, WorldOK, World
<1> QED
  BY <1>1, <1>3, <1>5 DEF FInv, Uses

LEMMA OpenKind ==
  ASSUME FInv, NEW path, NEW acc \in Acc, NEW flags, sys_openat(path, acc, flags)
  PROVE  Uses \/ Opens(path, acc, flags)
<1>1. CASE \E r : Refused(r)
  BY <1>1, RefusedUses
<1>2. CASE ~ \E r : Refused(r)
  <2>1. PICK o \in hypOpen(host, path, acc, flags) :
          /\ SomeFree
          /\ \/ o.r < 0 /\ OpenFails(o.host, o.r)
             \/ /\ o.r >= 0 /\ host' = o.host
                /\ UNCHANGED <<allocated, files, streams>>
             \/ /\ o.r >= 0
                /\ host' = o.host /\ ret' = LowestFree
                /\ streams' = Append(streams, Stream(o.r, flags2cmode(acc)))
                /\ files' = [files EXCEPT ![LowestFree] = Len(streams) + 1]
                /\ allocated' = [allocated EXCEPT ![LowestFree] = TRUE]
    BY <1>2 DEF sys_openat
  <2>2. CASE o.r < 0 /\ OpenFails(o.host, o.r)
    BY <2>2, OpenFailsUses
  <2>3. CASE ~ (o.r < 0 /\ OpenFails(o.host, o.r))
    <3>1. o.r >= 0
      BY <2>1, <2>3, Zenon
    <3>2. host.next \in Nat
      BY HypercallConstants DEF FInv
    <3>3. /\ host.next < fdMax /\ o.r = host.next
          /\ o.host = addFile(OpenedFile(host, path, flags), path, acc)
      BY <3>1, <3>2, OpenOutcome DEF errFail
    <3>4. CASE UNCHANGED <<allocated, files, streams>>
      BY <2>1, <2>3, <3>3, <3>4 DEF Opens
    <3>5. CASE ~ UNCHANGED <<allocated, files, streams>>
      BY <2>1, <2>3, <3>3, <3>5 DEF Opens
    <3> QED
      BY <3>4, <3>5
  <2> QED
    BY <2>2, <2>3
<1> QED
  BY <1>1, <1>2

LEMMA CloseUses == ASSUME FInv, NEW fd, sys_close(fd) PROVE Uses
<1>1. CASE Refused(BADF)
  BY <1>1, RefusedUses
<1>2. CASE ~ Refused(BADF)
  <2>1. /\ Has(fd) /\ World' = World /\ ret' = 0 /\ files' = files
        /\ allocated' = [allocated EXCEPT ![fd] = FALSE]
    BY <1>2 DEF sys_close, Ends, World
  <2>2. Only(World, World, 1)
    BY OnlyItself DEF FInv
  <2> QED
    BY <2>1, <2>2 DEF FInv, Uses, Has
<1> QED
  BY <1>1, <1>2

(* One case per system call.                                               *)
LEMMA StepKind ==
  ASSUME FInv, Next, vars' # vars
  PROVE  Uses \/ \E path, acc, flags : Opens(path, acc, flags)
<1>0. /\ WorldOK(World)
      /\ \A fd : Has(fd) => files[fd] \in DOMAIN World.streams
  BY DEF FInv, Has, World
<1>1. CASE sys_openat_refused \/ \E p \in Paths, a \in Modes, flags \in OpenFlags : sys_openat(p, a, flags)
  BY <1>1, OpenKind, RefusedUses, FileStackConstants DEF sys_openat_refused
<1>2. CASE \E fd \in Fds : sys_close(fd)
  BY <1>2, CloseUses
<1>3. CASE \E args \in {"ok", "flags", "pathname", "statbuf"}, fd \in Fds : sys_fstatat(args, fd)
  BY <1>3, RefusedUses DEF sys_fstatat
<1>4. ASSUME NEW fd, NEW off, NEW wh, sys_lseek(fd, off, wh) PROVE Uses
  <2>1. CASE Refused(BADF)
    BY <2>1, RefusedUses
  <2>2. CASE ~ Refused(BADF)
    <3>1. PICK o \in fseek(World, files[fd], off, wh) : Ends(o.w, o.r)
      BY <1>4, <2>2 DEF sys_lseek
    <3>2. Has(fd) /\ UNCHANGED <<allocated, files>>
      BY <1>4, <2>2 DEF sys_lseek, InUse
    <3>3. Only(World, o.w, files[fd])
      BY <1>0, <3>2, SeekOnly
    <3> QED
      BY <3>1, <3>2, <3>3, IoUses
  <2> QED
    BY <2>1, <2>2
<1>5. ASSUME NEW fd, NEW n, NEW good, sys_read(fd, n, good) PROVE Uses
  <2>1. CASE \E r : Refused(r)
    BY <2>1, RefusedUses
  <2>2. CASE ~ \E r : Refused(r)
    <3>1. PICK o \in fread(World, files[fd], Least(n, good)) :
            Ends(o.w, IF good < n /\ o.r = good THEN FAULT ELSE o.r)
      BY <1>5, <2>2 DEF sys_read
    <3>2. Has(fd) /\ UNCHANGED <<allocated, files>>
      BY <1>5, <2>2 DEF sys_read, InUse
    <3>3. Only(World, o.w, files[fd])
      BY <1>0, <3>2, FreadOnly
    <3> QED
      BY <3>1, <3>2, <3>3, IoUses
  <2> QED
    BY <2>1, <2>2
<1>6. ASSUME NEW fd, NEW n, NEW good, sys_write(fd, n, good) PROVE Uses
  <2>1. CASE \E r : Refused(r)
    BY <2>1, RefusedUses
  <2>2. CASE ~ \E r : Refused(r)
    <3>1. PICK w \in fwrite(World, files[fd], Least(n, good)) :
            Ends(w, IF good < n THEN FAULT ELSE n)
      BY <1>6, <2>2 DEF sys_write
    <3>2. Has(fd) /\ UNCHANGED <<allocated, files>>
      BY <1>6, <2>2 DEF sys_write, InUse
    <3>3. Only(World, w, files[fd])
      BY <1>0, <3>2, FwriteOnly
    <3> QED
      BY <3>1, <3>2, <3>3, IoUses
  <2> QED
    BY <2>1, <2>2
<1>7. ASSUME NEW fd, NEW off, NEW buf, sys_pread64(fd, 1, off, buf) PROVE Uses
  <2>1. CASE \E r : Refused(r)
    BY <2>1, RefusedUses
  <2>2. CASE ~ \E r : Refused(r)
    <3>1. Has(fd) /\ \E o \in ReadAt(World, files[fd], 1, off) :
            Ends(o.w, o.r) /\ UNCHANGED <<allocated, files>>
      BY <1>7, <2>2 DEF sys_pread64
    <3>2. PICK o \in ReadAt(World, files[fd], 1, off) :
            Ends(o.w, o.r) /\ UNCHANGED <<allocated, files>>
      BY <3>1
    <3>3. Only(World, o.w, files[fd])
      BY <1>0, <3>1, ReadAtOnly
    <3> QED
      BY <3>1, <3>2, <3>3, IoUses
  <2> QED
    BY <2>1, <2>2
<1>8. ASSUME NEW fd, NEW off, MmapFile(fd, MaxIo, off) PROVE Uses
  <2>1. PICK o \in ReadAt(World, files[fd], MaxIo, off) : Ends(o.w, 0)
    BY <1>8 DEF MmapFile
  <2>2. Has(fd) /\ UNCHANGED <<allocated, files>>
    BY <1>8 DEF MmapFile, InUse
  <2>3. Only(World, o.w, files[fd])
    BY <1>0, <2>2, ReadAtOnly
  <2> QED
    BY <2>1, <2>2, <2>3, IoUses
<1>9. CASE sys_exit
  <2>1. Only(World, World, 1)
    BY OnlyItself DEF FInv
  <2>2. World' = World /\ UNCHANGED <<allocated, files>>
    BY <1>9 DEF sys_exit, World
  <2> QED
    BY <2>1, <2>2 DEF FInv, Uses
<1> QED
  BY <1>1, <1>2, <1>3, <1>4, <1>5, <1>6, <1>7, <1>8, <1>9 DEF Next
-----------------------------------------------------------------------------
LEMMA UsesInv == ASSUME FInv, Uses PROVE FInv'
<1>1. PICK d \in DOMAIN streams : Only(World, World', d)
  BY DEF Uses
<1>2. /\ WorldOK(World)'
      /\ DOMAIN streams' = DOMAIN streams
      /\ \A e \in DOMAIN streams : streams'[e].hfd = streams[e].hfd
  BY <1>1 DEF Only, World
<1>3. host'.next = host.next /\ \A f \in Fd : host'.tab[f].acc = host.tab[f].acc
  BY <1>1 DEF Only, OnlyFd, World
<1>4. \A e \in DOMAIN streams' : streams'[e].hfd < host'.next /\ Open(host', streams'[e].hfd)
  BY <1>2, <1>3, Zenon DEF FInv, Open
<1> QED
  BY <1>2, <1>3, <1>4, Zenon DEF FInv, Uses

(* The new host descriptor is the only one that changes.                   *)
LEMMA OpensHost ==
  ASSUME FInv, NEW path, NEW acc, NEW flags, Opens(path, acc, flags)
  PROVE  /\ host'.next = host.next + 1 /\ host'.next \in 3 .. fdMax
         /\ DOMAIN host'.tab = Fd
         /\ host.next \in Fd /\ Open(host', host.next)
         /\ \A f \in Fd : f # host.next => host'.tab[f] = host.tab[f]
<1>1. host.next \in 3 .. fdMax /\ host.next < fdMax /\ host.next \in Fd /\ DOMAIN host.tab = Fd
  BY HypercallConstants DEF FInv, Opens, Fd, WorldOK, World
<1>2. acc # "none"
  BY DEF Opens, Acc
<1>3. /\ host'.next = host.next + 1
      /\ host'.tab = [host.tab EXCEPT ![host.next] = [path |-> path, acc |-> acc, off |-> 0]]
  BY OpenedKeeps DEF Opens, addFile
<1> QED
  BY <1>1, <1>2, <1>3, HypercallConstants DEF Open

(* What the guest already held stays as it is.                             *)
LEMMA OpensKeeps ==
  ASSUME FInv, NEW path, NEW acc, NEW flags, Opens(path, acc, flags)
  PROVE  /\ \A d \in DOMAIN streams :
              /\ d \in DOMAIN streams' /\ streams'[d] = streams[d]
              /\ host'.tab[streams[d].hfd] = host.tab[streams[d].hfd]
         /\ \A fd \in Slot : allocated[fd] => files'[fd] = files[fd]
         /\ ret' < 0 => allocated' = allocated
<1>1. \A d \in DOMAIN streams : streams[d].hfd \in Fd /\ streams[d].hfd # host.next
  BY DEF FInv, WorldOK, World, Fd
<1>2. \A d \in DOMAIN streams : host'.tab[streams[d].hfd] = host.tab[streams[d].hfd]
  BY <1>1, OpensHost
<1>3. CASE UNCHANGED <<allocated, files, streams>>
  BY <1>2, <1>3
<1>4. CASE ~ UNCHANGED <<allocated, files, streams>>
  <2>1. LowestFree \in Slot /\ ~ allocated[LowestFree] /\ ret' = LowestFree
    BY <1>4, LowestFreeIsFree DEF Opens
  <2>2. ~ (ret' < 0)
    BY <2>1, FileStackConstants DEF Slot
  <2>3. \A d \in DOMAIN streams : d \in DOMAIN streams' /\ streams'[d] = streams[d]
    BY <1>4, StreamsSeq DEF Opens
  <2>4. \A fd \in Slot : allocated[fd] => files'[fd] = files[fd]
    BY <1>4, <2>1, Zenon DEF Opens, FInv
  <2> QED
    BY <1>2, <2>2, <2>3, <2>4
<1> QED
  BY <1>3, <1>4

LEMMA OpensBacked ==
  ASSUME FInv, NEW path, NEW acc, NEW flags, Opens(path, acc, flags), NEW d \in DOMAIN streams
  PROVE  /\ streams[d].hfd \in Fd /\ streams[d].hfd < host'.next
         /\ Open(host', streams[d].hfd)
<1>1. streams[d].hfd \in Fd /\ streams[d].hfd < host.next /\ Open(host, streams[d].hfd)
  BY DEF FInv, Open
<1>2. host'.tab[streams[d].hfd] = host.tab[streams[d].hfd]
  BY OpensKeeps
<1>3. host.next \in Int /\ host'.next = host.next + 1 /\ streams[d].hfd \in Int
  BY <1>1, OpensHost DEF FInv, Fd
<1> QED
  BY <1>1, <1>2, <1>3 DEF Open

LEMMA OpensInv == ASSUME FInv, NEW path, NEW acc, NEW flags, Opens(path, acc, flags) PROVE FInv'
<1>1. CASE UNCHANGED <<allocated, files, streams>>
  <2>1. WorldOK(World)'
    BY <1>1, OpensHost, Zenon DEF FInv, WorldOK, World
  <2>2. \A d \in DOMAIN streams : streams[d].hfd < host'.next /\ Open(host', streams[d].hfd)
    BY OpensBacked, Zenon
  <2> QED
    BY <1>1, <2>1, <2>2, OpensHost, Zenon DEF FInv
<1>2. CASE ~ UNCHANGED <<allocated, files, streams>>
  <2> DEFINE new == Len(streams) + 1
  <2>1. /\ streams' = Append(streams, Stream(host.next, flags2cmode(acc)))
        /\ files' = [files EXCEPT ![LowestFree] = new]
        /\ allocated' = [allocated EXCEPT ![LowestFree] = TRUE]
        /\ LowestFree \in Slot /\ ~ allocated[LowestFree]
    BY <1>2, LowestFreeIsFree DEF Opens
  <2>2. /\ Len(streams) \in Nat /\ DOMAIN streams = 1 .. Len(streams)
        /\ DOMAIN streams' = 1 .. new
        /\ streams'[new].hfd = host.next
        /\ \A d \in DOMAIN streams : streams'[d] = streams[d]
        /\ streams' = [d \in DOMAIN streams' |-> streams'[d]]
    BY <2>1, StreamsSeq DEF Stream
  <2>3. \A d \in DOMAIN streams' : d = new \/ d \in DOMAIN streams
    BY <2>2
  <2>4. new \notin DOMAIN streams /\ new \in Nat /\ new \in DOMAIN streams'
        /\ DOMAIN streams \subseteq DOMAIN streams'
    BY <2>2
  <2> HIDE DEF new
  <2>5. \A d \in DOMAIN streams' : /\ streams'[d].hfd \in Fd /\ streams'[d].hfd < host'.next
                                   /\ Open(host', streams'[d].hfd)
    <3>1. host.next \in Fd /\ host.next < host'.next /\ Open(host', host.next)
      BY OpensHost DEF FInv
    <3> QED
      BY <2>2, <2>3, <3>1, OpensBacked
  <2>6. WorldOK(World)'
    BY <2>2, <2>4, <2>5, OpensHost DEF WorldOK, World
  <2>7. \A d \in DOMAIN streams : streams[d].hfd # host.next
    BY DEF FInv, Open, Fd
  <2>8. \A d, e \in DOMAIN streams' : d # e => streams'[d].hfd # streams'[e].hfd
    BY <2>2, <2>3, <2>7 DEF FInv
  <2>9. allocated' \in [Slot -> BOOLEAN] /\ DOMAIN files' = Slot /\ files'[LowestFree] = new
        /\ \A fd \in Slot : fd # LowestFree => files'[fd] = files[fd] /\ allocated'[fd] = allocated[fd]
    BY <2>1 DEF FInv
  <2>10. \A fd \in Slot : allocated'[fd] => files'[fd] \in DOMAIN streams'
    BY <2>4, <2>9 DEF FInv
  <2>11. \A a, b \in Slot : allocated'[a] /\ allocated'[b] /\ a # b => files'[a] # files'[b]
    BY <2>4, <2>9 DEF FInv
  <2> QED
    BY <2>4, <2>5, <2>6, <2>8, <2>9, <2>10, <2>11, OpensHost, Zenon DEF FInv
<1> QED
  BY <1>1, <1>2
-----------------------------------------------------------------------------
LEMMA FInit == Init => FInv
<1> SUFFICES ASSUME Init PROVE FInv
  OBVIOUS
<1>1. /\ streams = [d \in 1 .. 3 |-> Stream(d - 1, IF d = 1 THEN "r+" ELSE "w")]
      /\ DOMAIN streams = 1 .. 3
      /\ \A d \in 1 .. 3 : streams[d].hfd = d - 1
  BY DEF Init, Stream
<1>2. /\ host.next = 3 + Booted
      /\ host.tab = [fd \in Fd |-> IF fd < 3 THEN Std ELSE NoFile]
  BY Zenon DEF Init, NewContainer
<1>3. host.next \in 3 .. fdMax /\ host.next > 3 /\ 0 .. 2 \subseteq Fd
  BY <1>2, HypercallConstants, FileStackConstants DEF Fd
<1>4. \A d \in 1 .. 3 : d - 1 \in 0 .. 2 /\ d - 1 \in Fd /\ d - 1 < host.next /\ Open(host, d - 1)
  BY <1>2, <1>3 DEF Open, Std
<1>5. WorldOK(World)
  BY <1>1, <1>2, <1>4 DEF WorldOK, World
<1>6. /\ files = [fd \in Slot |-> IF fd < 3 THEN fd + 1 ELSE 0]
      /\ allocated = [fd \in Slot |-> fd < 3]
  BY DEF Init
<1>7. \A fd \in Slot : fd \in Nat /\ (allocated[fd] => fd < 3 /\ files[fd] = fd + 1)
  <2>1. \A fd \in Slot : allocated[fd] => fd < 3
    BY <1>6, Zenon
  <2>2. \A fd \in Slot : fd < 3 => files[fd] = fd + 1
    BY <1>6
  <2>3. \A fd \in Slot : fd \in Nat
    BY FileStackConstants DEF Slot
  <2> QED
    BY <2>1, <2>2, <2>3
<1>8. allocated \in [Slot -> BOOLEAN] /\ DOMAIN files = Slot
  BY <1>6
<1>9. /\ \A fd \in Slot : allocated[fd] => files[fd] \in DOMAIN streams
      /\ \A a, b \in Slot : allocated[a] /\ allocated[b] /\ a # b => files[a] # files[b]
  BY <1>1, <1>7
<1> QED
  BY <1>1, <1>3, <1>4, <1>5, <1>8, <1>9 DEF FInv

LEMMA FStep == FInv /\ [Next]_vars => FInv'
<1>1. ASSUME FInv, vars' = vars PROVE FInv'
  BY <1>1 DEF vars, FInv, World, WorldOK, Open
<1>2. ASSUME FInv, Next, vars' # vars PROVE FInv'
  BY <1>2, StepKind, UsesInv, OpensInv
<1> QED
  BY <1>1, <1>2

LEMMA FInvariant == Spec => []FInv
  BY FInit, FStep, PTL DEF Spec

(* Whatever user code opens, closes, reads, writes and seeks, every        *)
(* descriptor it holds leads through the table of the process (file.d) and *)
(* a stream to an open descriptor of the host (hypercall.go) that no other *)
(* descriptor leads to.                                                    *)
THEOREM FdsAlwaysBacked == Spec => []FdsBacked
<1>1. FInv => FdsBacked
  BY DEF FInv, FdsBacked, Backed
<1> QED
  BY <1>1, FInvariant, PTL

(* No error path of sys_openat, or of any other system call, keeps a slot  *)
(* of the descriptor table that the call took, or releases another one.    *)
THEOREM FailedOpenAlwaysKeepsSlots == Spec => FailedOpenKeepsSlots
<1>1. FInv /\ [Next]_vars => [ret' < 0 => allocated' = allocated]_vars
  BY StepKind, OpensKeeps, Zenon DEF Uses
<1> QED
  BY <1>1, FInvariant, PTL DEF Spec, FailedOpenKeepsSlots

(* No system call moves the positions of two descriptors: what it does to  *)
(* a stream and to the host's offset stays within the chain of tables of   *)
(* one descriptor, and opening a file moves none.                          *)
THEOREM PositionsAlwaysIndependent == Spec => PositionsIndependent
<1> DEFINE OneMoves ==
      \A a \in Slot : allocated[a] /\ Moved(a)
        => \A b \in Slot \ {a} : allocated[b] => ~ Moved(b)
<1>1. ASSUME FInv, Uses PROVE OneMoves
  <2>1. PICK d \in DOMAIN streams : Only(World, World', d)
    BY <1>1 DEF Uses
  <2>2. ASSUME NEW a \in Slot, allocated[a], files[a] # d PROVE ~ Moved(a)
    <3>1. files[a] \in DOMAIN streams /\ files' = files
      BY <1>1, <2>2, Zenon DEF FInv, Uses
    <3>2. streams'[files[a]] = streams[files[a]]
      BY <2>1, <2>2, <3>1, Zenon DEF Only, World
    <3>3. streams[files[a]].hfd \in Fd /\ streams[files[a]].hfd # streams[d].hfd
      BY <1>1, <2>2, <3>1, Zenon DEF FInv, Open
    <3>4. host'.tab[streams[files[a]].hfd] = host.tab[streams[files[a]].hfd]
      BY <2>1, <3>3, Zenon DEF Only, OnlyFd, World
    <3> QED
      BY <3>1, <3>2, <3>4, Zenon DEF Moved, Position, World
  <2>3. \A a, b \in Slot : allocated[a] /\ allocated[b] /\ files[a] = d /\ files[b] = d => a = b
    BY <1>1 DEF FInv
  <2> QED
    BY <2>2, <2>3
<1>2. ASSUME FInv, NEW path, NEW acc, NEW flags, Opens(path, acc, flags) PROVE OneMoves
  <2>1. ASSUME NEW a \in Slot, allocated[a] PROVE ~ Moved(a)
    <3>1. files[a] \in DOMAIN streams
      BY <1>2, <2>1, Zenon DEF FInv
    <3>2. /\ files'[a] = files[a] /\ streams'[files[a]] = streams[files[a]]
          /\ host'.tab[streams[files[a]].hfd] = host.tab[streams[files[a]].hfd]
      BY <1>2, <2>1, <3>1, OpensKeeps
    <3> QED
      BY <3>2, Zenon DEF Moved, Position, World
  <2> QED
    BY <2>1
<1> HIDE DEF OneMoves
<1>3. FInv /\ [Next]_vars => [OneMoves]_vars
  BY <1>1, <1>2, StepKind
<1>4. Spec => [][OneMoves]_vars
  BY <1>3, FInvariant, PTL DEF Spec
<1> QED
  BY <1>4 DEF PositionsIndependent, OneMoves

-----------------------------------------------------------------------------
(* What the streams hold in their buffers.  To give a position back, a     *)
(* seek must not fail: a stream never has read ahead more than the offset  *)
(* of its descriptor, it never reads ahead and holds writes back at once,  *)
(* and the standard streams do neither.                                    *)
StreamType == [hfd : Fd, mode : {"r+", "w"}, rbuf : 0 .. BUFSIZ, wbuf : 0 .. BUFSIZ]

Fit(w, d) ==
  LET s == w.streams[d]
      f == w.host.tab[s.hfd]
  IN  /\ HostOK(w.host)
      /\ s \in StreamType
      /\ Open(w.host, s.hfd)
      /\ s.rbuf <= f.off
      /\ s.rbuf = 0 \/ s.wbuf = 0
      /\ f.acc = "std" => s.rbuf = 0 /\ s.wbuf = 0

Empty(w, d) == w.streams[d].rbuf = 0 /\ w.streams[d].wbuf = 0

FitInv ==
  /\ HostOK(host)
  /\ \A d \in DOMAIN streams : Fit(World, d)
  /\ status \in {"run", "exit"}
  /\ files \in [Slot -> 0 .. Len(streams)]
  /\ ret \in Int


LEMMA AtOK ==
  ASSUME NEW h, HostOK(h), NEW fd \in Fd, NEW off \in Nat, NEW size \in [Paths -> Nat],
         NEW g, g = At(h, fd, off, size)
  PROVE  HostOK(g) /\ g.tab[fd].off = off /\ g.tab[fd].acc = h.tab[fd].acc
  BY Zenon DEF HostOK, At

(* An open descriptor that is no standard stream has a file with a size.   *)
LEMMA OpenFile ==
  ASSUME NEW h, HostOK(h), NEW fd, Open(h, fd)
  PROVE  /\ fd \in Fd /\ h.tab[fd].off \in Nat
         /\ h.tab[fd].acc # "std" => /\ h.tab[fd].acc \in Acc /\ h.tab[fd].path \in Paths
                                     /\ h.size[h.tab[fd].path] \in Nat
  BY DEF HostOK, Open

LEMMA LseekFit ==
  ASSUME NEW h, HostOK(h), NEW fd, Open(h, fd), NEW off \in Int,
         NEW whence \in {"SET", "CUR", "END"}, NEW o \in hypLseek(h, fd, off, whence)
  PROVE  /\ HostOK(o.host) /\ o.r \in Int
         /\ o.host.tab[fd].acc = h.tab[fd].acc
         /\ h.tab[fd].acc = "std" => o.host = h
         /\ h.tab[fd].acc # "std" /\ whence = "CUR" /\ h.tab[fd].off + off >= 0
              => o.r = h.tab[fd].off + off /\ o.host.tab[fd].off = o.r
         /\ h.tab[fd].acc # "std" /\ whence = "SET" /\ off >= 0
              => o.r = off /\ o.host.tab[fd].off = off
<1> DEFINE to == off + (CASE whence = "SET" -> 0
                          [] whence = "CUR" -> h.tab[fd].off
                          [] whence = "END" -> h.size[h.tab[fd].path])
<1>1. CASE h.tab[fd].acc = "std"
  BY <1>1 DEF hypLseek, Fails, Result, errFail
<1>2. CASE h.tab[fd].acc # "std"
  <2>1. /\ to \in Int
        /\ whence = "CUR" => to = h.tab[fd].off + off
        /\ whence = "SET" => to = off
    BY <1>2, OpenFile
  <2>2. o = IF to < 0 THEN Result(h, errFail) ELSE Result(At(h, fd, to, h.size), to)
    BY <1>2, Zenon DEF hypLseek, Fails
  <2> HIDE DEF to
  <2>3. CASE to < 0
    BY <1>2, <2>1, <2>2, <2>3, OpenFile DEF Result, errFail
  <2>4. CASE ~ (to < 0)
    <3>1. to \in Nat /\ h.size \in [Paths -> Nat] /\ fd \in Fd
      BY <2>1, <2>4, OpenFile DEF HostOK
    <3>2. o = Result(At(h, fd, to, h.size), to)
      BY <2>2, <2>4
    <3>3. o.r = to /\ o.host = At(h, fd, to, h.size)
      BY <3>2 DEF Result
    <3>4. HostOK(o.host) /\ o.host.tab[fd].off = to /\ o.host.tab[fd].acc = h.tab[fd].acc
      BY <3>1, <3>3, AtOK
    <3> QED
      BY <1>2, <2>1, <3>3, <3>4, Zenon
  <2> QED
    BY <2>3, <2>4, Zenon
<1> QED
  BY <1>1, <1>2, Zenon

LEMMA ReadFit ==
  ASSUME NEW h, HostOK(h), NEW fd, Open(h, fd), h.tab[fd].acc # "std", NEW n \in Nat,
         NEW o \in hypRead(h, fd, n), o.r >= 0
  PROVE  /\ HostOK(o.host) /\ o.r \in 0 .. n
         /\ o.host.tab[fd].acc = h.tab[fd].acc
         /\ o.host.tab[fd].off = h.tab[fd].off + o.r
<1> DEFINE k == Least(n, Available(h, fd))
<1>1. h.tab[fd].off \in Nat /\ h.size[h.tab[fd].path] \in Nat /\ fd \in Fd
      /\ h.size \in [Paths -> Nat]
  BY OpenFile, Zenon DEF HostOK
<1>2. k \in 0 .. n
  BY <1>1 DEF Least, Available, Greatest
<1>3. o = Result(At(h, fd, h.tab[fd].off + k, h.size), k)
  <2>1. o \in Fails(h) \/ o = Result(At(h, fd, h.tab[fd].off + k, h.size), k)
    BY ZenonT(30) DEF hypRead
  <2>2. o \notin Fails(h)
    BY DEF Fails, Result, errFail
  <2> QED BY <2>1, <2>2, Zenon
<1> HIDE DEF k
<1>4. o.r = k /\ o.host = At(h, fd, h.tab[fd].off + k, h.size)
  BY <1>3, Zenon DEF Result
<1>5. h.tab[fd].off + k \in Nat
  BY <1>1, <1>2
<1>6. /\ HostOK(o.host) /\ o.host.tab[fd].off = h.tab[fd].off + k
      /\ o.host.tab[fd].acc = h.tab[fd].acc
  BY <1>1, <1>4, <1>5, AtOK
<1> QED
  BY <1>2, <1>4, <1>6, Zenon

LEMMA WriteFit ==
  ASSUME NEW h, HostOK(h), NEW fd, Open(h, fd), NEW n \in Nat, NEW o \in hypWrite(h, fd, n)
  PROVE  /\ HostOK(o.host) /\ o.r = n
         /\ o.host.tab[fd].acc = h.tab[fd].acc
         /\ o.host.tab[fd].off =
              IF h.tab[fd].acc \in {"r", "std"} THEN h.tab[fd].off ELSE h.tab[fd].off + n
<1>1. CASE h.tab[fd].acc \in {"r", "std"}
  BY <1>1 DEF hypWrite, Result
<1>2. CASE h.tab[fd].acc \notin {"r", "std"}
  <2> DEFINE to == h.tab[fd].off + n
             size == [h.size EXCEPT ![h.tab[fd].path] = Greatest(h.size[h.tab[fd].path], to)]
  <2>1. /\ h.tab[fd].off \in Nat /\ h.size[h.tab[fd].path] \in Nat /\ fd \in Fd
        /\ h.size \in [Paths -> Nat] /\ h.tab[fd].path \in Paths
    BY <1>2, OpenFile, Zenon DEF HostOK
  <2>2. to \in Nat
    BY <2>1
  <2>3. o = Result(At(h, fd, to, size), n)
    BY <1>2, Zenon DEF hypWrite, Written
  <2> HIDE DEF to
  <2>4. size \in [Paths -> Nat]
    BY <2>1, <2>2, Zenon DEF Greatest
  <2> HIDE DEF size
  <2>5. o.r = n /\ o.host = At(h, fd, to, size)
    BY <2>3 DEF Result
  <2>6. HostOK(o.host) /\ o.host.tab[fd].off = to /\ o.host.tab[fd].acc = h.tab[fd].acc
    <3>1. ASSUME NEW a \in Nat, NEW z \in [Paths -> Nat], o.host = At(h, fd, a, z), fd \in Fd
          PROVE  HostOK(o.host) /\ o.host.tab[fd].off = a /\ o.host.tab[fd].acc = h.tab[fd].acc
      BY <3>1, AtOK
    <3> QED BY <2>1, <2>2, <2>4, <2>5, <3>1, Zenon
  <2> QED
    BY <1>2, <2>5, <2>6, Zenon DEF to
<1> QED
  BY <1>1, <1>2, Zenon


(* A stream d that stays on the same descriptor, opened the same way.      *)
SameFile(w, x, d) ==
  /\ d \in DOMAIN x.streams
  /\ x.streams[d].hfd = w.streams[d].hfd /\ x.streams[d].mode = w.streams[d].mode
  /\ x.host.tab[w.streams[d].hfd].acc = w.host.tab[w.streams[d].hfd].acc

(* In world x the stream d of world w has these buffers.                   *)
HasBuffers(w, x, d, rbuf, wbuf) ==
  x.streams[d] = [hfd |-> w.streams[d].hfd, mode |-> w.streams[d].mode,
                  rbuf |-> rbuf, wbuf |-> wbuf]

(* Host h has the file of stream d of world w opened the same way.         *)
SameAcc(w, h, d) == h.tab[w.streams[d].hfd].acc = w.host.tab[w.streams[d].hfd].acc

LEMMA InWorldIs ==
  ASSUME NEW w, NEW h, NEW d \in DOMAIN w.streams, NEW rbuf, NEW wbuf, SameAcc(w, h, d),
         NEW x, x = InWorld(w, h, d, rbuf, wbuf)
  PROVE  SameFile(w, x, d) /\ x.host = h /\ HasBuffers(w, x, d, rbuf, wbuf)
<1> DEFINE s == [hfd |-> w.streams[d].hfd, mode |-> w.streams[d].mode, rbuf |-> rbuf, wbuf |-> wbuf]
<1>1. s.hfd = w.streams[d].hfd /\ s.mode = w.streams[d].mode
  BY Zenon
<1>2. x = [host |-> h, streams |-> [w.streams EXCEPT ![d] = s]]
  BY Zenon DEF InWorld
<1> HIDE DEF s
<1>3. x.host = h /\ x.streams = [w.streams EXCEPT ![d] = s]
  BY <1>2
<1>4. DOMAIN x.streams = DOMAIN w.streams /\ x.streams[d] = s
  BY <1>3
<1>5. SameFile(w, x, d)
  BY <1>1, <1>3, <1>4, Zenon DEF SameFile, SameAcc
<1>6. HasBuffers(w, x, d, rbuf, wbuf)
  BY <1>4, Zenon DEF HasBuffers, s
<1> QED
  BY <1>3, <1>5, <1>6, Zenon

(* On x the file of stream d of w has been read at least rbuf far.         *)
ReadTo(w, x, d, rbuf) == rbuf <= x.host.tab[w.streams[d].hfd].off

Standard(w, d) == w.host.tab[w.streams[d].hfd].acc = "std"

LEMMA InWorldFit ==
  ASSUME NEW w, NEW x, NEW d, Fit(w, d), SameFile(w, x, d), HostOK(x.host),
         NEW rbuf \in 0 .. BUFSIZ, NEW wbuf \in 0 .. BUFSIZ, HasBuffers(w, x, d, rbuf, wbuf),
         ReadTo(w, x, d, rbuf), rbuf = 0 \/ wbuf = 0, Standard(w, d) => rbuf = 0 /\ wbuf = 0
  PROVE  Fit(x, d)
<1>1. PICK v : v = w.streams[d]
  BY Zenon
<1>2. PICK y : y = x.streams[d]
  BY Zenon
<1>3. v \in StreamType /\ Open(w.host, v.hfd)
  BY <1>1, Zenon DEF Fit
<1>4. y = [hfd |-> v.hfd, mode |-> v.mode, rbuf |-> rbuf, wbuf |-> wbuf]
  BY <1>1, <1>2, ZenonT(30) DEF HasBuffers
<1>5. y \in StreamType /\ y.hfd = v.hfd /\ y.rbuf = rbuf /\ y.wbuf = wbuf
  BY <1>3, <1>4, Zenon DEF StreamType
<1>6. x.host.tab[v.hfd].acc = w.host.tab[v.hfd].acc
  BY <1>1, Zenon DEF SameFile
<1>7. Open(x.host, v.hfd)
  BY <1>3, <1>6, Zenon DEF Open
<1>8. /\ rbuf <= x.host.tab[v.hfd].off
      /\ x.host.tab[v.hfd].acc = "std" => rbuf = 0 /\ wbuf = 0
  BY <1>1, <1>6, Zenon DEF ReadTo, Standard
<1> QED
  BY <1>2, <1>5, <1>7, <1>8, ZenonT(30) DEF Fit

LEMMA EmptyFit ==
  ASSUME NEW w, NEW x, NEW d, Fit(w, d), SameFile(w, x, d), HostOK(x.host),
         x.host.tab[w.streams[d].hfd].off \in Nat, HasBuffers(w, x, d, 0, 0)
  PROVE  Fit(x, d) /\ Empty(x, d)
<1>1. PICK a \in 0 .. BUFSIZ : a = 0
  BY FileStackConstants
<1>2. PICK b \in 0 .. BUFSIZ : b = 0
  BY FileStackConstants
<1>3. ReadTo(w, x, d, a)
  BY <1>1 DEF ReadTo
<1>4. HasBuffers(w, x, d, a, b)
  BY <1>1, <1>2, Zenon
<1>5. Fit(x, d)
  BY <1>1, <1>2, <1>3, <1>4, InWorldFit
<1>6. x.streams[d].rbuf = 0 /\ x.streams[d].wbuf = 0
  <2>1. PICK y : y = x.streams[d]
    OBVIOUS
  <2>2. PICK f, g : f = w.streams[d].hfd /\ g = w.streams[d].mode
    OBVIOUS
  <2>3. y = [hfd |-> f, mode |-> g, rbuf |-> 0, wbuf |-> 0]
    BY <2>1, <2>2, Zenon DEF HasBuffers
  <2>4. y.rbuf = 0 /\ y.wbuf = 0
    BY <2>3, Zenon
  <2> QED BY <2>1, <2>4, Zenon
<1> QED
  BY <1>5, <1>6, Zenon DEF Empty

LEMMA PositionNat ==
  ASSUME NEW w, NEW d, Fit(w, d)
  PROVE  Position(w, d) \in Nat
<1>1. w.host.tab[w.streams[d].hfd].off \in Nat
  BY OpenFile, Zenon DEF Fit
<1> DEFINE off == w.host.tab[w.streams[d].hfd].off
           rb == w.streams[d].rbuf
           wb == w.streams[d].wbuf
<1>2. off \in Nat /\ rb \in 0 .. BUFSIZ /\ wb \in 0 .. BUFSIZ /\ rb <= off
  BY <1>1, Zenon DEF Fit, StreamType
<1>3. Position(w, d) = off - rb + wb \/ Position(w, d) = off - rb + 0
  BY Zenon DEF Position
<1> HIDE DEF off, rb, wb
<1> QED
  BY <1>2, <1>3, FileStackConstants

(* After a Sync the offset on the host is the position.                    *)
LEMMA SyncFit ==
  ASSUME NEW w, NEW d \in DOMAIN w.streams, Fit(w, d), NEW x \in Sync(w, d)
  PROVE  /\ Fit(x, d) /\ SameFile(w, x, d) /\ Empty(x, d)
         /\ x.host.tab[w.streams[d].hfd].off = Position(w, d)
<1> DEFINE fd == w.streams[d].hfd
           f == w.host.tab[fd]
           rb == w.streams[d].rbuf
           wb == w.streams[d].wbuf
<1>1. PICK o : /\ x = InWorld(w, o.host, d, 0, 0)
               /\ o \in IF wb > 0 THEN hypWrite(w.host, fd, wb)
                        ELSE IF rb > 0 THEN hypLseek(w.host, fd, 0 - rb, "CUR")
                        ELSE {Result(w.host, 0)}
  BY Zenon DEF Sync
<1>2. /\ HostOK(w.host) /\ Open(w.host, fd) /\ f.off \in Nat
      /\ rb \in 0 .. BUFSIZ /\ wb \in 0 .. BUFSIZ
      /\ rb <= f.off /\ (rb = 0 \/ wb = 0) /\ (f.acc = "std" => rb = 0 /\ wb = 0)
  BY OpenFile, Zenon DEF Fit, StreamType
<1>3. Position(w, d) = f.off - rb + (IF f.acc = "r" THEN 0 ELSE wb)
  BY Zenon DEF Position
<1>4. /\ HostOK(o.host) /\ o.host.tab[fd].acc = f.acc
      /\ o.host.tab[fd].off = Position(w, d)
  <2> HIDE DEF fd, wb, rb, f
  <2>1. CASE wb > 0
    <3>1. wb \in Nat /\ rb = 0 /\ f.acc # "std"
      BY <1>2, <2>1, FileStackConstants
    <3>2. o \in hypWrite(w.host, fd, wb)
      BY <1>1, <2>1
    <3>3. /\ HostOK(o.host) /\ o.host.tab[fd].acc = f.acc
          /\ o.host.tab[fd].off = IF f.acc \in {"r", "std"} THEN f.off ELSE f.off + wb
      BY <1>2, <3>1, <3>2, WriteFit DEF f
    <3> QED
      BY <1>2, <1>3, <3>1, <3>3
  <2>2. CASE ~ (wb > 0) /\ rb > 0
    <3>1. wb = 0 /\ 0 - rb \in Int /\ f.acc # "std" /\ f.off + (0 - rb) >= 0
      BY <1>2, <2>2, FileStackConstants
    <3>2. o \in hypLseek(w.host, fd, 0 - rb, "CUR")
      BY <1>1, <2>2
    <3> DEFINE back == 0 - rb
    <3> HIDE DEF back
    <3>3. /\ HostOK(o.host) /\ o.host.tab[fd].acc = f.acc
          /\ o.host.tab[fd].off = f.off + back
      BY <1>2, <3>1, <3>2, LseekFit DEF back, f
    <3> QED
      BY <1>2, <1>3, <3>1, <3>3 DEF back
  <2>3. CASE ~ (wb > 0) /\ ~ (rb > 0)
    BY <1>1, <1>2, <1>3, <2>3, FileStackConstants DEF Result, f
  <2> QED
    BY <2>1, <2>2, <2>3, Zenon
<1>5. o.host.tab[fd].off \in Nat
  BY <1>4, PositionNat, Zenon
<1>6. Fit(x, d) /\ SameFile(w, x, d) /\ x.host = o.host /\ Empty(x, d)
  <2>0. SameAcc(w, o.host, d) /\ x = InWorld(w, o.host, d, 0, 0)
    BY <1>1, <1>4, ZenonT(30) DEF SameAcc
  <2>1. /\ SameFile(w, x, d) /\ x.host = o.host
        /\ HasBuffers(w, x, d, 0, 0)
    BY <2>0, InWorldIs
  <2> QED
    BY <1>4, <1>5, <2>1, EmptyFit, Zenon
<1> QED
  BY <1>4, <1>6, Zenon

LEMMA SeekFit ==
  ASSUME NEW w, NEW d \in DOMAIN w.streams, Fit(w, d), NEW off \in Int,
         NEW whence \in {"SET", "CUR", "END"}, NEW o \in fseek(w, d, off, whence)
  PROVE  /\ Fit(o.w, d) /\ SameFile(w, o.w, d) /\ Empty(o.w, d) /\ o.r \in Int
         /\ w.host.tab[w.streams[d].hfd].acc = "std" => Position(o.w, d) = Position(w, d)
         /\ w.host.tab[w.streams[d].hfd].acc # "std" /\ whence = "CUR" /\ off = 0
              => o.r = Position(w, d)
         /\ w.host.tab[w.streams[d].hfd].acc # "std" /\ whence = "SET" /\ off >= 0
              => Position(o.w, d) = off
<1> DEFINE fd == w.streams[d].hfd
           acc == w.host.tab[fd].acc
<1>1. PICK x \in Sync(w, d) :
        \E q \in hypLseek(x.host, x.streams[d].hfd, off, whence) :
          o = [w |-> InWorld(x, q.host, d, 0, 0), r |-> q.r]
  BY Zenon DEF fseek
<1>2. PICK q \in hypLseek(x.host, x.streams[d].hfd, off, whence) :
        o = [w |-> InWorld(x, q.host, d, 0, 0), r |-> q.r]
  BY <1>1, Zenon
<1>3. /\ Fit(x, d) /\ SameFile(w, x, d) /\ x.host.tab[fd].off = Position(w, d)
      /\ x.streams[d].hfd = fd /\ d \in DOMAIN x.streams /\ x.host.tab[fd].acc = acc
  BY SyncFit, Zenon DEF SameFile
<1>4. HostOK(x.host) /\ Open(x.host, fd) /\ Position(w, d) \in Nat
  BY <1>3, PositionNat, Zenon DEF Fit
<1> HIDE DEF fd
<1>5. /\ HostOK(q.host) /\ q.r \in Int
      /\ q.host.tab[fd].acc = acc
      /\ acc = "std" => q.host = x.host
      /\ acc # "std" /\ whence = "CUR" /\ Position(w, d) + off >= 0
           => q.r = Position(w, d) + off /\ q.host.tab[fd].off = q.r
      /\ acc # "std" /\ whence = "SET" /\ off >= 0
           => q.r = off /\ q.host.tab[fd].off = off
  <2> DEFINE g == x.host
  <2>1. q \in hypLseek(g, fd, off, whence) /\ HostOK(g) /\ Open(g, fd)
    BY <1>2, <1>3, <1>4, ZenonT(30)
  <2> HIDE DEF g
  <2>2. /\ HostOK(q.host) /\ q.r \in Int
        /\ q.host.tab[fd].acc = g.tab[fd].acc
        /\ g.tab[fd].acc = "std" => q.host = g
        /\ g.tab[fd].acc # "std" /\ whence = "CUR" /\ g.tab[fd].off + off >= 0
             => q.r = g.tab[fd].off + off /\ q.host.tab[fd].off = q.r
        /\ g.tab[fd].acc # "std" /\ whence = "SET" /\ off >= 0
             => q.r = off /\ q.host.tab[fd].off = off
    BY <2>1, LseekFit
  <2>3. g.tab[fd].acc = acc /\ g.tab[fd].off = Position(w, d)
    BY <1>3, Zenon DEF g
  <2> QED
    BY <2>2, <2>3, Zenon DEF g
<1>6. Open(q.host, fd) /\ q.host.tab[fd].off \in Nat
  BY <1>3, <1>4, <1>5, OpenFile, ZenonT(30) DEF Open
<1>7. o.w = InWorld(x, q.host, d, 0, 0) /\ o.r = q.r
  BY <1>2, Zenon
<1>9. Fit(o.w, d) /\ SameFile(x, o.w, d) /\ o.w.host = q.host /\ Empty(o.w, d)
  <2>0. SameAcc(x, q.host, d) /\ d \in DOMAIN x.streams
    BY <1>3, <1>5, ZenonT(30) DEF SameAcc
  <2>1. /\ SameFile(x, o.w, d) /\ o.w.host = q.host
        /\ HasBuffers(x, o.w, d, 0, 0)
    BY <1>7, <2>0, InWorldIs, Zenon
  <2> QED
    BY <1>3, <1>5, <1>6, <2>1, EmptyFit, Zenon
<1>10. SameFile(w, o.w, d)
  BY <1>3, <1>5, <1>9, ZenonT(30) DEF SameFile, fd
<1>11. Position(o.w, d) = q.host.tab[fd].off
  <2>1. o.w.streams[d].hfd = fd /\ o.w.streams[d].rbuf = 0 /\ o.w.streams[d].wbuf = 0
    BY <1>3, <1>9, Zenon DEF Empty, SameFile
  <2>2. Position(o.w, d) = q.host.tab[fd].off - 0 + (IF q.host.tab[fd].acc = "r" THEN 0 ELSE 0)
    BY <1>9, <2>1, Zenon DEF Position
  <2> QED BY <1>6, <2>2
<1>12. acc = "std" => Position(o.w, d) = Position(w, d)
  BY <1>3, <1>5, <1>11, Zenon
<1>13. acc # "std" /\ whence = "CUR" /\ off = 0 => o.r = Position(w, d)
  BY <1>4, <1>5, <1>7
<1>14. acc # "std" /\ whence = "SET" /\ off >= 0 => Position(o.w, d) = off
  BY <1>5, <1>11, Zenon
<1> QED
  BY <1>5, <1>7, <1>9, <1>10, <1>12, <1>13, <1>14, Zenon DEF fd


LEMMA SameFileTwice ==
  ASSUME NEW w, NEW x, NEW y, NEW d, SameFile(w, x, d), SameFile(x, y, d)
  PROVE  SameFile(w, y, d)
  BY Zenon DEF SameFile

(* fread and fwrite, their local definitions spelled out.                  *)
Taken(x, d, n, k) ==
  {[w |-> InWorld(x, o.host, d, Greatest(0, x.streams[d].rbuf + o.r - n), 0),
    r |-> Least(n, x.streams[d].rbuf + o.r)] :
     o \in {q \in hypRead(x.host, x.streams[d].hfd, Greatest(0, n + k - x.streams[d].rbuf)) : q.r >= 0}}

LEMMA FreadDef ==
  ASSUME NEW w, NEW d, NEW n, NEW o \in fread(w, d, n)
  PROVE  /\ n = 0 \/ w.streams[d].mode = "w" => o = [w |-> w, r |-> 0]
         /\ n # 0 /\ w.streams[d].mode # "w" /\ Standard(w, d)
              => \E k \in 0 .. n : o = [w |-> w, r |-> k]
         /\ n # 0 /\ w.streams[d].mode # "w" /\ ~ Standard(w, d)
              => \E x \in (IF w.streams[d].wbuf > 0 THEN Sync(w, d) ELSE {w}), k \in 0 .. BUFSIZ :
                   o \in Taken(x, d, n, k)
<1> DEFINE A == n = 0 \/ w.streams[d].mode = "w"
           B == Standard(w, d)
           X == IF w.streams[d].wbuf > 0 THEN Sync(w, d) ELSE {w}
<1>1. o \in IF A THEN {[w |-> w, r |-> 0]}
            ELSE IF B THEN {[w |-> w, r |-> k] : k \in 0 .. n}
            ELSE UNION {UNION {Taken(x, d, n, k) : k \in 0 .. BUFSIZ} : x \in X}
  BY Zenon DEF fread, Taken, Standard
<1> HIDE DEF A, B, X
<1>2. /\ A => o = [w |-> w, r |-> 0]
      /\ ~ A /\ B => \E k \in 0 .. n : o = [w |-> w, r |-> k]
      /\ ~ A /\ ~ B => \E x \in X, k \in 0 .. BUFSIZ : o \in Taken(x, d, n, k)
  BY <1>1
<1> QED
  BY <1>2, Zenon DEF A, B, X

LEMMA FreadFit ==
  ASSUME NEW w, NEW d \in DOMAIN w.streams, Fit(w, d), NEW n \in Nat, NEW o \in fread(w, d, n)
  PROVE  /\ Fit(o.w, d) /\ SameFile(w, o.w, d) /\ o.r \in Int
         /\ w.host.tab[w.streams[d].hfd].acc = "std" => o.w = w
<1>0. SameFile(w, w, d)
  BY DEF SameFile
<1>1. CASE n = 0 \/ w.streams[d].mode = "w"
  <2>1. o = [w |-> w, r |-> 0]
    BY <1>1, FreadDef, Zenon
  <2> QED
    BY <1>0, <2>1
<1>2. CASE n # 0 /\ w.streams[d].mode # "w" /\ w.host.tab[w.streams[d].hfd].acc = "std"
  <2>1. \E k \in 0 .. n : o = [w |-> w, r |-> k]
    <3>1. n # 0 /\ w.streams[d].mode # "w" /\ Standard(w, d)
      BY <1>2, Zenon DEF Standard
    <3> QED BY <3>1, FreadDef
  <2> QED
    BY <1>0, <2>1
<1>3. CASE n # 0 /\ w.streams[d].mode # "w" /\ w.host.tab[w.streams[d].hfd].acc # "std"
  <2>1. PICK x \in (IF w.streams[d].wbuf > 0 THEN Sync(w, d) ELSE {w}), k \in 0 .. BUFSIZ :
          \E q \in hypRead(x.host, x.streams[d].hfd, Greatest(0, n + k - x.streams[d].rbuf)) :
            /\ q.r >= 0
            /\ o = [w |-> InWorld(x, q.host, d, Greatest(0, x.streams[d].rbuf + q.r - n), 0),
                    r |-> Least(n, x.streams[d].rbuf + q.r)]
    <3>1. PICK x \in (IF w.streams[d].wbuf > 0 THEN Sync(w, d) ELSE {w}), k \in 0 .. BUFSIZ :
            o \in Taken(x, d, n, k)
      BY <1>3, FreadDef, Zenon DEF Standard
    <3>2. \E q \in hypRead(x.host, x.streams[d].hfd, Greatest(0, n + k - x.streams[d].rbuf)) :
            /\ q.r >= 0
            /\ o = [w |-> InWorld(x, q.host, d, Greatest(0, x.streams[d].rbuf + q.r - n), 0),
                    r |-> Least(n, x.streams[d].rbuf + q.r)]
      BY <3>1, Zenon DEF Taken
    <3> QED BY <3>2, Zenon
  <2>2. /\ Fit(x, d) /\ SameFile(w, x, d) /\ x.streams[d].wbuf = 0
    <3>1. CASE w.streams[d].wbuf > 0
      BY <2>1, <3>1, SyncFit, Zenon DEF Empty
    <3>2. CASE ~ (w.streams[d].wbuf > 0)
      <4>1. w.streams[d].wbuf \in 0 .. BUFSIZ
        BY Zenon DEF Fit, StreamType
      <4>2. w.streams[d].wbuf = 0
        BY <3>2, <4>1
      <4> QED
        BY <1>0, <2>1, <3>2, <4>2, Zenon
    <3> QED
      BY <3>1, <3>2, Zenon
  <2> DEFINE fd == x.streams[d].hfd
             rb == x.streams[d].rbuf
             m == Greatest(0, n + k - rb)
  <2>3. /\ HostOK(x.host) /\ Open(x.host, fd) /\ x.host.tab[fd].off \in Nat
        /\ rb \in 0 .. BUFSIZ /\ rb <= x.host.tab[fd].off /\ d \in DOMAIN x.streams
    BY <2>2, OpenFile, Zenon DEF Fit, StreamType, SameFile
  <2>4. x.host.tab[fd].acc # "std"
    BY <1>3, <2>2, ZenonT(30) DEF SameFile
  <2>5. PICK q \in hypRead(x.host, fd, m) :
          /\ q.r >= 0
          /\ o = [w |-> InWorld(x, q.host, d, Greatest(0, rb + q.r - n), 0),
                  r |-> Least(n, rb + q.r)]
    BY <2>1, Zenon
  <2> DEFINE left == Greatest(0, rb + q.r - n)
             off == x.host.tab[fd].off
  <2>6. o.w = InWorld(x, q.host, d, left, 0) /\ o.r = Least(n, rb + q.r)
    BY <2>5, Zenon
  <2> HIDE DEF fd, rb
  <2>7. m \in Nat /\ k \in Nat
    BY <2>3, FileStackConstants DEF Greatest
  <2>8. /\ HostOK(q.host) /\ q.r \in 0 .. m /\ q.host.tab[fd].acc = x.host.tab[fd].acc
        /\ q.host.tab[fd].off = off + q.r
    <3> HIDE DEF m
    <3> DEFINE g == x.host
    <3>1. /\ HostOK(g) /\ Open(g, fd) /\ g.tab[fd].acc # "std" /\ m \in Nat
          /\ q \in hypRead(g, fd, m) /\ q.r >= 0
      BY <2>3, <2>4, <2>5, <2>7, ZenonT(30)
    <3> HIDE DEF g
    <3>2. /\ HostOK(q.host) /\ q.r \in 0 .. m
          /\ q.host.tab[fd].acc = g.tab[fd].acc
          /\ q.host.tab[fd].off = g.tab[fd].off + q.r
      BY <3>1, ReadFit, Zenon
    <3> QED
      BY <3>2, Zenon DEF g
  <2>9. /\ left \in 0 .. BUFSIZ /\ left <= off + q.r /\ o.r \in Int
    <3> HIDE DEF off
    <3>1. off \in Nat /\ rb \in 0 .. BUFSIZ /\ rb <= off
      BY <2>3, Zenon DEF off
    <3>2. BUFSIZ \in Nat /\ k \in 0 .. BUFSIZ
      BY FileStackConstants, Zenon
    <3>3. q.r \in 0 .. Greatest(0, n + k - rb) /\ o.r = Least(n, rb + q.r)
      BY <2>6, <2>8, Zenon
    <3> DEFINE r == q.r
    <3> HIDE DEF r
    <3>4. left = Greatest(0, rb + r - n) /\ r \in 0 .. Greatest(0, n + k - rb)
      BY <3>3, Zenon DEF r
    <3>5. left \in 0 .. BUFSIZ /\ left <= off + r /\ Least(n, rb + r) \in Int
      BY <3>1, <3>2, <3>4 DEF Greatest, Least
    <3> QED
      BY <3>3, <3>5, Zenon DEF r
  <2> DEFINE y == o.w
             g == q.host
  <2>10. /\ y = InWorld(x, g, d, left, 0)
         /\ HostOK(g) /\ g.tab[fd].acc = x.host.tab[fd].acc /\ left <= g.tab[fd].off
    BY <2>6, <2>8, <2>9, Zenon
  <2> HIDE DEF left, y, g
  <2>11. /\ SameFile(x, y, d) /\ y.host = g
         /\ HasBuffers(x, y, d, left, 0)
    <3>1. SameAcc(x, g, d) /\ d \in DOMAIN x.streams /\ y = InWorld(x, g, d, left, 0)
      BY <2>3, <2>10, Zenon DEF fd, SameAcc
    <3> QED
      BY <3>1, InWorldIs
  <2>12. PICK zero \in 0 .. BUFSIZ : zero = 0
    BY FileStackConstants
  <2>13. HasBuffers(x, y, d, left, zero)
    BY <2>11, <2>12, Zenon
  <2>14. Fit(y, d)
    <3>1. Fit(x, d) /\ SameFile(x, y, d) /\ HostOK(y.host)
      BY <2>2, <2>10, <2>11, Zenon
    <3>2. left \in 0 .. BUFSIZ /\ ReadTo(x, y, d, left) /\ ~ Standard(x, d)
      BY <2>4, <2>9, <2>10, <2>11, ZenonT(30) DEF fd, ReadTo, Standard
    <3> QED
      BY <2>12, <2>13, <3>1, <3>2, InWorldFit
  <2> QED
    BY <1>3, <2>2, <2>9, <2>11, <2>14, SameFileTwice, Zenon DEF y
<1> QED
  BY <1>1, <1>2, <1>3, Zenon

LEMMA FwriteFit ==
  ASSUME NEW w, NEW d \in DOMAIN w.streams, Fit(w, d), NEW n \in Nat, NEW y \in fwrite(w, d, n)
  PROVE  Fit(y, d) /\ SameFile(w, y, d)
<1> DEFINE std == w.host.tab[w.streams[d].hfd].acc = "std"
           hold == IF std THEN 0 ELSE BUFSIZ
<1>1. PICK x \in (IF w.streams[d].rbuf > 0 THEN Sync(w, d) ELSE {w}),
           k \in 0 .. Least(hold, w.streams[d].wbuf + n) :
        \E q \in hypWrite(x.host, x.streams[d].hfd, x.streams[d].wbuf + n - k) :
          y = InWorld(x, q.host, d, 0, k)
  <2> DEFINE X == IF w.streams[d].rbuf > 0 THEN Sync(w, d) ELSE {w}
             K == 0 .. Least(hold, w.streams[d].wbuf + n)
             Put(x, k) == {InWorld(x, o.host, d, 0, k) :
                             o \in hypWrite(x.host, x.streams[d].hfd, x.streams[d].wbuf + n - k)}
  <2>1. y \in UNION {UNION {Put(x, k) : k \in K} : x \in X}
    BY Zenon DEF fwrite
  <2> HIDE DEF X, K, Put
  <2>2. PICK x \in X, k \in K : y \in Put(x, k)
    BY <2>1
  <2>3. \E q \in hypWrite(x.host, x.streams[d].hfd, x.streams[d].wbuf + n - k) :
          y = InWorld(x, q.host, d, 0, k)
    BY <2>2, Zenon DEF Put
  <2> QED BY <2>3, Zenon DEF X, K
<1>0. w.streams[d].rbuf \in 0 .. BUFSIZ /\ w.streams[d].wbuf \in 0 .. BUFSIZ /\ BUFSIZ \in Nat
  BY FileStackConstants, ZenonT(30) DEF Fit, StreamType
<1>2. /\ Fit(x, d) /\ SameFile(w, x, d)
      /\ x.streams[d].rbuf = 0 /\ x.streams[d].wbuf = w.streams[d].wbuf
  <2>1. CASE w.streams[d].rbuf > 0
    <3>0. w.streams[d].rbuf # 0 /\ (w.streams[d].rbuf = 0 \/ w.streams[d].wbuf = 0)
      <4>1. w.streams[d].rbuf # 0
        BY <1>0, <2>1
      <4> QED BY <4>1, Zenon DEF Fit
    <3>1. w.streams[d].wbuf = 0
      BY <3>0, Zenon
    <3> QED
      BY <1>1, <2>1, <3>1, SyncFit, ZenonT(30) DEF Empty
  <2>2. CASE ~ (w.streams[d].rbuf > 0)
    <3>1. w.streams[d].rbuf = 0 /\ x = w
      BY <1>0, <1>1, <2>2
    <3> QED
      BY <3>1, Zenon DEF SameFile
  <2> QED
    BY <2>1, <2>2, Zenon
<1> DEFINE fd == x.streams[d].hfd
           wb == x.streams[d].wbuf
           m == wb + n - k
<1>3. PICK q \in hypWrite(x.host, fd, m) : y = InWorld(x, q.host, d, 0, k)
  BY <1>1, Zenon
<1>4. /\ HostOK(x.host) /\ Open(x.host, fd) /\ x.host.tab[fd].off \in Nat
      /\ wb \in 0 .. BUFSIZ /\ d \in DOMAIN x.streams
      /\ std <=> x.host.tab[fd].acc = "std"
  BY <1>2, OpenFile, ZenonT(30) DEF Fit, StreamType, SameFile
<1>5. k \in 0 .. Least(hold, wb + n)
  BY <1>1, <1>2, Zenon
<1> HIDE DEF fd, wb, std
<1>6. /\ m \in Nat /\ k \in 0 .. BUFSIZ /\ k <= hold
      /\ std => k = 0
  BY <1>0, <1>4, <1>5 DEF Least
<1> HIDE DEF m
<1>7. /\ HostOK(q.host) /\ q.host.tab[fd].acc = x.host.tab[fd].acc
      /\ q.host.tab[fd].off \in Nat
  <2>1. /\ HostOK(q.host) /\ q.host.tab[fd].acc = x.host.tab[fd].acc
    BY <1>3, <1>4, <1>6, WriteFit
  <2>2. Open(q.host, fd)
    BY <1>4, <2>1, Zenon DEF Open
  <2> QED
    BY <2>1, <2>2, OpenFile, Zenon
<1>8. /\ SameFile(x, y, d) /\ y.host = q.host
      /\ HasBuffers(x, y, d, 0, k)
  <2>1. SameAcc(x, q.host, d) /\ d \in DOMAIN x.streams /\ y = InWorld(x, q.host, d, 0, k)
    BY <1>3, <1>4, <1>7, ZenonT(30) DEF fd, SameAcc
  <2> QED
    BY <2>1, InWorldIs
<1>9. PICK zero \in 0 .. BUFSIZ : zero = 0 /\ zero <= q.host.tab[fd].off
  BY <1>0, <1>7
<1>10. Fit(y, d)
  <2>1. HasBuffers(x, y, d, zero, k)
    BY <1>8, <1>9, Zenon
  <2>2. Fit(x, d) /\ SameFile(x, y, d) /\ HostOK(y.host)
    BY <1>2, <1>7, <1>8, Zenon
  <2>3. k \in 0 .. BUFSIZ /\ ReadTo(x, y, d, zero) /\ (Standard(x, d) => k = 0)
    BY <1>4, <1>6, <1>8, <1>9, ZenonT(30) DEF fd, ReadTo, Standard
  <2> QED
    BY <1>9, <2>1, <2>2, <2>3, InWorldFit
<1> QED
  BY <1>2, <1>8, <1>10, SameFileTwice, Zenon

(* What ReadAt does to the position: nothing.                              *)
LEMMA ReadAtFit ==
  ASSUME NEW w, NEW d \in DOMAIN w.streams, Fit(w, d), NEW n \in Nat, NEW offset \in Int,
         NEW o \in ReadAt(w, d, n, offset)
  PROVE  /\ Fit(o.w, d) /\ SameFile(w, o.w, d) /\ o.r \in Int
         /\ Position(o.w, d) = Position(w, d)
<1> DEFINE acc == w.host.tab[w.streams[d].hfd].acc
<1>1. PICK a \in fseek(w, d, 0, "CUR") : \E b \in fseek(a.w, d, offset, "SET") :
        \E c \in fread(b.w, d, n) : \E z \in fseek(c.w, d, a.r, "SET") : o = [w |-> z.w, r |-> c.r]
  BY DEF ReadAt
<1>2. PICK b \in fseek(a.w, d, offset, "SET") :
        \E c \in fread(b.w, d, n) : \E z \in fseek(c.w, d, a.r, "SET") : o = [w |-> z.w, r |-> c.r]
  BY <1>1, Zenon
<1>3. PICK c \in fread(b.w, d, n) : \E z \in fseek(c.w, d, a.r, "SET") : o = [w |-> z.w, r |-> c.r]
  BY <1>2, Zenon
<1>4. PICK z \in fseek(c.w, d, a.r, "SET") : o = [w |-> z.w, r |-> c.r]
  BY <1>3, Zenon
<1> DEFINE wa == a.w
           wb == b.w
           wc == c.w
           wz == z.w
           back == a.r
<1>0. b \in fseek(wa, d, offset, "SET") /\ c \in fread(wb, d, n) /\ z \in fseek(wc, d, back, "SET")
  BY Zenon
<1>5. /\ Fit(wa, d) /\ SameFile(w, wa, d) /\ back \in Int
      /\ acc = "std" => Position(wa, d) = Position(w, d)
      /\ acc # "std" => back = Position(w, d)
  <2>1. PICK zero \in Int : zero = 0
    OBVIOUS
  <2>2. a \in fseek(w, d, zero, "CUR")
    BY <2>1, Zenon
  <2>3. "CUR" \in {"SET", "CUR", "END"}
    BY Zenon
  <2> QED
    BY <2>1, <2>2, <2>3, SeekFit, Zenon
<1> HIDE DEF wa, wb, wc, wz, back
<1>6. /\ Fit(wb, d) /\ SameFile(wa, wb, d)
      /\ acc = "std" => Position(wb, d) = Position(w, d)
  <2>1. wa.host.tab[wa.streams[d].hfd].acc = acc /\ d \in DOMAIN wa.streams
    BY <1>5, Zenon DEF SameFile
  <2> HIDE DEF acc
  <2>2. "SET" \in {"SET", "CUR", "END"}
    BY Zenon
  <2> QED
    BY <1>0, <1>5, <2>1, <2>2, SeekFit, Zenon DEF wb
<1>7. /\ Fit(wc, d) /\ SameFile(wb, wc, d) /\ c.r \in Int
      /\ acc = "std" => Position(wc, d) = Position(w, d)
  <2>1. wb.host.tab[wb.streams[d].hfd].acc = acc /\ d \in DOMAIN wb.streams
    BY <1>5, <1>6, Zenon DEF SameFile
  <2> HIDE DEF acc
  <2> QED
    BY <1>0, <1>6, <2>1, FreadFit, Zenon DEF wc
<1>8. SameFile(w, wc, d)
  BY <1>5, <1>6, <1>7, SameFileTwice, Zenon
<1>9. /\ Fit(wz, d) /\ SameFile(wc, wz, d)
      /\ Position(wz, d) = Position(w, d)
  <2>1. Position(w, d) \in Nat
    BY PositionNat, Zenon
  <2>2. wc.host.tab[wc.streams[d].hfd].acc = acc /\ d \in DOMAIN wc.streams
    BY <1>8, Zenon DEF SameFile
  <2> HIDE DEF acc
  <2>3. Fit(wc, d) /\ back \in Int /\ z \in fseek(wc, d, back, "SET")
    BY <1>0, <1>5, <1>7, Zenon
  <2>4. "SET" \in {"SET", "CUR", "END"}
    OBVIOUS
  <2>5. /\ Fit(z.w, d) /\ SameFile(wc, z.w, d)
        /\ wc.host.tab[wc.streams[d].hfd].acc = "std" => Position(z.w, d) = Position(wc, d)
        /\ wc.host.tab[wc.streams[d].hfd].acc # "std" /\ back >= 0 => Position(z.w, d) = back
    BY <2>2, <2>3, <2>4, SeekFit, ZenonT(30)
  <2>6. acc # "std" => back = Position(w, d) /\ back >= 0
    BY <1>5, <2>1
  <2> QED
    BY <1>7, <2>2, <2>5, <2>6, Zenon DEF wz
<1>10. o.w = wz /\ o.r = c.r
  BY <1>4, Zenon DEF wz
<1> QED
  BY <1>7, <1>8, <1>9, <1>10, SameFileTwice, Zenon

-----------------------------------------------------------------------------
(* FitInv, kept by every system call together with FInv.                   *)
LEMMA RefusedFit ==
  ASSUME FitInv, NEW r \in Int, Refused(r)
  PROVE  FitInv'
<1>1. World' = World /\ UNCHANGED <<host, streams, status, allocated, files>> /\ ret' = r
  BY DEF Refused, Ends, World
<1> QED
  BY <1>1 DEF FitInv

LEMMA IoFit ==
  ASSUME FInv, FitInv, NEW fd, Has(fd), NEW w, NEW r \in Int, Only(World, w, files[fd]),
         Fit(w, files[fd]), Ends(w, r), UNCHANGED <<allocated, files>>, status' \in {"run", "exit"}
  PROVE  FitInv'
<1> DEFINE d == files[fd]
<1>1. d \in DOMAIN streams
  BY Zenon DEF FInv, Has
<1>2. host' = w.host /\ streams' = w.streams /\ ret' = r
  BY DEF Ends
<1>3. HostOK(host') /\ DOMAIN streams' = DOMAIN streams
  BY <1>2, Zenon DEF Fit, Only, World
<1>4. ASSUME NEW e \in DOMAIN streams' PROVE Fit(World', e)
  <2>1. CASE e = d
    BY <1>2, <2>1, Zenon DEF Fit, World
  <2>2. CASE e # d
    <3>1. streams'[e] = streams[e] /\ e \in DOMAIN streams
      BY <1>2, <1>3, <2>2, ZenonT(30) DEF Only, World
    <3>2. streams[e].hfd # streams[d].hfd /\ streams[e].hfd \in Fd
      BY <1>1, <2>2, <3>1, Zenon DEF FInv, Open
    <3>3. host'.tab[streams[e].hfd] = host.tab[streams[e].hfd]
      BY <1>2, <3>2, Zenon DEF Only, OnlyFd, World
    <3>4. Fit(World, e)
      BY <3>1, Zenon DEF FitInv
    <3> QED
      BY <1>3, <3>1, <3>3, <3>4, Zenon DEF Fit, World, Open
  <2> QED
    BY <2>1, <2>2, Zenon
<1>5. Len(streams') = Len(streams)
  <2>1. FInv /\ Len(streams) \in Nat /\ DOMAIN streams = 1 .. Len(streams)
    BY StreamsSeq, Zenon
  <2>2. WorldOK(w)
    BY Zenon DEF Only
  <2>3. streams' = [e \in 1 .. Len(streams) |-> streams'[e]]
    BY <1>2, <1>3, <2>1, <2>2, Zenon DEF WorldOK
  <2> DEFINE n == Len(streams)
  <2> HIDE DEF n
  <2>4. Len([e \in 1 .. n |-> streams'[e]]) = n
    BY <2>1 DEF n
  <2> QED
    BY <2>3, <2>4 DEF n
<1> QED
  BY <1>2, <1>3, <1>4, <1>5, Zenon DEF FitInv

LEMMA OpensFit ==
  ASSUME FInv, FitInv, NEW path \in Paths, NEW acc, NEW flags, Opens(path, acc, flags), ret' \in Int,
         status' = status
  PROVE  FitInv'
<1> DEFINE g == OpenedFile(host, path, flags)
<1>1. /\ host' = addFile(g, path, acc) /\ acc \in Acc
      /\ host.next \in 3 .. fdMax /\ host.next < fdMax
  BY Zenon DEF Opens, FInv
<1>0. HostOK(g) /\ g.tab = host.tab /\ g.next = host.next
  BY OpenedOK, OpenedKeeps, Zenon DEF FitInv
<1> HIDE DEF g
<1>2. HostOK(host')
  <2>1. host'.next \in 3 .. fdMax
    BY <1>0, <1>1, HypercallConstants DEF addFile
  <2>2. host.next \in Fd
    BY <1>1, HypercallConstants DEF Fd
  <2> DEFINE new == [path |-> path, acc |-> acc, off |-> 0]
  <2>3. new \in [path : Paths \cup {<<>>}, acc : Acc \cup {"none", "std"}, off : Nat]
    BY <1>1, Zenon
  <2>4. host'.tab = [host.tab EXCEPT ![host.next] = new]
    BY <1>0, <1>1, Zenon DEF addFile
  <2>5. host'.size = g.size /\ host'.made = g.made
        /\ host' = [tab |-> host'.tab, next |-> host'.next, made |-> host'.made, size |-> host'.size]
    BY <1>1, Zenon DEF addFile
  <2>6. new.acc \in Acc => new.path \in Paths
    OBVIOUS
  <2> HIDE DEF new
  <2>7. host'.tab \in [Fd -> [path : Paths \cup {<<>>}, acc : Acc \cup {"none", "std"}, off : Nat]]
    BY <2>2, <2>3, <2>4, Zenon DEF FitInv, HostOK
  <2>8. \A f \in Fd : host'.tab[f].acc \in Acc => host'.tab[f].path \in Paths
    BY <2>2, <2>4, <2>6, Zenon DEF FitInv, HostOK
  <2> QED
    BY <1>0, <2>1, <2>5, <2>7, <2>8, Zenon DEF HostOK
<1>3. ASSUME NEW d \in DOMAIN streams PROVE Fit(World', d)
  <2>1. d \in DOMAIN streams' /\ streams'[d] = streams[d]
        /\ host'.tab[streams[d].hfd] = host.tab[streams[d].hfd]
    BY OpensKeeps, Zenon
  <2>2. Fit(World, d)
    BY DEF FitInv
  <2> QED
    BY <1>2, <2>1, <2>2, Zenon DEF Fit, World, Open
<1>4. CASE UNCHANGED <<allocated, files, streams>>
  BY <1>2, <1>3, <1>4 DEF FitInv
<1>5. CASE ~ UNCHANGED <<allocated, files, streams>>
  <2> DEFINE new == Len(streams) + 1
             s == Stream(host.next, flags2cmode(acc))
  <2>1. /\ streams' = Append(streams, s)
        /\ files' = [files EXCEPT ![LowestFree] = new]
    BY <1>5 DEF Opens
  <2>2. /\ Len(streams) \in Nat /\ DOMAIN streams = 1 .. Len(streams)
        /\ DOMAIN streams' = 1 .. new /\ streams'[new] = s
        /\ streams' = [d \in DOMAIN streams' |-> streams'[d]]
    BY <2>1, StreamsSeq
  <2>3. Fit(World', new)
    <3>1. /\ s = [hfd |-> host.next, mode |-> flags2cmode(acc), rbuf |-> 0, wbuf |-> 0]
          /\ flags2cmode(acc) \in {"r+", "w"}
      BY Zenon DEF Stream, flags2cmode
    <3>2. host.next \in Fd /\ Open(host', host.next)
      BY OpensHost, Zenon
    <3>3. s \in StreamType
      BY <3>1, <3>2, FileStackConstants DEF StreamType
    <3>4. s.hfd = host.next /\ s.rbuf = 0 /\ s.wbuf = 0
      BY <3>1
    <3>5. host'.tab[host.next].off \in Nat
      BY <1>2, <3>2, OpenFile, Zenon
    <3>6. World'.streams[new] = s /\ World'.host = host'
      BY <2>2 DEF World
    <3> HIDE DEF s, new
    <3> QED
      BY <1>2, <3>2, <3>3, <3>4, <3>5, <3>6 DEF Fit
  <2>4. Len(streams') = new
    <3> HIDE DEF new
    <3>1. new \in Nat
      BY <2>2 DEF new
    <3>2. Len([d \in 1 .. new |-> streams'[d]]) = new
      BY <3>1
    <3> QED
      BY <2>2, <3>2, Zenon
  <2>5. files' \in [Slot -> 0 .. new]
    <3>1. LowestFree \in Slot
      BY <1>5, LowestFreeIsFree DEF Opens
    <3> QED
      BY <2>1, <2>2, <3>1 DEF FitInv
  <2>6. \A d \in DOMAIN streams' : d = new \/ d \in DOMAIN streams
    BY <2>2
  <2> HIDE DEF new
  <2>7. \A d \in DOMAIN streams' : Fit(World', d)
    BY <1>3, <2>3, <2>6
  <2> QED
    BY <1>2, <2>4, <2>5, <2>7, Zenon DEF FitInv
<1> QED
  BY <1>4, <1>5


LEMMA OpenFailsFit ==
  ASSUME FInv, FitInv, NEW path \in Paths, NEW acc, NEW flags,
         NEW o \in hypOpen(host, path, acc, flags), o.r < 0, OpenFails(o.host, o.r)
  PROVE  FitInv'
<1>1. host.next \in Nat
  BY HypercallConstants DEF FInv
<1>2. o.host.tab = host.tab /\ HostOK(o.host) /\ o.r \in Int
  BY <1>1, OpenOutcome, OpenedKeeps, OpenedOK DEF FitInv, errFail
<1>3. UNCHANGED <<status, allocated, files, streams>> /\ host' = o.host /\ ret' = o.r
  BY DEF OpenFails, Ends
<1>4. ASSUME NEW d \in DOMAIN streams PROVE Fit(World', d)
  <2>1. Fit(World, d)
    BY DEF FitInv
  <2> QED
    BY <1>2, <1>3, <2>1, Zenon DEF Fit, World, Open
<1> QED
  BY <1>2, <1>3, <1>4 DEF FitInv

LEMMA OpenFit ==
  ASSUME FInv, FitInv, NEW path \in Paths, NEW acc \in Acc, NEW flags,
         sys_openat(path, acc, flags)
  PROVE  FitInv'
<1>1. CASE \E r \in Int : Refused(r)
  BY <1>1, RefusedFit
<1>2. CASE ~ \E r \in Int : Refused(r)
  <2>0. BADF \in Int /\ NFILE \in Int
    BY DEF BADF, NFILE
  <2>1. PICK o \in hypOpen(host, path, acc, flags) :
          /\ SomeFree
          /\ \/ o.r < 0 /\ OpenFails(o.host, o.r)
             \/ /\ o.r >= 0 /\ host' = o.host /\ ret' = BADF
                /\ UNCHANGED <<status, allocated, files, streams>>
             \/ /\ o.r >= 0
                /\ host' = o.host /\ ret' = LowestFree
                /\ streams' = Append(streams, Stream(o.r, flags2cmode(acc)))
                /\ files' = [files EXCEPT ![LowestFree] = Len(streams) + 1]
                /\ allocated' = [allocated EXCEPT ![LowestFree] = TRUE]
                /\ UNCHANGED status
    BY <1>2, <2>0, Zenon DEF sys_openat
  <2>2. CASE o.r < 0 /\ OpenFails(o.host, o.r)
    BY <2>2, OpenFailsFit
  <2>3. CASE ~ (o.r < 0 /\ OpenFails(o.host, o.r))
    <3>a. o.r >= 0
      BY <2>1, <2>3, Zenon
    <3>b. host.next \in 3 .. fdMax
      BY Zenon DEF FInv
    <3>0. o.r >= 0 /\ host.next \in Nat
      BY <3>a, <3>b, HypercallConstants
    <3>1. /\ host.next < fdMax /\ o.r = host.next
          /\ o.host = addFile(OpenedFile(host, path, flags), path, acc)
      BY <3>0, OpenOutcome DEF errFail
    <3>2. LowestFree \in Int
      BY <2>1, LowestFreeIsFree, FileStackConstants DEF Slot
    <3>3. ret' \in Int /\ status' = status
      BY <2>0, <2>1, <2>3, <3>2, Zenon
    <3>4. Opens(path, acc, flags)
      <4>1. CASE UNCHANGED <<allocated, files, streams>>
        BY <2>1, <2>3, <3>1, <4>1, Zenon DEF Opens
      <4>2. CASE ~ UNCHANGED <<allocated, files, streams>>
        BY <2>1, <2>3, <3>1, <4>2, Zenon DEF Opens
      <4> QED
        BY <4>1, <4>2
    <3> QED
      BY <3>3, <3>4, OpensFit
  <2> QED
    BY <2>2, <2>3
<1> QED
  BY <1>1, <1>2

(* What pread64 and the file part of mmap do when they read.               *)
LEMMA ReadAtStep ==
  ASSUME FInv, FitInv, NEW fd, Has(fd), NEW n \in Nat, NEW off \in Int,
         NEW o \in ReadAt(World, files[fd], n, off), NEW r, Ends(o.w, r),
         UNCHANGED <<allocated, files>>
  PROVE  /\ r \in Int /\ status' \in {"run", "exit"} => FitInv'
         /\ ~ Moved(fd)
         /\ o.r \in Int
<1> DEFINE d == files[fd]
           w == o.w
<1>1. d \in DOMAIN World.streams /\ WorldOK(World) /\ Fit(World, d)
  BY Zenon DEF FInv, FitInv, Has, World
<1>2. Only(World, w, d)
  BY <1>1, ReadAtOnly, Zenon
<1>3. Fit(w, d) /\ Position(w, d) = Position(World, d) /\ o.r \in Int
  BY <1>1, ReadAtFit, Zenon
<1>4. World'.host = w.host /\ World'.streams = w.streams /\ files'[fd] = d
  BY Zenon DEF Ends, World
<1>5. ~ Moved(fd)
  <2> HIDE DEF d, w
  <2>1. Position([host |-> host', streams |-> streams'], files'[fd]) = Position(w, d)
    BY <1>4, Zenon DEF Position, World
  <2> QED
    BY <1>3, <2>1 DEF Moved, d
<1>6. r \in Int /\ status' \in {"run", "exit"} => FitInv'
  BY <1>2, <1>3, IoFit, Zenon
<1> QED
  BY <1>3, <1>5, <1>6

LEMMA FitStep ==
  ASSUME FInv, FitInv, Next
  PROVE  FitInv'
<1>0. /\ WorldOK(World) /\ status \in {"run", "exit"}
      /\ \A fd : Has(fd) => files[fd] \in DOMAIN World.streams /\ Fit(World, files[fd])
  BY Zenon DEF FInv, FitInv, Has, World
<1>r. BADF \in Int /\ FAULT \in Int /\ INVAL \in Int /\ 0 \in Int
  BY DEF BADF, FAULT, INVAL
<1>1. CASE sys_openat_refused \/ \E p \in Paths, a \in Modes, flags \in OpenFlags : sys_openat(p, a, flags)
  BY <1>r, <1>1, OpenFit, RefusedFit, FileStackConstants DEF sys_openat_refused
<1>2. ASSUME NEW fd, sys_close(fd) PROVE FitInv'
  <2>1. CASE Refused(BADF)
    BY <1>r, <2>1, RefusedFit
  <2>2. CASE ~ Refused(BADF)
    <3>1. World' = World /\ host' = host /\ streams' = streams /\ status' = status
          /\ files' = files /\ ret' = 0
      BY <1>2, <2>2, Zenon DEF sys_close, Ends, World
    <3> QED
      BY <3>1 DEF FitInv
  <2> QED
    BY <2>1, <2>2
<1>3. ASSUME NEW args, NEW fd, sys_fstatat(args, fd) PROVE FitInv'
  <2>1. \E r \in Int : Refused(r)
    BY <1>3, <1>r DEF sys_fstatat
  <2> QED
    BY <2>1, RefusedFit
<1>4. ASSUME NEW fd, NEW off \in Int, NEW wh \in {"SET", "CUR", "END"}, sys_lseek(fd, off, wh)
      PROVE  FitInv'
  <2>1. CASE Refused(BADF)
    BY <1>r, <2>1, RefusedFit
  <2>2. CASE ~ Refused(BADF)
    <3>1. PICK o \in fseek(World, files[fd], off, wh) : Ends(o.w, o.r)
      BY <1>4, <2>2 DEF sys_lseek
    <3>2. Has(fd) /\ UNCHANGED <<allocated, files>> /\ status' = status
      BY <1>4, <2>2 DEF sys_lseek, InUse
    <3>3. Only(World, o.w, files[fd])
      BY <1>0, <3>2, SeekOnly, Zenon
    <3>4. Fit(o.w, files[fd]) /\ o.r \in Int
      BY <1>0, <3>2, SeekFit, Zenon
    <3> QED
      BY <1>0, <3>1, <3>2, <3>3, <3>4, IoFit, Zenon
  <2> QED
    BY <2>1, <2>2
<1>5. ASSUME NEW fd, NEW n \in Nat, NEW good \in Int, sys_read(fd, n, good) PROVE FitInv'
  <2>1. CASE \E r \in Int : Refused(r)
    BY <2>1, RefusedFit
  <2>2. CASE ~ \E r \in Int : Refused(r)
    <3>1. Has(fd) /\ UNCHANGED <<allocated, files>> /\ status' = status /\ good >= 0
      BY <1>5, <2>2, <1>r DEF sys_read, InUse
    <3>2. PICK o \in fread(World, files[fd], Least(n, good)) :
            Ends(o.w, IF good < n /\ o.r = good THEN FAULT ELSE o.r)
      BY <1>5, <2>2, <1>r, Zenon DEF sys_read
    <3> DEFINE m == Least(n, good)
               r == IF good < n /\ o.r = good THEN FAULT ELSE o.r
    <3>3. m \in Nat
      BY <3>1 DEF Least
    <3>4. o \in fread(World, files[fd], m) /\ Ends(o.w, r)
      BY <3>2
    <3> HIDE DEF m
    <3>5. Only(World, o.w, files[fd])
      BY <1>0, <3>1, <3>4, FreadOnly, Zenon
    <3>6. Fit(o.w, files[fd]) /\ o.r \in Int
      BY <1>0, <3>1, <3>3, <3>4, FreadFit, Zenon
    <3>7. r \in Int
      BY <1>r, <3>6
    <3> HIDE DEF r
    <3> QED
      BY <1>0, <3>1, <3>4, <3>5, <3>6, <3>7, IoFit, Zenon
  <2> QED
    BY <2>1, <2>2
<1>6. ASSUME NEW fd, NEW n \in Nat, NEW good \in Int, sys_write(fd, n, good) PROVE FitInv'
  <2>1. CASE \E r \in Int : Refused(r)
    BY <2>1, RefusedFit
  <2>2. CASE ~ \E r \in Int : Refused(r)
    <3>1. Has(fd) /\ UNCHANGED <<allocated, files>> /\ status' = status /\ good >= 0
      BY <1>6, <2>2, <1>r DEF sys_write, InUse
    <3> DEFINE m == Least(n, good)
               r == IF good < n THEN FAULT ELSE n
    <3>2. PICK w \in fwrite(World, files[fd], m) : Ends(w, r)
      BY <1>6, <2>2, <1>r, Zenon DEF sys_write
    <3>3. m \in Nat /\ r \in Int
      BY <1>r, <3>1 DEF Least
    <3> HIDE DEF m, r
    <3>4. Only(World, w, files[fd])
      BY <1>0, <3>1, <3>2, FwriteOnly, Zenon
    <3>5. Fit(w, files[fd])
      BY <1>0, <3>1, <3>2, <3>3, FwriteFit, Zenon
    <3> QED
      BY <1>0, <3>1, <3>2, <3>3, <3>4, <3>5, IoFit, Zenon
  <2> QED
    BY <2>1, <2>2

<1>7. ASSUME NEW fd, NEW n \in Nat, NEW off \in Int, NEW buf, sys_pread64(fd, n, off, buf)
      PROVE  FitInv'
  <2>1. CASE \E r \in Int : Refused(r)
    BY <2>1, RefusedFit
  <2>2. CASE ~ \E r \in Int : Refused(r)
    <3>1. Has(fd) /\ \E o \in ReadAt(World, files[fd], n, off) :
            /\ Ends(o.w, o.r) /\ UNCHANGED <<allocated, files>>
            /\ status' = IF buf = "mapped" \/ o.r = 0 THEN status ELSE "exit"
      BY <1>7, <2>2, <1>r, Zenon DEF sys_pread64
    <3>2. PICK o \in ReadAt(World, files[fd], n, off) :
            /\ Ends(o.w, o.r) /\ UNCHANGED <<allocated, files>>
            /\ status' = IF buf = "mapped" \/ o.r = 0 THEN status ELSE "exit"
      BY <3>1
    <3>3. status' \in {"run", "exit"}
      BY <1>0, <3>2, Zenon
    <3> QED
      BY <3>1, <3>2, <3>3, ReadAtStep, Zenon
  <2> QED
    BY <2>1, <2>2
<1>8. ASSUME NEW fd, NEW off \in Int, MmapFile(fd, MaxIo, off) PROVE FitInv'
  <2>1. PICK o \in ReadAt(World, files[fd], MaxIo, off) : Ends(o.w, 0)
    BY <1>8 DEF MmapFile
  <2>2. Has(fd) /\ UNCHANGED <<allocated, files>> /\ status' = status
    BY <1>8 DEF MmapFile, InUse
  <2>3. MaxIo \in Nat
    BY FileStackConstants
  <2> DEFINE r == 0
  <2>4. r \in Int /\ Ends(o.w, r)
    BY <2>1
  <2> HIDE DEF r
  <2> QED
    BY <1>0, <2>2, <2>3, <2>4, ReadAtStep, Zenon
<1>9. CASE sys_exit
  <2>1. World' = World /\ host' = host /\ streams' = streams /\ status' = "exit"
        /\ files' = files /\ ret' = ret
    BY <1>9 DEF sys_exit, World
  <2> QED
    BY <2>1 DEF FitInv
<1>10. {-1, 0, 1} \subseteq Int /\ 0 .. MaxIo \subseteq Nat /\ \A n \in 0 .. MaxIo : -1 .. n \subseteq Int
  BY FileStackConstants
<1>11. CASE \E fd \in Fds, n \in 0 .. MaxIo : \E good \in -1 .. n :
         sys_read(fd, n, good) \/ sys_write(fd, n, good)
  BY <1>5, <1>6, <1>10, <1>11
<1>12. CASE \E fd \in Fds, off \in {-1, 0, 1}, buf \in Buffers : sys_pread64(fd, 1, off, buf)
  <2>1. 1 \in Nat
    OBVIOUS
  <2> QED
    BY <1>7, <1>10, <1>12, <2>1
<1>13. CASE \E fd \in Fds, off \in {-1, 0, 1} : MmapFile(fd, MaxIo, off)
  BY <1>8, <1>10, <1>13
<1>14. CASE \E fd \in Fds, off \in {-1, 0, 1}, wh \in {"SET", "CUR", "END"} : sys_lseek(fd, off, wh)
  BY <1>4, <1>10, <1>14
<1> QED
  BY <1>1, <1>2, <1>3, <1>9, <1>11, <1>12, <1>13, <1>14, Zenon DEF Next

LEMMA FitInit == ASSUME Init PROVE FitInv
<1>1. /\ host.next = 3 + Booted
      /\ host.tab = [fd \in Fd |-> IF fd < 3 THEN Std ELSE NoFile]
      /\ host.made = Existing
      /\ host.size = [p \in Paths |-> IF p \in Existing THEN 1 ELSE 0]
      /\ host = [tab |-> host.tab, next |-> host.next, made |-> host.made, size |-> host.size]
  BY Zenon DEF Init, NewContainer
<1>2. HostOK(host)
  <2>1. host.next \in 3 .. fdMax
    BY <1>1, HypercallConstants, FileStackConstants
  <2>2. \A fd \in Fd : host.tab[fd] = Std \/ host.tab[fd] = NoFile
    BY <1>1, Zenon
  <2>3. /\ Std \in [path : Paths \cup {<<>>}, acc : Acc \cup {"none", "std"}, off : Nat]
        /\ NoFile \in [path : Paths \cup {<<>>}, acc : Acc \cup {"none", "std"}, off : Nat]
        /\ Std.acc \notin Acc /\ NoFile.acc \notin Acc
    BY Zenon DEF Std, NoFile, Acc
  <2>4. host.size \in [Paths -> Nat] /\ host.made \subseteq Paths
    BY <1>1, HypercallConstants
  <2>5. host.tab \in [Fd -> [path : Paths \cup {<<>>}, acc : Acc \cup {"none", "std"}, off : Nat]]
    BY <1>1, <2>3, Zenon
  <2> QED
    BY <1>1, <2>1, <2>2, <2>3, <2>4, <2>5, Zenon DEF HostOK
<1>3. streams = [d \in 1 .. 3 |-> Stream(d - 1, IF d = 1 THEN "r+" ELSE "w")]
  BY DEF Init
<1>4. DOMAIN streams = 1 .. 3 /\ Len(streams) = 3
  BY <1>3
<1>5. ASSUME NEW d \in 1 .. 3 PROVE Fit(World, d)
  <2>1. /\ streams[d].hfd = d - 1 /\ streams[d].mode \in {"r+", "w"}
        /\ streams[d].rbuf = 0 /\ streams[d].wbuf = 0
        /\ streams[d] = [hfd |-> streams[d].hfd, mode |-> streams[d].mode,
                         rbuf |-> streams[d].rbuf, wbuf |-> streams[d].wbuf]
    BY <1>3, Zenon DEF Stream
  <2>2. d - 1 \in Fd /\ d - 1 < 3
    BY HypercallConstants DEF Fd
  <2>3. host.tab[d - 1] = Std
    BY <1>1, <2>2
  <2>4. streams[d] \in StreamType
    BY <2>1, <2>2, FileStackConstants DEF StreamType
  <2>5. Open(host, streams[d].hfd) /\ host.tab[streams[d].hfd] = Std /\ Std.off = 0
    BY <2>1, <2>2, <2>3 DEF Open, Std
  <2>6. streams[d].rbuf <= host.tab[streams[d].hfd].off
    BY <2>1, <2>5
  <2> QED
    BY <1>2, <2>1, <2>4, <2>5, <2>6, Zenon DEF Fit, World
<1>6. files \in [Slot -> 0 .. 3]
  BY FileStackConstants DEF Init, Slot
<1> QED
  BY <1>2, <1>4, <1>5, <1>6 DEF Init, FitInv

LEMMA FitInvariant == Spec => [](FInv /\ FitInv)
<1>1. Init => FitInv
  BY FitInit
<1>2. FInv /\ FitInv /\ [Next]_vars => FitInv'
  <2>1. ASSUME FitInv, vars' = vars PROVE FitInv'
    BY <2>1, Zenon DEF vars, FitInv, World
  <2> QED
    BY <2>1, FitStep
<1> QED
  BY <1>1, <1>2, FInvariant, PTL DEF Spec

(* Every variable of the descriptor tables, the streams and the host keeps *)
(* its type: however system calls are mixed, no offset on the host becomes *)
(* negative, no stream buffers more than BUFSIZ, and no slot refers to a   *)
(* stream that does not exist.                                             *)
THEOREM FileTypes == Spec => []TypeOK
<1>1. FInv /\ FitInv => TypeOK
  <2> SUFFICES ASSUME FInv, FitInv PROVE TypeOK
    OBVIOUS
  <2>1. \A d \in DOMAIN streams : streams[d] \in StreamType
    BY Zenon DEF FitInv, Fit, World
  <2>2. /\ Len(streams) \in Nat /\ DOMAIN streams = 1 .. Len(streams)
        /\ streams = [d \in DOMAIN streams |-> streams[d]]
    BY StreamsSeq DEF FInv, WorldOK, World
  <2>3. streams \in [1 .. Len(streams) -> StreamType]
    BY <2>1, <2>2
  <2> HIDE DEF StreamType
  <2>4. streams \in Seq(StreamType)
    BY <2>2, <2>3, SeqOfFunction
  <2> QED
    BY <2>4, Zenon DEF TypeOK, FInv, FitInv, StreamType
<1> QED
  BY <1>1, FitInvariant, PTL

(* pread64 and the file part of mmap (map_vma_no_overlap) borrow the       *)
(* position of a file and give it back, whatever was read ahead or held    *)
(* back before, and also when the seek to the offset failed: the last seek *)
(* of ReadAt goes to a position that a stream can be at.                   *)
THEOREM PositionAlwaysRestored == Spec => PositionRestored
<1> DEFINE Restored ==
      \A fd \in Slot :
        allocated[fd] /\ Moved(fd)
          => ~ \E off \in {-1, 0, 1} :
                 \/ \E buf \in Buffers : sys_pread64(fd, 1, off, buf)
                 \/ MmapFile(fd, MaxIo, off)
<1>1. ASSUME FInv, FitInv, NEW fd \in Slot, allocated[fd], NEW off \in Int, NEW n \in Nat,
             NEW buf, sys_pread64(fd, n, off, buf)
      PROVE  ~ Moved(fd)
  <2>1. CASE \E r : Refused(r)
    <3>1. host' = host /\ streams' = streams /\ files' = files
      BY <2>1, Zenon DEF Refused, Ends, World
    <3> QED
      BY <3>1, Zenon DEF Moved, World
  <2>2. CASE ~ \E r : Refused(r)
    <3>1. Has(fd) /\ \E o \in ReadAt(World, files[fd], n, off) :
            Ends(o.w, o.r) /\ UNCHANGED <<allocated, files>>
      BY <1>1, <2>2, Zenon DEF sys_pread64
    <3> QED
      BY <1>1, <3>1, ReadAtStep, Zenon
  <2> QED
    BY <2>1, <2>2
<1>2. ASSUME FInv, FitInv, NEW fd \in Slot, NEW off \in Int, MmapFile(fd, MaxIo, off)
      PROVE  ~ Moved(fd)
  <2>1. PICK o \in ReadAt(World, files[fd], MaxIo, off) : Ends(o.w, 0)
    BY <1>2 DEF MmapFile
  <2>2. Has(fd) /\ UNCHANGED <<allocated, files>> /\ MaxIo \in Nat
    BY <1>2, FileStackConstants, Zenon DEF MmapFile, InUse
  <2> QED
    BY <1>2, <2>1, <2>2, ReadAtStep, Zenon
<1>3. {-1, 0, 1} \subseteq Int /\ 1 \in Nat
  OBVIOUS
<1>4. FInv /\ FitInv => Restored
  BY <1>1, <1>2, <1>3
<1> HIDE DEF Restored
<1>5. Spec => [][Restored]_vars
  BY <1>4, FitInvariant, PTL DEF Spec
<1> QED
  BY <1>5 DEF PositionRestored, Restored
-----------------------------------------------------------------------------
(* Container: the host facing any guest kernel, for every set of paths    *)
(* and directories and every size of the table.                            *)

(* Numbers from nextfd on have never been handed out.                      *)
NextFree(h) == \A fd \in Fd : fd >= h.next => h.tab[fd].acc = "none"

(* The inductive invariant.  NeverReused needs to know that a number the   *)
(* guest closed lies below nextfd, where addFile never writes.             *)
CInv ==
  /\ CTypeOK
  /\ NextFree(container)
  /\ \A fd \in closed : fd < container.next /\ ~ Open(container, fd)

(* What a hypercall may do to the host: keep its invariants, never lower   *)
(* nextfd, and open no number below it.                                    *)
Safe(h, g) ==
  /\ HostOK(g)
  /\ NextFree(h) => NextFree(g)
  /\ h.next <= g.next
  /\ \A fd \in Fd : fd < h.next /\ h.tab[fd].acc = "none" => g.tab[fd].acc = "none"

(* From host h to host g no descriptor changes, and no file unless the     *)
(* table was full.                                                         *)
SameTable(h, g) == g.tab = h.tab /\ g.next = h.next /\ (g # h => h.next = fdMax)

(* An outcome of a hypercall is sound.                                     *)
Sound(h, o) ==
  /\ Safe(h, o.host)
  /\ o.r \in Int
  /\ o.r = errFail => SameTable(h, o.host)

Files == [path : Paths \cup {<<>>}, acc : Acc \cup {"none", "std"}, off : Nat]

LEMMA SameSafe == ASSUME NEW h, HostOK(h) PROVE Safe(h, h)
  BY HypercallConstants DEF Safe, HostOK, Fd

(* A new offset, and perhaps new sizes: all that reading, writing and      *)
(* seeking change.                                                         *)
LEMMA AtSafe ==
  ASSUME NEW h, HostOK(h), NEW fd \in Fd, NEW to \in Nat, NEW size \in [Paths -> Nat]
  PROVE  Safe(h, At(h, fd, to, size))
<1> DEFINE f == [path |-> h.tab[fd].path, acc |-> h.tab[fd].acc, off |-> to]
           tab == [h.tab EXCEPT ![fd] = f]
           g == At(h, fd, to, size)
<1>1. h.tab \in [Fd -> Files] /\ f \in Files
  BY Zenon DEF HostOK, Files
<1>2. tab \in [Fd -> Files]
  BY <1>1, Zenon
<1>3. \A x \in Fd : tab[x].acc = h.tab[x].acc /\ tab[x].path = h.tab[x].path
  BY <1>1, Zenon DEF Files
<1>4. g = [tab |-> tab, next |-> h.next, made |-> h.made, size |-> size]
  BY Zenon DEF At
<1>5. g.tab = tab /\ g.next = h.next /\ g.made = h.made /\ g.size = size
  BY <1>4
<1> HIDE DEF g, tab, f
<1>6. HostOK(g)
  BY <1>2, <1>3, <1>4, <1>5, Zenon DEF HostOK, Files
<1>7. h.next \in Int
  BY HypercallConstants DEF HostOK
<1>8. Safe(h, g)
  BY <1>3, <1>5, <1>6, <1>7 DEF Safe, NextFree
<1> QED
  BY <1>8, Zenon DEF g

LEMMA OpenSafe ==
  ASSUME NEW h, HostOK(h), NEW path \in Paths, NEW acc \in Acc, NEW flags,
         NEW o \in hypOpen(h, path, acc, flags)
  PROVE  Sound(h, o)
<1> DEFINE f == [path |-> path, acc |-> acc, off |-> 0]
           tab == [h.tab EXCEPT ![h.next] = f]
           k == OpenedFile(h, path, flags)
           g == addFile(k, path, acc)
<1>0. h.next \in Nat /\ h.next <= fdMax
  BY HypercallConstants DEF HostOK
<1>k. HostOK(k) /\ k.tab = h.tab /\ k.next = h.next
  BY OpenedOK, OpenedKeeps, Zenon
<1>1. CASE o.r = errFail /\ (o.host = h \/ (o.host = k /\ h.next >= fdMax))
  <2> HIDE DEF k
  <2>1. HostOK(o.host) /\ o.host.tab = h.tab /\ o.host.next = h.next
    BY <1>1, <1>k, Zenon
  <2>2. Safe(h, o.host)
    BY <1>0, <2>1 DEF Safe, NextFree
  <2>3. SameTable(h, o.host)
    BY <1>0, <1>1, <2>1, HypercallConstants DEF SameTable
  <2> QED
    BY <1>1, <2>2, <2>3 DEF Sound, errFail
<1>2. CASE o.r = h.next /\ h.next < fdMax /\ o.host = g
  <2> HIDE DEF k
  <2>1. h.next \in Fd /\ h.next \in Nat
    BY <1>2, HypercallConstants DEF HostOK, Fd
  <2>2. h.tab \in [Fd -> Files] /\ f \in Files
    BY Zenon DEF HostOK, Files
  <2>3. tab \in [Fd -> Files] /\ tab[h.next] = f
    BY <2>1, <2>2, Zenon
  <2>4. \A x \in Fd \ {h.next} : tab[x] = h.tab[x]
    BY <2>2, Zenon
  <2>5. g = [tab |-> tab, next |-> h.next + 1, made |-> k.made, size |-> k.size]
    BY <1>k, Zenon DEF addFile
  <2>6. g.tab = tab /\ g.next = h.next + 1 /\ g.made = k.made /\ g.size = k.size
    BY <2>5
  <2>7. f.path = path /\ f.acc = acc
    OBVIOUS
  <2> HIDE DEF g, tab, f
  <2>8. HostOK(g)
    <3>1. g.next \in 3 .. fdMax /\ g.made \subseteq Paths /\ g.size \in [Paths -> Nat]
      BY <1>2, <1>k, <2>6, HypercallConstants DEF HostOK
    <3>2. \A x \in Fd : g.tab[x].acc \in Acc => g.tab[x].path \in Paths
      BY <2>1, <2>3, <2>4, <2>6, <2>7, Zenon DEF HostOK
    <3>3. g = [tab |-> g.tab, next |-> g.next, made |-> g.made, size |-> g.size]
      BY <2>5, <2>6, Zenon
    <3> QED
      BY <2>3, <2>6, <3>1, <3>2, <3>3, Zenon DEF HostOK, Files
  <2>9. Safe(h, g)
    BY <1>2, <2>1, <2>3, <2>4, <2>6, <2>7, <2>8 DEF Safe, NextFree, Fd
  <2> QED
    BY <1>2, <2>1, <2>9 DEF Sound, errFail
<1> QED
  BY <1>0, <1>1, <1>2, OpenOutcome, Zenon

LEMMA CloseSafe ==
  ASSUME NEW h, HostOK(h), NEW fd, NEW o \in hypClose(h, fd)
  PROVE  /\ Sound(h, o)
         /\ Open(h, fd) => fd \in Fd /\ o.host.tab[fd].acc = "none" /\ o.host.next = h.next
<1> DEFINE tab == [h.tab EXCEPT ![fd] = NoFile]
           g == [tab |-> tab, next |-> h.next, made |-> h.made, size |-> h.size]
<1>1. CASE ~ Open(h, fd)
  BY <1>1, SameSafe DEF hypClose, Fails, Result, errFail, Sound, SameTable
<1>2. CASE Open(h, fd)
  <2>1. fd \in Fd /\ o = Result(g, 0)
    BY <1>2, Zenon DEF hypClose, Open
  <2>2. h.tab \in [Fd -> Files] /\ NoFile \in Files
    BY Zenon DEF HostOK, Files, NoFile
  <2>3. tab \in [Fd -> Files] /\ tab[fd].acc = "none"
    BY <2>1, <2>2, Zenon DEF NoFile
  <2>4. \A x \in Fd \ {fd} : tab[x] = h.tab[x]
    BY <2>2, Zenon
  <2>5. g.tab = tab /\ g.next = h.next /\ g.made = h.made /\ g.size = h.size
    OBVIOUS
  <2>6. g = [tab |-> g.tab, next |-> g.next, made |-> g.made, size |-> g.size]
    OBVIOUS
  <2> HIDE DEF g, tab
  <2>7. HostOK(g)
    BY <2>3, <2>4, <2>5, <2>6, Zenon DEF HostOK, Files, Acc
  <2>8. h.next \in Int
    BY HypercallConstants DEF HostOK
  <2>9. Safe(h, g)
    BY <2>3, <2>4, <2>5, <2>7, <2>8 DEF Safe, NextFree, Acc
  <2> QED
    BY <1>2, <2>1, <2>3, <2>5, <2>9 DEF Result, Sound, errFail
<1> QED
  BY <1>1, <1>2, Zenon

LEMMA ReadSafe ==
  ASSUME NEW h, HostOK(h), NEW fd, NEW n \in Nat, NEW o \in hypRead(h, fd, n)
  PROVE  Sound(h, o)
<1>1. CASE o.host = h /\ o.r \in Int
  BY <1>1, SameSafe, Zenon DEF Sound, SameTable
<1>2. CASE ~ Open(h, fd) \/ h.tab[fd].acc \in {"w", "std"}
  BY <1>1, <1>2 DEF hypRead, Fails, Result, errFail, Sound, SameTable
<1>3. CASE Open(h, fd) /\ h.tab[fd].acc \notin {"w", "std"}
  <2> DEFINE k == Least(n, Available(h, fd))
  <2>1. fd \in Fd /\ h.tab[fd].path \in Paths
    BY <1>3, Zenon DEF Open, HostOK, Acc
  <2>2. h.tab[fd].off \in Nat /\ h.size[h.tab[fd].path] \in Nat /\ h.size \in [Paths -> Nat]
    BY <2>1, Zenon DEF HostOK
  <2>3. k \in Nat
    BY <2>2 DEF Least, Greatest, Available
  <2>4. o = Result(At(h, fd, h.tab[fd].off + k, h.size), k)
    BY <1>3, Zenon DEF hypRead
  <2>5. h.tab[fd].off + k \in Nat
    BY <2>2, <2>3
  <2> HIDE DEF k
  <2>6. Safe(h, At(h, fd, h.tab[fd].off + k, h.size))
    BY <2>1, <2>2, <2>5, AtSafe, Zenon
  <2> QED
    BY <2>3, <2>4, <2>6 DEF Result, Sound, errFail
<1> QED
  BY <1>2, <1>3, Zenon

LEMMA WriteSafe ==
  ASSUME NEW h, HostOK(h), NEW fd, NEW n \in Nat, NEW o \in hypWrite(h, fd, n)
  PROVE  Sound(h, o)
<1>1. CASE ~ Open(h, fd) \/ h.tab[fd].acc \in {"r", "std"}
  BY <1>1, SameSafe DEF hypWrite, Fails, Result, errFail, Sound, SameTable
<1>2. CASE Open(h, fd) /\ h.tab[fd].acc \notin {"r", "std"}
  <2> DEFINE to == h.tab[fd].off + n
             size == [h.size EXCEPT ![h.tab[fd].path] = Greatest(@, to)]
  <2>1. fd \in Fd /\ h.tab[fd].path \in Paths
    BY <1>2, Zenon DEF Open, HostOK, Acc
  <2>2. h.size \in [Paths -> Nat] /\ to \in Nat
    BY <2>1 DEF HostOK
  <2>3. size \in [Paths -> Nat]
    BY <2>1, <2>2, Zenon DEF Greatest
  <2>4. o = Result(At(h, fd, to, size), n)
    BY <1>2, Zenon DEF hypWrite, Written
  <2> HIDE DEF to, size
  <2>5. Safe(h, At(h, fd, to, size))
    BY <2>1, <2>2, <2>3, AtSafe, Zenon
  <2> QED
    BY <2>4, <2>5 DEF Result, Sound, errFail
<1> QED
  BY <1>1, <1>2, Zenon

LEMMA LseekSafe ==
  ASSUME NEW h, HostOK(h), NEW fd, NEW off \in Int, NEW whence \in {"SET", "CUR", "END"},
         NEW o \in hypLseek(h, fd, off, whence)
  PROVE  Sound(h, o)
<1>1. CASE o = Result(h, errFail)
  BY <1>1, SameSafe DEF Result, errFail, Sound, SameTable
<1>2. CASE Open(h, fd) /\ h.tab[fd].acc # "std"
  <2> DEFINE to == off + (CASE whence = "SET" -> 0
                            [] whence = "CUR" -> h.tab[fd].off
                            [] whence = "END" -> h.size[h.tab[fd].path])
  <2>1. fd \in Fd /\ h.tab[fd].path \in Paths
    BY <1>2, Zenon DEF Open, HostOK, Acc
  <2>2. h.tab[fd].off \in Nat /\ h.size \in [Paths -> Nat]
    BY <2>1, Zenon DEF HostOK
  <2>3. to \in Int
    BY <2>1, <2>2
  <2>4. o \in IF to < 0 THEN Fails(h) ELSE {Result(At(h, fd, to, h.size), to)}
    BY <1>2, Zenon DEF hypLseek
  <2> HIDE DEF to
  <2>5. CASE to >= 0
    <3>1. Safe(h, At(h, fd, to, h.size))
      BY <2>1, <2>2, <2>3, <2>5, AtSafe
    <3> QED
      BY <2>3, <2>4, <2>5, <3>1 DEF Result, Sound, errFail
  <2> QED
    BY <1>1, <2>3, <2>4, <2>5 DEF Fails
<1> QED
  BY <1>1, <1>2, Zenon DEF hypLseek, Fails

LEMMA FstatSafe ==
  ASSUME NEW h, HostOK(h), NEW fd, NEW o \in hypFstat(h, fd)
  PROVE  Sound(h, o)
  BY SameSafe DEF hypFstat, Fails, Result, errFail, Sound, SameTable

LEMMA GetdentsSafe ==
  ASSUME NEW h, HostOK(h), NEW fd, NEW n \in Nat, NEW o \in hypGetdents64(h, fd, n)
  PROVE  Sound(h, o)
  BY SameSafe DEF hypGetdents64, Fails, Result, errFail, Sound, SameTable

LEMMA AnswerSafe ==
  ASSUME NEW h, HostOK(h), NEW o \in hypTime(h) \cup hypClearSignal(h)
  PROVE  Sound(h, o)
  BY SameSafe DEF hypTime, hypClearSignal, Result, errFail, Sound, SameTable

-----------------------------------------------------------------------------
LEMMA CInitInv == CInit => CInv
<1> SUFFICES ASSUME CInit PROVE CInv
  OBVIOUS
<1> DEFINE tab == [fd \in Fd |-> IF fd < 3 THEN Std ELSE NoFile]
           size == [p \in Paths |-> IF p \in Existing THEN 1 ELSE 0]
<1>1. container = [tab |-> tab, next |-> 3, made |-> Existing, size |-> size]
  BY Zenon DEF CInit, NewContainer
<1>2. container.tab = tab /\ container.next = 3 /\ container.made = Existing /\ container.size = size
  BY <1>1, Zenon
<1>3. Std \in Files /\ NoFile \in Files /\ Std.acc = "std" /\ NoFile.acc = "none"
  BY Zenon DEF Std, NoFile, Files
<1>4. tab \in [Fd -> Files] /\ size \in [Paths -> Nat]
  BY <1>3, Zenon
<1>5. \A fd \in Fd : /\ tab[fd].acc \notin Acc
                     /\ fd >= 3 => tab[fd].acc = "none"
  BY <1>3 DEF Fd, Acc
<1> HIDE DEF tab, size
<1>6. HostOK(container)
  BY <1>1, <1>2, <1>4, <1>5, HypercallConstants DEF HostOK, Files
<1> QED
  BY <1>2, <1>5, <1>6 DEF CInit, CInv, CTypeOK, NextFree

(* A hypercall whose outcomes are all safe keeps the invariant, as long as *)
(* the guest closes nothing.                                               *)
LEMMA HypercallKeepsInv ==
  ASSUME NEW outcomes, CInv, Hypercall(outcomes), UNCHANGED closed,
         \A o \in outcomes : Sound(container, o)
  PROVE  CInv'
<1>1. Safe(container, container') /\ r0' \in Int /\ loop' = loop
  BY Zenon DEF Hypercall, Sound
<1>2. container.next \in Int /\ container'.next \in Int /\ \A fd \in Fd : fd \in Int
  BY <1>1, HypercallConstants DEF CInv, CTypeOK, Safe, HostOK, Fd
<1>3. CTypeOK' /\ NextFree(container)'
  BY <1>1, Zenon DEF CInv, CTypeOK, Safe, NextFree
<1>4. ASSUME NEW fd \in closed PROVE fd < container'.next /\ ~ Open(container', fd)
  <2>1. /\ fd \in Fd /\ fd < container.next /\ ~ Open(container, fd)
        /\ container.next <= container'.next
    BY <1>1, Zenon DEF CInv, CTypeOK, Safe
  <2>2. ~ Open(container', fd)
    BY <1>1, <2>1, Zenon DEF Safe, Open
  <2> QED BY <1>2, <2>1, <2>2
<1> QED
  BY <1>3, <1>4, Zenon DEF CInv

LEMMA CloseKeepsInv == ASSUME CInv, NEW fd, CallClose(fd) PROVE CInv'
<1>1. PICK o \in hypClose(container, fd) : container' = o.host /\ r0' = o.r
  BY Zenon DEF CallClose, Hypercall
<1>2. HostOK(container)
  BY Zenon DEF CInv, CTypeOK
<1>3. /\ Safe(container, container') /\ r0' \in Int
      /\ Open(container, fd) => fd \in Fd /\ container'.tab[fd].acc = "none" /\ container'.next = container.next
  <2>1. /\ Sound(container, o)
        /\ Open(container, fd) => fd \in Fd /\ o.host.tab[fd].acc = "none" /\ o.host.next = container.next
    BY <1>2, CloseSafe, Zenon
  <2> QED
    BY <1>1, <2>1, Zenon DEF Sound
<1>4. loop' = loop
  BY Zenon DEF CallClose, Hypercall
<1>5. container.next \in Int /\ container'.next \in Int /\ \A x \in Fd : x \in Int
  BY <1>2, <1>3, HypercallConstants DEF Safe, HostOK, Fd
<1>6. closed' \subseteq Fd
  BY <1>3, Zenon DEF CallClose, CInv, CTypeOK
<1>7. CTypeOK' /\ NextFree(container)'
  BY <1>3, <1>4, <1>6, Zenon DEF CInv, CTypeOK, Safe, NextFree
<1>8. ASSUME NEW x \in closed PROVE x < container'.next /\ ~ Open(container', x)
  <2>1. /\ x \in Fd /\ x < container.next /\ ~ Open(container, x)
        /\ container.next <= container'.next
    BY <1>3, Zenon DEF CInv, CTypeOK, Safe
  <2>2. ~ Open(container', x)
    BY <1>3, <2>1, Zenon DEF Safe, Open
  <2> QED
    BY <1>5, <2>1, <2>2
<1>9. Open(container, fd) => fd < container'.next /\ ~ Open(container', fd)
  BY <1>3, <1>5 DEF CInv, NextFree, Open
<1>10. closed' \subseteq closed \cup {fd} /\ (~ Open(container, fd) => closed' = closed)
  BY Zenon DEF CallClose
<1> QED
  BY <1>7, <1>8, <1>9, <1>10, Zenon DEF CInv

LEMMA CNextInv == CInv /\ [CNext]_cvars => CInv'
<1> SUFFICES ASSUME CInv, [CNext]_cvars PROVE CInv'
  OBVIOUS
<1> HostOK(container)
  BY Zenon DEF CInv, CTypeOK
<1>1. ASSUME NEW fd, CallWrite(fd, 1) PROVE CInv'
  BY <1>1, WriteSafe, HypercallKeepsInv, Zenon DEF CallWrite
<1>2. ASSUME NEW fd, CallRead(fd, 1) PROVE CInv'
  BY <1>2, ReadSafe, HypercallKeepsInv, Zenon DEF CallRead
<1>3. ASSUME NEW fd, CallFstat(fd) PROVE CInv'
  BY <1>3, FstatSafe, HypercallKeepsInv, Zenon DEF CallFstat
<1>4. ASSUME NEW p \in Paths, NEW a \in Acc, NEW flags \in Flags, CallOpen(p, a, flags) PROVE CInv'
  BY <1>4, OpenSafe, HypercallKeepsInv, Zenon DEF CallOpen
<1>5. ASSUME NEW fd, NEW off \in {-1, 0, 1}, NEW w \in {"SET", "CUR", "END"},
             CallLseek(fd, off, w)
      PROVE  CInv'
  <2>1. off \in Int
    OBVIOUS
  <2> QED
    BY <1>5, <2>1, LseekSafe, HypercallKeepsInv, Zenon DEF CallLseek
<1>6. ASSUME NEW why \in {"exit", "unknown", "panic"}, CallStop(why) PROVE CInv'
  BY <1>6, Zenon DEF CallStop, CInv, CTypeOK, NextFree
<1>7. ASSUME NEW fd, CallGetdents64(fd, 1) PROVE CInv'
  BY <1>7, GetdentsSafe, HypercallKeepsInv, Zenon DEF CallGetdents64
<1>8. CASE CallTime \/ CallClearSignal
  BY <1>8, AnswerSafe, HypercallKeepsInv, Zenon DEF CallTime, CallClearSignal
<1>9. CASE UNCHANGED cvars
  BY <1>9, Zenon DEF cvars, CInv, CTypeOK, NextFree
<1> QED
  BY <1>1, <1>2, <1>3, <1>4, <1>5, <1>6, <1>7, <1>8, <1>9, CloseKeepsInv, Zenon DEF CNext

LEMMA CInvAlways == CSpec => []CInv
  BY CInitInv, CNextInv, PTL DEF CSpec

(* For every set of paths and every size of the table, the table and       *)
(* nextfd keep their types under any sequence of hypercalls.               *)
THEOREM ContainerTypeCorrect == CSpec => []CTypeOK
<1>1. CInv => CTypeOK
  BY Zenon DEF CInv
<1> QED
  BY <1>1, CInvAlways, PTL

(* A descriptor number that the guest closed never names a file again.     *)
THEOREM ClosedNeverReused == CSpec => []NeverReused
<1>1. CInv => NeverReused
  BY Zenon DEF CInv, NeverReused
<1> QED
  BY <1>1, CInvAlways, PTL

(* Every hypercall that answers errFail, whichever test refused it, leaves *)
(* fdtable, nextfd and the offsets as they were; the files of the host too *)
(* unless hypOpen met a full table after os.OpenFile had opened the file.  *)
THEOREM FailedCallKeepsTable == CSpec => ErrFailKeepsTable
<1>1. CInv /\ [CNext]_cvars => [r0' = errFail => SameTable(container, container')]_cvars
  <2> SUFFICES ASSUME CInv, CNext, r0' = errFail PROVE SameTable(container, container')
    OBVIOUS
  <2> HostOK(container)
    BY Zenon DEF CInv, CTypeOK
  <2>1. ASSUME NEW outcomes, Hypercall(outcomes), \A o \in outcomes : Sound(container, o)
        PROVE  SameTable(container, container')
    BY <2>1, Zenon DEF Hypercall, Sound
  <2>2. ASSUME NEW fd, CallWrite(fd, 1) \/ CallRead(fd, 1) \/ CallClose(fd) \/ CallFstat(fd)
        PROVE  SameTable(container, container')
    <3>1. CASE CallWrite(fd, 1)
      BY <2>1, <3>1, WriteSafe, Zenon DEF CallWrite
    <3>2. CASE CallRead(fd, 1)
      BY <2>1, <3>2, ReadSafe, Zenon DEF CallRead
    <3>3. CASE CallClose(fd)
      BY <2>1, <3>3, CloseSafe, Zenon DEF CallClose
    <3>4. CASE CallFstat(fd)
      BY <2>1, <3>4, FstatSafe, Zenon DEF CallFstat
    <3> QED
      BY <2>2, <3>1, <3>2, <3>3, <3>4, Zenon
  <2>3. ASSUME NEW p \in Paths, NEW a \in Acc, NEW flags \in Flags, CallOpen(p, a, flags)
        PROVE  SameTable(container, container')
    BY <2>1, <2>3, OpenSafe, Zenon DEF CallOpen
  <2>4. ASSUME NEW fd, NEW off \in {-1, 0, 1}, NEW w \in {"SET", "CUR", "END"},
               CallLseek(fd, off, w)
        PROVE  SameTable(container, container')
    <3>1. off \in Int
      OBVIOUS
    <3> QED
      BY <2>1, <2>4, <3>1, LseekSafe, Zenon DEF CallLseek
  <2>5. ASSUME NEW why, CallStop(why) PROVE SameTable(container, container')
    BY <2>5, Zenon DEF CallStop, SameTable
  <2>6. ASSUME NEW fd, CallGetdents64(fd, 1) PROVE SameTable(container, container')
    BY <2>1, <2>6, GetdentsSafe, Zenon DEF CallGetdents64
  <2>7. ASSUME CallTime \/ CallClearSignal PROVE SameTable(container, container')
    BY <2>1, <2>7, AnswerSafe, Zenon DEF CallTime, CallClearSignal
  <2> QED
    BY <2>2, <2>3, <2>4, <2>5, <2>6, <2>7, Zenon DEF CNext
<1> QED
  BY <1>1, CInvAlways, PTL DEF CSpec, ErrFailKeepsTable, SameTable
=============================================================================
