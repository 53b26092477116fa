---------------------------- MODULE Descriptors ----------------------------
(***************************************************************************)
(* socket_t (net/socket.h, src/socket.cc) and the close and accept         *)
(* awaiters: which object owns a descriptor and who closes it, while the   *)
(* kernel hands a closed number out again.  A file is named by the order   *)
(* in which it was opened, so that a number and what it meant can differ.  *)
(***************************************************************************)
EXTENDS Integers, FiniteSets

CONSTANTS FdNumbers,    \* bound: descriptor numbers, counted from 0
          FdFiles,      \* bound: files opened in all
          FdSockets     \* socket objects

\* Descriptors are non-negative; the bounds are any.
ASSUME FdAssumption == FdNumbers \subseteq Nat /\ FdFiles \in Nat

FdNone == -1
FdNothing == [n |-> FdNone, file |-> 0]

VARIABLES fdTable,      \* the kernel's table: the file behind each number, 0 for none
          fdOpened,     \* files opened so far
          fdSock,       \* per socket object: fd, and the file it meant when it got it
          fdClose,      \* the close_awaiter: fd_, the file meant, and its state
          fdDetached,   \* the close queued by async_close
          fdOp,         \* one recv/send/connect/shutdown awaiter on a socket
          fdAccept,     \* one accept awaiter and the number its completion carries
          fdLeaked,     \* history: files nobody owns any more
          fdForeign     \* history: a number was closed that meant another file

fdVars == <<fdTable, fdOpened, fdSock, fdClose, fdDetached, fdOp, fdAccept, fdLeaked, fdForeign>>

FdInit ==
  /\ fdTable = [n \in FdNumbers |-> 0]
  /\ fdOpened = 0
  /\ fdSock = [s \in FdSockets |-> FdNothing]
  /\ fdClose = [fd |-> FdNothing, st |-> "none"]
  /\ fdDetached = FdNothing
  /\ fdOp = [fd |-> FdNothing, st |-> "none"]
  /\ fdAccept = [fd |-> FdNothing, st |-> "none"]
  /\ fdLeaked = {}
  /\ fdForeign = FALSE

\* The kernel's lowest free number for a new file.
FdFresh == CHOOSE n \in FdNumbers : fdTable[n] = 0 /\ \A k \in FdNumbers : k < n => fdTable[k] # 0
FdRoom == fdOpened < FdFiles /\ \E n \in FdNumbers : fdTable[n] = 0

\* close(2) on fd.n, meant for fd.file.
FdKernelClose(fd) ==
  /\ fdTable' = [fdTable EXCEPT ![fd.n] = 0]
  /\ fdForeign' = (fdForeign \/ fdTable[fd.n] # fd.file)

\* ::socket() in the constructors of the v4, v6 and local classes.
FdSocket(s) ==
  /\ FdRoom /\ fdSock[s].n = FdNone
  /\ fdOpened' = fdOpened + 1
  /\ fdTable' = [fdTable EXCEPT ![FdFresh] = fdOpened + 1]
  /\ fdSock' = [fdSock EXCEPT ![s] = [n |-> FdFresh, file |-> fdOpened + 1]]
  /\ UNCHANGED <<fdClose, fdDetached, fdOp, fdAccept, fdLeaked, fdForeign>>

\* accept() suspends; the kernel may complete it with a new descriptor.
FdAccept ==
  /\ fdAccept.st = "none"
  /\ fdAccept' = [fdAccept EXCEPT !.st = "waiting"]
  /\ UNCHANGED <<fdTable, fdOpened, fdSock, fdClose, fdDetached, fdOp, fdLeaked, fdForeign>>

FdAcceptCompletes ==
  /\ fdAccept.st \in {"waiting", "abandoned"} /\ FdRoom
  /\ fdOpened' = fdOpened + 1
  /\ fdTable' = [fdTable EXCEPT ![FdFresh] = fdOpened + 1]
  /\ IF fdAccept.st = "waiting"
     THEN /\ fdAccept' = [fd |-> [n |-> FdFresh, file |-> fdOpened + 1], st |-> "done"]
          /\ UNCHANGED fdLeaked
     ELSE /\ fdAccept' = [fd |-> FdNothing, st |-> "none"]
          /\ fdLeaked' = fdLeaked \cup {fdOpened + 1}
  /\ UNCHANGED <<fdSock, fdClose, fdDetached, fdOp, fdForeign>>

\* tcp_accept_awaiter::await_resume wraps the number in a socket_t.
FdAcceptResumes(s) ==
  /\ fdAccept.st = "done" /\ fdSock[s].n = FdNone
  /\ fdSock' = [fdSock EXCEPT ![s] = fdAccept.fd]
  /\ fdAccept' = [fd |-> FdNothing, st |-> "none"]
  /\ UNCHANGED <<fdTable, fdOpened, fdClose, fdDetached, fdOp, fdLeaked, fdForeign>>

\* The accepting coroutine is destroyed: a completion that has come or comes later
\* carries a number nobody takes.
FdAcceptAbandoned ==
  /\ fdAccept.st \in {"waiting", "done"}
  /\ fdLeaked' = IF fdAccept.st = "done" THEN fdLeaked \cup {fdAccept.fd.file} ELSE fdLeaked
  /\ fdAccept' = [fd |-> FdNothing, st |-> IF fdAccept.st = "done" THEN "none" ELSE "abandoned"]
  /\ UNCHANGED <<fdTable, fdOpened, fdSock, fdClose, fdDetached, fdOp, fdForeign>>

\* Mutant of FdMovedFrom: the source keeps the number.
FdMovedFromKept(s) == fdSock[s]

\* What a move leaves in its source.
FdMovedFrom(s) == FdNothing

\* The move constructor and the move assignment, which closes what it overwrites.
FdMove(s, t) ==
  /\ s # t /\ fdSock[s].n # FdNone
  /\ IF fdSock[t].n # FdNone THEN FdKernelClose(fdSock[t]) ELSE UNCHANGED <<fdTable, fdForeign>>
  /\ fdSock' = [fdSock EXCEPT ![t] = fdSock[s], ![s] = FdMovedFrom(s)]
  /\ UNCHANGED <<fdOpened, fdClose, fdDetached, fdOp, fdAccept, fdLeaked>>

\* ~socket_t.
FdDestroy(s) ==
  /\ fdSock[s].n # FdNone
  /\ FdKernelClose(fdSock[s])
  /\ fdSock' = [fdSock EXCEPT ![s] = FdNothing]
  /\ UNCHANGED <<fdOpened, fdClose, fdDetached, fdOp, fdAccept, fdLeaked>>

\* async_close(ctx, sock.release()): queued on the ring, or closed at once when the
\* context does not run or the ring is full.
FdAsyncClose(s, queued) ==
  /\ fdSock[s].n # FdNone
  /\ fdSock' = [fdSock EXCEPT ![s] = FdNothing]
  /\ IF queued THEN fdDetached = FdNothing /\ fdDetached' = fdSock[s] /\ UNCHANGED <<fdTable, fdForeign>>
     ELSE FdKernelClose(fdSock[s]) /\ UNCHANGED fdDetached
  /\ UNCHANGED <<fdOpened, fdClose, fdOp, fdAccept, fdLeaked>>

FdDetachedRuns ==
  /\ fdDetached # FdNothing
  /\ FdKernelClose(fdDetached)
  /\ fdDetached' = FdNothing
  /\ UNCHANGED <<fdOpened, fdSock, fdClose, fdOp, fdAccept, fdLeaked>>

\* socket_t::close: the awaiter owns the descriptor from here.
FdCloses(s) ==
  /\ fdClose.st = "none" /\ fdSock[s].n # FdNone
  /\ fdClose' = [fd |-> fdSock[s], st |-> "held"]
  /\ fdSock' = [fdSock EXCEPT ![s] = FdNothing]
  /\ UNCHANGED <<fdTable, fdOpened, fdDetached, fdOp, fdAccept, fdLeaked, fdForeign>>

\* co_await: the entry reaches the ring, or ENOBUFS makes await_resume close it.
FdCloseAwaited(queued) ==
  /\ fdClose.st = "held"
  /\ IF queued THEN fdClose' = [fdClose EXCEPT !.st = "sent"] /\ UNCHANGED <<fdTable, fdForeign>>
     ELSE FdKernelClose(fdClose.fd) /\ fdClose' = [fd |-> FdNothing, st |-> "none"]
  /\ UNCHANGED <<fdOpened, fdSock, fdDetached, fdOp, fdAccept, fdLeaked>>

\* The kernel closes, or a cancel reached the entry first and nobody closes.
FdCloseEnds(cancelled) ==
  /\ fdClose.st = "sent"
  /\ IF cancelled THEN fdLeaked' = fdLeaked \cup {fdClose.fd.file} /\ UNCHANGED <<fdTable, fdForeign>>
     ELSE FdKernelClose(fdClose.fd) /\ UNCHANGED fdLeaked
  /\ fdClose' = [fd |-> FdNothing, st |-> "none"]
  /\ UNCHANGED <<fdOpened, fdSock, fdDetached, fdOp, fdAccept>>

\* The awaiter is dropped without a co_await.
FdCloseDropped ==
  /\ fdClose.st = "held"
  /\ fdLeaked' = fdLeaked \cup {fdClose.fd.file}
  /\ fdClose' = [fd |-> FdNothing, st |-> "none"]
  /\ UNCHANGED <<fdTable, fdOpened, fdSock, fdDetached, fdOp, fdAccept, fdForeign>>

\* Any of the socket's other awaiters: the number is copied into the entry; the
\* kernel looks it up when the entry is submitted.
FdOpPrepared(s) ==
  /\ fdOp.st = "none" /\ fdSock[s].n # FdNone
  /\ fdOp' = [fd |-> fdSock[s], st |-> "prepared"]
  /\ UNCHANGED <<fdTable, fdOpened, fdSock, fdClose, fdDetached, fdAccept, fdLeaked, fdForeign>>

FdOpSubmitted ==
  /\ fdOp.st = "prepared"
  /\ fdOp' = [fdOp EXCEPT !.st = CASE fdTable[fdOp.fd.n] = fdOp.fd.file -> "own"
                                   [] fdTable[fdOp.fd.n] = 0            -> "EBADF"
                                   [] OTHER                             -> "other"]
  /\ UNCHANGED <<fdTable, fdOpened, fdSock, fdClose, fdDetached, fdAccept, fdLeaked, fdForeign>>

FdOpEnds ==
  /\ fdOp.st \in {"own", "EBADF", "other"}
  /\ fdOp' = [fd |-> FdNothing, st |-> "none"]
  /\ UNCHANGED <<fdTable, fdOpened, fdSock, fdClose, fdDetached, fdAccept, fdLeaked, fdForeign>>

FdNext ==
  \/ FdAccept \/ FdAcceptCompletes \/ FdAcceptAbandoned \/ FdDetachedRuns \/ FdCloseDropped
  \/ FdOpSubmitted \/ FdOpEnds
  \/ \E s \in FdSockets :
       \/ FdSocket(s) \/ FdAcceptResumes(s) \/ FdDestroy(s) \/ FdCloses(s) \/ FdOpPrepared(s)
       \/ \E t \in FdSockets : FdMove(s, t)
       \/ \E q \in BOOLEAN : FdAsyncClose(s, q)
  \/ \E b \in BOOLEAN : FdCloseAwaited(b) \/ FdCloseEnds(b)

FdSpec == FdInit /\ [][FdNext]_fdVars

----------------------------------------------------------------------------
FdTypeOK ==
  /\ fdTable \in [FdNumbers -> 0..FdFiles]
  /\ \A s \in FdSockets : fdSock[s].n \in FdNumbers \cup {FdNone}

FdOwners == {fdSock[s] : s \in FdSockets} \cup {fdClose.fd, fdDetached, fdAccept.fd}

\* A descriptor has exactly one owner at a time, be it a socket, a close awaiter, a
\* queued close or an accept that completed; its number still means the file it was
\* got for, so that no close ever hits the connection that got the number next; and
\* an open file without an owner comes from a dropped or cancelled awaiter.
FdOneOwner ==
  /\ ~fdForeign
  /\ \A fd \in FdOwners \ {FdNothing} : fdTable[fd.n] = fd.file
  /\ \A s, t \in FdSockets : s # t /\ fdSock[s].n # FdNone => fdSock[s].n # fdSock[t].n
  /\ {fdTable[n] : n \in FdNumbers} \ {0} =
       {fd.file : fd \in FdOwners \ {FdNothing}} \cup fdLeaked

\* Everything that can hold a descriptor, and what each holds.
FdHolders == ({"socket"} \X FdSockets) \cup {<<"close">>, <<"detached">>, <<"accept">>}
FdAwaiters == [close |-> fdClose.fd, detached |-> fdDetached, accept |-> fdAccept.fd]
FdHeld == [h \in FdHolders |-> IF h[1] = "socket" THEN fdSock[h[2]] ELSE FdAwaiters[h[1]]]

FdHandles(opened) == {FdNothing} \cup [n : FdNumbers, file : 1..opened]

\* Holders name different numbers, each number means its holder's file, and an open file
\* is at one number and either leaked or held.
FdBooks(table, held, leaked, opened) ==
  /\ table \in [FdNumbers -> 0..opened] /\ leaked \subseteq 1..opened
  /\ held \in [DOMAIN held -> FdHandles(opened)]
  /\ \A h, k \in DOMAIN held : h # k /\ held[h] # FdNothing => held[h].n # held[k].n
  /\ \A h \in DOMAIN held : held[h] # FdNothing =>
        table[held[h].n] = held[h].file /\ held[h].file \notin leaked
  /\ \A m, n \in FdNumbers : table[m] = table[n] /\ table[m] # 0 => m = n
  /\ \A n \in FdNumbers : table[n] # 0 =>
        table[n] \in leaked \/ \E h \in DOMAIN held : held[h] # FdNothing /\ held[h].n = n
  /\ \A f \in leaked : \E n \in FdNumbers : table[n] = f

\* Why FdOneOwner holds: the books are right, and an awaiter holds a descriptor exactly
\* while it is the one to hand it on.
FdInv ==
  /\ fdOpened \in 0..FdFiles /\ fdForeign = FALSE
  /\ fdSock \in [FdSockets -> FdHandles(fdOpened)] /\ fdDetached \in FdHandles(fdOpened)
  /\ fdClose \in [fd : FdHandles(fdOpened), st : {"none", "held", "sent"}]
  /\ fdAccept \in [fd : FdHandles(fdOpened), st : {"none", "waiting", "done", "abandoned"}]
  /\ fdClose.st = "none" <=> fdClose.fd = FdNothing
  /\ fdAccept.st = "done" <=> fdAccept.fd # FdNothing
  /\ FdBooks(fdTable, FdHeld, fdLeaked, fdOpened)
============================================================================
