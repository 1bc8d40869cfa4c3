------------------------------- MODULE Socket -------------------------------
(***************************************************************************)
(* The socket shim (src/kernel/USocket.cc) over the kernel's file table    *)
(* (src/kernel/file.c).  A socket is a struct file of type FD_SOCKET whose *)
(* Socket.Type (Stream or Datagram) selects the transport controller and   *)
(* whose Socket.Desc is the descriptor that controller's Open or Accept   *)
(* returned.  Processes share the file table; each has its own descriptor *)
(* table ofile.                                                            *)
(*                                                                         *)
(* The system calls are split where the shared table is released: ftable *)
(* is locked only inside filealloc, filedup and fileclose, so another      *)
(* process may run between filealloc and the writes of CreateSocket or     *)
(* SocketAccept, and between the unlock in fileclose and DestorySocket.    *)
(* The transport controllers (TCB<4>, UDPController<4>) are not in the     *)
(* source tree: their Open, Accept and Close are modelled from the         *)
(* specification as a set of open descriptors per type, as are fdalloc,   *)
(* sys_close and sys_dup of the process layer.                            *)
(***************************************************************************)
EXTENDS Integers, FiniteSets

CONSTANTS
    Procs,      \* processes making socket system calls
    NFILE,      \* entries of ftable.file
    NOFILE,     \* entries of each process's ofile
    Descs       \* descriptors a transport controller can hand out

ASSUME SocketAssumption ==
    /\ NFILE \in Nat \ {0}
    /\ NOFILE \in Nat \ {0}
    /\ IsFiniteSet(Procs)
    /\ IsFiniteSet(Descs) /\ Descs \subseteq Nat
    \* Descriptors index the controllers' connection tables from 0, the
    \* Socket.Desc the zero-initialised ftable holds.
    /\ 0 \in Descs

\* ConnectionType (USocket.hh): Stream = 0, Datagram = 1.
Stream == 0
Datagram == 1
Types == {Stream, Datagram}

Slots == 1 .. NFILE
NoSlot == 0
Fds == 0 .. NOFILE - 1

\* Socket.Desc holds what Open returned, -1 when the controller was full.
DescVal == Descs \cup {-1}

\* The struct file fields fileclose copies into its local ff.
Snap == [type : {"none", "socket"}, stype : Types, desc : DescVal]
NoSnap == [type |-> "none", stype |-> Stream, desc |-> 0]

VARIABLES
    ref,        \* ftable.file[s].ref
    ftype,      \* ftable.file[s].type (FD_NONE or FD_SOCKET)
    stype,      \* ftable.file[s].Socket.Type
    desc,       \* ftable.file[s].Socket.Desc
    ofile,      \* ofile[p][fd]: the slot, NoSlot for a null pointer
    pc,         \* where each process is inside a system call
    lf,         \* the struct file* the call holds (filealloc's or fileclose's f)
    ff,         \* fileclose's local copy ff, read by DestorySocket
    open,       \* the descriptors each controller has open
    panicked    \* the kernel called panic

vars == <<ref, ftype, stype, desc, ofile, pc, lf, ff, open, panicked>>

TypeOK ==
    /\ ref \in [Slots -> Nat]
    /\ ftype \in [Slots -> {"none", "socket"}]
    /\ stype \in [Slots -> Types]
    /\ desc \in [Slots -> DescVal]
    /\ ofile \in [Procs -> [Fds -> Slots \cup {NoSlot}]]
    /\ pc \in [Procs -> {"idle", "create", "accept", "destroy"}]
    /\ lf \in [Procs -> Slots \cup {NoSlot}]
    /\ ff \in [Procs -> Snap]
    /\ open \in [Types -> SUBSET Descs]
    /\ panicked \in BOOLEAN

\* The file table and the process table are zero-initialised.
Init ==
    /\ ref = [s \in Slots |-> 0]
    /\ ftype = [s \in Slots |-> "none"]
    /\ stype = [s \in Slots |-> Stream]
    /\ desc = [s \in Slots |-> 0]
    /\ ofile = [p \in Procs |-> [fd \in Fds |-> NoSlot]]
    /\ pc = [p \in Procs |-> "idle"]
    /\ lf = [p \in Procs |-> NoSlot]
    /\ ff = [p \in Procs |-> NoSnap]
    /\ open = [t \in Types |-> {}]
    /\ panicked = FALSE

\* filealloc scans ftable from the start for an entry with ref 0.
FreeSlots == {s \in Slots : ref[s] = 0}
FirstFree == CHOOSE s \in FreeSlots : \A o \in FreeSlots : s <= o

\* fdalloc takes the lowest null entry of the process's ofile.
FreeFds(p) == {fd \in Fds : ofile[p][fd] = NoSlot}
LowestFd(p) == CHOOSE fd \in FreeFds(p) : \A o \in FreeFds(p) : fd <= o

\* TCB<4>::Open / UDPController<4>::Open: a free descriptor, -1 if none.
OpenResults(t) == IF Descs \ open[t] = {} THEN {-1} ELSE Descs \ open[t]

\* TCB<4>::Close / UDPController<4>::Close: -1 names no descriptor.
CloseDesc(t, d) == [open EXCEPT ![t] = @ \ {d}]

\* DestorySocket(f): Close on the controller Socket.Type selects.
DestorySocket(f) == CloseDesc(f.stype, f.desc)

\* Mutant: a failed fdalloc returns -3 without calling fileclose.
InstallOrCloseLeak(p, s, snap) ==
    /\ ofile' = IF FreeFds(p) # {} THEN [ofile EXCEPT ![p][LowestFd(p)] = s] ELSE ofile
    /\ ftype' = [ftype EXCEPT ![s] = snap.type]
    /\ pc' = [pc EXCEPT ![p] = "idle"]
    /\ lf' = [lf EXCEPT ![p] = NoSlot]
    /\ UNCHANGED <<ref, ff>>

\* SOC_CreateSocket / SOC_SocketAccept after the file is filled in:
\* fdalloc(f), and on failure fileclose(f), which drops ref from 1 to 0,
\* copies the entry snap into ff and leaves DestorySocket to be done.
InstallOrClose(p, s, snap) ==
    IF FreeFds(p) # {}
    THEN /\ ofile' = [ofile EXCEPT ![p][LowestFd(p)] = s]
         /\ ftype' = [ftype EXCEPT ![s] = snap.type]
         /\ pc' = [pc EXCEPT ![p] = "idle"]
         /\ lf' = [lf EXCEPT ![p] = NoSlot]
         /\ UNCHANGED <<ref, ff>>
    ELSE /\ ref' = [ref EXCEPT ![s] = 0]
         /\ ftype' = [ftype EXCEPT ![s] = "none"]
         /\ ff' = [ff EXCEPT ![p] = snap]
         /\ pc' = [pc EXCEPT ![p] = "destroy"]
         /\ UNCHANGED <<ofile, lf>>

\* SOC_CreateSocket, up to filealloc in CreateSocket (arguments valid).
CreateAlloc(p) ==
    /\ ~panicked /\ pc[p] = "idle"
    /\ FreeSlots # {}
    /\ ref' = [ref EXCEPT ![FirstFree] = 1]
    /\ lf' = [lf EXCEPT ![p] = FirstFree]
    /\ pc' = [pc EXCEPT ![p] = "create"]
    /\ UNCHANGED <<ftype, stype, desc, ofile, ff, open, panicked>>

\* The rest of CreateSocket: Socket.Type, Socket.Desc from the
\* controller's Open (not checked for -1), type FD_SOCKET; then fdalloc.
CreateOpen(p) ==
    LET s == lf[p] IN
    /\ ~panicked /\ pc[p] = "create"
    /\ \E t \in Types : \E d \in OpenResults(t) :
          /\ open' = [open EXCEPT ![t] = @ \cup ({d} \cap Descs)]
          /\ stype' = [stype EXCEPT ![s] = t]
          /\ desc' = [desc EXCEPT ![s] = d]
          /\ InstallOrClose(p, s, [type |-> "socket", stype |-> t, desc |-> d])
    /\ UNCHANGED panicked

\* SOC_SocketAccept on fd, up to filealloc in SocketAccept: fd names an
\* FD_SOCKET file (else -2) of type Stream (else SocketAccept returns
\* nullptr), and a free entry is taken.
AcceptAlloc(p, fd) ==
    LET s == ofile[p][fd] IN
    /\ ~panicked /\ pc[p] = "idle"
    /\ s # NoSlot /\ ftype[s] = "socket" /\ stype[s] = Stream
    /\ FreeSlots # {}
    /\ ref' = [ref EXCEPT ![FirstFree] = 1]
    /\ lf' = [lf EXCEPT ![p] = FirstFree]
    /\ pc' = [pc EXCEPT ![p] = "accept"]
    /\ UNCHANGED <<ftype, stype, desc, ofile, ff, open, panicked>>

\* The rest of SocketAccept and SOC_SocketAccept.  TCB<4>::Accept either
\* fails, and fileclose(af) frees the entry (its type is still FD_NONE, so
\* DestorySocket is not called), or returns a new connection's descriptor,
\* which af takes with Socket.Type Stream before fdalloc.
AcceptDone(p) ==
    LET af == lf[p] IN
    /\ ~panicked /\ pc[p] = "accept"
    /\ \/ /\ ref' = [ref EXCEPT ![af] = 0]
          /\ pc' = [pc EXCEPT ![p] = "idle"]
          /\ lf' = [lf EXCEPT ![p] = NoSlot]
          /\ UNCHANGED <<ftype, stype, desc, ofile, ff, open>>
       \/ \E d \in Descs \ open[Stream] :
          /\ open' = [open EXCEPT ![Stream] = @ \cup {d}]
          /\ stype' = [stype EXCEPT ![af] = Stream]
          /\ desc' = [desc EXCEPT ![af] = d]
          /\ InstallOrClose(p, af, [type |-> "socket", stype |-> Stream, desc |-> d])
    /\ UNCHANGED panicked

\* sys_close(fd): the ofile entry is cleared, then fileclose(f) under the
\* ftable lock: ref is decremented; the last reference copies the entry
\* into ff and marks it free (ref 0, FD_NONE) before the lock is released.
Close(p, fd) ==
    LET s == ofile[p][fd] IN
    /\ ~panicked /\ pc[p] = "idle"
    /\ s # NoSlot
    /\ ofile' = [ofile EXCEPT ![p][fd] = NoSlot]
    /\ ref' = [ref EXCEPT ![s] = @ - 1]
    /\ IF ref[s] > 1
       THEN UNCHANGED <<ftype, ff, pc, lf>>
       ELSE /\ ftype' = [ftype EXCEPT ![s] = "none"]
            /\ ff' = [ff EXCEPT ![p] = [type |-> ftype[s], stype |-> stype[s],
                                         desc |-> desc[s]]]
            /\ pc' = [pc EXCEPT ![p] = "destroy"]
            /\ lf' = [lf EXCEPT ![p] = s]
    /\ UNCHANGED <<stype, desc, open, panicked>>

\* Mutant: DestorySocket is given the table entry f instead of the copy ff.
DestroyLive(p) ==
    LET s == lf[p] IN
    /\ ~panicked /\ pc[p] = "destroy"
    /\ open' = IF ff[p].type = "socket" THEN DestorySocket([stype |-> stype[s], desc |-> desc[s]])
                                        ELSE open
    /\ pc' = [pc EXCEPT ![p] = "idle"]
    /\ lf' = [lf EXCEPT ![p] = NoSlot]
    /\ ff' = [ff EXCEPT ![p] = NoSnap]
    /\ UNCHANGED <<ref, ftype, stype, desc, ofile, panicked>>

\* The end of fileclose, after the lock is released: for an FD_SOCKET copy,
\* DestorySocket(&ff) closes Socket.Desc on the controller of Socket.Type.
Destroy(p) ==
    /\ ~panicked /\ pc[p] = "destroy"
    /\ open' = IF ff[p].type = "socket" THEN DestorySocket(ff[p]) ELSE open
    /\ pc' = [pc EXCEPT ![p] = "idle"]
    /\ lf' = [lf EXCEPT ![p] = NoSlot]
    /\ ff' = [ff EXCEPT ![p] = NoSnap]
    /\ UNCHANGED <<ref, ftype, stype, desc, ofile, panicked>>

\* Mutant: the new descriptor is installed without filedup's increment.
DupNoRef(p, fd) ==
    LET s == ofile[p][fd] IN
    /\ ~panicked /\ pc[p] = "idle"
    /\ s # NoSlot /\ FreeFds(p) # {}
    /\ ofile' = [ofile EXCEPT ![p][LowestFd(p)] = s]
    /\ UNCHANGED <<ref, ftype, stype, desc, pc, lf, ff, open, panicked>>

\* sys_dup(fd): fdalloc(f), then filedup(f) increments ref under the lock.
Dup(p, fd) ==
    LET s == ofile[p][fd] IN
    /\ ~panicked /\ pc[p] = "idle"
    /\ s # NoSlot /\ FreeFds(p) # {}
    /\ ofile' = [ofile EXCEPT ![p][LowestFd(p)] = s]
    /\ ref' = [ref EXCEPT ![s] = @ + 1]
    /\ UNCHANGED <<ftype, stype, desc, pc, lf, ff, open, panicked>>

\* write(fd) on a socket: filewrite calls SocketWrite, does not return its
\* result, and falls through to panic("filewrite").
FileWrite(p, fd) ==
    LET s == ofile[p][fd] IN
    /\ ~panicked /\ pc[p] = "idle"
    /\ s # NoSlot /\ ftype[s] = "socket"
    /\ panicked' = TRUE
    /\ UNCHANGED <<ref, ftype, stype, desc, ofile, pc, lf, ff, open>>

\* After panic the kernel spins with interrupts off.
Halted == panicked /\ UNCHANGED vars

Next ==
    \/ \E p \in Procs :
          \/ CreateAlloc(p)
          \/ CreateOpen(p) \/ AcceptDone(p) \/ Destroy(p)
          \/ \E fd \in Fds : AcceptAlloc(p, fd) \/ Close(p, fd) \/ Dup(p, fd)
                             \/ FileWrite(p, fd)
    \/ Halted

Spec == Init /\ [][Next]_vars

-----------------------------------------------------------------------------
(* Properties.                                                              *)

\* The calls holding a struct file* from filealloc that is in no ofile yet.
InFlight(p) == pc[p] \in {"create", "accept"}

\* Every ftable entry's ref is exactly the number of ofile entries that
\* point to it plus the calls holding it between filealloc and fdalloc:
\* sys_dup, the fdalloc failures and a failed TCB<4>::Accept each keep the
\* count in step, so no entry is freed while reachable or leaked.
RefCountsExact ==
    \A s \in Slots :
        ref[s] = Cardinality({pf \in Procs \X Fds : ofile[pf[1]][pf[2]] = s})
                 + Cardinality({p \in Procs : InFlight(p) /\ lf[p] = s})

\* The holders of descriptor d of controller t: live FD_SOCKET entries and
\* fileclose copies whose DestorySocket has not run yet.
Holders(t, d) ==
    {<<"entry", s>> : s \in {s \in Slots : ftype[s] = "socket" /\ stype[s] = t /\ desc[s] = d}}
    \cup {<<"closing", p>> : p \in {p \in Procs : pc[p] = "destroy" /\ ff[p].type = "socket"
                                                  /\ ff[p].stype = t /\ ff[p].desc = d}}

\* Each descriptor a transport controller has open belongs to exactly one
\* socket entry or pending DestorySocket, and every socket's descriptor is
\* still open: the entry freed by fileclose may be reused by another
\* process's filealloc before DestorySocket runs, so closing through the
\* entry instead of the copy would close the new owner's connection.
DescOwnedOnce ==
    \A t \in Types, d \in Descs :
        /\ d \in open[t] => Cardinality(Holders(t, d)) = 1
        /\ Holders(t, d) # {} => d \in open[t]
====
