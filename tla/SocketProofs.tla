---------------------------- MODULE SocketProofs ----------------------------
(***************************************************************************)
(* Proofs about the socket shim and the file table (module Socket): the   *)
(* model is well typed, every file-table entry's reference count is       *)
(* exact, and every open transport descriptor has exactly one owner.      *)
(*                                                                         *)
(* None of the three holds by itself from step to step.  The inductive    *)
(* invariant IInv adds what the proofs need about the entries a call      *)
(* holds between filealloc and fdalloc (they are known to that call only, *)
(* so their count is 1 and their type still FD_NONE), that a free entry   *)
(* is FD_NONE, and states descriptor ownership as uniqueness of holders,  *)
(* from which the cardinality form follows.                               *)
(***************************************************************************)
EXTENDS Socket, FiniteSetTheorems, TLAPS

\* The ofile entries and the in-flight calls that refer to entry s.
OfileRefs(s) == {pf \in Procs \X Fds : ofile[pf[1]][pf[2]] = s}
FlightRefs(s) == {p \in Procs : InFlight(p) /\ lf[p] = s}

\* An entry a call holds between filealloc and fdalloc is its own: count 1,
\* still FD_NONE.
InFlightOwned ==
    \A p \in Procs : InFlight(p) =>
        /\ lf[p] \in Slots
        /\ ref[lf[p]] = 1
        /\ ftype[lf[p]] = "none"

\* An entry with count 0 is FD_NONE: filealloc hands out FD_NONE entries.
FreeIsNone == \A s \in Slots : ref[s] = 0 => ftype[s] = "none"

\* Entry s, or the fileclose copy of process p, holds descriptor d of
\* controller t.
EntryHolds(s, t, d) == ftype[s] = "socket" /\ stype[s] = t /\ desc[s] = d
CloseHolds(p, t, d) ==
    pc[p] = "destroy" /\ ff[p].type = "socket" /\ ff[p].stype = t /\ ff[p].desc = d

\* Descriptor ownership as existence and uniqueness of a holder: an open
\* descriptor has a holder, a held descriptor is open, and no two entries,
\* no two copies, and no entry and copy hold the same descriptor.
OwnedUnique ==
    \A t \in Types, d \in Descs :
        /\ d \in open[t] <=> \/ \E s \in Slots : EntryHolds(s, t, d)
                             \/ \E p \in Procs : CloseHolds(p, t, d)
        /\ \A s1, s2 \in Slots : EntryHolds(s1, t, d) /\ EntryHolds(s2, t, d) => s1 = s2
        /\ \A p1, p2 \in Procs : CloseHolds(p1, t, d) /\ CloseHolds(p2, t, d) => p1 = p2
        /\ \A s \in Slots, p \in Procs : ~(EntryHolds(s, t, d) /\ CloseHolds(p, t, d))

IInv ==
    /\ TypeOK
    /\ RefCountsExact
    /\ InFlightOwned
    /\ FreeIsNone
    /\ OwnedUnique

-----------------------------------------------------------------------------
(* Lemmas about the operators.                                             *)

USE SocketAssumption

\* A nonempty set of naturals has a least element (the lowest free entry
\* filealloc and fdalloc take exists).
LEMMA NatSetHasLeast ==
    ASSUME NEW T \in SUBSET Nat, T # {}
    PROVE  \E m \in T : \A o \in T : m <= o
<1>1. PICK x \in T : \A y \in T : ~(<<y, x>> \in OpToRel(<, Nat))
  BY NatLessThanWellFounded, WFMin
<1>2. \A y \in T : ~(y < x)
  BY <1>1 DEF OpToRel
<1>. QED
  BY <1>2

\* filealloc's entry: when some entry is free, FirstFree is the lowest one.
LEMMA FirstFreeFacts ==
    ASSUME FreeSlots # {}
    PROVE  FirstFree \in Slots /\ ref[FirstFree] = 0
<1>1. FreeSlots \subseteq Nat
  BY DEF FreeSlots, Slots
<1>2. PICK m \in FreeSlots : \A o \in FreeSlots : m <= o
  BY <1>1, NatSetHasLeast
<1>3. FirstFree \in FreeSlots
  BY <1>2 DEF FirstFree
<1>. QED
  BY <1>3 DEF FreeSlots

\* fdalloc's descriptor: when some ofile entry is null, LowestFd is one.
LEMMA LowestFdFacts ==
    ASSUME NEW p, FreeFds(p) # {}
    PROVE  LowestFd(p) \in Fds /\ ofile[p][LowestFd(p)] = NoSlot
<1>1. FreeFds(p) \subseteq Nat
  BY DEF FreeFds, Fds
<1>2. PICK m \in FreeFds(p) : \A o \in FreeFds(p) : m <= o
  BY <1>1, NatSetHasLeast
<1>3. LowestFd(p) \in FreeFds(p)
  BY <1>2 DEF LowestFd
<1>. QED
  BY <1>3 DEF FreeFds

\* The sets the reference count is made of are finite in every state.
LEMMA RefSetsFinite ==
    /\ \A S \in SUBSET (Procs \X Fds) : IsFiniteSet(S)
    /\ \A S \in SUBSET Procs : IsFiniteSet(S)
<1>1. IsFiniteSet(Fds)
  BY FS_Interval DEF Fds
<1>2. IsFiniteSet(Procs \X Fds)
  BY <1>1, FS_Product
<1>. QED
  BY <1>2, FS_Subset

-----------------------------------------------------------------------------
(* The initial state.                                                      *)

LEMMA InitIInv == Init => IInv
<1>. SUFFICES ASSUME Init PROVE IInv
  OBVIOUS
<1>1. TypeOK
  <2>1. ref \in [Slots -> Nat] /\ ftype \in [Slots -> {"none", "socket"}]
    BY DEF Init
  <2>2. stype \in [Slots -> Types] /\ desc \in [Slots -> DescVal]
    BY DEF Init, Types, Stream, DescVal
  <2>3. ofile \in [Procs -> [Fds -> Slots \cup {NoSlot}]]
        /\ pc \in [Procs -> {"idle", "create", "accept", "destroy"}]
        /\ lf \in [Procs -> Slots \cup {NoSlot}]
    BY DEF Init
  <2>4. ff \in [Procs -> Snap] /\ open \in [Types -> SUBSET Descs]
    BY DEF Init, NoSnap, Snap, Types, Stream, DescVal
  <2>. QED
    BY <2>1, <2>2, <2>3, <2>4 DEF TypeOK, Init
<1>2. RefCountsExact
  <2>1. ASSUME NEW s \in Slots
        PROVE  ref[s] = Cardinality(OfileRefs(s)) + Cardinality(FlightRefs(s))
    <3>1. OfileRefs(s) = {} /\ FlightRefs(s) = {}
      BY DEF Init, OfileRefs, FlightRefs, InFlight, NoSlot, Slots
    <3>. QED
      BY <3>1, FS_EmptySet DEF Init
  <2>. QED
    BY <2>1 DEF RefCountsExact, OfileRefs, FlightRefs
<1>3. InFlightOwned /\ FreeIsNone
  BY DEF Init, InFlightOwned, InFlight, FreeIsNone
<1>4. OwnedUnique
  BY DEF Init, OwnedUnique, EntryHolds, CloseHolds, Types
<1>. QED
  BY <1>1, <1>2, <1>3, <1>4 DEF IInv

-----------------------------------------------------------------------------
(* One lemma per action: each step preserves IInv.                         *)

\* The count of entry s is the two cardinalities, each a natural number.
LEMMA RefSplit ==
    ASSUME TypeOK, RefCountsExact, NEW s \in Slots
    PROVE  /\ Cardinality(OfileRefs(s)) \in Nat
           /\ Cardinality(FlightRefs(s)) \in Nat
           /\ ref[s] = Cardinality(OfileRefs(s)) + Cardinality(FlightRefs(s))
           /\ IsFiniteSet(OfileRefs(s)) /\ IsFiniteSet(FlightRefs(s))
<1>1. IsFiniteSet(OfileRefs(s)) /\ IsFiniteSet(FlightRefs(s))
  BY RefSetsFinite DEF OfileRefs, FlightRefs
<1>. QED
  BY <1>1, FS_CardinalityType DEF RefCountsExact, OfileRefs, FlightRefs

\* The reference count in the next state, from its two sets.
LEMMA RefCountsExactNext ==
    ASSUME \A s \in Slots : ref'[s] = Cardinality(OfileRefs(s)') + Cardinality(FlightRefs(s)')
    PROVE  RefCountsExact'
BY DEF RefCountsExact, OfileRefs, FlightRefs

\* filealloc as both socket calls do it, c naming the call.
AllocStep(p, c) ==
    /\ ~panicked /\ pc[p] = "idle"
    /\ FreeSlots # {}
    /\ ref' = [ref EXCEPT ![FirstFree] = 1]
    /\ lf' = [lf EXCEPT ![p] = FirstFree]
    /\ pc' = [pc EXCEPT ![p] = c]
    /\ UNCHANGED <<ftype, stype, desc, ofile, ff, open, panicked>>

LEMMA AllocIInv ==
    ASSUME IInv, NEW p \in Procs, NEW c \in {"create", "accept"}, AllocStep(p, c)
    PROVE  IInv'
<1>. DEFINE s0 == FirstFree
<1>. USE DEF IInv
<1>1. s0 \in Slots /\ ref[s0] = 0
  BY FirstFreeFacts DEF AllocStep
<1>2. ~InFlight(p) /\ pc[p] = "idle"
  BY DEF AllocStep, InFlight
<1>3. TypeOK'
  BY <1>1 DEF AllocStep, TypeOK
<1>4. OfileRefs(s0) = {} /\ FlightRefs(s0) = {}
  BY <1>1, RefSplit, FS_EmptySet
<1>5. RefCountsExact'
  <2>1. ASSUME NEW s \in Slots
        PROVE  ref'[s] = Cardinality(OfileRefs(s)') + Cardinality(FlightRefs(s)')
    <3>1. OfileRefs(s)' = OfileRefs(s)
      BY DEF AllocStep, OfileRefs
    <3>2. CASE s = s0
      <4>1. FlightRefs(s)' = {p}
        BY <1>4, <3>2 DEF AllocStep, FlightRefs, InFlight, TypeOK
      <4>2. ref'[s] = 1
        BY <1>1, <3>2 DEF AllocStep, TypeOK
      <4>3. Cardinality(OfileRefs(s)') = 0 /\ Cardinality(FlightRefs(s)') = 1
        BY <1>4, <3>1, <3>2, <4>1, FS_EmptySet, FS_Singleton
      <4>. QED
        BY <4>2, <4>3
    <3>3. CASE s # s0
      <4>1. FlightRefs(s)' = FlightRefs(s)
        BY <3>3 DEF AllocStep, FlightRefs, InFlight, TypeOK
      <4>. QED
        BY <3>1, <3>3, <4>1, RefSplit DEF AllocStep, TypeOK
    <3>. QED
      BY <3>2, <3>3
  <2>. QED
    BY <2>1, RefCountsExactNext
<1>6. InFlightOwned'
  <2>1. \A q \in Procs : InFlight(q) => lf[q] # s0
    BY <1>1 DEF InFlightOwned
  <2>. QED
    BY <1>1, <2>1 DEF AllocStep, InFlightOwned, InFlight, FreeIsNone, TypeOK
<1>7. FreeIsNone'
  BY <1>1 DEF AllocStep, FreeIsNone, TypeOK
<1>8. OwnedUnique'
  BY <1>2 DEF AllocStep, OwnedUnique, EntryHolds, CloseHolds, TypeOK
<1>. QED
  BY <1>3, <1>5, <1>6, <1>7, <1>8

\* A set of count one that holds x is {x}.
LEMMA CardOneIsSingleton ==
    ASSUME NEW S, NEW x \in S, IsFiniteSet(S), Cardinality(S) = 1
    PROVE  S = {x}
BY FS_Singleton

\* An in-flight call's entry, of count one, has no other reference.
LEMMA SoleFlightRef ==
    ASSUME TypeOK, RefCountsExact, NEW s \in Slots, ref[s] = 1,
           NEW p \in FlightRefs(s)
    PROVE  FlightRefs(s) = {p} /\ OfileRefs(s) = {}
<1>1. Cardinality(FlightRefs(s)) # 0
  BY RefSplit, FS_EmptySet
<1>2. Cardinality(FlightRefs(s)) = 1 /\ Cardinality(OfileRefs(s)) = 0
  BY <1>1, RefSplit
<1>. QED
  BY <1>2, RefSplit, FS_EmptySet, CardOneIsSingleton

\* A closed ofile entry whose count is at most one was the only reference.
LEMMA SoleOfileRef ==
    ASSUME TypeOK, RefCountsExact, NEW s \in Slots, ref[s] <= 1,
           NEW pf \in OfileRefs(s)
    PROVE  OfileRefs(s) = {pf} /\ FlightRefs(s) = {} /\ ref[s] = 1
<1>1. Cardinality(OfileRefs(s)) # 0
  BY RefSplit, FS_EmptySet
<1>2. Cardinality(OfileRefs(s)) = 1 /\ Cardinality(FlightRefs(s)) = 0
  BY <1>1, RefSplit
<1>. QED
  BY <1>2, RefSplit, FS_EmptySet, CardOneIsSingleton


\* The end of CreateSocket and SocketAccept: the in-flight entry s takes
\* descriptor d of controller t, not open before, and fdalloc installs it
\* or fileclose hands it to a pending DestorySocket.
LEMMA InstallIInv ==
    ASSUME IInv, NEW p \in Procs, InFlight(p), NEW t \in Types, NEW d \in DescVal,
           d \in Descs => d \notin open[t],
           open' = [open EXCEPT ![t] = @ \cup ({d} \cap Descs)],
           stype' = [stype EXCEPT ![lf[p]] = t],
           desc' = [desc EXCEPT ![lf[p]] = d],
           InstallOrClose(p, lf[p], [type |-> "socket", stype |-> t, desc |-> d]),
           UNCHANGED panicked
    PROVE  IInv'
<1>. DEFINE s == lf[p]
<1>. USE DEF IInv
<1>1. s \in Slots /\ ref[s] = 1 /\ ftype[s] = "none"
  BY DEF InFlightOwned
<1>2. FlightRefs(s) = {p} /\ OfileRefs(s) = {}
  <2>1. p \in FlightRefs(s)
    BY DEF FlightRefs
  <2>. QED
    BY <1>1, <2>1, SoleFlightRef
<1>3. \A q \in Procs \ {p} : InFlight(q) => lf[q] # s
  BY <1>2 DEF FlightRefs
<1>4. pc[p] \in {"create", "accept"}
  BY DEF InFlight
<1>5. d \in Descs => /\ \A x \in Slots : ~EntryHolds(x, t, d)
                     /\ \A q \in Procs : ~CloseHolds(q, t, d)
  BY DEF OwnedUnique
<1>6. \A x \in Slots, t2 \in Types, d2 \in Descs : ~EntryHolds(s, t2, d2)
  BY <1>1 DEF EntryHolds
<1>7. \A t2 \in Types, d2 \in Descs :
          d2 \in open'[t2] <=> d2 \in open[t2] \/ (t2 = t /\ d2 = d)
  BY DEF TypeOK
<1>8. CASE FreeFds(p) # {}
  <2>. DEFINE fd0 == LowestFd(p)
  <2>1. fd0 \in Fds /\ ofile[p][fd0] = NoSlot
    BY <1>8, LowestFdFacts
  <2>2. /\ ofile' = [ofile EXCEPT ![p][fd0] = s]
        /\ ftype' = [ftype EXCEPT ![s] = "socket"]
        /\ pc' = [pc EXCEPT ![p] = "idle"]
        /\ lf' = [lf EXCEPT ![p] = NoSlot]
        /\ UNCHANGED <<ref, ff>>
    BY <1>8 DEF InstallOrClose
  <2>3. TypeOK'
    BY <1>1, <2>1, <2>2 DEF TypeOK
  <2>4. RefCountsExact'
    <3>1. ASSUME NEW x \in Slots
          PROVE  ref'[x] = Cardinality(OfileRefs(x)') + Cardinality(FlightRefs(x)')
      <4>1. CASE x = s
        <5>1. OfileRefs(x)' = {<<p, fd0>>}
          BY <1>1, <1>2, <2>1, <2>2, <4>1 DEF OfileRefs, TypeOK
        <5>2. FlightRefs(x)' = {}
          BY <1>3, <2>2, <4>1 DEF FlightRefs, InFlight, TypeOK
        <5>3. Cardinality(OfileRefs(x)') = 1 /\ Cardinality(FlightRefs(x)') = 0
          BY <5>1, <5>2, FS_EmptySet, FS_Singleton
        <5>. QED
          BY <1>1, <2>2, <4>1, <5>3
      <4>2. CASE x # s
        <5>1. OfileRefs(x)' = OfileRefs(x)
          BY <1>1, <2>1, <2>2, <4>2 DEF OfileRefs, TypeOK, NoSlot, Slots
        <5>2. FlightRefs(x)' = FlightRefs(x)
          BY <2>2, <4>2 DEF FlightRefs, InFlight, TypeOK
        <5>. QED
          BY <2>2, <5>1, <5>2, RefSplit
      <4>. QED
        BY <4>1, <4>2
    <3>. QED
      BY <3>1, RefCountsExactNext
  <2>5. InFlightOwned'
    BY <1>1, <1>3, <2>2 DEF InFlightOwned, InFlight, TypeOK
  <2>6. FreeIsNone'
    BY <1>1, <2>2 DEF FreeIsNone, TypeOK
  <2>7. OwnedUnique'
    <3>1. \A x \in Slots, t2 \in Types, d2 \in Descs :
              EntryHolds(x, t2, d2)' <=> IF x = s THEN t2 = t /\ d2 = d
                                                  ELSE EntryHolds(x, t2, d2)
      BY <1>1, <2>2 DEF EntryHolds, TypeOK
    <3>2. \A q \in Procs, t2 \in Types, d2 \in Descs :
              CloseHolds(q, t2, d2)' <=> CloseHolds(q, t2, d2)
      BY <1>4, <2>2 DEF CloseHolds, TypeOK
    <3>3. ASSUME NEW t2 \in Types, NEW d2 \in Descs, t2 = t, d2 = d
          PROVE  /\ d2 \in open'[t2]
                 /\ \A x \in Slots : EntryHolds(x, t2, d2)' <=> x = s
                 /\ \A q \in Procs : ~CloseHolds(q, t2, d2)'
      BY <1>1, <1>5, <1>7, <3>1, <3>2, <3>3
    <3>4. ASSUME NEW t2 \in Types, NEW d2 \in Descs, ~(t2 = t /\ d2 = d)
          PROVE  /\ d2 \in open'[t2] <=> d2 \in open[t2]
                 /\ \A x \in Slots : EntryHolds(x, t2, d2)' <=> EntryHolds(x, t2, d2)
                 /\ \A q \in Procs : CloseHolds(q, t2, d2)' <=> CloseHolds(q, t2, d2)
      BY <1>6, <1>7, <3>1, <3>2, <3>4
    <3>. QED
      BY <1>1, <3>3, <3>4 DEF OwnedUnique
  <2>. QED
    BY <2>3, <2>4, <2>5, <2>6, <2>7
<1>9. CASE FreeFds(p) = {}
  <2>. DEFINE snap == [type |-> "socket", stype |-> t, desc |-> d]
  <2>2. /\ ref' = [ref EXCEPT ![s] = 0]
        /\ ftype' = [ftype EXCEPT ![s] = "none"]
        /\ ff' = [ff EXCEPT ![p] = snap]
        /\ pc' = [pc EXCEPT ![p] = "destroy"]
        /\ UNCHANGED <<ofile, lf>>
    BY <1>9 DEF InstallOrClose
  <2>3. TypeOK'
    <3>1. snap \in Snap
      BY DEF Snap
    <3>. QED
      BY <1>1, <2>2, <3>1 DEF TypeOK
  <2>4. RefCountsExact'
    <3>1. ASSUME NEW x \in Slots
          PROVE  ref'[x] = Cardinality(OfileRefs(x)') + Cardinality(FlightRefs(x)')
      <4>1. OfileRefs(x)' = OfileRefs(x)
        BY <2>2 DEF OfileRefs
      <4>2. CASE x = s
        <5>1. FlightRefs(x)' = {}
          BY <1>3, <2>2, <4>2 DEF FlightRefs, InFlight, TypeOK
        <5>2. Cardinality(OfileRefs(x)') = 0 /\ Cardinality(FlightRefs(x)') = 0
          BY <1>2, <4>1, <4>2, <5>1, FS_EmptySet
        <5>. QED
          BY <1>1, <2>2, <4>2, <5>2 DEF TypeOK
      <4>3. CASE x # s
        <5>1. FlightRefs(x)' = FlightRefs(x)
          BY <2>2, <4>3 DEF FlightRefs, InFlight, TypeOK
        <5>. QED
          BY <2>2, <4>1, <4>3, <5>1, RefSplit DEF TypeOK
      <4>. QED
        BY <4>2, <4>3
    <3>. QED
      BY <3>1, RefCountsExactNext
  <2>5. InFlightOwned'
    BY <1>1, <1>3, <2>2 DEF InFlightOwned, InFlight, TypeOK
  <2>6. FreeIsNone'
    BY <1>1, <2>2 DEF FreeIsNone, TypeOK
  <2>7. OwnedUnique'
    <3>1. \A x \in Slots, t2 \in Types, d2 \in Descs :
              EntryHolds(x, t2, d2)' <=> EntryHolds(x, t2, d2)
      BY <1>1, <2>2 DEF EntryHolds, TypeOK
    <3>2. \A q \in Procs, t2 \in Types, d2 \in Descs :
              CloseHolds(q, t2, d2)' <=> IF q = p THEN t2 = t /\ d2 = d
                                                 ELSE CloseHolds(q, t2, d2)
      BY <2>2 DEF CloseHolds, TypeOK
    <3>0. \A t2 \in Types, d2 \in Descs : ~CloseHolds(p, t2, d2)
      BY <1>4 DEF CloseHolds
    <3>3. ASSUME NEW t2 \in Types, NEW d2 \in Descs, t2 = t, d2 = d
          PROVE  /\ d2 \in open'[t2]
                 /\ \A x \in Slots : ~EntryHolds(x, t2, d2)'
                 /\ \A q \in Procs : CloseHolds(q, t2, d2)' <=> q = p
      BY <1>5, <1>7, <3>1, <3>2, <3>3
    <3>4. ASSUME NEW t2 \in Types, NEW d2 \in Descs, ~(t2 = t /\ d2 = d)
          PROVE  /\ d2 \in open'[t2] <=> d2 \in open[t2]
                 /\ \A x \in Slots : EntryHolds(x, t2, d2)' <=> EntryHolds(x, t2, d2)
                 /\ \A q \in Procs : CloseHolds(q, t2, d2)' <=> CloseHolds(q, t2, d2)
      BY <3>0, <1>7, <3>1, <3>2, <3>4
    <3>. QED
      BY <3>3, <3>4 DEF OwnedUnique
  <2>. QED
    BY <2>3, <2>4, <2>5, <2>6, <2>7
<1>. QED
  BY <1>8, <1>9


LEMMA CreateAllocIInv ==
    ASSUME IInv, NEW p \in Procs, CreateAlloc(p)
    PROVE  IInv'
BY AllocIInv DEF CreateAlloc, AllocStep

LEMMA AcceptAllocIInv ==
    ASSUME IInv, NEW p \in Procs, NEW fd \in Fds, AcceptAlloc(p, fd)
    PROVE  IInv'
BY AllocIInv DEF AcceptAlloc, AllocStep

LEMMA CreateOpenIInv ==
    ASSUME IInv, NEW p \in Procs, CreateOpen(p)
    PROVE  IInv'
<1>0. PICK t \in Types : \E d \in OpenResults(t) :
          /\ open' = [open EXCEPT ![t] = @ \cup ({d} \cap Descs)]
          /\ stype' = [stype EXCEPT ![lf[p]] = t]
          /\ desc' = [desc EXCEPT ![lf[p]] = d]
          /\ InstallOrClose(p, lf[p], [type |-> "socket", stype |-> t, desc |-> d])
  BY DEF CreateOpen
<1>1. PICK d \in OpenResults(t) :
          /\ open' = [open EXCEPT ![t] = @ \cup ({d} \cap Descs)]
          /\ stype' = [stype EXCEPT ![lf[p]] = t]
          /\ desc' = [desc EXCEPT ![lf[p]] = d]
          /\ InstallOrClose(p, lf[p], [type |-> "socket", stype |-> t, desc |-> d])
  BY <1>0
<1>2. d \in DescVal /\ (d \in Descs => d \notin open[t])
  BY DEF OpenResults, DescVal
<1>. QED
  BY <1>1, <1>2, InstallIInv DEF CreateOpen, InFlight

LEMMA AcceptDoneIInv ==
    ASSUME IInv, NEW p \in Procs, AcceptDone(p)
    PROVE  IInv'
<1>. DEFINE af == lf[p]
<1>. USE DEF IInv
<1>1. InFlight(p)
  BY DEF AcceptDone, InFlight
<1>2. CASE /\ ref' = [ref EXCEPT ![af] = 0]
           /\ pc' = [pc EXCEPT ![p] = "idle"]
           /\ lf' = [lf EXCEPT ![p] = NoSlot]
           /\ UNCHANGED <<ftype, stype, desc, ofile, ff, open, panicked>>
  <2>1. af \in Slots /\ ref[af] = 1 /\ ftype[af] = "none"
    BY <1>1 DEF InFlightOwned
  <2>2. FlightRefs(af) = {p} /\ OfileRefs(af) = {}
    <3>1. p \in FlightRefs(af)
      BY <1>1 DEF FlightRefs
    <3>. QED
      BY <2>1, <3>1, SoleFlightRef
  <2>3. \A q \in Procs \ {p} : InFlight(q) => lf[q] # af
    BY <2>2 DEF FlightRefs
  <2>4. TypeOK'
    BY <1>2, <2>1 DEF TypeOK
  <2>5. RefCountsExact'
    <3>1. ASSUME NEW x \in Slots
          PROVE  ref'[x] = Cardinality(OfileRefs(x)') + Cardinality(FlightRefs(x)')
      <4>1. OfileRefs(x)' = OfileRefs(x)
        BY <1>2 DEF OfileRefs
      <4>2. CASE x = af
        <5>1. FlightRefs(x)' = {}
          BY <1>2, <2>3, <4>2 DEF FlightRefs, InFlight, TypeOK
        <5>2. Cardinality(OfileRefs(x)') = 0 /\ Cardinality(FlightRefs(x)') = 0
          BY <2>2, <4>1, <4>2, <5>1, FS_EmptySet
        <5>. QED
          BY <1>2, <2>1, <4>2, <5>2 DEF TypeOK
      <4>3. CASE x # af
        <5>1. FlightRefs(x)' = FlightRefs(x)
          BY <1>2, <4>3 DEF FlightRefs, InFlight, TypeOK
        <5>. QED
          BY <1>2, <4>1, <4>3, <5>1, RefSplit DEF TypeOK
      <4>. QED
        BY <4>2, <4>3
    <3>. QED
      BY <3>1, RefCountsExactNext
  <2>6. InFlightOwned' /\ FreeIsNone'
    BY <1>2, <2>1, <2>3 DEF InFlightOwned, InFlight, FreeIsNone, TypeOK
  <2>7. OwnedUnique'
    BY <1>1, <1>2 DEF OwnedUnique, EntryHolds, CloseHolds, InFlight, TypeOK
  <2>. QED
    BY <2>4, <2>5, <2>6, <2>7
<1>3. CASE \E d \in Descs \ open[Stream] :
          /\ open' = [open EXCEPT ![Stream] = @ \cup {d}]
          /\ stype' = [stype EXCEPT ![af] = Stream]
          /\ desc' = [desc EXCEPT ![af] = d]
          /\ InstallOrClose(p, af, [type |-> "socket", stype |-> Stream, desc |-> d])
  <2>1. PICK d \in Descs \ open[Stream] :
          /\ open' = [open EXCEPT ![Stream] = @ \cup {d}]
          /\ stype' = [stype EXCEPT ![af] = Stream]
          /\ desc' = [desc EXCEPT ![af] = d]
          /\ InstallOrClose(p, af, [type |-> "socket", stype |-> Stream, desc |-> d])
    BY <1>3
  <2>2. open' = [open EXCEPT ![Stream] = @ \cup ({d} \cap Descs)]
    BY <2>1
  <2>. QED
    BY <1>1, <2>1, <2>2, InstallIInv DEF AcceptDone, DescVal, Types
<1>. QED
  BY <1>2, <1>3 DEF AcceptDone


\* sys_close: the last reference hands the entry's descriptor to the
\* pending DestorySocket of the closing process.
LEMMA CloseIInv ==
    ASSUME IInv, NEW p \in Procs, NEW fd \in Fds, Close(p, fd)
    PROVE  IInv'
<1>. DEFINE s == ofile[p][fd]
            pf0 == <<p, fd>>
<1>. USE DEF IInv
<1>1. s \in Slots /\ pc[p] = "idle" /\ pf0 \in OfileRefs(s)
  BY DEF Close, TypeOK, OfileRefs, NoSlot, Slots
<1>2. /\ ofile' = [ofile EXCEPT ![p][fd] = NoSlot]
      /\ ref' = [ref EXCEPT ![s] = @ - 1]
      /\ UNCHANGED <<stype, desc, open, panicked>>
  BY DEF Close
<1>3. \A x \in Slots : OfileRefs(x)' = IF x = s THEN OfileRefs(x) \ {pf0}
                                              ELSE OfileRefs(x)
  <2>1. \A q \in Procs, g \in Fds :
            ofile'[q][g] = IF q = p /\ g = fd THEN NoSlot ELSE ofile[q][g]
    BY <1>2 DEF TypeOK
  <2>2. NoSlot \notin Slots
    BY DEF NoSlot, Slots
  <2>. QED
    BY <1>1, <2>1, <2>2 DEF OfileRefs
<1>4. \A q \in Procs : InFlight(q) => lf[q] # s
  <2>1. SUFFICES ASSUME NEW q \in Procs, InFlight(q), lf[q] = s PROVE FALSE
    OBVIOUS
  <2>2. ref[s] = 1 /\ q \in FlightRefs(s)
    BY <2>1 DEF InFlightOwned, FlightRefs
  <2>. QED
    BY <1>1, <2>2, SoleFlightRef
<1>5. ref[s] >= 1 /\ ref[s] \in Nat
  <2>1. Cardinality(OfileRefs(s)) # 0
    BY <1>1, RefSplit, FS_EmptySet
  <2>. QED
    BY <1>1, <2>1, RefSplit
<1>6. ASSUME UNCHANGED <<pc, lf>>
      PROVE  \A x \in Slots : FlightRefs(x)' = FlightRefs(x)
  BY <1>6 DEF FlightRefs, InFlight
<1>7. CASE ref[s] > 1
  <2>1. UNCHANGED <<ftype, ff, pc, lf>>
    BY <1>7 DEF Close
  <2>2. TypeOK'
    <3>1. ref' \in [Slots -> Nat]
      BY <1>1, <1>2, <1>5, <1>7 DEF TypeOK
    <3>2. ofile' \in [Procs -> [Fds -> Slots \cup {NoSlot}]]
      BY <1>2 DEF TypeOK
    <3>. QED
      BY <1>2, <2>1, <3>1, <3>2 DEF TypeOK
  <2>3. RefCountsExact'
    <3>1. ASSUME NEW x \in Slots
          PROVE  ref'[x] = Cardinality(OfileRefs(x)') + Cardinality(FlightRefs(x)')
      <4>1. CASE x = s
        <5>0. OfileRefs(x)' = OfileRefs(x) \ {pf0} /\ IsFiniteSet(OfileRefs(x))
          BY <1>1, <1>3, <4>1, RefSplit
        <5>1. Cardinality(OfileRefs(x)') = Cardinality(OfileRefs(x)) - 1
          BY <1>1, <4>1, <5>0, FS_RemoveElement
        <5>. QED
          BY <1>2, <1>6, <2>1, <4>1, <5>1, RefSplit DEF TypeOK
      <4>2. CASE x # s
        BY <1>2, <1>3, <1>6, <2>1, <4>2, RefSplit DEF TypeOK
      <4>. QED
        BY <4>1, <4>2
    <3>. QED
      BY <3>1, RefCountsExactNext
  <2>4. InFlightOwned' /\ FreeIsNone'
    BY <1>2, <1>4, <1>5, <1>7, <2>1 DEF InFlightOwned, FreeIsNone, InFlight, TypeOK
  <2>5. OwnedUnique'
    BY <1>2, <2>1 DEF OwnedUnique, EntryHolds, CloseHolds
  <2>. QED
    BY <2>2, <2>3, <2>4, <2>5
<1>8. CASE ~(ref[s] > 1)
  <2>. DEFINE snap == [type |-> ftype[s], stype |-> stype[s], desc |-> desc[s]]
  <2>1. /\ ftype' = [ftype EXCEPT ![s] = "none"]
        /\ ff' = [ff EXCEPT ![p] = snap]
        /\ pc' = [pc EXCEPT ![p] = "destroy"]
        /\ lf' = [lf EXCEPT ![p] = s]
    BY <1>8 DEF Close
  <2>2. OfileRefs(s) = {pf0} /\ FlightRefs(s) = {} /\ ref[s] = 1
    BY <1>1, <1>5, <1>8, SoleOfileRef
  <2>3. TypeOK'
    <3>1. snap \in Snap
      BY <1>1 DEF Snap, TypeOK
    <3>. QED
      BY <1>1, <1>2, <2>1, <2>2, <3>1 DEF TypeOK
  <2>4. \A x \in Slots : FlightRefs(x)' = FlightRefs(x)
    BY <1>1, <2>1 DEF FlightRefs, InFlight, TypeOK
  <2>5. RefCountsExact'
    <3>1. ASSUME NEW x \in Slots
          PROVE  ref'[x] = Cardinality(OfileRefs(x)') + Cardinality(FlightRefs(x)')
      <4>1. CASE x = s
        <5>1. OfileRefs(x)' = {} /\ FlightRefs(x)' = {}
          BY <1>3, <2>2, <2>4, <4>1
        <5>. QED
          BY <1>2, <2>2, <4>1, <5>1, FS_EmptySet DEF TypeOK
      <4>2. CASE x # s
        BY <1>2, <1>3, <2>4, <4>2, RefSplit DEF TypeOK
      <4>. QED
        BY <4>1, <4>2
    <3>. QED
      BY <3>1, RefCountsExactNext
  <2>6. InFlightOwned' /\ FreeIsNone'
    BY <1>1, <1>2, <1>4, <2>1 DEF InFlightOwned, FreeIsNone, InFlight, TypeOK
  <2>7. OwnedUnique'
    <3>1. \A x \in Slots, t2 \in Types, d2 \in Descs :
              EntryHolds(x, t2, d2)' <=> x # s /\ EntryHolds(x, t2, d2)
      BY <1>1, <1>2, <2>1 DEF EntryHolds, TypeOK
    <3>2. \A q \in Procs, t2 \in Types, d2 \in Descs :
              CloseHolds(q, t2, d2)' <=> IF q = p THEN EntryHolds(s, t2, d2)
                                                 ELSE CloseHolds(q, t2, d2)
      BY <1>1, <2>1 DEF CloseHolds, EntryHolds, TypeOK
    <3>3. \A t2 \in Types, d2 \in Descs : ~CloseHolds(p, t2, d2)
      BY <1>1 DEF CloseHolds
    <3>4. ASSUME NEW t2 \in Types, NEW d2 \in Descs
          PROVE  /\ d2 \in open'[t2] <=> d2 \in open[t2]
                 /\ \/ \E x \in Slots : EntryHolds(x, t2, d2)'
                    \/ \E q \in Procs : CloseHolds(q, t2, d2)'
                    <=> \/ \E x \in Slots : EntryHolds(x, t2, d2)
                        \/ \E q \in Procs : CloseHolds(q, t2, d2)
      <4>1. d2 \in open'[t2] <=> d2 \in open[t2]
        BY <1>2
      <4>2. (\E x \in Slots : EntryHolds(x, t2, d2)) <=>
                \/ \E x \in Slots : EntryHolds(x, t2, d2)'
                \/ EntryHolds(s, t2, d2)
        BY <1>1, <3>1
      <4>3. (\E q \in Procs : CloseHolds(q, t2, d2)') <=>
                \/ \E q \in Procs : CloseHolds(q, t2, d2)
                \/ EntryHolds(s, t2, d2)
        BY <3>2, <3>3
      <4>. QED
        BY <4>1, <4>2, <4>3
    <3>. QED
      BY <1>1, <3>1, <3>2, <3>3, <3>4 DEF OwnedUnique
  <2>. QED
    BY <2>3, <2>5, <2>6, <2>7
<1>. QED
  BY <1>7, <1>8


\* DestorySocket closes the copy's descriptor, which nothing else holds.
LEMMA DestroyIInv ==
    ASSUME IInv, NEW p \in Procs, Destroy(p)
    PROVE  IInv'
<1>. DEFINE f == ff[p]
<1>. USE DEF IInv
<1>1. pc[p] = "destroy" /\ f \in Snap
  BY DEF Destroy, TypeOK
<1>2. /\ pc' = [pc EXCEPT ![p] = "idle"]
      /\ lf' = [lf EXCEPT ![p] = NoSlot]
      /\ ff' = [ff EXCEPT ![p] = NoSnap]
      /\ UNCHANGED <<ref, ftype, stype, desc, ofile, panicked>>
  BY DEF Destroy
<1>3. \A t2 \in Types, d2 \in Descs :
          d2 \in open'[t2] <=> d2 \in open[t2] /\ ~CloseHolds(p, t2, d2)
  <2>1. CASE f.type = "socket"
    <3>1. open' = [open EXCEPT ![f.stype] = @ \ {f.desc}]
      BY <2>1 DEF Destroy, DestorySocket, CloseDesc
    <3>. QED
      BY <1>1, <2>1, <3>1 DEF CloseHolds, Snap, TypeOK
  <2>2. CASE f.type # "socket"
    BY <2>2 DEF Destroy, CloseHolds
  <2>. QED
    BY <2>1, <2>2
<1>4. TypeOK'
  <2>1. NoSnap \in Snap /\ open' \in [Types -> SUBSET Descs]
    BY <1>1 DEF Destroy, DestorySocket, CloseDesc, NoSnap, Snap, Types, Stream, DescVal, TypeOK
  <2>. QED
    BY <1>2, <2>1 DEF TypeOK
<1>5. RefCountsExact'
  <2>1. \A x \in Slots : OfileRefs(x)' = OfileRefs(x) /\ FlightRefs(x)' = FlightRefs(x)
    BY <1>1, <1>2 DEF OfileRefs, FlightRefs, InFlight, TypeOK
  <2>. QED
    BY <1>2, <2>1, RefSplit, RefCountsExactNext
<1>6. InFlightOwned' /\ FreeIsNone'
  BY <1>1, <1>2 DEF InFlightOwned, FreeIsNone, InFlight, TypeOK
<1>7. OwnedUnique'
  <2>1. \A x \in Slots, t2 \in Types, d2 \in Descs :
            EntryHolds(x, t2, d2)' <=> EntryHolds(x, t2, d2)
    BY <1>2 DEF EntryHolds
  <2>2. \A q \in Procs, t2 \in Types, d2 \in Descs :
            CloseHolds(q, t2, d2)' <=> q # p /\ CloseHolds(q, t2, d2)
    BY <1>2 DEF CloseHolds, TypeOK
  <2>. QED
    BY <1>3, <2>1, <2>2 DEF OwnedUnique
<1>. QED
  BY <1>4, <1>5, <1>6, <1>7

\* sys_dup: a second ofile reference and its increment.
LEMMA DupIInv ==
    ASSUME IInv, NEW p \in Procs, NEW fd \in Fds, Dup(p, fd)
    PROVE  IInv'
<1>. DEFINE s == ofile[p][fd]
            fd0 == LowestFd(p)
<1>. USE DEF IInv
<1>1. s \in Slots /\ <<p, fd>> \in OfileRefs(s)
  BY DEF Dup, TypeOK, OfileRefs, NoSlot, Slots
<1>2. fd0 \in Fds /\ ofile[p][fd0] = NoSlot
  BY LowestFdFacts DEF Dup
<1>3. /\ ofile' = [ofile EXCEPT ![p][fd0] = s]
      /\ ref' = [ref EXCEPT ![s] = @ + 1]
      /\ UNCHANGED <<ftype, stype, desc, pc, lf, ff, open, panicked>>
  BY DEF Dup
<1>4. \A x \in Slots : OfileRefs(x)' = IF x = s THEN OfileRefs(x) \cup {<<p, fd0>>}
                                              ELSE OfileRefs(x)
  <2>1. \A q \in Procs, g \in Fds :
            ofile'[q][g] = IF q = p /\ g = fd0 THEN s ELSE ofile[q][g]
    BY <1>1, <1>2, <1>3 DEF TypeOK
  <2>2. NoSlot \notin Slots
    BY DEF NoSlot, Slots
  <2>. QED
    BY <1>1, <1>2, <2>1, <2>2 DEF OfileRefs
<1>5. \A q \in Procs : InFlight(q) => lf[q] # s
  <2>1. SUFFICES ASSUME NEW q \in Procs, InFlight(q), lf[q] = s PROVE FALSE
    OBVIOUS
  <2>2. ref[s] = 1 /\ q \in FlightRefs(s)
    BY <2>1 DEF InFlightOwned, FlightRefs
  <2>. QED
    BY <1>1, <2>2, SoleFlightRef
<1>6. TypeOK'
  BY <1>1, <1>2, <1>3 DEF TypeOK
<1>7. RefCountsExact'
  <2>1. ASSUME NEW x \in Slots
        PROVE  ref'[x] = Cardinality(OfileRefs(x)') + Cardinality(FlightRefs(x)')
    <3>1. FlightRefs(x)' = FlightRefs(x)
      BY <1>3 DEF FlightRefs, InFlight
    <3>2. CASE x = s
      <4>0. OfileRefs(x)' = OfileRefs(x) \cup {<<p, fd0>>}
        BY <1>4, <3>2
      <4>1. <<p, fd0>> \notin OfileRefs(x)
        BY <1>1, <1>2, <3>2 DEF OfileRefs, NoSlot, Slots
      <4>2. Cardinality(OfileRefs(x)') = Cardinality(OfileRefs(x)) + 1
        BY <1>1, <3>2, <4>0, <4>1, RefSplit, FS_AddElement
      <4>. QED
        BY <1>1, <1>3, <3>1, <3>2, <4>2, RefSplit DEF TypeOK
    <3>3. CASE x # s
      BY <1>3, <1>4, <3>1, <3>3, RefSplit DEF TypeOK
    <3>. QED
      BY <3>2, <3>3
  <2>. QED
    BY <2>1, RefCountsExactNext
<1>8. InFlightOwned' /\ FreeIsNone'
  BY <1>1, <1>3, <1>5 DEF InFlightOwned, FreeIsNone, InFlight, TypeOK
<1>9. OwnedUnique'
  BY <1>3 DEF OwnedUnique, EntryHolds, CloseHolds
<1>. QED
  BY <1>6, <1>7, <1>8, <1>9

\* Steps that change only panicked, and stuttering steps.
LEMMA QuietIInv ==
    ASSUME IInv, UNCHANGED <<ref, ftype, stype, desc, ofile, pc, lf, ff, open>>,
           panicked' \in BOOLEAN
    PROVE  IInv'
<1>1. TypeOK'
  BY DEF IInv, TypeOK
<1>2. RefCountsExact'
  BY DEF IInv, RefCountsExact, InFlight
<1>3. InFlightOwned' /\ FreeIsNone' /\ OwnedUnique'
  BY DEF IInv, InFlightOwned, FreeIsNone, OwnedUnique, InFlight, EntryHolds, CloseHolds
<1>. QED
  BY <1>1, <1>2, <1>3 DEF IInv

\* Every step of Next, and every stuttering step, preserves IInv.
LEMMA NextIInv == IInv /\ [Next]_vars => IInv'
<1>. SUFFICES ASSUME IInv, [Next]_vars PROVE IInv'
  OBVIOUS
<1>1. CASE \E p \in Procs : CreateAlloc(p)
  BY <1>1, CreateAllocIInv
<1>2. CASE \E p \in Procs : CreateOpen(p)
  BY <1>2, CreateOpenIInv
<1>3. CASE \E p \in Procs : AcceptDone(p)
  BY <1>3, AcceptDoneIInv
<1>4. CASE \E p \in Procs : Destroy(p)
  BY <1>4, DestroyIInv
<1>5. CASE \E p \in Procs, fd \in Fds : AcceptAlloc(p, fd)
  BY <1>5, AcceptAllocIInv
<1>6. CASE \E p \in Procs, fd \in Fds : Close(p, fd)
  BY <1>6, CloseIInv
<1>7. CASE \E p \in Procs, fd \in Fds : Dup(p, fd)
  BY <1>7, DupIInv
<1>8. CASE \E p \in Procs, fd \in Fds : FileWrite(p, fd)
  BY <1>8, QuietIInv DEF FileWrite
<1>9. CASE Halted \/ UNCHANGED vars
  BY <1>9, QuietIInv DEF Halted, vars, IInv, TypeOK
<1>. QED
  BY <1>1, <1>2, <1>3, <1>4, <1>5, <1>6, <1>7, <1>8, <1>9 DEF Next


\* OwnedUnique counts the holders of DescOwnedOnce: one, or none.
LEMMA OwnedUniqueDescOwnedOnce ==
    ASSUME OwnedUnique
    PROVE  DescOwnedOnce
<1>. SUFFICES ASSUME NEW t \in Types, NEW d \in Descs
              PROVE  /\ d \in open[t] => Cardinality(Holders(t, d)) = 1
                     /\ Holders(t, d) # {} => d \in open[t]
  BY DEF DescOwnedOnce
<1>1. Holders(t, d) # {} <=> \/ \E s \in Slots : EntryHolds(s, t, d)
                             \/ \E p \in Procs : CloseHolds(p, t, d)
  BY DEF Holders, EntryHolds, CloseHolds
<1>2. ASSUME d \in open[t] PROVE \E h : Holders(t, d) = {h}
  <2>1. CASE \E s \in Slots : EntryHolds(s, t, d)
    <3>1. PICK s \in Slots : EntryHolds(s, t, d)
      BY <2>1
    <3>2. /\ \A x \in Slots : EntryHolds(x, t, d) => x = s
          /\ \A q \in Procs : ~CloseHolds(q, t, d)
      BY <3>1 DEF OwnedUnique
    <3>3. Holders(t, d) = {<<"entry", s>>}
      BY <3>1, <3>2 DEF Holders, EntryHolds, CloseHolds
    <3>. QED
      BY <3>3
  <2>2. CASE \E p \in Procs : CloseHolds(p, t, d)
    <3>1. PICK p \in Procs : CloseHolds(p, t, d)
      BY <2>2
    <3>2. /\ \A x \in Slots : ~EntryHolds(x, t, d)
          /\ \A q \in Procs : CloseHolds(q, t, d) => q = p
      BY <3>1 DEF OwnedUnique
    <3>3. Holders(t, d) = {<<"closing", p>>}
      BY <3>1, <3>2 DEF Holders, EntryHolds, CloseHolds
    <3>. QED
      BY <3>3
  <2>. QED
    BY <1>2, <2>1, <2>2 DEF OwnedUnique
<1>3. ASSUME d \in open[t] PROVE Cardinality(Holders(t, d)) = 1
  BY <1>2, <1>3, FS_Singleton
<1>. QED
  BY <1>1, <1>3 DEF OwnedUnique

-----------------------------------------------------------------------------
(* The theorems.                                                           *)

\* IInv holds in every reachable state.
LEMMA IInvInvariant == Spec => []IInv
BY InitIInv, NextIInv, PTL DEF Spec

\* Every reachable state is well typed: every ref is a natural number and
\* every ofile entry, struct file* and fileclose copy is of its type.
THEOREM SocketTypeCorrect == Spec => []TypeOK
BY IInvInvariant, PTL DEF IInv

\* The reference count of every ftable entry always equals the ofile
\* entries pointing to it plus the socket calls holding it between
\* filealloc and fdalloc, through every interleaving of create, accept,
\* dup, close and the fdalloc and Accept failure paths: no entry is freed
\* while reachable and none is leaked.
THEOREM RefCountsAreExact == Spec => []RefCountsExact
BY IInvInvariant, PTL DEF IInv

\* Each descriptor open on a transport controller always belongs to exactly
\* one socket entry or one pending DestorySocket, and no socket holds a
\* descriptor that is not open: DestorySocket, run after fileclose releases
\* the table, closes the copy ff and never the reused entry.
THEOREM DescsOwnedOnce == Spec => []DescOwnedOnce
<1>1. IInv => DescOwnedOnce
  BY OwnedUniqueDescOwnedOnce DEF IInv
<1>. QED
  BY <1>1, IInvInvariant, PTL

=============================================================================
