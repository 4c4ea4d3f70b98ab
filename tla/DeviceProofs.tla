---------------------------- MODULE DeviceProofs ----------------------------
(***************************************************************************)
(* Proofs about two services of the HAL that callers reach through open,   *)
(* read and write: the file descriptors, for every number of them, set of  *)
(* devices and naming of the standard streams; and below them the polled   *)
(* JTAG UART driver, for every depth of the FIFOs, length of the requests  *)
(* and number of characters.                                               *)
(***************************************************************************)
EXTENDS FdTable, JtagUartSmall, WellFoundedInduction, TLAPS

(***************************************************************************)
(* The descriptors: the inductive invariant.  That a device has one holder *)
(* follows from a stronger fact: a holder has the lowest number of all the *)
(* descriptors of its device, because the only descriptor alt_fd_lock      *)
(* overlooks is the highest and open refuses a locked device from then on. *)
(***************************************************************************)
NothingHeldBeforeMain == ~Main => \A f \in Fd : "EXCL" \notin Flags(f)

DeviceAboveStd == \A f \in Fd : "DEV" \in Flags(f) => alt_max_fd > 2

HolderIsLowest ==
  \A f, g \in Fd : Holds(f) /\ Sharing(f, g) => f < g

FdIInv ==
  /\ FdTypeOK
  /\ StdReserved
  /\ HighWater
  /\ NothingHeldBeforeMain
  /\ DeviceAboveStd
  /\ HolderIsLowest

-----------------------------------------------------------------------------

\* The search of alt_get_fd finds a free descriptor if there is one.
LEMMA FirstFreeIsFree ==
  ASSUME FreeFds # {}
  PROVE  FirstFree \in FreeFds
<1> DEFINE R == OpToRel(<, Nat)
<1>1. FreeFds \subseteq Nat
  BY FdAssumption DEF FreeFds, Fd
<1>2. \A x, y \in Nat : x < y => <<x, y>> \in R
  BY DEF OpToRel
<1>3. IsWellFoundedOn(R, Nat)
  BY NatLessThanWellFounded
<1> HIDE DEF R
<1>4. PICK x \in FreeFds : \A y \in FreeFds : ~ (<<y, x>> \in R)
  BY <1>1, <1>3, WFMin, Zenon
<1>5. ASSUME NEW y \in FreeFds PROVE x <= y
  <2>1. x \in Nat /\ y \in Nat /\ ~ (<<y, x>> \in R)
    BY <1>1, <1>4
  <2>2. ~ (y < x)
    BY <1>2, <2>1
  <2> QED
    BY <2>1, <2>2
<1> QED
  BY <1>5 DEF FirstFree

\* It is none of the standard descriptors.
LEMMA FirstFreeAboveStd ==
  ASSUME FreeFds # {}, StdReserved
  PROVE  FirstFree \in Fd /\ FirstFree > 2 /\ ~Allocated(FirstFree)
BY FirstFreeIsFree, FdAssumption DEF FreeFds, StdReserved, Fd

LEMMA FdInitIInv == FdInit => FdIInv
<1> SUFFICES ASSUME FdInit PROVE FdIInv
  OBVIOUS
<1> USE FdAssumption
<1>1. FdTypeOK
  BY DEF FdInit, FdTypeOK, FdEntry, Unused, Fd, Flag, Private, Settable, Redirects
<1>2. StdReserved
  BY DEF FdInit, StdReserved, Allocated, Dev, FdEntry, Fd
<1>3. HighWater
  BY DEF FdInit, HighWater, Allocated, Dev, FdEntry, Unused, Fd
<1>4. \A f \in Fd : Flags(f) = {}
  BY DEF FdInit, Flags, FdEntry, Unused, Fd
<1> QED
  BY <1>1, <1>2, <1>3, <1>4
     DEF FdIInv, NothingHeldBeforeMain, DeviceAboveStd, HolderIsLowest, Holds

-----------------------------------------------------------------------------
(***************************************************************************)
(* Every step is one of four: it leaves the list alone, it opens a         *)
(* descriptor of a device nobody holds, it redirects a standard stream, it *)
(* releases a descriptor, or it sets the flags of an allocated one.        *)
(***************************************************************************)
LEMMA UnchangedList ==
  ASSUME FdIInv, UNCHANGED <<alt_fd_list, alt_max_fd, redirect>>,
         fd_ret' \in Fd \union Errors
  PROVE  FdIInv'
BY DEF FdIInv, FdTypeOK, StdReserved, HighWater, NothingHeldBeforeMain,
       DeviceAboveStd, HolderIsLowest, Holds, Sharing, Allocated, Dev, Flags,
       Main

\* Releasing a descriptor, whether it was open or open has just taken it.
LEMMA ReleaseStep ==
  ASSUME FdIInv, NEW f \in Fd, f > 2,
         alt_fd_list' = [alt_fd_list EXCEPT ![f] = Unused],
         alt_max_fd' \in -1 .. MaxFd - 1, alt_max_fd' >= alt_max_fd,
         redirect' = redirect, fd_ret' \in Fd \union Errors
  PROVE  FdIInv'
<1> USE FdAssumption
<1>1. /\ \A g \in Fd : Dev(g)' = IF g = f THEN NoDev ELSE Dev(g)
      /\ \A g \in Fd : Flags(g)' = IF g = f THEN {} ELSE Flags(g)
  BY DEF FdIInv, FdTypeOK, Dev, Flags, Unused, FdEntry
<1>2. FdTypeOK'
  BY DEF FdIInv, FdTypeOK, Unused, FdEntry
<1>3. alt_max_fd \in Int /\ alt_max_fd' \in Int /\ Fd \subseteq Nat /\ 0 .. 2 \subseteq Fd
  BY DEF FdIInv, FdTypeOK, Fd
<1>4. StdReserved' /\ HighWater'
  BY <1>1, <1>3 DEF FdIInv, StdReserved, HighWater, Allocated
<1>5. NothingHeldBeforeMain' /\ DeviceAboveStd'
  BY <1>1, <1>3 DEF FdIInv, NothingHeldBeforeMain, DeviceAboveStd, Main
<1>6. HolderIsLowest'
  BY <1>1 DEF FdIInv, HolderIsLowest, Holds, Sharing, Allocated
<1> QED
  BY <1>2, <1>4, <1>5, <1>6 DEF FdIInv

LEMMA OpenStep ==
  ASSUME FdIInv, NEW name \in Devices \union {Absent}, NEW arg \in SUBSET Flag,
         Open(name, arg)
  PROVE  FdIInv'
<1> USE FdAssumption
<1>1. CASE OpenNothing(name)
  <2>1. fd_ret' \in Errors /\ UNCHANGED <<alt_fd_list, alt_max_fd, redirect>>
    BY <1>1 DEF OpenNothing, Open, Errors
  <2> QED
    BY <2>1 DEF FdIInv, FdTypeOK, StdReserved, HighWater, NothingHeldBeforeMain,
                DeviceAboveStd, HolderIsLowest, Holds, Sharing, Allocated, Dev,
                Flags, Main
<1>2. CASE OpenDevice(name, arg)
  <2> DEFINE fd == FirstFree
  <2>1. fd \in Fd /\ fd > 2 /\ ~Allocated(fd) /\ name \in Devices
    BY <1>2, FirstFreeAboveStd DEF OpenDevice, FdIInv
  <2>2. /\ redirect' = redirect
        /\ alt_max_fd' \in -1 .. MaxFd - 1
        /\ alt_max_fd' >= alt_max_fd /\ alt_max_fd' >= fd
    BY <1>2, <2>1 DEF Open, OpenDevice, HighWaterAfter, FdIInv, FdTypeOK, Fd
  <2>3. OpenFlags(arg) \in SUBSET Flag /\ "EXCL" \notin OpenFlags(arg)
    BY DEF OpenFlags, Flag, Private, Settable
  <2>4. CASE FileLocked(name, fd) /\ alt_fd_list' = GivenBack(Opened(alt_fd_list, fd, name, arg), fd)
                                  /\ fd_ret' = EACCES
    <3>1. alt_fd_list' = [alt_fd_list EXCEPT ![fd] = Unused]
      BY <2>1, <2>4 DEF GivenBack, Released, Opened, FdIInv, FdTypeOK
    <3> QED
      BY <2>1, <2>2, <2>4, <3>1, ReleaseStep DEF Errors
  <2>5. CASE ~FileLocked(name, fd) /\ alt_fd_list' = Opened(alt_fd_list, fd, name, arg)
                                   /\ fd_ret' = fd
    <3>1. alt_fd_list' = [alt_fd_list EXCEPT ![fd] = FdEntry(name, OpenFlags(arg))]
      BY <2>5 DEF Opened
    <3>2. \A h \in Fd : Holds(h) => Dev(h) # name
      BY <2>1, <2>2, <2>5, <1>2
         DEF FdIInv, HighWater, FileLocked, Holds, OpenDevice, FdTypeOK, Fd
    <3>3. FdTypeOK' /\ StdReserved' /\ HighWater' /\ NothingHeldBeforeMain' /\ DeviceAboveStd'
      BY <2>1, <2>2, <2>3, <2>5, <3>1
         DEF FdIInv, FdTypeOK, StdReserved, HighWater, NothingHeldBeforeMain,
             DeviceAboveStd, Allocated, Dev, Flags, Main, FdEntry, Fd
    <3>4. HolderIsLowest'
      BY <2>1, <2>3, <3>1, <3>2
         DEF FdIInv, FdTypeOK, HolderIsLowest, Holds, Sharing, Allocated, Dev,
             Flags, FdEntry
    <3> QED
      BY <3>3, <3>4 DEF FdIInv
  <2> QED
    BY <1>2, <2>4, <2>5 DEF OpenDevice
<1> QED
  BY <1>1, <1>2 DEF Open

LEMMA RedirectStep ==
  ASSUME FdIInv, Redirect
  PROVE  FdIInv'
<1> USE FdAssumption
<1> DEFINE std == Redirects[redirect]
           name == Stdio[std]
           fd == FirstFree
<1>1. /\ std \in 0 .. 2 /\ std \in Fd
      /\ redirect \in 1 .. 3 /\ redirect' = redirect + 1
      /\ fd_ret' = fd_ret
  BY DEF Redirect, FdIInv, FdTypeOK, Main, Redirects, Fd
<1>2. CASE name \in Devices /\ FreeFds # {}
  <2>1. fd \in Fd /\ fd > 2 /\ ~Allocated(fd)
    BY <1>2, FirstFreeAboveStd DEF FdIInv
  <2>2. /\ alt_max_fd' \in -1 .. MaxFd - 1
        /\ alt_max_fd' >= alt_max_fd /\ alt_max_fd' >= fd
    BY <1>2, <2>1 DEF Redirect, HighWaterAfter, FdIInv, FdTypeOK, Fd
  <2>3. alt_fd_list' = [alt_fd_list EXCEPT ![std] = FdEntry(name, {"DEV"}),
                                           ![fd] = Unused]
    <3>1. alt_fd_list' =
            Released([Opened(alt_fd_list, fd, name, {}) EXCEPT
                        ![std] = Opened(alt_fd_list, fd, name, {})[fd]], fd)
      BY <1>2 DEF Redirect
    <3>2. OpenFlags({}) = {"DEV"}
      BY DEF OpenFlags
    <3>3. std # fd
      BY <1>1, <2>1
    <3> QED
      BY <3>1, <3>2, <3>3, <1>1, <2>1 DEF Released, Opened, FdIInv, FdTypeOK
  <2>4. \A f \in Fd : "EXCL" \notin Flags(f)
    BY DEF FdIInv, NothingHeldBeforeMain, Redirect
  <2>5. \A f \in Fd : "EXCL" \notin Flags(f)'
    BY <1>1, <2>1, <2>3, <2>4 DEF Flags, FdEntry, Unused, FdIInv, FdTypeOK
  <2>6. FdTypeOK'
    BY <1>1, <1>2, <2>1, <2>2, <2>3
       DEF FdIInv, FdTypeOK, FdEntry, Unused, Flag, Private, Redirects
  <2>7. \A g \in Fd : Dev(g)' = IF g = fd THEN NoDev
                               ELSE IF g = std THEN name ELSE Dev(g)
    BY <1>1, <2>1, <2>3 DEF FdIInv, FdTypeOK, Dev, FdEntry, Unused
  <2>8. /\ alt_max_fd' > 2 /\ alt_max_fd' >= alt_max_fd
        /\ alt_max_fd \in Int /\ alt_max_fd' \in Int
        /\ Fd \subseteq Nat /\ 0 .. 2 \subseteq Fd /\ name # NoDev
    BY <1>2, <2>1, <2>2 DEF FdIInv, FdTypeOK, Fd
  <2> HIDE DEF name, std, fd
  <2>9. StdReserved' /\ HighWater' /\ DeviceAboveStd'
    BY <1>1, <2>1, <2>7, <2>8
       DEF FdIInv, StdReserved, HighWater, DeviceAboveStd, Allocated
  <2> QED
    BY <2>5, <2>6, <2>9
       DEF FdIInv, NothingHeldBeforeMain, HolderIsLowest, Holds
<1>3. CASE ~(name \in Devices /\ FreeFds # {})
  <2>1. UNCHANGED <<alt_fd_list, alt_max_fd>>
    BY <1>3 DEF Redirect
  <2> QED
    BY <1>1, <2>1
       DEF FdIInv, FdTypeOK, StdReserved, HighWater, NothingHeldBeforeMain,
           DeviceAboveStd, HolderIsLowest, Holds, Sharing, Allocated, Dev,
           Flags, Main, Redirects, Redirect
<1> QED
  BY <1>2, <1>3

LEMMA CloseStep ==
  ASSUME FdIInv, NEW f \in Fd, Close(f)
  PROVE  FdIInv'
<1> USE FdAssumption
<1>1. /\ UNCHANGED <<alt_max_fd, redirect>>
      /\ fd_ret' \in Fd \union Errors
      /\ \/ UNCHANGED alt_fd_list
         \/ f > 2 /\ alt_fd_list' = [alt_fd_list EXCEPT ![f] = Unused]
  BY DEF Close, OnOpen, Released, Errors, Fd
<1>2. alt_max_fd' \in -1 .. MaxFd - 1 /\ alt_max_fd' >= alt_max_fd
  BY <1>1 DEF FdIInv, FdTypeOK
<1> QED
  BY <1>1, <1>2, ReleaseStep, UnchangedList

\* Setting flags on an open descriptor keeps the invariant when it does not
\* mark a new device and gives no lock to a descriptor that is not the lowest.
LEMMA SetFlagsStep ==
  ASSUME FdIInv, NEW f \in Fd, NEW bits \in SUBSET Flag,
         Main, SetFlags(f, bits), UNCHANGED <<alt_max_fd, redirect>>,
         fd_ret' \in Fd \union Errors,
         "DEV" \in bits => "DEV" \in Flags(f),
         "EXCL" \in bits /\ Allocated(f) =>
           \A g \in Fd : Sharing(f, g) => f < g
  PROVE  FdIInv'
<1>1. alt_fd_list' = [alt_fd_list EXCEPT ![f].fd_flags = bits]
  BY DEF SetFlags
<1>2. /\ \A g \in Fd : Dev(g)' = Dev(g)
      /\ \A g \in Fd : Flags(g)' = IF g = f THEN bits ELSE Flags(g)
      /\ alt_fd_list' \in [Fd -> [dev : Devices \union {NoDev}, fd_flags : SUBSET Flag]]
  BY <1>1 DEF FdIInv, FdTypeOK, Dev, Flags
<1>3. FdTypeOK' /\ StdReserved' /\ HighWater' /\ NothingHeldBeforeMain' /\ DeviceAboveStd'
  BY <1>2, FdAssumption
     DEF FdIInv, FdTypeOK, StdReserved, HighWater, NothingHeldBeforeMain,
         DeviceAboveStd, Allocated, Main, Fd
<1>4. HolderIsLowest'
  BY <1>2 DEF FdIInv, HolderIsLowest, Holds, Sharing, Allocated
<1> QED
  BY <1>3, <1>4 DEF FdIInv

LEMMA ExcludeStep ==
  ASSUME FdIInv, NEW f \in Fd, Exclude(f)
  PROVE  FdIInv'
<1> USE FdAssumption
<1>1. CASE UNCHANGED alt_fd_list
  BY <1>1, UnchangedList DEF Exclude, OnOpen, Errors, SetFlags, Fd
<1>2. CASE /\ "DEV" \in Flags(f) /\ ~Contended(f) /\ fd_ret' = 0
           /\ SetFlags(f, Flags(f) \union {"EXCL"})
  <2>1. alt_max_fd > 2 /\ alt_max_fd \in Int
    BY <1>2 DEF FdIInv, DeviceAboveStd, FdTypeOK
  <2>2. \A g \in Fd : Sharing(f, g) => g >= alt_max_fd
    BY <1>2, <2>1 DEF Contended, Sharing, Fd
  <2>3. f <= alt_max_fd
    BY <2>1 DEF FdIInv, HighWater, Exclude, OnOpen, Fd
  <2>4. \A g \in Fd : Sharing(f, g) => f < g
    BY <2>1, <2>2, <2>3 DEF Sharing, Fd
  <2>5. Flags(f) \union {"EXCL"} \in SUBSET Flag
    BY DEF FdIInv, FdTypeOK, Flags, Flag, Private
  <2> QED
    BY <1>2, <2>4, <2>5, SetFlagsStep DEF Exclude, OnOpen, Fd
<1> QED
  BY <1>1, <1>2 DEF Exclude

LEMMA ShareStep ==
  ASSUME FdIInv, NEW f \in Fd, Share(f)
  PROVE  FdIInv'
<1> USE FdAssumption
<1>1. CASE UNCHANGED alt_fd_list
  BY <1>1, UnchangedList DEF Share, OnOpen, Errors, Fd
<1>2. CASE fd_ret' = 0 /\ SetFlags(f, Flags(f) \ {"EXCL"})
  <2>1. Flags(f) \ {"EXCL"} \in SUBSET Flag
    BY DEF FdIInv, FdTypeOK, Flags
  <2> QED
    BY <1>2, <2>1, SetFlagsStep DEF Share, OnOpen, Fd
<1> QED
  BY <1>1, <1>2 DEF Share

LEMMA FcntlStep ==
  ASSUME FdIInv, NEW f \in Fd, NEW arg \in SUBSET Flag, Fcntl(f, arg)
  PROVE  FdIInv'
<1> USE FdAssumption
<1> DEFINE bits == FcntlFlags(Flags(f), arg)
<1>1. /\ bits \in SUBSET Flag
      /\ "DEV" \in bits => "DEV" \in Flags(f)
      /\ "EXCL" \in bits => "EXCL" \in Flags(f)
  BY DEF FdIInv, FdTypeOK, Flags, FcntlFlags, Settable, Flag
<1>2. "EXCL" \in bits /\ Allocated(f) => \A g \in Fd : Sharing(f, g) => f < g
  BY <1>1 DEF FdIInv, HolderIsLowest, Holds
<1> HIDE DEF bits
<1>3. SetFlags(f, bits) /\ fd_ret' = 0
  BY DEF Fcntl, bits
<1> QED
  BY <1>1, <1>2, <1>3, SetFlagsStep DEF Fcntl, OnOpen, Fd

LEMMA FdNextIInv == FdIInv /\ [FdNext]_fdVars => FdIInv'
<1> SUFFICES ASSUME FdIInv, [FdNext]_fdVars PROVE FdIInv'
  OBVIOUS
<1>1. CASE Redirect
  BY <1>1, RedirectStep
<1>2. ASSUME NEW name \in Devices \union {Absent}, NEW arg \in SUBSET Flag,
             Open(name, arg)
      PROVE  FdIInv'
  BY <1>2, OpenStep
<1>3. ASSUME NEW f \in Fd, Close(f) PROVE FdIInv'
  BY <1>3, CloseStep
<1>4. ASSUME NEW f \in Fd, Exclude(f) PROVE FdIInv'
  BY <1>4, ExcludeStep
<1>5. ASSUME NEW f \in Fd, Share(f) PROVE FdIInv'
  BY <1>5, ShareStep
<1>6. ASSUME NEW f \in Fd, NEW arg \in SUBSET Flag, Fcntl(f, arg) PROVE FdIInv'
  BY <1>6, FcntlStep
<1>7. CASE BadFd
  BY <1>7, UnchangedList DEF BadFd, Errors
<1>8. CASE UNCHANGED fdVars
  BY <1>8, UnchangedList DEF fdVars, FdIInv, FdTypeOK
<1> QED
  BY <1>1, <1>2, <1>3, <1>4, <1>5, <1>6, <1>7, <1>8 DEF FdNext, FdCalls

LEMMA FdInvariance == FdSpec => []FdIInv
BY FdInitIInv, FdNextIInv, PTL DEF FdSpec

-----------------------------------------------------------------------------

\* Type correctness.
THEOREM FdTypeCorrect == FdSpec => []FdTypeOK
<1>1. FdIInv => FdTypeOK
  BY DEF FdIInv
<1> QED
  BY <1>1, FdInvariance, PTL

\* The standard descriptors are never freed.
THEOREM StdStaysReserved == FdSpec => []StdReserved
<1>1. FdIInv => StdReserved
  BY DEF FdIInv
<1> QED
  BY <1>1, FdInvariance, PTL

\* The searches that stop at the high water mark see every descriptor.
THEOREM HighWaterCorrect == FdSpec => []HighWater
<1>1. FdIInv => HighWater
  BY DEF FdIInv
<1> QED
  BY <1>1, FdInvariance, PTL

\* A device has at most one holder of the exclusive lock, for any number of
\* descriptors and devices, although alt_fd_lock overlooks one descriptor.
THEOREM LockHolderIsUnique == FdSpec => []LockHolderUnique
<1>1. FdIInv => LockHolderUnique
  <2> SUFFICES ASSUME FdIInv, NEW f \in Fd, NEW g \in Fd,
                      Holds(f), Holds(g), Sharing(f, g)
               PROVE  FALSE
    BY DEF LockHolderUnique
  <2>1. f < g /\ g < f
    BY DEF FdIInv, HolderIsLowest, Sharing
  <2> QED
    BY <2>1, FdAssumption DEF Fd
<1> QED
  BY <1>1, FdInvariance, PTL

-----------------------------------------------------------------------------

\* The step of OpenRespectsLock.
OpensUnlocked ==
  \A f, g \in Fd :
    ~Allocated(f) /\ Allocated(f)' /\ Holds(g) => Dev(f)' # Dev(g)

\* Only open allocates a descriptor, and its search reaches every holder.
LEMMA OpenStepUnlocked ==
  ASSUME FdIInv, NEW name \in Devices \union {Absent}, NEW arg \in SUBSET Flag,
         Open(name, arg)
  PROVE  OpensUnlocked
<1> USE FdAssumption
<1>1. CASE OpenNothing(name)
  BY <1>1 DEF OpenNothing, OpensUnlocked, Allocated, Dev
<1>2. CASE OpenDevice(name, arg)
  <2> DEFINE fd == FirstFree
  <2>1. fd \in Fd /\ fd > 2 /\ ~Allocated(fd)
    BY <1>2, FirstFreeAboveStd DEF OpenDevice, FdIInv
  <2>2. CASE FileLocked(name, fd)
    <3>1. alt_fd_list' = [alt_fd_list EXCEPT ![fd] = Unused]
      BY <1>2, <2>1, <2>2 DEF OpenDevice, GivenBack, Released, Opened, FdIInv, FdTypeOK
    <3> QED
      BY <2>1, <3>1 DEF OpensUnlocked, Allocated, Dev, Unused, FdEntry, FdIInv, FdTypeOK
  <2>3. CASE ~FileLocked(name, fd)
    <3>1. alt_fd_list' =
            [alt_fd_list EXCEPT ![fd] = FdEntry(name, OpenFlags(arg))]
      BY <1>2, <2>3 DEF OpenDevice, Opened
    <3>2. \A h \in Fd : Holds(h) => Dev(h) # name
      BY <2>1, <2>3
         DEF FdIInv, FdTypeOK, HighWater, HighWaterAfter, FileLocked, Holds, Fd
    <3>3. \A f \in Fd : Dev(f)' = IF f = fd THEN name ELSE Dev(f)
      BY <2>1, <3>1 DEF Dev, FdEntry, FdIInv, FdTypeOK
    <3> QED
      BY <3>2, <3>3 DEF OpensUnlocked, Allocated
  <2> QED
    BY <2>2, <2>3
<1> QED
  BY <1>1, <1>2 DEF Open

LEMMA OtherStepsUnlocked ==
  ASSUME FdIInv, NEW f \in Fd, NEW arg \in SUBSET Flag,
         Close(f) \/ Exclude(f) \/ Share(f) \/ Fcntl(f, arg)
  PROVE  OpensUnlocked
<1>1. \A g \in Fd : Dev(g)' \in {Dev(g), NoDev}
  <2>1. CASE Close(f)
    BY <2>1 DEF Close, Released, Dev, Unused, FdEntry, FdIInv, FdTypeOK
  <2>2. CASE UNCHANGED alt_fd_list
    BY <2>2 DEF Dev
  <2>3. ASSUME NEW bits, SetFlags(f, bits)
        PROVE  \A g \in Fd : Dev(g)' = Dev(g)
    BY <2>3 DEF SetFlags, Dev, FdIInv, FdTypeOK
  <2>4. CASE Exclude(f)
    BY <2>2, <2>3, <2>4 DEF Exclude
  <2>5. CASE Share(f)
    BY <2>2, <2>3, <2>5 DEF Share
  <2>6. CASE Fcntl(f, arg)
    BY <2>3, <2>6 DEF Fcntl
  <2> QED
    BY <2>1, <2>4, <2>5, <2>6
<1> QED
  BY <1>1 DEF OpensUnlocked, Allocated

\* open never returns a descriptor of a device that is locked, for any number
\* of descriptors: the search of alt_file_locked misses no holder.
THEOREM OpenFindsLock == FdSpec => OpenRespectsLock
<1>1. FdIInv /\ [FdNext]_fdVars => OpensUnlocked
  <2> SUFFICES ASSUME FdIInv, [FdNext]_fdVars PROVE OpensUnlocked
    OBVIOUS
  <2>1. CASE Redirect
    BY <2>1 DEF Redirect, OpensUnlocked, Holds, FdIInv, NothingHeldBeforeMain
  <2>2. ASSUME NEW name \in Devices \union {Absent}, NEW arg \in SUBSET Flag,
               Open(name, arg)
        PROVE  OpensUnlocked
    BY <2>2, OpenStepUnlocked
  <2>3. ASSUME NEW f \in Fd, Close(f) \/ Exclude(f) \/ Share(f)
        PROVE  OpensUnlocked
    BY <2>3, OtherStepsUnlocked
  <2>4. ASSUME NEW f \in Fd, NEW arg \in SUBSET Flag, Fcntl(f, arg)
        PROVE  OpensUnlocked
    BY <2>4, OtherStepsUnlocked
  <2>5. CASE BadFd \/ UNCHANGED fdVars
    BY <2>5 DEF BadFd, fdVars, OpensUnlocked, Allocated, Dev
  <2> QED
    BY <2>1, <2>2, <2>3, <2>4, <2>5 DEF FdNext, FdCalls
<1>2. FdIInv /\ [FdNext]_fdVars =>
        [\A f, g \in Fd :
           ~Allocated(f) /\ Allocated(f)' /\ Holds(g) => Dev(f)' # Dev(g)]_fdVars
  BY <1>1 DEF OpensUnlocked
<1> QED
  BY <1>2, FdInvariance, PTL DEF FdSpec, OpenRespectsLock
-----------------------------------------------------------------------------
(***************************************************************************)
(* What a step does to the list, for the promises that compare the list    *)
(* before and after it.  A free descriptor is as the table is at start-up: *)
(* that is why giving one back undoes taking it.  Before main is called    *)
(* nothing has returned.                                                   *)
(***************************************************************************)
FreeIsUnused == \A f \in Fd : ~Allocated(f) => alt_fd_list[f] = Unused

NothingReturned == ~Main => fd_ret = 0

TableInv == FdIInv /\ FreeIsUnused /\ NothingReturned

OpensAt(f) ==
  /\ ~Allocated(f) /\ fd_ret' = f
  /\ \E name \in Devices, arg \in SUBSET Flag :
       alt_fd_list' = Opened(alt_fd_list, f, name, arg)

RedirectsAt(std) ==
  \E name \in Devices :
    alt_fd_list' = [alt_fd_list EXCEPT ![std] = FdEntry(name, {"DEV"})]

FreesAt(f) ==
  /\ fd_ret' \in {0, EWOULDBLOCK}
  /\ alt_fd_list' = [alt_fd_list EXCEPT ![f] = Unused]

SetsFlagsAt(f, bits) ==
  /\ Allocated(f) /\ fd_ret' = 0 /\ SetFlags(f, bits)
  /\ "EXCL" \in bits /\ "EXCL" \notin Flags(f) =>
       "DEV" \in Flags(f) /\ \A g \in Fd : Sharing(f, g) => f < g

ListStep ==
  \/ UNCHANGED alt_fd_list
  \/ \E f \in Fd : OpensAt(f)
  \/ ~Main /\ \E std \in 0 .. 2 : RedirectsAt(std)
  \/ \E f \in Fd : FreesAt(f)
  \/ \E f \in Fd, bits \in SUBSET Flag : SetsFlagsAt(f, bits)

\* open takes a free descriptor, and leaves the list alone when it fails.
LEMMA OpenListStep ==
  ASSUME TableInv, NEW name \in Devices \union {Absent},
         NEW arg \in SUBSET Flag, Open(name, arg)
  PROVE  UNCHANGED alt_fd_list \/ \E f \in Fd : OpensAt(f)
<1>1. CASE OpenNothing(name)
  BY <1>1 DEF OpenNothing
<1>2. CASE OpenDevice(name, arg)
  <2> DEFINE fd == FirstFree
  <2>1. fd \in Fd /\ fd > 2 /\ ~Allocated(fd) /\ name \in Devices
    BY <1>2, FirstFreeAboveStd DEF OpenDevice, TableInv, FdIInv
  <2>2. CASE FileLocked(name, fd)
    <3>1. alt_fd_list' = [alt_fd_list EXCEPT ![fd] = Unused]
      BY <1>2, <2>1, <2>2
         DEF OpenDevice, GivenBack, Released, Opened, TableInv, FdIInv, FdTypeOK
    <3>2. alt_fd_list[fd] = Unused
      BY <2>1 DEF TableInv, FreeIsUnused
    <3>3. alt_fd_list' = alt_fd_list
      BY <2>1, <3>1, <3>2 DEF TableInv, FdIInv, FdTypeOK
    <3> QED
      BY <3>3
  <2>3. CASE ~FileLocked(name, fd)
    <3>1. fd_ret' = fd /\ alt_fd_list' = Opened(alt_fd_list, fd, name, arg)
      BY <1>2, <2>3 DEF OpenDevice
    <3>2. OpensAt(fd)
      BY <2>1, <3>1 DEF OpensAt
    <3> QED
      BY <2>1, <3>2
  <2> QED
    BY <2>2, <2>3
<1> QED
  BY <1>1, <1>2 DEF Open

LEMMA RedirectListStep ==
  ASSUME TableInv, Redirect
  PROVE  UNCHANGED alt_fd_list \/ \E std \in 0 .. 2 : RedirectsAt(std)
<1> USE FdAssumption
<1> DEFINE std == Redirects[redirect]
           name == Stdio[std]
           fd == FirstFree
<1>1. std \in 0 .. 2 /\ std \in Fd
  BY DEF Redirect, TableInv, FdIInv, FdTypeOK, Main, Redirects, Fd
<1>2. CASE name \in Devices /\ FreeFds # {}
  <2>1. fd \in Fd /\ fd > 2 /\ ~Allocated(fd) /\ std # fd
    BY <1>1, <1>2, FirstFreeAboveStd DEF TableInv, FdIInv
  <2>2. alt_fd_list[fd] = Unused
    BY <2>1 DEF TableInv, FreeIsUnused
  <2>3. alt_fd_list' =
          Released([Opened(alt_fd_list, fd, name, {}) EXCEPT
                      ![std] = Opened(alt_fd_list, fd, name, {})[fd]], fd)
    BY <1>2 DEF Redirect
  <2>4. OpenFlags({}) = {"DEV"}
    BY DEF OpenFlags
  <2>5. alt_fd_list' = [alt_fd_list EXCEPT ![std] = FdEntry(name, {"DEV"}),
                                           ![fd] = Unused]
    BY <1>1, <2>1, <2>3, <2>4 DEF Released, Opened, TableInv, FdIInv, FdTypeOK
  <2> HIDE DEF std, fd
  <2>6. alt_fd_list' = [alt_fd_list EXCEPT ![std] = FdEntry(name, {"DEV"})]
    BY <1>1, <2>1, <2>2, <2>5 DEF TableInv, FdIInv, FdTypeOK
  <2>7. RedirectsAt(std)
    BY <1>2, <2>6 DEF RedirectsAt
  <2> QED
    BY <1>1, <2>7
<1>3. CASE ~(name \in Devices /\ FreeFds # {})
  BY <1>3 DEF Redirect
<1> QED
  BY <1>2, <1>3

LEMMA DescriptorListStep ==
  ASSUME TableInv, NEW f \in Fd, NEW arg \in SUBSET Flag,
         Close(f) \/ Exclude(f) \/ Share(f) \/ Fcntl(f, arg)
  PROVE  \/ UNCHANGED alt_fd_list
         \/ FreesAt(f)
         \/ \E bits \in SUBSET Flag : SetsFlagsAt(f, bits)
<1> USE FdAssumption
<1>0. Flags(f) \in SUBSET Flag
  BY DEF TableInv, FdIInv, FdTypeOK, Flags
<1>1. CASE Close(f)
  BY <1>1 DEF Close, Released, FreesAt
<1>2. CASE Exclude(f) /\ ~UNCHANGED alt_fd_list
  <2>1. /\ "DEV" \in Flags(f) /\ ~Contended(f) /\ fd_ret' = 0
        /\ SetFlags(f, Flags(f) \union {"EXCL"}) /\ Allocated(f)
    BY <1>2 DEF Exclude, OnOpen
  <2>2. alt_max_fd > 2 /\ alt_max_fd \in Int
    BY <2>1 DEF TableInv, FdIInv, DeviceAboveStd, FdTypeOK
  <2>3. \A g \in Fd : Sharing(f, g) => g >= alt_max_fd
    BY <2>1, <2>2 DEF Contended, Sharing, Fd
  <2>4. f <= alt_max_fd
    BY <2>1, <2>2 DEF TableInv, FdIInv, HighWater, Fd
  <2>5. \A g \in Fd : Sharing(f, g) => f < g
    BY <2>2, <2>3, <2>4 DEF Sharing, Fd
  <2>6. Flags(f) \union {"EXCL"} \in SUBSET Flag
    BY <1>0 DEF Flag, Private
  <2>7. SetsFlagsAt(f, Flags(f) \union {"EXCL"})
    BY <2>1, <2>5 DEF SetsFlagsAt
  <2> QED
    BY <2>6, <2>7
<1>3. CASE Share(f) /\ ~UNCHANGED alt_fd_list
  <2>1. Flags(f) \ {"EXCL"} \in SUBSET Flag
    BY <1>0
  <2>2. SetsFlagsAt(f, Flags(f) \ {"EXCL"})
    BY <1>3 DEF Share, OnOpen, SetsFlagsAt
  <2> QED
    BY <2>1, <2>2
<1>4. CASE Fcntl(f, arg)
  <2>1. /\ FcntlFlags(Flags(f), arg) \in SUBSET Flag
        /\ "EXCL" \in FcntlFlags(Flags(f), arg) => "EXCL" \in Flags(f)
    BY <1>0 DEF FcntlFlags, Settable, Flag
  <2>2. SetsFlagsAt(f, FcntlFlags(Flags(f), arg))
    BY <1>4, <2>1 DEF Fcntl, OnOpen, SetsFlagsAt
  <2> QED
    BY <2>1, <2>2
<1> QED
  BY <1>1, <1>2, <1>3, <1>4

LEMMA NextListStep ==
  ASSUME TableInv, [FdNext]_fdVars
  PROVE  /\ ListStep
         /\ ~Main' => ~Main /\ fd_ret' = fd_ret
         /\ ~Main => fd_ret' = fd_ret
<1> USE FdAssumption
<1>1. CASE Redirect
  <2>1. ~Main /\ fd_ret' = fd_ret
    BY <1>1 DEF Redirect
  <2> QED
    BY <1>1, <2>1, RedirectListStep DEF ListStep
<1>2. ASSUME NEW name \in Devices \union {Absent}, NEW arg \in SUBSET Flag,
             Open(name, arg)
      PROVE  Main /\ Main' /\ ListStep
  BY <1>2, OpenListStep DEF Open, Main, ListStep
<1>3. ASSUME NEW f \in Fd, NEW arg \in SUBSET Flag,
             Close(f) \/ Exclude(f) \/ Share(f) \/ Fcntl(f, arg)
      PROVE  Main /\ Main' /\ ListStep
  <2>1. OnOpen(f)
    BY <1>3 DEF Close, Exclude, Share, Fcntl
  <2> QED
    BY <1>3, <2>1, DescriptorListStep DEF OnOpen, Main, ListStep
<1>4. ASSUME NEW f \in Fd, Close(f) \/ Exclude(f) \/ Share(f)
      PROVE  Main /\ Main' /\ ListStep
  <2>1. {} \in SUBSET Flag
    OBVIOUS
  <2> QED
    BY <1>3, <1>4, <2>1
<1>5. CASE BadFd
  BY <1>5 DEF BadFd, Main, ListStep
<1>6. CASE UNCHANGED fdVars
  BY <1>6 DEF fdVars, Main, ListStep
<1> QED
  BY <1>1, <1>2, <1>3, <1>4, <1>5, <1>6 DEF FdNext, FdCalls

-----------------------------------------------------------------------------

LEMMA InitTableInv == FdInit => TableInv
<1> SUFFICES ASSUME FdInit PROVE TableInv
  OBVIOUS
<1>1. \A f \in Fd : ~Allocated(f) => alt_fd_list[f] = Unused
  BY FdAssumption DEF FdInit, Allocated, Dev, FdEntry, Fd
<1> QED
  BY <1>1, FdInitIInv DEF TableInv, FreeIsUnused, NothingReturned, FdInit

LEMMA NextTableInv == TableInv /\ [FdNext]_fdVars => TableInv'
<1> SUFFICES ASSUME TableInv, [FdNext]_fdVars PROVE TableInv'
  OBVIOUS
<1> USE FdAssumption
<1>1. FdIInv'
  BY FdNextIInv DEF TableInv
<1>2. ListStep /\ NothingReturned'
  BY NextListStep DEF TableInv, NothingReturned
<1>3. alt_fd_list \in [Fd -> [dev : Devices \union {NoDev}, fd_flags : SUBSET Flag]]
  BY DEF TableInv, FdIInv, FdTypeOK
<1>4. FreeIsUnused'
  <2>1. CASE UNCHANGED alt_fd_list
    BY <2>1 DEF TableInv, FreeIsUnused, Allocated, Dev
  <2>2. ASSUME NEW f \in Fd, OpensAt(f) PROVE FreeIsUnused'
    BY <1>3, <2>2
       DEF OpensAt, Opened, TableInv, FreeIsUnused, Allocated, Dev, FdEntry
  <2>3. ASSUME NEW std \in 0 .. 2, RedirectsAt(std) PROVE FreeIsUnused'
    BY <1>3, <2>3
       DEF RedirectsAt, TableInv, FreeIsUnused, Allocated, Dev, FdEntry
  <2>4. ASSUME NEW f \in Fd, FreesAt(f) PROVE FreeIsUnused'
    BY <1>3, <2>4 DEF FreesAt, TableInv, FreeIsUnused, Allocated, Dev
  <2>5. ASSUME NEW f \in Fd, NEW bits \in SUBSET Flag, SetsFlagsAt(f, bits)
        PROVE  FreeIsUnused'
    BY <1>3, <2>5
       DEF SetsFlagsAt, SetFlags, TableInv, FreeIsUnused, Allocated, Dev
  <2> QED
    BY <1>2, <2>1, <2>2, <2>3, <2>4, <2>5 DEF ListStep
<1> QED
  BY <1>1, <1>2, <1>4 DEF TableInv

LEMMA TableInvariance == FdSpec => []TableInv
BY InitTableInv, NextTableInv, PTL DEF FdSpec

\* The step of LockNotForged: a lock is new only where TIOCEXCL granted it.
LEMMA StepForgesNoLock ==
  ASSUME TableInv, [FdNext]_fdVars, NEW f \in Fd, ~Holds(f), Holds(f)'
  PROVE  /\ "DEV" \in Flags(f) /\ Dev(f)' = Dev(f)
         /\ \A g \in Fd : g < f => ~Sharing(f, g)
<1> USE FdAssumption
<1>1. ListStep
  BY NextListStep
<1>2. alt_fd_list \in [Fd -> [dev : Devices \union {NoDev}, fd_flags : SUBSET Flag]]
  BY DEF TableInv, FdIInv, FdTypeOK
<1>3. ~UNCHANGED alt_fd_list
  BY DEF Holds, Allocated, Dev, Flags
<1>4. ASSUME NEW h \in Fd, OpensAt(h) PROVE FALSE
  BY <1>2, <1>4 DEF OpensAt, Opened, OpenFlags, Private, FdEntry, Holds,
                    Allocated, Dev, Flags
<1>5. ASSUME NEW std \in 0 .. 2, RedirectsAt(std) PROVE FALSE
  BY <1>2, <1>5 DEF RedirectsAt, FdEntry, Holds, Allocated, Dev, Flags
<1>6. ASSUME NEW h \in Fd, FreesAt(h) PROVE FALSE
  BY <1>2, <1>6 DEF FreesAt, Unused, FdEntry, Holds, Allocated, Dev, Flags
<1>7. PICK h \in Fd, bits \in SUBSET Flag : SetsFlagsAt(h, bits)
  BY <1>1, <1>3, <1>4, <1>5, <1>6 DEF ListStep
<1>8. /\ \A g \in Fd : Dev(g)' = Dev(g)
      /\ \A g \in Fd : Flags(g)' = IF g = h THEN bits ELSE Flags(g)
  BY <1>2, <1>7 DEF SetsFlagsAt, SetFlags, Dev, Flags
<1>9. f = h /\ "EXCL" \in bits /\ "EXCL" \notin Flags(f)
  BY <1>8 DEF Holds, Allocated
<1>10. "DEV" \in Flags(f) /\ \A g \in Fd : Sharing(f, g) => f < g
  BY <1>7, <1>9 DEF SetsFlagsAt
<1>11. \A g \in Fd : g < f => ~Sharing(f, g)
  BY <1>10 DEF Fd
<1> QED
  BY <1>8, <1>10, <1>11

\* The step of FailedOpenLeavesList.
LEMMA FailedOpenStep ==
  ASSUME TableInv, [FdNext]_fdVars, fd_ret' \in {ENODEV, EMFILE, EACCES}
  PROVE  UNCHANGED alt_fd_list
<1> USE FdAssumption DEF ENODEV, EMFILE, EACCES, EWOULDBLOCK
<1>1. ListStep /\ Main
  BY NextListStep DEF TableInv, NothingReturned
<1>2. \A f \in Fd : ~OpensAt(f) /\ ~FreesAt(f)
  BY DEF OpensAt, FreesAt, Fd
<1>3. \A f \in Fd, bits \in SUBSET Flag : ~SetsFlagsAt(f, bits)
  BY DEF SetsFlagsAt
<1> QED
  BY <1>1, <1>2, <1>3 DEF ListStep

\* What open promises its callers, for every number of descriptors and set of
\* devices: it returns no descriptor of a locked device, no flag a caller
\* passes makes a lock, and an open that fails leaves the table as it was.
THEOREM OpenPromiseKept == FdSpec => OpenKeepsPromise
<1>1. TableInv /\ [FdNext]_fdVars =>
        [\A f \in Fd :
           ~Holds(f) /\ Holds(f)' =>
             /\ "DEV" \in Flags(f) /\ Dev(f)' = Dev(f)
             /\ \A g \in Fd : g < f => ~Sharing(f, g)]_fdVars
  BY StepForgesNoLock
<1>2. TableInv /\ [FdNext]_fdVars =>
        [fd_ret' \in {ENODEV, EMFILE, EACCES} => UNCHANGED alt_fd_list]_fdVars
  BY FailedOpenStep
<1>3. FdSpec => LockNotForged
  BY <1>1, TableInvariance, PTL DEF FdSpec, LockNotForged
<1>4. FdSpec => FailedOpenLeavesList
  BY <1>2, TableInvariance, PTL DEF FdSpec, FailedOpenLeavesList
<1> QED
  BY <1>3, <1>4, OpenFindsLock, PTL DEF OpenKeepsPromise

-----------------------------------------------------------------------------
(***************************************************************************)
(* The polled driver: the inductive invariant.  What write saw in the      *)
(* control register still holds when it writes the data register, because  *)
(* only write puts characters in the FIFO: none is dropped.                *)
(***************************************************************************)
SpaceSeen == pc = "put" => loc.left > 0 /\ Len(tx_fifo) < TxDepth

SmallIInv == SmallTypeOK /\ SpaceSeen

LEMMA SmallInitIInv == SmallInit => SmallIInv
<1> SUFFICES ASSUME SmallInit PROVE SmallIInv
  OBVIOUS
<1>1. <<>> \in Seq(Nat) /\ Len(<<>>) = 0
  OBVIOUS
<1> QED
  BY <1>1, SmallAssumption
     DEF SmallInit, SmallIInv, SmallTypeOK, SpaceSeen, NoLocals

-----------------------------------------------------------------------------
(***************************************************************************)
(* The steps, with what each does to the two streams.                      *)
(***************************************************************************)
Quiet == UNCHANGED <<rxVars, txVars>>

\* Calls and returns, the poll of the control register, and the host coming
\* and going.
QuietStep ==
  \/ SmallCalls \/ ReadEnd \/ WritePoll \/ WriteEnd \/ HostToggle
  \/ UNCHANGED smallVars

LEMMA QuietStepIInv ==
  ASSUME SmallIInv, QuietStep
  PROVE  SmallIInv' /\ Quiet
<1> USE SmallAssumption
<1>1. SmallTypeOK /\ SpaceSeen
  BY DEF SmallIInv
<1>2. ASSUME NEW routine \in {"read", "write"}, NEW len \in Requests,
             NEW nb \in BOOLEAN, Enter(routine, len, nb)
      PROVE  SmallIInv' /\ Quiet
  <2>1. /\ pc' = routine /\ ret' = ret /\ host' = host
        /\ loc' = [left |-> len, done |-> 0, nonblock |-> nb]
        /\ UNCHANGED <<rxVars, txVars>>
    BY <1>2 DEF Enter
  <2>2. loc' \in [left : Nat, done : Nat, nonblock : BOOLEAN]
    BY <2>1
  <2> QED
    BY <1>1, <2>1, <2>2
       DEF SmallIInv, SmallTypeOK, SpaceSeen, Quiet, rxVars, txVars
<1>3. ASSUME NEW value \in Nat \union {EIO, EWOULDBLOCK}, Return(value),
             UNCHANGED <<rxVars, txVars, host>>
      PROVE  SmallIInv' /\ Quiet
  <2>1. pc' = "idle" /\ ret' = value /\ loc' = NoLocals
    BY <1>3 DEF Return
  <2>2. loc' \in [left : Nat, done : Nat, nonblock : BOOLEAN]
    BY <2>1 DEF NoLocals
  <2> QED
    BY <1>1, <1>3, <2>1, <2>2
       DEF SmallIInv, SmallTypeOK, SpaceSeen, Quiet, rxVars, txVars
<1>4. CASE SmallCalls
  BY <1>2, <1>4 DEF SmallCalls, ReadCall, WriteCall
<1>5. CASE ReadEnd
  <2>1. ReadResult \in Nat \union {EIO, EWOULDBLOCK}
    BY <1>1 DEF ReadResult, SmallTypeOK
  <2> QED
    BY <1>3, <1>5, <2>1 DEF ReadEnd
<1>6. CASE WriteEnd
  <2>1. loc.done \in Nat
    BY <1>1 DEF SmallTypeOK
  <2> QED
    BY <1>3, <1>6, <2>1 DEF WriteEnd
<1>7. CASE WritePoll
  BY <1>1, <1>7 DEF WritePoll, WSpace, SmallIInv, SmallTypeOK, SpaceSeen, Quiet,
                    rxVars, txVars
<1>8. CASE HostToggle
  BY <1>1, <1>8 DEF HostToggle, SmallIInv, SmallTypeOK, SpaceSeen, Quiet,
                    callVars, rxVars, txVars
<1>9. CASE UNCHANGED smallVars
  BY <1>1, <1>9 DEF smallVars, SmallIInv, SmallTypeOK, SpaceSeen, Quiet,
                    callVars, rxVars, txVars
<1> QED
  BY <1>4, <1>5, <1>6, <1>7, <1>8, <1>9 DEF QuietStep

\* Counting one character more keeps the locals' types.
LEMMA CountedLocals ==
  ASSUME NEW l \in [left : Nat, done : Nat, nonblock : BOOLEAN], l.left > 0
  PROVE  [l EXCEPT !.left = l.left - 1, !.done = l.done + 1]
           \in [left : Nat, done : Nat, nonblock : BOOLEAN]
<1> DEFINE i == l.left - 1
           j == l.done + 1
<1>1. i \in Nat /\ j \in Nat
  <2>1. l.left \in Nat /\ l.done \in Nat
    OBVIOUS
  <2> QED
    BY <2>1
<1> HIDE DEF i, j
<1>2. [l EXCEPT !.left = i, !.done = j]
        \in [left : Nat, done : Nat, nonblock : BOOLEAN]
  BY <1>1
<1> QED
  BY <1>2 DEF i, j

LEMMA ReadDataStep ==
  ASSUME SmallIInv, ReadData
  PROVE  SmallIInv' /\ SmallRxStream!Get /\ UNCHANGED txVars
<1>1. SmallTypeOK
  BY DEF SmallIInv
<1>2. /\ pc = "read" /\ pc' = "read" /\ loc.left > 0 /\ rx_fifo # <<>>
      /\ received' = Append(received, Head(rx_fifo))
      /\ rx_fifo' = Tail(rx_fifo)
      /\ loc' = [loc EXCEPT !.left = loc.left - 1, !.done = loc.done + 1]
      /\ UNCHANGED <<ret, sent, txVars, host>>
  BY DEF ReadData, Stored
<1>3. /\ Head(rx_fifo) \in Nat /\ Tail(rx_fifo) \in Seq(Nat)
      /\ Len(Tail(rx_fifo)) = Len(rx_fifo) - 1 /\ Len(rx_fifo) \in Nat
  BY <1>1, <1>2 DEF SmallTypeOK
<1>4. loc' \in [left : Nat, done : Nat, nonblock : BOOLEAN]
  BY <1>1, <1>2, CountedLocals DEF SmallTypeOK
<1>5. received' \in Seq(Nat) /\ rx_fifo' \in Seq(Nat) /\ Len(rx_fifo') <= RxDepth
  BY <1>1, <1>2, <1>3, SmallAssumption DEF SmallTypeOK
<1>6. SmallIInv'
  BY <1>1, <1>2, <1>4, <1>5 DEF SmallIInv, SmallTypeOK, SpaceSeen, txVars
<1>7. SmallRxStream!Get
  BY <1>2 DEF SmallRxStream!Get
<1> QED
  BY <1>2, <1>6, <1>7

LEMMA WritePutStep ==
  ASSUME SmallIInv, WritePut
  PROVE  SmallIInv' /\ SmallTxStream!Put /\ UNCHANGED rxVars
<1> USE SmallAssumption
<1>1. SmallTypeOK
  BY DEF SmallIInv
<1>2. loc.left > 0 /\ Len(tx_fifo) < TxDepth
  BY DEF SmallIInv, SpaceSeen, WritePut
<1>3. /\ pc' = "write" /\ accepted' = accepted + 1
      /\ tx_fifo' = Append(tx_fifo, accepted + 1)
      /\ loc' = [loc EXCEPT !.left = loc.left - 1, !.done = loc.done + 1]
      /\ UNCHANGED <<ret, rxVars, transmitted, host>>
  BY <1>2 DEF WritePut
<1>4. loc' \in [left : Nat, done : Nat, nonblock : BOOLEAN]
  BY <1>1, <1>2, <1>3, CountedLocals DEF SmallTypeOK
<1>5. /\ accepted' \in Nat
      /\ tx_fifo' \in Seq(Nat) /\ Len(tx_fifo') = Len(tx_fifo) + 1
  BY <1>1, <1>3 DEF SmallTypeOK
<1>6. Len(tx_fifo) \in Nat /\ Len(tx_fifo') <= TxDepth
  BY <1>1, <1>2, <1>5 DEF SmallTypeOK
<1>7. SmallIInv'
  BY <1>1, <1>3, <1>4, <1>5, <1>6
     DEF SmallIInv, SmallTypeOK, SpaceSeen, rxVars
<1>8. SmallTxStream!Put
  BY <1>2, <1>3 DEF SmallTxStream!Put
<1> QED
  BY <1>3, <1>7, <1>8

LEMMA HostSendStep ==
  ASSUME SmallIInv, HostSend
  PROVE  SmallIInv' /\ SmallRxStream!Put /\ UNCHANGED txVars
<1>1. SmallTypeOK
  BY DEF SmallIInv
<1>2. /\ Len(rx_fifo) < RxDepth /\ sent' = sent + 1
      /\ rx_fifo' = Append(rx_fifo, sent + 1)
      /\ UNCHANGED <<received, txVars, callVars, host>>
  BY DEF HostSend
<1>3. /\ sent' \in Nat
      /\ rx_fifo' \in Seq(Nat) /\ Len(rx_fifo') = Len(rx_fifo) + 1
      /\ Len(rx_fifo) \in Nat
  BY <1>1, <1>2 DEF SmallTypeOK
<1>4. Len(rx_fifo') <= RxDepth
  BY <1>2, <1>3, SmallAssumption
<1>5. SmallIInv'
  BY <1>1, <1>2, <1>3, <1>4
     DEF SmallIInv, SmallTypeOK, SpaceSeen, txVars, callVars
<1>6. SmallRxStream!Put
  BY <1>2 DEF SmallRxStream!Put
<1> QED
  BY <1>2, <1>5, <1>6

\* The host makes room, so what write saw still holds.
LEMMA HostTakeStep ==
  ASSUME SmallIInv, HostTake
  PROVE  SmallIInv' /\ SmallTxStream!Get /\ UNCHANGED rxVars
<1>1. SmallTypeOK /\ SpaceSeen
  BY DEF SmallIInv
<1>2. /\ tx_fifo # <<>> /\ transmitted' = Append(transmitted, Head(tx_fifo))
      /\ tx_fifo' = Tail(tx_fifo)
      /\ UNCHANGED <<accepted, rxVars, callVars, host>>
  BY DEF HostTake
<1>3. /\ Head(tx_fifo) \in Nat /\ tx_fifo' \in Seq(Nat)
      /\ Len(tx_fifo') = Len(tx_fifo) - 1 /\ Len(tx_fifo) \in Nat
  BY <1>1, <1>2 DEF SmallTypeOK
<1>4. transmitted' \in Seq(Nat) /\ Len(tx_fifo') <= TxDepth
  BY <1>1, <1>2, <1>3, SmallAssumption DEF SmallTypeOK
<1>5. pc = "put" => Len(tx_fifo') < TxDepth
  BY <1>1, <1>3, SmallAssumption DEF SpaceSeen
<1>6. SmallIInv'
  BY <1>1, <1>2, <1>3, <1>4, <1>5
     DEF SmallIInv, SmallTypeOK, SpaceSeen, rxVars, callVars
<1>7. SmallTxStream!Get
  BY <1>2 DEF SmallTxStream!Get
<1> QED
  BY <1>2, <1>6, <1>7

\* Every step is one of these.
LEMMA SmallStepCases ==
  ASSUME [SmallNext]_smallVars
  PROVE  QuietStep \/ ReadData \/ WritePut \/ HostSend \/ HostTake
BY DEF SmallNext, QuietStep, Reading, Writing, Host

LEMMA SmallNextIInv == SmallIInv /\ [SmallNext]_smallVars => SmallIInv'
BY SmallStepCases, QuietStepIInv, ReadDataStep, WritePutStep, HostSendStep,
   HostTakeStep

LEMMA SmallInvariance == SmallSpec => []SmallIInv
BY SmallInitIInv, SmallNextIInv, PTL DEF SmallSpec

-----------------------------------------------------------------------------

\* Type correctness: the FIFOs stay within their depth.
THEOREM SmallTypeCorrect == SmallSpec => []SmallTypeOK
<1>1. SmallIInv => SmallTypeOK
  BY DEF SmallIInv
<1> QED
  BY <1>1, SmallInvariance, PTL

\* A write that saw room in the FIFO still has it when it writes.
THEOREM SpaceStaysSeen == SmallSpec => []SpaceSeen
<1>1. SmallIInv => SpaceSeen
  BY DEF SmallIInv
<1> QED
  BY <1>1, SmallInvariance, PTL

\* A blocking read never returns empty-handed, and a read that returns short
\* left nothing in the device and says how much it took.
THEOREM ReadPromiseKept == SmallSpec => ReadKeepsPromise
<1>1. SmallIInv /\ [SmallNext]_smallVars =>
        [pc = "read" /\ pc' = "idle" =>
           /\ loc.left > 0 => rx_fifo = <<>>
           /\ loc.done > 0 => ret' = loc.done
           /\ ~loc.nonblock /\ loc.left > 0 => ret' > 0]_smallVars
  <2> SUFFICES ASSUME SmallIInv, [SmallNext]_smallVars,
                      pc = "read", pc' = "idle"
               PROVE  /\ loc.left > 0 => rx_fifo = <<>>
                      /\ loc.done > 0 => ret' = loc.done
                      /\ ~loc.nonblock /\ loc.left > 0 => ret' > 0
    OBVIOUS
  <2>1. ReadEnd
    BY DEF SmallNext, SmallCalls, ReadCall, WriteCall, Enter, Reading, ReadData,
           Writing, WritePoll, WritePut, WriteEnd, Host, HostSend, HostTake,
           HostToggle, callVars, smallVars
  <2>2. loc.left \in Nat /\ loc.done \in Nat
    BY DEF SmallIInv, SmallTypeOK
  <2> QED
    BY <2>1, <2>2 DEF ReadEnd, ReadGivesUp, ReadResult, Return
<1> QED
  BY <1>1, SmallInvariance, PTL DEF SmallSpec, ReadKeepsPromise

\* Both directions implement ByteStream: every step is a step or a stutter of
\* a bounded stream that delivers each character once and in order.
THEOREM SmallImplementsStream == SmallSpec => SmallIsStream
<1>1. SmallInit => SmallRxStream!Init /\ SmallTxStream!Init
  BY DEF SmallInit, SmallRxStream!Init, SmallTxStream!Init
<1>2. SmallIInv /\ [SmallNext]_smallVars =>
        /\ [SmallRxStream!Next]_(SmallRxStream!streamVars)
        /\ [SmallTxStream!Next]_(SmallTxStream!streamVars)
  BY SmallStepCases, QuietStepIInv, ReadDataStep, WritePutStep, HostSendStep,
     HostTakeStep
     DEF SmallRxStream!Next, SmallTxStream!Next, SmallRxStream!streamVars,
         SmallTxStream!streamVars, Quiet, rxVars, txVars
<1>3. SmallSpec => SmallRxStream!Spec
  BY <1>1, <1>2, SmallInvariance, PTL DEF SmallSpec, SmallRxStream!Spec
<1>4. SmallSpec => SmallTxStream!Spec
  BY <1>1, <1>2, SmallInvariance, PTL DEF SmallSpec, SmallTxStream!Spec
<1> QED
  BY <1>3, <1>4, PTL DEF SmallIsStream
=============================================================================
