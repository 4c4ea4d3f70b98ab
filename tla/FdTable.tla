------------------------------ MODULE FdTable ------------------------------
(***************************************************************************)
(* The HAL's file descriptors, as test0_bsp builds them: one thread, so a  *)
(* call of open, close, ioctl or fcntl is one step.  No filesystem is      *)
(* registered and no driver has an open callback.  At start-up the three   *)
(* standard descriptors refer to /dev/null; alt_main redirects them to the *)
(* devices of system.h before it calls main.                               *)
(*                                                                         *)
(* Callers pass descriptors that open returned and that are still open, or *)
(* a negative one (the result of an open that failed).                     *)
(***************************************************************************)
EXTENDS Errno, Sequences

CONSTANTS
  MaxFd,      \* ALT_MAX_FD
  Devices,    \* the registered devices
  Null,       \* alt_dev_null, one of them
  Draining,   \* the devices whose driver has a close that may fail
  Absent,     \* a name no device has
  NoDev,      \* the dev pointer of a free descriptor
  Stdio       \* the names system.h gives stdin, stdout and stderr, by number

ASSUME FdAssumption ==
  /\ MaxFd \in Nat /\ MaxFd > 2
  /\ Null \in Devices /\ Draining \subseteq Devices
  /\ NoDev \notin Devices /\ Absent \notin Devices
  /\ Stdio \in [0 .. 2 -> Devices \union {Absent}]

VARIABLES
  alt_fd_list,  \* the descriptors: what each refers to and its fd_flags
  alt_max_fd,
  redirect,     \* the standard stream alt_main redirects next
  fd_ret        \* what the last call returned, or its errno, negated

fdVars == <<alt_fd_list, alt_max_fd, redirect, fd_ret>>

Fd == 0 .. MaxFd - 1

\* What a call may fail with.
Errors == {ENODEV, EMFILE, EACCES, ENOTTY, EWOULDBLOCK, EBADFD}

\* The bits of fd_flags the code looks at.
Private == {"EXCL", "DEV"}          \* ALT_FD_FLAGS_MASK
Settable == {"NONBLOCK"}            \* ALT_FCNTL_FLAGS_MASK
Flag == Private \union Settable

FdEntry(d, bits) == [dev |-> d, fd_flags |-> bits]
Unused == FdEntry(NoDev, {})

Redirects == <<1, 0, 2>>            \* stdout, stdin, stderr
Main == redirect > Len(Redirects)   \* main has been called

FdInit ==
  /\ alt_fd_list = [f \in Fd |-> IF f <= 2 THEN FdEntry(Null, {}) ELSE Unused]
  /\ alt_max_fd = -1
  /\ redirect = 1
  /\ fd_ret = 0

-----------------------------------------------------------------------------
(***************************************************************************)
(* open.  alt_get_fd takes the first free descriptor and moves the high    *)
(* water mark, also when the device then turns out to be locked.           *)
(***************************************************************************)
Dev(f) == alt_fd_list[f].dev
Flags(f) == alt_fd_list[f].fd_flags
Allocated(f) == Dev(f) # NoDev

FreeFds == {f \in Fd : ~Allocated(f)}
FirstFree == CHOOSE f \in FreeFds : \A g \in FreeFds : f <= g

HighWaterAfter(f) == IF f > alt_max_fd THEN f ELSE alt_max_fd

\* alt_file_locked, for the descriptor self that has just been taken
FileLocked(d, self) ==
  \E i \in 0 .. HighWaterAfter(self) :
    i # self /\ Dev(i) = d /\ "EXCL" \in Flags(i)

OpenFlags(arg) == (arg \ Private) \union {"DEV"}

Opened(list, f, name, arg) == [list EXCEPT ![f] = FdEntry(name, OpenFlags(arg))]

\* alt_release_fd
Released(list, f) == IF f > 2 THEN [list EXCEPT ![f] = Unused] ELSE list

\* Mutant: the descriptor is kept.
GivenBackNever(list, f) == list

\* open gives the descriptor back when it fails after taking it.
GivenBack(list, f) == Released(list, f)

\* open cannot find the device, or a descriptor for it.
OpenNothing(name) ==
  /\ \/ name \notin Devices /\ fd_ret' = ENODEV
     \/ name \in Devices /\ FreeFds = {} /\ fd_ret' = EMFILE
  /\ UNCHANGED <<alt_fd_list, alt_max_fd>>

OpenDevice(name, arg) ==
  /\ name \in Devices /\ FreeFds # {}
  /\ LET fd == FirstFree
         list == Opened(alt_fd_list, fd, name, arg)
     IN  /\ alt_max_fd' = HighWaterAfter(fd)
         /\ \/ /\ FileLocked(name, fd)
               /\ alt_fd_list' = GivenBack(list, fd)
               /\ fd_ret' = EACCES
            \/ /\ ~FileLocked(name, fd)
               /\ alt_fd_list' = list
               /\ fd_ret' = fd

Open(name, arg) ==
  /\ Main
  /\ OpenNothing(name) \/ OpenDevice(name, arg)
  /\ UNCHANGED redirect

\* alt_open_fd, for the standard streams in alt_io_redirect's order: open the
\* device, copy the descriptor and release it.  Nothing is locked yet.
Redirect ==
  /\ ~Main
  /\ LET std == Redirects[redirect]
         name == Stdio[std]
         list == Opened(alt_fd_list, FirstFree, name, {})
     IN  IF name \in Devices /\ FreeFds # {}
         THEN /\ alt_max_fd' = HighWaterAfter(FirstFree)
              /\ alt_fd_list' = Released([list EXCEPT ![std] = list[FirstFree]],
                                         FirstFree)
         ELSE UNCHANGED <<alt_fd_list, alt_max_fd>>
  /\ redirect' = redirect + 1
  /\ UNCHANGED fd_ret

-----------------------------------------------------------------------------
(***************************************************************************)
(* The calls on an open descriptor.                                        *)
(***************************************************************************)
OnOpen(f) == Main /\ Allocated(f) /\ UNCHANGED <<alt_max_fd, redirect>>

\* The driver's close may report data it could not drain; the descriptor is
\* released all the same.
Close(f) ==
  /\ OnOpen(f)
  /\ \/ fd_ret' = 0
     \/ Dev(f) \in Draining /\ "NONBLOCK" \in Flags(f) /\ fd_ret' = EWOULDBLOCK
  /\ alt_fd_list' = Released(alt_fd_list, f)

SetFlags(f, bits) == alt_fd_list' = [alt_fd_list EXCEPT ![f].fd_flags = bits]

\* Mutant: the search leaves out two descriptors.
ContendedShort(f) ==
  \E i \in 0 .. alt_max_fd - 2 : i # f /\ Dev(i) = Dev(f)

\* The search alt_fd_lock makes stops below the high water mark.
Contended(f) == \E i \in 0 .. alt_max_fd - 1 : i # f /\ Dev(i) = Dev(f)

\* ioctl, TIOCEXCL.  /dev/null has no ioctl for a descriptor that is not
\* marked as a device's.
Exclude(f) ==
  /\ OnOpen(f)
  /\ \/ "DEV" \notin Flags(f) /\ fd_ret' = ENOTTY /\ UNCHANGED alt_fd_list
     \/ /\ "DEV" \in Flags(f) /\ Contended(f)
        /\ fd_ret' = EACCES /\ UNCHANGED alt_fd_list
     \/ /\ "DEV" \in Flags(f) /\ ~Contended(f)
        /\ fd_ret' = 0 /\ SetFlags(f, Flags(f) \union {"EXCL"})

\* ioctl, TIOCNXCL
Share(f) ==
  /\ OnOpen(f)
  /\ \/ "DEV" \notin Flags(f) /\ fd_ret' = ENOTTY /\ UNCHANGED alt_fd_list
     \/ "DEV" \in Flags(f) /\ fd_ret' = 0 /\ SetFlags(f, Flags(f) \ {"EXCL"})

FcntlFlags(old, arg) == (old \ Settable) \union (arg \intersect Settable)

\* fcntl, F_SETFL
Fcntl(f, arg) ==
  /\ OnOpen(f)
  /\ fd_ret' = 0 /\ SetFlags(f, FcntlFlags(Flags(f), arg))

\* Any of these calls with a negative descriptor.
BadFd ==
  /\ Main
  /\ fd_ret' = EBADFD
  /\ UNCHANGED <<alt_fd_list, alt_max_fd, redirect>>

FdCalls ==
  \/ \E name \in Devices \union {Absent}, arg \in SUBSET Flag : Open(name, arg)
  \/ \E f \in Fd : Close(f) \/ Exclude(f) \/ Share(f)
  \/ \E f \in Fd, arg \in SUBSET Flag : Fcntl(f, arg)
  \/ BadFd

FdNext == Redirect \/ FdCalls

FdSpec == FdInit /\ [][FdNext]_fdVars

-----------------------------------------------------------------------------
(***************************************************************************)
(* Properties                                                              *)
(***************************************************************************)

\* Every variable has its type.
FdTypeOK ==
  /\ alt_fd_list \in [Fd -> [dev : Devices \union {NoDev},
                             fd_flags : SUBSET Flag]]
  /\ alt_max_fd \in -1 .. MaxFd - 1
  /\ redirect \in 1 .. Len(Redirects) + 1
  /\ fd_ret \in Fd \union Errors

Holds(f) == Allocated(f) /\ "EXCL" \in Flags(f)
Sharing(f, g) == f # g /\ Dev(f) = Dev(g)

\* The standard descriptors always refer to a device: close does not free
\* them, and printf never meets an empty one.
StdReserved == \A f \in 0 .. 2 : Allocated(f)

\* No search that stops at the high water mark misses an allocated descriptor.
HighWater == \A f \in Fd : Allocated(f) /\ f > 2 => f <= alt_max_fd

\* At most one descriptor of a device holds it for exclusive access, whatever
\* the order of opens, locks, unlocks and closes, although the search made
\* before a lock is granted leaves one descriptor out.
LockHolderUnique ==
  \A f, g \in Fd : Holds(f) /\ Holds(g) => ~Sharing(f, g)

\* open never returns a descriptor of a device that another one holds.
OpenRespectsLock ==
  [][\A f, g \in Fd :
       ~Allocated(f) /\ Allocated(f)' /\ Holds(g) => Dev(f)' # Dev(g)]_fdVars

\* Exclusive access comes from TIOCEXCL alone: neither the flags argument of
\* open nor that of fcntl can forge the lock, and a descriptor that is reused
\* does not inherit it.
LockNotForged ==
  [][\A f \in Fd :
       ~Holds(f) /\ Holds(f)' => /\ "DEV" \in Flags(f) /\ Dev(f)' = Dev(f)
                                 /\ \A g \in Fd : g < f => ~Sharing(f, g)]_fdVars

\* An open that fails leaves every descriptor as it was: none is leaked, and
\* none of the others is touched.
FailedOpenLeavesList ==
  [][fd_ret' \in {ENODEV, EMFILE, EACCES} => UNCHANGED alt_fd_list]_fdVars

\* What a caller may rely on, whatever it passes: open respects locks and gives
\* back what it took, and a lock is had by asking for it only.
OpenKeepsPromise ==
  OpenRespectsLock /\ LockNotForged /\ FailedOpenLeavesList

\* What alt_fd_lock promises: the lock is granted if no other open file
\* descriptor references the same device.
LockNeedsSoleDescriptor ==
  [][\A f \in Fd :
       ~Holds(f) /\ Holds(f)' => \A g \in Fd : ~Sharing(f, g)]_fdVars
=============================================================================
