------------------------------- MODULE FdTable -------------------------------
(***************************************************************************)
(* The HAL's file descriptors: alt_fd_list and alt_max_fd under open(),    *)
(* close(), ioctl(), fcntl() and I/O, and the redirection of the three     *)
(* standard descriptors before main().  The BSP is built single threaded,  *)
(* so a call is one action.  A file name is what looking it up finds: a    *)
(* device, a file system or nothing.  What a driver's own open, close or   *)
(* ioctl does is outside; it may fail.                                     *)
(***************************************************************************)
EXTENDS Integers, Sequences

CONSTANTS MaxFd,        \* ALT_MAX_FD
          Devices,      \* the devices in alt_dev_list, Null among them
          FileSystems,  \* the file systems in alt_fs_list
          Null,         \* alt_dev_null
          Missing,      \* a name that no device or file system has
          Fragile,      \* drivers with an open or close that can fail
          OpenFlags,    \* the flags programs pass to open()
          Provides,     \* the calls each driver implements
          StdDevice     \* ALT_STDIN, ALT_STDOUT and ALT_STDERR

Fds == 0 .. (MaxFd - 1)

\* Standard in, standard out and standard error.
Std == 0 .. 2

Bits == {"WRONLY", "NONBLOCK", "DEV", "EXCL"}

Drivers == Devices \cup FileSystems

ASSUME FdAssumption ==
  /\ MaxFd \in Nat /\ MaxFd > 3
  /\ Null \in Devices
  /\ Devices \cap FileSystems = {}
  /\ Missing \notin Devices \cup FileSystems
  /\ Fragile \subseteq (Devices \cup FileSystems) \ {Null}
  /\ OpenFlags \subseteq SUBSET {"WRONLY", "NONBLOCK"}
  /\ Provides \in [Drivers -> SUBSET {"read", "write", "lseek", "fstat"}]
  /\ Provides[Null] = {"write"}
  /\ StdDevice \in [Std -> Devices \cup {Missing}]

\* The dev field of a descriptor that is not allocated (0).
NoDev == Missing

VARIABLES dev,     \* alt_fd_list[].dev
          flags,   \* alt_fd_list[].fd_flags, as a set of bits; O_RDONLY is none
          max_fd,  \* alt_max_fd
          boot,    \* the standard descriptors still to be redirected, in order
          held,    \* the descriptors open() returned and close() did not take back
          reply    \* the last call and whether it succeeded

vars == <<dev, flags, max_fd, boot, held, reply>>

\* Of the calls that may end a lock reply tells which they were.
Answer(ok) == reply' = [call |-> "other", fd |-> -1, ok |-> ok]
Reply(call, fd, ok) == reply' = [call |-> call, fd |-> fd, ok |-> ok]

\* alt_dev.c: before redirection everything goes to /dev/null.
Init == /\ dev = [f \in Fds |-> IF f \in Std THEN Null ELSE NoDev]
        /\ flags = [f \in Fds |-> {}]
        /\ max_fd = -1
        /\ boot = <<1, 0, 2>>
        /\ held = {}
        /\ reply = [call |-> "none", fd |-> -1, ok |-> TRUE]
-----------------------------------------------------------------------------
(* open() *)

Free == {i \in Fds : dev[i] = NoDev}

\* alt_get_fd: the first free descriptor, if the name was found ...
Allotted(d, i) == /\ d # Missing
                  /\ i \in Free
                  /\ \A j \in Free : i <= j

\* ... and the mark it leaves, whether or not the open succeeds in the end.
Raised(i) == IF i > max_fd THEN i ELSE max_fd

\* The new descriptor's flags: alt_file_locked adds ALT_FD_DEV.
NewFlags(d, mode) == IF d \in Devices THEN mode \cup {"DEV"} ELSE mode

\* alt_file_locked: somebody else holds the device for itself.
Locked(d, i) == d \in Devices /\ \E j \in Fds :
  j <= Raised(i) /\ j # i /\ dev[j] = d /\ "EXCL" \in flags[j]

\* alt_release_fd on one field: the standard descriptors are never given back.
Released(field, i, zero) == IF i > 2 THEN [field EXCEPT ![i] = zero] ELSE field

\* The table while open() holds slot i, and after it has let go of it again.
TakenDev(d, i) == [dev EXCEPT ![i] = d]
TakenFlags(d, mode, i) == [flags EXCEPT ![i] = NewFlags(d, mode)]

\* No such name, or no free descriptor: nothing was allocated.
OpenNothing(d) == /\ boot = << >>
                  /\ d = Missing \/ Free = {}
                  /\ Answer(FALSE)
                  /\ UNCHANGED <<dev, flags, max_fd, boot, held>>

\* Mutant: an open that fails keeps the descriptor it was allotted.
OpenRefusedLeak(d, mode) == \E i \in Fds :
  /\ boot = << >>
  /\ Allotted(d, i)
  /\ Locked(d, i) \/ d \in Fragile
  /\ dev' = TakenDev(d, i)
  /\ flags' = TakenFlags(d, mode, i)
  /\ max_fd' = Raised(i)
  /\ Answer(FALSE)
  /\ UNCHANGED <<boot, held>>

\* The device is locked, or its driver's open fails: the slot is given back.
OpenRefused(d, mode) == \E i \in Fds :
  /\ boot = << >>
  /\ Allotted(d, i)
  /\ Locked(d, i) \/ d \in Fragile
  /\ dev' = Released(TakenDev(d, i), i, NoDev)
  /\ flags' = Released(TakenFlags(d, mode, i), i, {})
  /\ max_fd' = Raised(i)
  /\ Answer(FALSE)
  /\ UNCHANGED <<boot, held>>

OpenGranted(d, mode) == \E i \in Fds :
  /\ boot = << >>
  /\ Allotted(d, i)
  /\ ~Locked(d, i)
  /\ dev' = TakenDev(d, i)
  /\ flags' = TakenFlags(d, mode, i)
  /\ max_fd' = Raised(i)
  /\ held' = held \cup {i}
  /\ Answer(TRUE)
  /\ UNCHANGED boot
-----------------------------------------------------------------------------
(* alt_io_redirect(): alt_open_fd for stdout, stdin and stderr in turn *)

StdFlags(f) == IF f = 0 THEN {} ELSE {"WRONLY"}

\* The name is opened, copied to the standard descriptor, and released.
Redirect == \E i \in Fds :
  LET f == Head(boot)
      d == StdDevice[f]
  IN /\ boot # << >>
     /\ Allotted(d, i) /\ ~Locked(d, i)
     /\ dev' = Released([TakenDev(d, i) EXCEPT ![f] = d], i, NoDev)
     /\ flags' = Released([TakenFlags(d, StdFlags(f), i)
                             EXCEPT ![f] = NewFlags(d, StdFlags(f))], i, {})
     /\ max_fd' = Raised(i)
     /\ boot' = Tail(boot)
     /\ UNCHANGED <<held, reply>>

\* "If the device can not be succesfully opened, then the input file descriptor
\* remains unchanged."
RedirectFails ==
  LET d == StdDevice[Head(boot)]
  IN /\ boot # << >>
     /\ d = Missing \/ d \in Fragile
     /\ \/ d = Missing /\ UNCHANGED max_fd
        \/ \E i \in Fds : Allotted(d, i) /\ max_fd' = Raised(i)
     /\ boot' = Tail(boot)
     /\ UNCHANGED <<dev, flags, held, reply>>
-----------------------------------------------------------------------------
(* The calls on a descriptor: one that is held, or a standard one. *)

Usable(f) == boot = << >> /\ f \in held \cup Std

\* close(): the descriptor is released even when the driver's close fails.
Close(f) == /\ Usable(f)
            /\ dev' = Released(dev, f, NoDev)
            /\ flags' = Released(flags, f, {})
            /\ held' = held \ {f}
            /\ \E ok \in BOOLEAN : /\ ok \/ dev[f] \in Fragile
                                   /\ Reply("close", f, ok)
            /\ UNCHANGED <<max_fd, boot>>

\* Mutant: the standard descriptors are not scanned.
OtherUsersOpened(f) == {j \in Fds : 2 < j /\ j < max_fd /\ j # f /\ dev[j] = dev[f]}

\* What alt_fd_lock finds: it stops before alt_max_fd.
OtherUsers(f) == {j \in Fds : j < max_fd /\ j # f /\ dev[j] = dev[f]}

\* ioctl(fd, TIOCEXCL) on a device
Lock(f) == /\ Usable(f)
           /\ "DEV" \in flags[f]
           /\ OtherUsers(f) = {}
           /\ flags' = [flags EXCEPT ![f] = @ \cup {"EXCL"}]
           /\ Answer(TRUE)
           /\ UNCHANGED <<dev, max_fd, boot, held>>

LockRefused(f) == /\ Usable(f)
                  /\ "DEV" \in flags[f]
                  /\ OtherUsers(f) # {}
                  /\ Answer(FALSE)
                  /\ UNCHANGED <<dev, flags, max_fd, boot, held>>

\* ioctl(fd, TIOCNXCL) on a device
Unlock(f) == /\ Usable(f)
             /\ "DEV" \in flags[f]
             /\ flags' = [flags EXCEPT ![f] = @ \ {"EXCL"}]
             /\ Reply("unlock", f, TRUE)
             /\ UNCHANGED <<dev, max_fd, boot, held>>

\* Any other request is the driver's; /dev/null has no ioctl.
Ioctl(f) == /\ Usable(f)
            /\ \E ok \in BOOLEAN : /\ ok => dev[f] # Null
                                   /\ Answer(ok)
            /\ UNCHANGED <<dev, flags, max_fd, boot, held>>

\* Mutant: F_SETFL replaces all the flags.
FcntlAll(f, set) == /\ Usable(f)
                    /\ flags' = [flags EXCEPT ![f] = set]
                    /\ Answer(TRUE)
                    /\ UNCHANGED <<dev, max_fd, boot, held>>

\* fcntl(fd, F_SETFL): of the modelled flags only O_NONBLOCK changes.
Fcntl(f, set) == /\ Usable(f)
                 /\ flags' = [flags EXCEPT ![f] = (@ \ {"NONBLOCK"}) \cup (set \cap {"NONBLOCK"})]
                 /\ Answer(TRUE)
                 /\ UNCHANGED <<dev, max_fd, boot, held>>

\* The direction a descriptor was opened for
Access(f) == IF "WRONLY" \in flags[f] THEN "write" ELSE "read"

\* read() and write() go to the driver if it has the call and the descriptor
\* is open for it, and fail otherwise.
Transfer(f) == /\ Usable(f)
               /\ \E ok \in BOOLEAN : /\ ok => Access(f) \in Provides[dev[f]]
                                      /\ Answer(ok)
               /\ UNCHANGED <<dev, flags, max_fd, boot, held>>

\* lseek() of a driver that has none fails.
Seek(f) == /\ Usable(f)
           /\ \E ok \in BOOLEAN : /\ ok => "lseek" \in Provides[dev[f]]
                                  /\ Answer(ok)
           /\ UNCHANGED <<dev, flags, max_fd, boot, held>>

\* fstat() and isatty() take a driver without an fstat for a terminal.
Stat(f) == /\ Usable(f)
           /\ \E ok \in BOOLEAN : /\ ok \/ "fstat" \in Provides[dev[f]]
                                  /\ Answer(ok)
           /\ UNCHANGED <<dev, flags, max_fd, boot, held>>

\* Every call refuses a negative descriptor.
BadFd == /\ boot = << >>
         /\ Answer(FALSE)
         /\ UNCHANGED <<dev, flags, max_fd, boot, held>>

Next == \/ Redirect \/ RedirectFails
        \/ \E d \in Drivers \cup {Missing}, mode \in OpenFlags :
              OpenNothing(d) \/ OpenRefused(d, mode) \/ OpenGranted(d, mode)
        \/ \E f \in Fds : \/ Close(f)
                          \/ Lock(f) \/ LockRefused(f) \/ Unlock(f) \/ Ioctl(f)
                          \/ Transfer(f) \/ Seek(f) \/ Stat(f)
                          \/ \E set \in OpenFlags : Fcntl(f, set)
        \/ BadFd

Spec == Init /\ [][Next]_vars
-----------------------------------------------------------------------------
(* Properties *)

FdTypeOK == /\ dev \in [Fds -> Drivers \cup {NoDev}]
            /\ flags \in [Fds -> SUBSET Bits]
            /\ max_fd \in -1 .. (MaxFd - 1)
            /\ boot \in {<<1, 0, 2>>, <<0, 2>>, <<2>>, << >>}
            /\ held \subseteq Fds

\* The standard descriptors are always open and everybody else's descriptor is
\* one that open() returned: an open that fails half way, at the lock or in the
\* driver, leaves no slot behind (alt_open.c:161-166), a close always gives its
\* slot back, and open() never hands out a standard descriptor.
NoLeak == /\ {f \in Fds : dev[f] # NoDev} = Std \cup held
          /\ held \cap Std = {}

\* A device is never locked for exclusive use through two descriptors.
OneHolder == \A f, g \in Fds :
  "EXCL" \in flags[f] /\ "EXCL" \in flags[g] /\ dev[f] = dev[g] => f = g

\* "Further calls to open() for this device will fail until the lock is
\* released" (alt_fd_lock.c:44): while a descriptor holds the lock of its device
\* no other descriptor comes to refer to that device ...
LockedStep == \A f, g \in Fds :
  "EXCL" \in flags[f] /\ "EXCL" \in flags'[f] /\ f # g /\ dev'[g] = dev[f]
     => dev[g] = dev[f]

\* ... and the lock goes away only through the descriptor that has it, by
\* close() or TIOCNXCL: "All other flags remain unchanged" (alt_fcntl.c:60).
UnlockStep == \A f \in Fds :
  "EXCL" \in flags[f] /\ "EXCL" \notin flags'[f]
     => reply'.fd = f /\ reply'.call \in {"close", "unlock"}

LockHeld == [][LockedStep /\ UnlockStep]_vars
=============================================================================
