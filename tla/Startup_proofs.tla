--------------------------- MODULE Startup_proofs ---------------------------
(***************************************************************************)
(* Proofs about FdTable and Startup.  The calls of the descriptor table    *)
(* leak no descriptor and grant no device twice, for every size of the     *)
(* table, every set of devices, file systems and standard devices.  The    *)
(* start-up's steps are steps of the table, because every standard         *)
(* device's driver has registered by the time it is opened; and the        *)
(* handler is in memory when interrupts are turned on, whatever the caches *)
(* did meanwhile.                                                          *)
(***************************************************************************)
EXTENDS Startup, TLAPS

\* Every descriptor that open() returned is within reach of the scans, and no
\* device is open before the first of them has been.
WithinMark == /\ \A f \in Fds : f \notin Std /\ dev[f] # NoDev => f <= max_fd
              /\ \A f \in Fds : "DEV" \in flags[f] => max_fd > 2

\* Only a device's descriptor carries the device's flags.
DeviceFlags == \A f \in Fds : /\ "EXCL" \in flags[f] => "DEV" \in flags[f]
                              /\ "DEV" \in flags[f] => dev[f] \in Devices

\* Where alt_fd_lock overlooks a user of the device, that user is above.
LockedBelow == \A f, g \in Fds :
  "EXCL" \in flags[f] /\ f # g /\ dev[g] = dev[f] => f < g

\* Nothing is locked or opened before the standard descriptors are redirected.
Booting == boot # << >> => held = {} /\ \A f \in Fds : "EXCL" \notin flags[f]

FdInv == FdTypeOK /\ NoLeak /\ WithinMark /\ DeviceFlags /\ LockedBelow /\ Booting

LEMMA Constants == /\ Std \subseteq Fds
                   /\ Null \in Devices /\ Null # NoDev
                   /\ NoDev \notin Drivers
                   /\ \A f \in Fds : f \in Int /\ (f \notin Std <=> f > 2)
BY FdAssumption DEF Std, Fds, NoDev, Drivers

LEMMA FdInit == Init => FdInv
<1> SUFFICES ASSUME Init PROVE FdInv
  OBVIOUS
<1> USE Constants
<1>1. FdTypeOK
  BY FdAssumption DEF Init, FdTypeOK, Drivers, NoDev
<1>2. NoLeak
  BY DEF Init, NoLeak
<1>3. WithinMark /\ DeviceFlags /\ LockedBelow /\ Booting
  BY DEF Init, WithinMark, DeviceFlags, LockedBelow, Booting
<1> QED
  BY <1>1, <1>2, <1>3 DEF FdInv

\* A slot that alt_get_fd finds is above the standard descriptors and carries
\* no flags that matter; the mark it leaves covers it.
LEMMA SlotFacts ==
  ASSUME FdInv, NEW d, NEW i \in Fds, Allotted(d, i)
  PROVE  /\ i > 2 /\ i \notin Std /\ i \notin held /\ dev[i] = NoDev
         /\ "EXCL" \notin flags[i] /\ "DEV" \notin flags[i]
         /\ Raised(i) \in 3 .. (MaxFd - 1)
         /\ Raised(i) >= i /\ Raised(i) >= max_fd
<1>1. dev[i] = NoDev /\ i \notin Std /\ i \notin held
  BY DEF Allotted, Free, FdInv, NoLeak
<1>2. "EXCL" \notin flags[i] /\ "DEV" \notin flags[i]
  BY <1>1, Constants DEF FdInv, DeviceFlags, Drivers
<1>3. i > 2
  BY <1>1, Constants
<1>4. Raised(i) \in 3 .. (MaxFd - 1) /\ Raised(i) >= i /\ Raised(i) >= max_fd
  BY <1>3, FdAssumption DEF Raised, FdInv, FdTypeOK, Fds
<1> QED
  BY <1>1, <1>2, <1>3, <1>4

\* An open that is refused leaves the table as it was.
LEMMA RefusedStep ==
  ASSUME FdInv, NEW d \in Drivers \cup {Missing}, NEW mode \in OpenFlags,
         OpenRefused(d, mode)
  PROVE  FdInv'
<1> PICK i \in Fds : /\ boot = << >>
                     /\ Allotted(d, i)
                     /\ dev' = Released(TakenDev(d, i), i, NoDev)
                     /\ flags' = Released(TakenFlags(d, mode, i), i, {})
                     /\ max_fd' = Raised(i)
                     /\ UNCHANGED <<boot, held>>
  BY DEF OpenRefused
<1>1. /\ i > 2 /\ i \notin Std /\ i \notin held /\ dev[i] = NoDev
      /\ Raised(i) \in 3 .. (MaxFd - 1) /\ Raised(i) >= i /\ Raised(i) >= max_fd
  BY SlotFacts
<1>2. dev' = dev
  BY <1>1 DEF Released, TakenDev, FdInv, FdTypeOK
<1>3. flags' = [flags EXCEPT ![i] = {}]
  BY <1>1 DEF Released, TakenFlags, FdInv, FdTypeOK
<1>4. FdTypeOK'
  BY <1>1, <1>2, <1>3 DEF FdInv, FdTypeOK
<1>5. NoLeak'
  BY <1>2 DEF FdInv, NoLeak
<1>6. WithinMark'
  BY <1>1, <1>2, <1>3, Constants DEF FdInv, FdTypeOK, WithinMark
<1>7. DeviceFlags' /\ LockedBelow' /\ Booting'
  BY <1>2, <1>3 DEF FdInv, FdTypeOK, DeviceFlags, LockedBelow, Booting
<1> QED
  BY <1>4, <1>5, <1>6, <1>7 DEF FdInv

\* No other descriptor holds the lock of a device that alt_file_locked passes.
LEMMA NotLocked ==
  ASSUME FdInv, NEW d \in Drivers, NEW i \in Fds, Allotted(d, i), ~Locked(d, i),
         NEW f \in Fds, "EXCL" \in flags[f]
  PROVE  dev[f] # d
<1> SUFFICES ASSUME dev[f] = d PROVE FALSE
  OBVIOUS
<1>1. d \in Devices /\ max_fd > 2
  BY DEF FdInv, DeviceFlags, WithinMark
<1>2. f <= max_fd
  BY <1>1, Constants DEF FdInv, WithinMark, Std, Drivers, FdTypeOK
<1>3. f <= Raised(i) /\ f # i
  BY <1>2, SlotFacts, Constants DEF FdInv, FdTypeOK, Fds
<1> QED
  BY <1>1, <1>3 DEF Locked

LEMMA GrantedStep ==
  ASSUME FdInv, NEW d \in Drivers \cup {Missing}, NEW mode \in OpenFlags,
         OpenGranted(d, mode)
  PROVE  FdInv'
<1> PICK i \in Fds : /\ boot = << >>
                     /\ Allotted(d, i) /\ ~Locked(d, i)
                     /\ dev' = TakenDev(d, i)
                     /\ flags' = TakenFlags(d, mode, i)
                     /\ max_fd' = Raised(i)
                     /\ held' = held \cup {i}
                     /\ UNCHANGED boot
  BY DEF OpenGranted
<1>1. /\ i > 2 /\ i \notin Std /\ i \notin held /\ dev[i] = NoDev
      /\ Raised(i) \in 3 .. (MaxFd - 1) /\ Raised(i) >= i /\ Raised(i) >= max_fd
  BY SlotFacts
<1>2. d \in Drivers /\ d # NoDev
  BY Constants DEF Allotted, NoDev
<1>3. /\ NewFlags(d, mode) \in SUBSET Bits
      /\ "EXCL" \notin NewFlags(d, mode)
      /\ "DEV" \in NewFlags(d, mode) => d \in Devices
  BY FdAssumption DEF NewFlags, Bits
<1>4. FdTypeOK'
  BY <1>1, <1>2, <1>3 DEF FdInv, FdTypeOK, TakenDev, TakenFlags
<1>5. NoLeak'
  BY <1>1, <1>2 DEF FdInv, FdTypeOK, NoLeak, TakenDev
<1>6. WithinMark'
  BY <1>1, Constants DEF FdInv, FdTypeOK, WithinMark, TakenDev, TakenFlags
<1>7. DeviceFlags'
  BY <1>3 DEF FdInv, FdTypeOK, DeviceFlags, TakenDev, TakenFlags
<1>8. LockedBelow'
  <2>1. \A f \in Fds : "EXCL" \in flags'[f] => f # i /\ "EXCL" \in flags[f] /\ dev[f] # d
    BY <1>2, <1>3, NotLocked DEF FdInv, FdTypeOK, TakenFlags
  <2>2. \A f \in Fds : f # i => dev'[f] = dev[f]
    BY DEF FdInv, FdTypeOK, TakenDev
  <2>3. dev'[i] = d
    BY DEF FdInv, FdTypeOK, TakenDev
  <2> QED
    BY <2>1, <2>2, <2>3 DEF FdInv, LockedBelow
<1>9. Booting'
  BY DEF Booting
<1> QED
  BY <1>4, <1>5, <1>6, <1>7, <1>8, <1>9 DEF FdInv

LEMMA RedirectStep == FdInv /\ Redirect => FdInv'
<1> SUFFICES ASSUME FdInv, Redirect PROVE FdInv'
  OBVIOUS
<1> DEFINE s == Head(boot)
           d == StdDevice[s]
<1>1. boot # << >> /\ s \in Std /\ boot' = Tail(boot)
  BY DEF Redirect, FdInv, FdTypeOK, Std
<1>2. PICK i \in Fds :
         /\ Allotted(d, i)
         /\ dev' = Released([TakenDev(d, i) EXCEPT ![s] = d], i, NoDev)
         /\ flags' = Released([TakenFlags(d, StdFlags(s), i)
                                 EXCEPT ![s] = NewFlags(d, StdFlags(s))], i, {})
         /\ max_fd' = Raised(i)
         /\ UNCHANGED held
  BY DEF Redirect
<1>3. /\ i > 2 /\ i \notin Std /\ i \notin held /\ dev[i] = NoDev /\ i # s
      /\ Raised(i) \in 3 .. (MaxFd - 1) /\ Raised(i) >= i /\ Raised(i) >= max_fd
  BY <1>1, <1>2, SlotFacts
<1>4. d \in Devices /\ d # NoDev
  BY <1>1, <1>2, FdAssumption DEF Allotted, NoDev
<1>5. /\ NewFlags(d, StdFlags(s)) \in SUBSET Bits
      /\ "EXCL" \notin NewFlags(d, StdFlags(s))
  BY DEF NewFlags, StdFlags, Bits
<1> HIDE DEF d, s
<1>6. s \in Fds
  BY <1>1, Constants
<1>7. dev' = [dev EXCEPT ![s] = d]
  BY <1>2, <1>3, <1>6 DEF Released, TakenDev, FdInv, FdTypeOK
<1>8. flags' = [flags EXCEPT ![i] = {}, ![s] = NewFlags(d, StdFlags(s))]
  BY <1>2, <1>3, <1>6 DEF Released, TakenFlags, FdInv, FdTypeOK
<1>9. boot' \in {<<0, 2>>, <<2>>, << >>}
  <2>1. Tail(<<1, 0, 2>>) = <<0, 2>> /\ Tail(<<0, 2>>) = <<2>> /\ Tail(<<2>>) = << >>
    OBVIOUS
  <2> QED
    BY <1>1, <2>1 DEF FdInv, FdTypeOK
<1>10. FdTypeOK'
  <2>1. dev' \in [Fds -> Drivers \cup {NoDev}]
    BY <1>4, <1>6, <1>7 DEF FdInv, FdTypeOK, Drivers
  <2>2. flags' \in [Fds -> SUBSET Bits]
    BY <1>5, <1>6, <1>8 DEF FdInv, FdTypeOK
  <2>3. max_fd' \in -1 .. (MaxFd - 1)
    BY <1>2, <1>3, FdAssumption
  <2> QED
    BY <1>2, <1>9, <2>1, <2>2, <2>3 DEF FdInv, FdTypeOK
<1>11. NoLeak'
  BY <1>1, <1>2, <1>4, <1>6, <1>7 DEF FdInv, FdTypeOK, NoLeak
<1>12. WithinMark'
  <2>1. max_fd' > 2 /\ max_fd' >= max_fd
    BY <1>2, <1>3
  <2>2. \A f \in Fds : f \notin Std => dev'[f] = dev[f]
    BY <1>1, <1>6, <1>7 DEF FdInv, FdTypeOK
  <2>3. max_fd \in Int /\ max_fd' \in Int
    BY <1>2, <1>3 DEF FdInv, FdTypeOK
  <2> QED
    BY <2>1, <2>2, <2>3, Constants DEF FdInv, WithinMark
<1>13. held = {} /\ \A f \in Fds : "EXCL" \notin flags'[f]
  BY <1>1, <1>3, <1>5, <1>6, <1>8 DEF FdInv, FdTypeOK, Booting
<1>14. DeviceFlags'
  BY <1>3, <1>4, <1>6, <1>7, <1>8, <1>13 DEF FdInv, FdTypeOK, DeviceFlags
<1>15. LockedBelow' /\ Booting'
  BY <1>2, <1>13 DEF LockedBelow, Booting
<1> QED
  BY <1>10, <1>11, <1>12, <1>14, <1>15 DEF FdInv

LEMMA RedirectFailsStep == FdInv /\ RedirectFails => FdInv'
<1> SUFFICES ASSUME FdInv, RedirectFails PROVE FdInv'
  OBVIOUS
<1>1. boot' \in {<<0, 2>>, <<2>>, << >>}
  <2>1. Tail(<<1, 0, 2>>) = <<0, 2>> /\ Tail(<<0, 2>>) = <<2>> /\ Tail(<<2>>) = << >>
    OBVIOUS
  <2> QED
    BY <2>1 DEF RedirectFails, FdInv, FdTypeOK
<1>2. max_fd' \in -1 .. (MaxFd - 1) /\ max_fd' >= max_fd
  BY SlotFacts DEF RedirectFails, FdInv, FdTypeOK
<1>3. boot # << >> /\ UNCHANGED <<dev, flags, held>>
  BY DEF RedirectFails
<1>4. FdTypeOK' /\ NoLeak'
  BY <1>1, <1>2, <1>3 DEF FdInv, FdTypeOK, NoLeak
<1>5. WithinMark'
  BY <1>2, <1>3, Constants DEF FdInv, FdTypeOK, WithinMark
<1>6. DeviceFlags' /\ LockedBelow' /\ Booting'
  BY <1>3 DEF FdInv, DeviceFlags, LockedBelow, Booting
<1> QED
  BY <1>4, <1>5, <1>6 DEF FdInv

LEMMA CloseStep ==
  ASSUME FdInv, NEW f \in Fds, Close(f)
  PROVE  FdInv'
<1>1. /\ boot = << >> /\ f \in held \cup Std
      /\ dev' = Released(dev, f, NoDev) /\ flags' = Released(flags, f, {})
      /\ held' = held \ {f} /\ UNCHANGED <<max_fd, boot>>
  BY DEF Close, Usable
<1>2. CASE f > 2
  <2>1. dev' = [dev EXCEPT ![f] = NoDev] /\ flags' = [flags EXCEPT ![f] = {}]
    BY <1>1, <1>2 DEF Released
  <2>2. f \notin Std
    BY <1>2, Constants
  <2>3. FdTypeOK'
    BY <1>1, <2>1 DEF FdInv, FdTypeOK
  <2>4. NoLeak'
    BY <1>1, <2>1, <2>2 DEF FdInv, FdTypeOK, NoLeak
  <2>5. WithinMark' /\ DeviceFlags' /\ Booting'
    BY <1>1, <2>1 DEF FdInv, FdTypeOK, WithinMark, DeviceFlags, Booting
  <2>6. LockedBelow'
    <3>1. \A g \in Fds : "EXCL" \in flags'[g] =>
             g # f /\ "EXCL" \in flags[g] /\ dev'[g] = dev[g] /\ dev[g] # NoDev
      BY <2>1, Constants DEF FdInv, FdTypeOK, DeviceFlags, Drivers
    <3> QED
      BY <2>1, <3>1 DEF FdInv, FdTypeOK, LockedBelow
  <2> QED
    BY <2>3, <2>4, <2>5, <2>6 DEF FdInv
<1>3. CASE ~(f > 2)
  <2>1. UNCHANGED <<dev, flags, max_fd, boot>> /\ f \in Std
    BY <1>1, <1>3, Constants DEF Released
  <2>2. held' = held
    BY <1>1, <2>1 DEF FdInv, NoLeak
  <2> QED
    BY <2>1, <2>2 DEF FdInv, FdTypeOK, NoLeak, WithinMark, DeviceFlags, LockedBelow, Booting
<1> QED
  BY <1>2, <1>3

\* The lock is granted only if nobody below the mark uses the device; whoever
\* is at the mark is above the new holder.
LEMMA LockStep ==
  ASSUME FdInv, NEW f \in Fds, Lock(f)
  PROVE  FdInv'
<1>1. /\ boot = << >> /\ f \in held \cup Std /\ "DEV" \in flags[f]
      /\ OtherUsers(f) = {}
      /\ flags' = [flags EXCEPT ![f] = @ \cup {"EXCL"}]
      /\ UNCHANGED <<dev, max_fd, boot, held>>
  BY DEF Lock, Usable
<1>2. FdTypeOK' /\ NoLeak'
  BY <1>1 DEF FdInv, FdTypeOK, NoLeak, Bits
<1>3. WithinMark' /\ DeviceFlags' /\ Booting'
  BY <1>1 DEF FdInv, FdTypeOK, WithinMark, DeviceFlags, Booting
<1>4. LockedBelow'
  <2>1. f <= max_fd /\ max_fd \in Int
    BY <1>1, Constants DEF FdInv, FdTypeOK, WithinMark, DeviceFlags, Drivers, Std
  <2>2. ASSUME NEW g \in Fds, g # f, dev[g] = dev[f] PROVE f < g
    <3>1. ~(g < max_fd)
      BY <1>1, <2>2 DEF OtherUsers
    <3> QED
      BY <2>1, <2>2, <3>1, Constants
  <2>3. \A g \in Fds : g # f => flags'[g] = flags[g]
    BY <1>1 DEF FdInv, FdTypeOK
  <2> QED
    BY <1>1, <2>2, <2>3 DEF FdInv, LockedBelow
<1> QED
  BY <1>2, <1>3, <1>4 DEF FdInv

LEMMA UnlockPreserves ==
  ASSUME FdInv, NEW f \in Fds, Unlock(f)
  PROVE  FdInv'
<1>1. flags' = [flags EXCEPT ![f] = @ \ {"EXCL"}] /\ UNCHANGED <<dev, max_fd, boot, held>>
  BY DEF Unlock
<1>2. FdTypeOK' /\ NoLeak'
  BY <1>1 DEF FdInv, FdTypeOK, NoLeak
<1>3. WithinMark' /\ DeviceFlags' /\ LockedBelow' /\ Booting'
  BY <1>1 DEF FdInv, FdTypeOK, WithinMark, DeviceFlags, LockedBelow, Booting
<1> QED
  BY <1>2, <1>3 DEF FdInv

LEMMA FcntlStep ==
  ASSUME FdInv, NEW f \in Fds, NEW set \in OpenFlags, Fcntl(f, set)
  PROVE  FdInv'
<1>1. /\ flags' = [flags EXCEPT ![f] = (@ \ {"NONBLOCK"}) \cup (set \cap {"NONBLOCK"})]
      /\ UNCHANGED <<dev, max_fd, boot, held>>
  BY DEF Fcntl
<1>2. FdTypeOK' /\ NoLeak'
  BY <1>1 DEF FdInv, FdTypeOK, NoLeak, Bits
<1>3. \A g \in Fds : /\ "EXCL" \in flags'[g] <=> "EXCL" \in flags[g]
                     /\ "DEV" \in flags'[g] <=> "DEV" \in flags[g]
  BY <1>1 DEF FdInv, FdTypeOK
<1>4. WithinMark' /\ DeviceFlags' /\ LockedBelow' /\ Booting'
  BY <1>1, <1>3 DEF FdInv, WithinMark, DeviceFlags, LockedBelow, Booting
<1> QED
  BY <1>2, <1>4 DEF FdInv

LEMMA FdStep == FdInv /\ [Next]_vars => FdInv'
<1> SUFFICES ASSUME FdInv, [Next]_vars PROVE FdInv'
  OBVIOUS
<1>1. ASSUME UNCHANGED <<dev, flags, max_fd, boot, held>> PROVE FdInv'
  BY <1>1 DEF FdInv, FdTypeOK, NoLeak, WithinMark, DeviceFlags, LockedBelow, Booting
<1>2. ASSUME NEW d \in Drivers \cup {Missing}, NEW mode \in OpenFlags,
             OpenNothing(d) \/ OpenRefused(d, mode) \/ OpenGranted(d, mode)
      PROVE  FdInv'
  BY <1>1, <1>2, RefusedStep, GrantedStep DEF OpenNothing
<1>3. ASSUME NEW f \in Fds, \/ Close(f) \/ Lock(f) \/ LockRefused(f) \/ Unlock(f)
                               \/ Ioctl(f) \/ Transfer(f) \/ Seek(f) \/ Stat(f)
      PROVE  FdInv'
  BY <1>1, <1>3, CloseStep, LockStep, UnlockPreserves
  DEF LockRefused, Ioctl, Transfer, Seek, Stat
<1>4. ASSUME NEW f \in Fds, NEW set \in OpenFlags, Fcntl(f, set) PROVE FdInv'
  BY <1>4, FcntlStep
<1>5. CASE Redirect \/ RedirectFails
  BY <1>5, RedirectStep, RedirectFailsStep
<1>6. CASE BadFd \/ UNCHANGED vars
  BY <1>1, <1>6 DEF BadFd, vars
<1> QED
  BY <1>2, <1>3, <1>4, <1>5, <1>6 DEF Next

\* The invariant of the table, for every number of descriptors.
THEOREM FdTyped == Spec => []FdTypeOK
<1>1. FdInv => FdTypeOK
  BY DEF FdInv
<1> QED
  BY <1>1, FdInit, FdStep, PTL DEF Spec

\* No call leaks a descriptor or hands out one that is in use, however opens
\* and closes fail (alt_open.c, alt_close.c).
THEOREM FdNoLeak == Spec => []NoLeak
<1>1. FdInv => NoLeak
  BY DEF FdInv
<1> QED
  BY <1>1, FdInit, FdStep, PTL DEF Spec

\* Although alt_fd_lock overlooks a descriptor, it never grants the lock of a
\* device twice.
THEOREM FdOneHolder == Spec => []OneHolder
<1>1. FdInv => OneHolder
  <2> SUFFICES ASSUME FdInv, NEW f \in Fds, NEW g \in Fds,
                      "EXCL" \in flags[f], "EXCL" \in flags[g], dev[f] = dev[g], f # g
               PROVE  FALSE
    BY DEF OneHolder
  <2>1. f < g /\ g < f
    BY DEF FdInv, LockedBelow
  <2> QED
    BY <2>1, Constants
<1> QED
  BY <1>1, FdInit, FdStep, PTL DEF Spec

\* While a descriptor holds the lock of a device, no call makes another one
\* refer to that device (alt_open.c:64-92) or takes the lock away.
THEOREM FdLockHeld == Spec => LockHeld
<1>1. FdInv /\ [Next]_vars => [LockedStep]_vars
  <2> SUFFICES ASSUME FdInv, Next, NEW f \in Fds, NEW g \in Fds,
                      "EXCL" \in flags[f], "EXCL" \in flags'[f], f # g, dev'[g] = dev[f]
               PROVE  dev[g] = dev[f]
    BY DEF LockedStep
  <2>1. boot = << >> /\ dev[f] # NoDev /\ dev[f] \in Devices
    BY Constants DEF FdInv, Booting, DeviceFlags, Drivers
  <2>2. ASSUME dev' = dev PROVE dev[g] = dev[f]
    BY <2>2
  <2>3. ASSUME NEW d \in Drivers \cup {Missing}, NEW mode \in OpenFlags, OpenGranted(d, mode)
        PROVE  dev[g] = dev[f]
    <3>1. PICK i \in Fds : Allotted(d, i) /\ ~Locked(d, i) /\ dev' = TakenDev(d, i)
      BY <2>3 DEF OpenGranted
    <3>2. d \in Drivers /\ dev[f] # d
      BY <3>1, NotLocked DEF Allotted
    <3> QED
      BY <3>1, <3>2 DEF TakenDev, FdInv, FdTypeOK
  <2>4. ASSUME NEW d \in Drivers \cup {Missing}, NEW mode \in OpenFlags, OpenRefused(d, mode)
        PROVE  dev[g] = dev[f]
    <3>1. PICK i \in Fds : Allotted(d, i) /\ dev' = Released(TakenDev(d, i), i, NoDev)
      BY <2>4 DEF OpenRefused
    <3>2. i > 2
      BY <3>1, SlotFacts
    <3> QED
      BY <2>1, <3>1, <3>2 DEF Released, TakenDev, FdInv, FdTypeOK
  <2>5. ASSUME NEW h \in Fds, Close(h) PROVE dev[g] = dev[f]
    BY <2>1, <2>5 DEF Close, Released, FdInv, FdTypeOK
  <2> QED
    BY <2>1, <2>2, <2>3, <2>4, <2>5
    DEF Next, OpenNothing, Lock, LockRefused, Unlock, Ioctl, Transfer, Seek, Stat, Fcntl, BadFd,
        Redirect, RedirectFails
<1>2. FdInv /\ [Next]_vars => [UnlockStep]_vars
  <2> SUFFICES ASSUME FdInv, Next, NEW f \in Fds,
                      "EXCL" \in flags[f], "EXCL" \notin flags'[f]
               PROVE  reply'.fd = f /\ reply'.call \in {"close", "unlock"}
    BY DEF UnlockStep
  <2>1. boot = << >>
    BY DEF FdInv, Booting
  <2>2. flags' # flags
    OBVIOUS
  <2>3. ASSUME NEW d \in Drivers \cup {Missing}, NEW mode \in OpenFlags, NEW i \in Fds,
               Allotted(d, i)
        PROVE  /\ TakenFlags(d, mode, i)[f] = flags[f]
               /\ Released(TakenFlags(d, mode, i), i, {})[f] = flags[f]
    <3>1. i # f
      BY <2>3, SlotFacts
    <3> QED
      BY <3>1 DEF TakenFlags, Released, FdInv, FdTypeOK
  <2>4. ASSUME NEW d \in Drivers \cup {Missing}, NEW mode \in OpenFlags,
               OpenRefused(d, mode) \/ OpenGranted(d, mode)
        PROVE  FALSE
    <3>1. PICK i \in Fds : /\ Allotted(d, i)
                           /\ \/ flags' = TakenFlags(d, mode, i)
                              \/ flags' = Released(TakenFlags(d, mode, i), i, {})
      BY <2>4 DEF OpenRefused, OpenGranted
    <3>2. flags'[f] = flags[f]
      BY <3>1, <2>3
    <3> QED
      BY <3>2
  <2>5. ASSUME NEW h \in Fds, Close(h) \/ Unlock(h)
        PROVE  reply'.fd = f /\ reply'.call \in {"close", "unlock"}
    <3>1. h = f
      BY <2>5 DEF Close, Unlock, Released, FdInv, FdTypeOK
    <3> QED
      BY <2>5, <3>1 DEF Close, Unlock, Reply
  <2>6. ASSUME NEW h \in Fds, Lock(h) PROVE FALSE
    BY <2>6 DEF Lock, FdInv, FdTypeOK
  <2>7. ASSUME NEW h \in Fds, NEW set \in OpenFlags, Fcntl(h, set) PROVE FALSE
    BY <2>7 DEF Fcntl, FdInv, FdTypeOK
  <2> QED
    BY <2>1, <2>2, <2>4, <2>5, <2>6, <2>7
    DEF Next, OpenNothing, LockRefused, Ioctl, Transfer, Seek, Stat, BadFd,
        Redirect, RedirectFails
<1> QED
  BY <1>1, <1>2, FdInit, FdStep, PTL DEF Spec, LockHeld
-----------------------------------------------------------------------------
(* From reset to _exit() *)

Stages == {"icache", "dcache", "bss", "rwdata", "exceptions", "rodata", "dflush", "iflush",
           "irq", "devices", "redirect", "ctors", "main", "exit", "dtors", "spin"}

\* Interrupts are on
Running == {"devices", "redirect", "ctors", "main", "exit", "dtors", "spin"}

\* alt_load has not come to a section yet, or has copied it.
Before(s) == {"icache", "dcache", "bss"} \cup
             (CASE s = "rwdata" -> {"rwdata"}
                [] s = "exceptions" -> {"rwdata", "exceptions"}
                [] s = "rodata" -> {"rwdata", "exceptions", "rodata"})

LoadTyped == /\ at \in Stages
             /\ ram \subseteq Sections /\ dirty \subseteq Sections
             /\ fetched \in {"none", "before", "code"}
             /\ bss \in BOOLEAN /\ pie \in BOOLEAN

InMemory == \A s \in Sections :
  /\ at \notin Before(s) \/ s \notin Copied => s \in ram \cup dirty
  /\ at \in {"icache", "dcache"} => dirty = {}
  /\ at \in {"iflush", "irq"} \cup Running => s \in ram

InCache == /\ ~ICache => fetched = "none"
           /\ at \in {"irq"} \cup Running => fetched # "before"
           /\ pie <=> at \in Running
           /\ pie /\ ICache => fetched = "code"
           /\ at \notin {"icache", "dcache", "bss"} => bss

LoadInv == LoadTyped /\ InMemory /\ InCache

LEMMA AfterStages == ASSUME NEW s \in Stages \ {"spin"}
                     PROVE  /\ After(s) \in Stages
                            /\ s = "dflush" => After(s) = "iflush"
BY DEF Stages, After

\* What comes after "irq" does not touch memory.
LEMMA LoadRest == ASSUME LoadInv, UNCHANGED <<memory, pie>>,
                         at' = at \/ (at \in Running /\ at' \in Running)
                  PROVE  LoadInv'
BY DEF LoadInv, LoadTyped, InMemory, InCache, memory, Running, Stages, Before, Sections

LEMMA LoadStep == ASSUME LoadInv, [StartupNext]_startupVars PROVE LoadInv'
<1> USE DEF Sections
<1>1. CASE InitICache
  <2>1. at = "icache" /\ at' = "dcache" /\ fetched' = "none" /\ UNCHANGED <<ram, dirty, bss, pie>>
    BY <1>1 DEF InitICache, Goes, After
  <2> QED BY <2>1 DEF LoadInv, LoadTyped, InMemory, InCache, Stages, Running, Before
<1>2. CASE InitDCache
  <2>1. at = "dcache" /\ at' = "bss" /\ dirty' = {} /\ UNCHANGED <<ram, fetched, bss, pie>>
    BY <1>2 DEF InitDCache, Goes, After
  <2> QED BY <2>1 DEF LoadInv, LoadTyped, InMemory, InCache, Stages, Running, Before
<1>3. CASE ClearBss
  <2>1. at = "bss" /\ at' = "rwdata" /\ bss' = TRUE /\ UNCHANGED <<ram, fetched, dirty, pie>>
    BY <1>3 DEF ClearBss, Goes, After
  <2> QED BY <2>1 DEF LoadInv, LoadTyped, InMemory, InCache, Stages, Running, Before
<1>4. ASSUME NEW s \in Sections, LoadSection(s) PROVE LoadInv'
  <2>1. /\ at = s /\ UNCHANGED <<fetched, bss, pie>>
        /\ at' = CASE s = "rwdata" -> "exceptions" [] s = "exceptions" -> "rodata"
                   [] s = "rodata" -> "dflush"
    BY <1>4 DEF LoadSection, Goes, After
  <2>2. /\ ram' \subseteq Sections /\ dirty' \subseteq Sections
        /\ ram \cup dirty \subseteq ram' \cup dirty'
        /\ s \in Copied => s \in ram' \cup dirty'
    BY <1>4 DEF LoadSection, LoadInv, LoadTyped
  <2>3. LoadTyped'
    BY <2>1, <2>2 DEF LoadInv, LoadTyped, Stages
  <2>4. InMemory'
    BY <2>1, <2>2 DEF LoadInv, InMemory, Running, Before
  <2>5. InCache'
    BY <2>1 DEF LoadInv, InCache, Running
  <2> QED BY <2>3, <2>4, <2>5 DEF LoadInv
<1>5. CASE FlushDCache
  <2>1. /\ at = "dflush" /\ at' = "iflush" /\ ram' = ram \cup dirty /\ dirty' = {}
        /\ UNCHANGED <<fetched, bss, pie>>
    BY <1>5 DEF FlushDCache, Goes, After
  <2> QED BY <2>1 DEF LoadInv, LoadTyped, InMemory, InCache, Stages, Running, Before
<1>6. CASE FlushICache
  <2>1. at = "iflush" /\ at' = "irq" /\ fetched' = "none" /\ UNCHANGED <<ram, dirty, bss, pie>>
    BY <1>6 DEF FlushICache, Goes, After
  <2> QED BY <2>1 DEF LoadInv, LoadTyped, InMemory, InCache, Stages, Running, Before
<1>7. CASE IrqInit
  <2>1. /\ at = "irq" /\ at' = "devices" /\ pie' = TRUE
        /\ UNCHANGED <<ram, dirty, bss>>
    BY <1>7 DEF IrqInit, Goes, After
  <2>2. "exceptions" \in ram
    BY <2>1 DEF LoadInv, InMemory
  <2>3. fetched' = IF ICache THEN "code" ELSE "none"
    BY <1>7, <2>1, <2>2 DEF IrqInit, Fetched, LoadInv, LoadTyped, InCache
  <2>4. LoadTyped'
    BY <2>1, <2>3 DEF LoadInv, LoadTyped, Stages
  <2>5. InMemory'
    BY <2>1 DEF LoadInv, InMemory, Running, Before
  <2>6. InCache'
    BY <2>1, <2>3 DEF LoadInv, InCache, Running
  <2> QED BY <2>4, <2>5, <2>6 DEF LoadInv
<1>8. CASE RegisterNext
  <2>1. at = "devices" /\ at' \in {"devices", "redirect"} /\ UNCHANGED <<memory, pie>>
    BY <1>8 DEF RegisterNext, After
  <2> QED BY <2>1, LoadRest DEF Running
<1>9. CASE RedirectNext \/ Main \/ Spin \/ CallEntry \/ UNCHANGED startupVars
  BY <1>9, LoadRest DEF RedirectNext, Main, Spin, CallEntry, bootVars, startupVars
<1>10. CASE Redirected \/ NoEntry \/ MainReturns \/ Exit
  <2>1. /\ at \in {"redirect", "ctors", "main", "exit", "dtors"}
        /\ at' = After(at)
        /\ UNCHANGED <<memory, pie>>
    BY <1>10 DEF Redirected, NoEntry, MainReturns, Exit, Goes
  <2>2. at \in Running /\ at' \in Running
    BY <2>1 DEF After, Running
  <2> QED BY <2>1, <2>2, LoadRest
<1>11. CASE Evict
  <2>1. PICK s \in dirty : ram' = ram \cup {s} /\ dirty' = dirty \ {s}
    BY <1>11 DEF Evict
  <2>2. UNCHANGED <<at, fetched, bss, pie>> /\ dirty # {}
    BY <1>11 DEF Evict
  <2> QED BY <2>1, <2>2 DEF LoadInv, LoadTyped, InMemory, InCache
<1>12. CASE Prefetch
  <2>1. /\ fetched' = Fetched /\ ICache /\ fetched = "none" /\ ~pie /\ at # "icache"
        /\ UNCHANGED <<at, ram, dirty, bss, pie>>
    BY <1>12 DEF Prefetch
  <2>2. fetched' \in {"before", "code"}
    BY <2>1 DEF Fetched
  <2>3. at = "irq" => fetched' = "code"
    BY <2>1 DEF Fetched, LoadInv, InMemory
  <2>4. at \notin Running
    BY <2>1 DEF LoadInv, InCache
  <2> QED BY <2>1, <2>2, <2>3, <2>4 DEF LoadInv, LoadTyped, InMemory, InCache
<1>13. CASE Kill
  <2>1. at = "main" /\ at' = "spin" /\ UNCHANGED <<memory, pie>>
    BY <1>13 DEF Kill
  <2> QED BY <2>1, LoadRest DEF Running
<1> QED BY <1>1, <1>2, <1>3, <1>4, <1>5, <1>6, <1>7, <1>8, <1>9, <1>10, <1>11, <1>12, <1>13
    DEF StartupNext, Boot

LEMMA LoadInit == StartupInit => LoadInv
BY StartupAssumption DEF StartupInit, LoadInv, LoadTyped, InMemory, InCache, Stages, Running, Before,
   Sections

\* Whatever is evicted or fetched in between, the handler that an interrupt
\* fetches is the one alt_load copied (alt_load.c:93-98), with or without
\* caches and wherever the sections are loaded.
THEOREM StartupLoads == StartupSpec => []HandlerLoaded
<1>1. LoadInv => HandlerLoaded
  BY DEF LoadInv, LoadTyped, InMemory, InCache, HandlerLoaded, Running, Sections
<1> QED BY <1>1, LoadInit, LoadStep, PTL DEF StartupSpec
-----------------------------------------------------------------------------
(* The drivers are there before the standard descriptors are opened. *)

Early == {"icache", "dcache", "bss", "rwdata", "exceptions", "rodata", "dflush", "iflush", "irq"}

\* What alt_dev_reg and alt_fs_reg have inserted is found.
RegisteredInv ==
  /\ at \in Stages
  /\ registered \in Seq(Drivers) /\ registered # <<>>
  /\ Found(Null)
  /\ at \in Early => Len(registered) = 1
  /\ at = "devices" => \A j \in 1 .. (Len(registered) - 1) : Found(Register[j])
  /\ at \notin Early \cup {"devices"} => \A j \in 1 .. Len(Register) : Found(Register[j])

\* Inserting at the head of a list loses nothing.
LEMMA InsertFinds ==
  ASSUME registered \in Seq(Drivers), NEW d \in Drivers, registered' = <<d>> \o registered
  PROVE  /\ registered' \in Seq(Drivers) /\ Len(registered') = Len(registered) + 1
         /\ Found(d)' /\ \A e : Found(e) => Found(e)'
<1>1. registered' \in Seq(Drivers) /\ Len(registered') = Len(registered) + 1
  OBVIOUS
<1>2. registered'[1] = d /\ \A i \in 1 .. Len(registered) : registered'[i + 1] = registered[i]
  OBVIOUS
<1>3. Found(d)'
  BY <1>1, <1>2 DEF Found
<1>4. ASSUME NEW e, Found(e) PROVE Found(e)'
  <2>1. PICK i \in 1 .. Len(registered) : registered[i] = e
    BY <1>4 DEF Found
  <2>2. i + 1 \in 1 .. Len(registered') /\ registered'[i + 1] = e
    BY <1>1, <1>2, <2>1
  <2> QED BY <2>2 DEF Found
<1> QED BY <1>1, <1>3, <1>4

LEMMA RegisteredInit == StartupInit => RegisteredInv
<1> SUFFICES ASSUME StartupInit PROVE RegisteredInv
  OBVIOUS
<1>1. registered = <<Null>> /\ at = "icache" /\ Null \in Drivers
  BY FdAssumption DEF StartupInit, Drivers
<1> QED BY <1>1 DEF RegisteredInv, Found, Stages, Early

LEMMA RegisteredStep == ASSUME RegisteredInv, [StartupNext]_startupVars PROVE RegisteredInv'
<1>1. CASE RegisterNext
  <2>1. PICK n \in 1 .. Len(Register) :
           /\ at = "devices" /\ n = Len(registered)
           /\ registered' = <<Register[n]>> \o registered
           /\ at' = IF n = Len(Register) THEN "redirect" ELSE "devices"
    <3>1. Len(registered) \in Nat \ {0}
      BY DEF RegisteredInv
    <3>2. at = "devices" => After(at) = "redirect"
      BY DEF After
    <3>3. /\ at = "devices" /\ Len(registered) <= Len(Register)
          /\ registered' = <<Register[Len(registered)]>> \o registered
          /\ at' = IF Len(registered) = Len(Register) THEN After(at) ELSE at
      BY <1>1 DEF RegisterNext
    <3>4. Len(registered) \in 1 .. Len(Register)
      BY <3>1, <3>3, StartupAssumption
    <3> QED BY <3>2, <3>3, <3>4
  <2>2. Register[n] \in Drivers
    BY <2>1, StartupAssumption
  <2>3. /\ registered' \in Seq(Drivers) /\ Len(registered') = n + 1
        /\ Found(Register[n])' /\ \A e : Found(e) => Found(e)'
    BY <2>1, <2>2, InsertFinds DEF RegisteredInv
  <2>4. \A j \in 1 .. n : Found(Register[j])'
    BY <2>1, <2>3 DEF RegisteredInv
  <2>5. registered' # <<>>
    BY <2>1, <2>3
  <2>6. Found(Null)'
    BY <2>3 DEF RegisteredInv
  <2>7. CASE n = Len(Register)
    <3>1. at' = "redirect"
      BY <2>1, <2>7
    <3> QED BY <2>3, <2>4, <2>5, <2>6, <2>7, <3>1 DEF RegisteredInv, Stages, Early
  <2>8. CASE n # Len(Register)
    <3>1. at' = "devices" /\ Len(registered') - 1 = n
      BY <2>1, <2>3, <2>8
    <3> QED BY <2>3, <2>4, <2>5, <2>6, <3>1 DEF RegisteredInv, Stages, Early
  <2> QED BY <2>7, <2>8
<1>2. ASSUME registered' = registered,
             \/ at' = at
             \/ at \in Early /\ at' \in Early \cup {"devices"}
             \/ at \notin Early \cup {"devices"} /\ at' \notin Early \cup {"devices"} /\ at' \in Stages
      PROVE  RegisteredInv'
  <2>1. \A e : Found(e)' <=> Found(e)
    BY <1>2 DEF Found
  <2>2. CASE at' = at
    BY <1>2, <2>1, <2>2 DEF RegisteredInv
  <2>3. CASE at \in Early /\ at' \in Early \cup {"devices"}
    <3>1. Len(registered') = 1
      BY <1>2, <2>3 DEF RegisteredInv
    <3>2. 1 .. (1 - 1) = {}
      OBVIOUS
    <3> QED BY <1>2, <2>1, <2>3, <3>1, <3>2 DEF RegisteredInv, Stages, Early
  <2>4. CASE /\ at \notin Early \cup {"devices"} /\ at' \notin Early \cup {"devices"}
             /\ at' \in Stages
    BY <1>2, <2>1, <2>4 DEF RegisteredInv
  <2> QED BY <1>2, <2>2, <2>3, <2>4
<1>3. CASE InitICache \/ InitDCache \/ ClearBss \/ (\E s \in Sections : LoadSection(s))
           \/ FlushDCache \/ FlushICache \/ IrqInit
  <2>1. registered' = registered /\ at \in Early /\ at' = After(at)
    BY <1>3 DEF InitICache, InitDCache, ClearBss, LoadSection, FlushDCache, FlushICache, IrqInit,
       Goes, Sections, Early
  <2>2. After(at) \in Early \cup {"devices"}
    BY <2>1 DEF Early, After
  <2> QED BY <1>2, <2>1, <2>2
<1>4. CASE Redirected \/ NoEntry \/ MainReturns \/ Exit
  <2>1. registered' = registered /\ at \in {"redirect", "ctors", "main", "exit", "dtors"} /\ at' = After(at)
    BY <1>4 DEF Redirected, NoEntry, MainReturns, Exit, Goes
  <2>2. After(at) \in Stages /\ After(at) \notin Early \cup {"devices"}
    BY <2>1 DEF Early, After, Stages
  <2> QED BY <1>2, <2>1, <2>2 DEF Early
<1>5. CASE RedirectNext \/ Main \/ Spin \/ CallEntry \/ Evict \/ Prefetch \/ UNCHANGED startupVars
  BY <1>2, <1>5 DEF RedirectNext, Main, Spin, CallEntry, Evict, Prefetch, bootVars, startupVars
<1>6. CASE Kill
  <2>1. registered' = registered /\ at = "main" /\ at' = "spin"
    BY <1>6 DEF Kill
  <2> QED BY <1>2, <2>1 DEF Early, Stages
<1> QED BY <1>1, <1>3, <1>4, <1>5, <1>6 DEF StartupNext, Boot

LEMMA StdFound == ASSUME RegisteredInv, at = "redirect", NEW f \in Std, StdDevice[f] # Missing
                  PROVE  Found(StdDevice[f])
BY StartupAssumption DEF RegisteredInv, Early, Registers

LEMMA TableStep == ASSUME RegisteredInv, FdInv, [StartupNext]_startupVars PROVE [Next]_vars
<1>1. CASE RedirectNext
  <2>1. at = "redirect" /\ Head(boot) \in Std
    BY <1>1 DEF RedirectNext, FdInv, FdTypeOK, Std
  <2>2. Redirect \/ RedirectFails
    BY <1>1, <2>1, StdFound DEF RedirectNext
  <2> QED BY <2>2 DEF Next
<1>2. CASE MainReturns
  <2>1. 1 \in Fds
    BY FdAssumption DEF Fds
  <2> QED BY <1>2, <2>1 DEF MainReturns, Next
<1>3. CASE InitICache \/ InitDCache \/ ClearBss \/ (\E s \in Sections : LoadSection(s))
           \/ FlushDCache \/ FlushICache \/ IrqInit
  BY <1>3 DEF InitICache, InitDCache, ClearBss, LoadSection, FlushDCache, FlushICache, IrqInit
<1>4. CASE RegisterNext \/ Redirected \/ CallEntry \/ NoEntry \/ Exit \/ Kill \/ Evict \/ Prefetch
  BY <1>4 DEF RegisterNext, Redirected, CallEntry, NoEntry, Exit, Kill, Evict, Prefetch
<1>5. CASE Main \/ Spin \/ UNCHANGED startupVars
  BY <1>5 DEF Main, Spin, startupVars
<1> QED BY <1>1, <1>2, <1>3, <1>4, <1>5 DEF StartupNext, Boot

TableInv == RegisteredInv /\ FdInv

LEMMA TableAlways == StartupSpec => []TableInv
<1>1. StartupInit => TableInv
  BY RegisteredInit, FdInit DEF StartupInit, TableInv
<1>2. TableInv /\ [StartupNext]_startupVars => TableInv'
  BY RegisteredStep, TableStep, FdStep DEF TableInv
<1> QED BY <1>1, <1>2, PTL DEF StartupSpec

\* From reset to _exit() the table goes only through the steps of FdTable, so
\* what is proved of open() and close() holds of the started system.
THEOREM StartupIsTable == StartupSpec => Spec
<1>1. StartupInit => Init
  BY DEF StartupInit
<1>2. TableInv /\ [StartupNext]_startupVars => [Next]_vars
  BY TableStep DEF TableInv
<1> QED BY <1>1, <1>2, TableAlways, PTL DEF StartupSpec, Spec

THEOREM StartupNoLeak == StartupSpec => []NoLeak
BY StartupIsTable, FdNoLeak

THEOREM StartupOneHolder == StartupSpec => []OneHolder
BY StartupIsTable, FdOneHolder

THEOREM StartupLockHeld == StartupSpec => LockHeld
BY StartupIsTable, FdLockHeld-----------------------------------------------------------------------------
(* Standard I/O *)

\* A standard descriptor on its device and in its direction, or left where it was
OnDevice(f) == IF Openable(StdDevice[f])
                THEN dev[f] = StdDevice[f] /\ Access(f) = IF f = 0 THEN "read" ELSE "write"
                ELSE dev[f] \in {Null, StdDevice[f]}

\* The standard descriptors that alt_io_redirect has yet to come to
Waits == IF boot = <<1, 0, 2>> THEN {0, 1, 2} ELSE IF boot = <<0, 2>> THEN {0, 2}
         ELSE IF boot = <<2>> THEN {2} ELSE {}

StdInv == /\ at \in Early \cup {"devices", "redirect"} =>
               \A f \in Std : IF f \in Waits THEN dev[f] = Null ELSE OnDevice(f)
          /\ at \in Early \cup {"devices"} => boot = <<1, 0, 2>>
          /\ at \notin Early \cup {"devices", "redirect"} => boot = <<>>
          /\ at = "ctors" => \A f \in Std : OnDevice(f)

StdAll == TableInv /\ StdInv

LEMMA WaitsTail == ASSUME FdInv, boot # <<>>
                   PROVE  /\ Head(boot) \in Waits /\ Waits \subseteq Std
                          /\ boot' = Tail(boot) => Waits' = Waits \ {Head(boot)}
<1>1. Tail(<<1, 0, 2>>) = <<0, 2>> /\ Tail(<<0, 2>>) = <<2>> /\ Tail(<<2>>) = << >>
  OBVIOUS
<1>2. Head(<<1, 0, 2>>) = 1 /\ Head(<<0, 2>>) = 0 /\ Head(<<2>>) = 2
  OBVIOUS
<1>3. boot \in {<<1, 0, 2>>, <<0, 2>>, <<2>>}
  BY DEF FdInv, FdTypeOK
<1>4. <<1, 0, 2>> # <<0, 2>> /\ <<1, 0, 2>> # <<2>> /\ <<0, 2>> # <<2>> /\ <<0, 2>> # <<>> /\ <<2>> # <<>>
  OBVIOUS
<1>5. CASE boot = <<1, 0, 2>>
  BY <1>1, <1>2, <1>4, <1>5 DEF Waits, Std
<1>6. CASE boot = <<0, 2>>
  BY <1>1, <1>2, <1>4, <1>6 DEF Waits, Std
<1>7. CASE boot = <<2>>
  BY <1>1, <1>2, <1>4, <1>7 DEF Waits, Std
<1> QED BY <1>3, <1>5, <1>6, <1>7

\* Redirect changes one standard descriptor and leaves the others.
LEMMA RedirectsOne ==
  ASSUME FdInv, Redirect, NEW s, s = Head(boot)
  PROVE  /\ dev'[s] = StdDevice[s] /\ flags'[s] = NewFlags(StdDevice[s], StdFlags(s))
         /\ \A f \in Std \ {s} : dev'[f] = dev[f] /\ flags'[f] = flags[f]
<1>1. s \in Std
  BY WaitsTail DEF Redirect
<1>2. PICK i \in Fds :
         /\ Allotted(StdDevice[s], i)
         /\ dev' = Released([TakenDev(StdDevice[s], i) EXCEPT ![s] = StdDevice[s]], i, NoDev)
         /\ flags' = Released([TakenFlags(StdDevice[s], StdFlags(s), i)
                                 EXCEPT ![s] = NewFlags(StdDevice[s], StdFlags(s))], i, {})
  BY DEF Redirect
<1>3. i > 2 /\ i \notin Std /\ i # s
  BY <1>1, <1>2, SlotFacts
<1>4. s \in Fds /\ Std \subseteq Fds
  BY <1>1, Constants
<1>5. dev' = [dev EXCEPT ![i] = NoDev, ![s] = StdDevice[s]]
  BY <1>2, <1>3, <1>4 DEF Released, TakenDev, FdInv, FdTypeOK
<1>6. flags' = [flags EXCEPT ![i] = {}, ![s] = NewFlags(StdDevice[s], StdFlags(s))]
  BY <1>2, <1>3, <1>4 DEF Released, TakenFlags, FdInv, FdTypeOK
<1> QED BY <1>3, <1>4, <1>5, <1>6 DEF FdInv, FdTypeOK

LEMMA RedirectStd == ASSUME StdAll, RedirectNext PROVE StdInv'
<1> DEFINE s == Head(boot)
<1>1. at = "redirect" /\ at' = at /\ boot # <<>> /\ boot' = Tail(boot) /\ FdInv
  BY DEF RedirectNext, bootVars, StdAll, TableInv, Redirect, RedirectFails
<1>2. /\ s \in Waits /\ s \in Std /\ Waits' = Waits \ {s}
      /\ dev[s] = Null
  BY <1>1, WaitsTail DEF StdAll, StdInv
<1>3. Redirect \/ RedirectFails
  BY <1>1, <1>2, StdFound DEF RedirectNext, StdAll, TableInv
<1>4. PICK h \in Std : h = s
  BY <1>2
<1> HIDE DEF s
<1>5. /\ OnDevice(h)'
      /\ \A f \in Std \ {h} : dev'[f] = dev[f] /\ flags'[f] = flags[f]
  <2>1. CASE Redirect
    <3>1. /\ dev'[h] = StdDevice[h] /\ flags'[h] = NewFlags(StdDevice[h], StdFlags(h))
          /\ \A f \in Std \ {h} : dev'[f] = dev[f] /\ flags'[f] = flags[f]
      BY <1>1, <1>4, <2>1, RedirectsOne DEF s
    <3>2. Access(h)' = IF h = 0 THEN "read" ELSE "write"
      BY <3>1 DEF Access, NewFlags, StdFlags
    <3> QED BY <3>1, <3>2 DEF OnDevice
  <2>2. CASE RedirectFails
    <3>1. ~Openable(StdDevice[h])
      BY <1>4, <2>2, StartupAssumption, FdAssumption DEF RedirectFails, Openable, Registers, Drivers, s
    <3>2. UNCHANGED <<dev, flags>>
      BY <2>2 DEF RedirectFails
    <3> QED BY <1>2, <1>4, <3>1, <3>2 DEF OnDevice
  <2> QED BY <1>3, <2>1, <2>2
<1>6. \A f \in Std \ {h} : OnDevice(f)' <=> OnDevice(f)
  BY <1>5 DEF OnDevice, Access
<1>7. \A f \in Std : IF f \in Waits' THEN dev'[f] = Null ELSE OnDevice(f)'
  BY <1>1, <1>2, <1>4, <1>5, <1>6 DEF StdAll, StdInv
<1> QED BY <1>1, <1>7 DEF StdInv, Early

\* Every other step leaves the standard descriptors alone until main().
LEMMA StdStep == ASSUME StdAll, [StartupNext]_startupVars PROVE StdInv'
<1>1. CASE RedirectNext
  BY <1>1, RedirectStd
<1>2. ASSUME UNCHANGED vars,
             \/ at' = at
             \/ at \in Early /\ at' \in Early \cup {"devices"}
             \/ at = "devices" /\ at' = "redirect"
             \/ at = "redirect" /\ at' = "ctors" /\ boot = <<>>
             \/ at \in {"ctors", "main", "exit", "dtors"} /\ at' \in {"main", "dtors", "spin"}
      PROVE  StdInv'
  <2>1. UNCHANGED <<dev, flags, boot>> /\ Waits' = Waits
    BY <1>2 DEF vars, Waits
  <2>2. \A f \in Std : OnDevice(f)' <=> OnDevice(f)
    BY <2>1 DEF OnDevice, Access
  <2>3. boot = <<>> => Waits = {}
    BY DEF Waits
  <2> QED BY <1>2, <2>1, <2>2, <2>3 DEF StdAll, StdInv, Early
<1>3. CASE InitICache \/ InitDCache \/ ClearBss \/ (\E s \in Sections : LoadSection(s))
           \/ FlushDCache \/ FlushICache \/ IrqInit
  <2>1. UNCHANGED vars /\ at \in Early /\ at' = After(at)
    BY <1>3 DEF InitICache, InitDCache, ClearBss, LoadSection, FlushDCache, FlushICache, IrqInit,
       Goes, Sections, Early
  <2>2. After(at) \in Early \cup {"devices"}
    BY <2>1 DEF Early, After
  <2> QED BY <1>2, <2>1, <2>2
<1>4. CASE RegisterNext
  <2>1. UNCHANGED vars /\ at = "devices" /\ at' \in {"devices", "redirect"}
    BY <1>4 DEF RegisterNext, After
  <2> QED BY <1>2, <2>1
<1>5. CASE Redirected
  <2>1. UNCHANGED vars /\ at = "redirect" /\ boot = <<>> /\ at' = "ctors"
    BY <1>5 DEF Redirected, Goes, After
  <2> QED BY <1>2, <2>1
<1>6. CASE NoEntry \/ Exit
  <2>1. UNCHANGED vars /\ at \in {"ctors", "exit", "dtors"} /\ at' = After(at)
    BY <1>6 DEF NoEntry, Exit, Goes
  <2>2. After(at) \in {"main", "dtors", "spin"}
    BY <2>1 DEF After
  <2> QED BY <1>2, <2>1, <2>2
<1>7. CASE Spin \/ CallEntry \/ Evict \/ Prefetch \/ UNCHANGED startupVars
  BY <1>2, <1>7 DEF Spin, CallEntry, Evict, Prefetch, startupVars, bootVars
<1>8. CASE Main \/ MainReturns
  <2>1. at = "main" /\ at' \in {"main", "exit"}
    BY <1>8 DEF Main, MainReturns, bootVars, After
  <2>2. boot = <<>>
    BY <2>1 DEF StdAll, StdInv, Early
  <2>3. boot' = <<>>
    BY <1>8, <2>2 DEF Main, MainReturns, Next, Redirect, RedirectFails, OpenNothing, OpenRefused,
       OpenGranted, Close, Lock, LockRefused, Unlock, Ioctl, Transfer, Seek, Stat, Fcntl, BadFd
  <2> QED BY <2>1, <2>3 DEF StdInv, Early
<1>9. CASE Kill
  BY <1>2, <1>9 DEF Kill
<1> QED BY <1>1, <1>3, <1>4, <1>5, <1>6, <1>7, <1>8, <1>9 DEF StartupNext, Boot

\* The program starts with its standard descriptors on the configured devices,
\* read and written in the right direction, whatever else was registered
\* (alt_main.c:121-126, alt_io_redirect.c).
THEOREM StartupStd == StartupSpec => []StdReady
<1>1. StartupInit => StdInv
  <2> SUFFICES ASSUME StartupInit PROVE StdInv
    OBVIOUS
  <2>1. at = "icache" /\ boot = <<1, 0, 2>>
    BY DEF StartupInit, Init
  <2>2. \A f \in Std : f \in Waits /\ dev[f] = Null
    BY <2>1, Constants DEF StartupInit, Init, Waits, Std
  <2> QED BY <2>1, <2>2 DEF StdInv, Early
<1>2. StdInv /\ TableInv /\ [StartupNext]_startupVars => StdInv'
  BY StdStep DEF StdAll
<1>3. StdInv => StdReady
  BY DEF StdInv, StdReady, OnDevice
<1> QED BY <1>1, <1>2, <1>3, TableAlways, PTL DEF StartupSpec
=============================================================================
