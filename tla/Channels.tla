------------------------------ MODULE Channels ------------------------------
(***************************************************************************)
(* The application's side of DMA channels and flash devices: drivers       *)
(* register devices, the program opens them by name, and what it asks of a *)
(* channel goes to the driver, whose interrupt calls back when a transfer  *)
(* is done; a callback may post again, on its own channel or the other.    *)
(* No driver of the kind is in the repository: a channel is modelled as    *)
(* its header describes it, a queue of requests with a depth, and what a   *)
(* flash driver does beyond open() and close() is left out, as is the      *)
(* depth a receive channel tells of itself.                                *)
(***************************************************************************)
EXTENDS Integers, Sequences

CONSTANTS Devices,        \* records of a kind, a name or NoName, a depth, and
                          \* whether open() of the driver can fail
          NULL, NoName,
          MaxRequests     \* accepted from the program and callbacks, a bound

VARIABLES list,      \* alt_dma_rxchan_list, alt_dma_txchan_list, alt_flash_dev_list
          since,     \* ghost: the devices in the order they were registered
          errno,
          handle,    \* what the program has open of each kind
          posted,    \* requests a driver holds
          accepted,  \* requests a driver ever accepted
          seen,      \* what the program may still post, by its last look
          forwarded  \* ghost: requests accepted from callbacks since that look

holds == <<posted, accepted>>
vars == <<list, since, errno, handle, holds, seen, forwarded>>

Channel == {"rx", "tx"}
Kinds == Channel \cup {"flash"}
Names == {d.name : d \in Devices} \ {NoName}

\* struct alt_dma_txchan_dev_s and alt_dma_rxchan_dev_s
Channels == {d \in Devices : d.kind \in Channel}

\* struct alt_flash_dev
FlashDevices == {d \in Devices : d.kind = "flash"}

Init == /\ list = [k \in Kinds |-> << >>] /\ since = << >> /\ errno = "none"
        /\ handle = [k \in Kinds |-> NULL]
        /\ posted = [d \in Channels |-> 0] /\ accepted = 0
        /\ seen = 0 /\ forwarded = 0

\* Mutant: before the head, at the end of the list.
InsertLast(d) == list' = [list EXCEPT ![d.kind] = Append(@, d)]

\* alt_llist_insert(): behind the head
Insert(d) == list' = [list EXCEPT ![d.kind] = <<d>> \o @]

\* alt_dev_llist_insert() refuses a device without a name.  A driver registers a
\* device once.
DevInsert(d) ==
  /\ \A n \in DOMAIN since : since[n] # d
  /\ IF d.name = NoName
       THEN errno' = "EINVAL" /\ UNCHANGED <<list, since>>
       ELSE Insert(d) /\ since' = Append(since, d) /\ UNCHANGED errno
  /\ UNCHANGED <<handle, holds, seen, forwarded>>

\* alt_dma_rxchan_reg and alt_dma_txchan_reg; alt_flash_device_register
RegisterChannel == \E d \in Channels : DevInsert(d)
RegisterFlash == \E d \in FlashDevices : DevInsert(d)

\* alt_find_dev(): the first in the list with exactly this name
Found(k, name) ==
  LET named == {n \in DOMAIN list[k] : list[k][n].name = name}
  IN IF named = {} THEN NULL
     ELSE list[k][CHOOSE n \in named : \A m \in named : n <= m]

Opened(k, found) == /\ handle' = [handle EXCEPT ![k] = found]
                    /\ seen' = IF k = "tx" THEN 0 ELSE seen
                    /\ UNCHANGED <<list, since, holds, forwarded>>

OpenRx(name) == /\ Opened("rx", Found("rx", name))
                /\ errno' = IF Found("rx", name) = NULL THEN "ENODEV" ELSE errno

OpenTx(name) == /\ Opened("tx", Found("tx", name))
                /\ errno' = IF Found("tx", name) = NULL THEN "ENODEV" ELSE errno

\* alt_flash_open_dev(): errno is left alone, and the driver's open() may refuse.
OpenFlash(name) ==
  LET dev == Found("flash", name)
  IN /\ \E got \in {dev} \cup (IF dev # NULL /\ dev.fails THEN {NULL} ELSE {}) :
           Opened("flash", got)
     /\ UNCHANGED errno

\* alt_dma_rxchan_close and alt_dma_txchan_close do nothing: what was posted stays
\* posted, and its callbacks still come.  The program forgets its handle.
CloseChannel(k) == /\ k \in Channel /\ handle[k] # NULL
                   /\ Opened(k, NULL)
                   /\ UNCHANGED errno

\* alt_flash_close_dev
CloseFlash == handle["flash"] # NULL /\ Opened("flash", NULL) /\ UNCHANGED errno

Room(d) == d.depth - posted[d]

\* alt_dma_txchan_space
Space == /\ seen' = IF handle["tx"] = NULL THEN 0 ELSE Room(handle["tx"])
         /\ forwarded' = 0
         /\ UNCHANGED <<list, since, errno, handle, holds>>

\* The driver takes a request if it has room, whoever posts it.
Driver(d, held) == /\ accepted < MaxRequests
                   /\ IF d # NULL /\ d.depth > held[d]
                        THEN posted' = [held EXCEPT ![d] = @ + 1] /\ accepted' = accepted + 1
                        ELSE posted' = held /\ UNCHANGED accepted

Taken == accepted' # accepted

\* alt_dma_txchan_send
Send == /\ Driver(handle["tx"], posted)
        /\ seen' = IF Taken THEN seen - 1 ELSE seen
        /\ UNCHANGED <<list, since, errno, handle, forwarded>>

\* alt_dma_rxchan_prepare
Prepare == /\ Driver(handle["rx"], posted)
           /\ UNCHANGED <<list, since, errno, handle, seen, forwarded>>

\* A transfer is done: the driver's interrupt calls the request's callback.
\* That posts nothing, or a request on a channel the program has open.
Done(d) == LET left == [posted EXCEPT ![d] = @ - 1]
           IN /\ posted[d] > 0
              /\ \/ posted' = left /\ UNCHANGED <<accepted, forwarded>>
                 \/ \E k \in Channel :
                       /\ Driver(handle[k], left)
                       /\ forwarded' = IF k = "tx" /\ Taken THEN forwarded + 1 ELSE forwarded
              /\ UNCHANGED <<list, since, errno, handle, seen>>

Next == \/ RegisterChannel \/ RegisterFlash
        \/ \E name \in Names : OpenRx(name) \/ OpenTx(name) \/ OpenFlash(name)
        \/ \E k \in Channel : CloseChannel(k)
        \/ CloseFlash \/ Space \/ Send \/ Prepare
        \/ \E d \in Channels : Done(d)
-----------------------------------------------------------------------------
ChannelsTypeOK == /\ \A k \in Kinds : /\ handle[k] \in Devices \cup {NULL}
                                      /\ \A n \in DOMAIN list[k] : list[k][n].kind = k
                  /\ \A d \in Channels : posted[d] \in 0 .. d.depth
                  /\ accepted \in 0 .. MaxRequests
                  /\ seen <= IF handle["tx"] = NULL THEN 0 ELSE handle["tx"].depth

\* The one registered last, of those of this kind and name
Newest(k, name) ==
  LET named == {n \in DOMAIN since : since[n].kind = k /\ since[n].name = name}
  IN IF named = {} THEN NULL
     ELSE since[CHOOSE n \in named : \A m \in named : m <= n]

\* A name opens the device registered with it last, and an errno tells of none
\* (alt_dma_rxchan_open.c:55-62).
OpenStep == \A name \in Names :
  /\ OpenRx(name) => handle'["rx"] = Newest("rx", name)
  /\ OpenTx(name) => /\ handle'["tx"] = Newest("tx", name)
                     /\ handle'["tx"] = NULL => errno' = "ENODEV"
  /\ OpenFlash(name) => handle'["flash"] \in {NULL, Newest("flash", name)}

\* The room a program has seen in its transmit channel is there until it posts or
\* callbacks of either channel do (alt_dma.h:100-110).
RoomKept == handle["tx"] # NULL => seen - forwarded <= Room(handle["tx"])
=============================================================================
