------------------------------- MODULE MCZ80 -------------------------------
(***************************************************************************)
(* The CBIOS's transfer routines, called in a loop by a program that may   *)
(* leave it by an RST to halt.  READ and WRITE are one routine here: they  *)
(* differ in the command they send.                                        *)
(***************************************************************************)
EXTENDS Z80Session

I(op) == [op |-> op, to |-> 0]
To(op, a) == [op |-> op, to |-> a]

\* 0: the program.  8: READ or WRITE.  13: FINISH_DISK.  19: SETUP_DISK.  32: RST.
Bios ==
  [a \in {0, 1, 4, 5, 8, 11, 13, 15, 16, 18, 19, 21, 23, 25, 27, 29, 32, 33} |->
     CASE a = 0 -> I("ask")          [] a = 1 -> To("callcc", 8)   [] a = 4 -> To("rst", 32)
       [] a = 5 -> To("jump", 0)
       [] a = 8 -> To("call", 19)    [] a = 11 -> I("command")     [] a = 13 -> I("status")
       [] a = 15 -> I("retok")       [] a = 16 -> I("fail")        [] a = 18 -> I("ret")
       [] a = 19 -> To("lba", 0)     [] a = 21 -> To("lba", 1)     [] a = 23 -> To("lba", 2)
       [] a = 25 -> To("buf", 0)     [] a = 27 -> To("buf", 1)     [] a = 29 -> I("ret")
       [] a = 32 -> I("retcc")       [] a = 33 -> I("halt")]

Disk == <<"system", "system">>
HostFiles == [disk |-> Disk]
HostMounts == {[image |-> Disk, protect |-> TRUE]}
UserEdits == {[path |-> "disk", protect |-> FALSE, boot |-> TRUE]}
BiosRequests == {[cmd |-> "write", lba |-> 1, buf |-> 1], [cmd |-> "read", lba |-> 2, buf |-> 1]}
OneSector == {[cmd |-> c, lba |-> 1, buf |-> 1] : c \in {"read", "write"}}
UserWatchpoints == {[addr |-> 30, size |-> 2, kind |-> "write", enabled |-> TRUE]}
=============================================================================
