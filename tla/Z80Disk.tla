------------------------------ MODULE Z80Disk ------------------------------
(***************************************************************************)
(* The sector device of the z80 plugin (z80/src/Z80DiskDevice.cpp) and     *)
(* what emfe_reset does to it (z80/src/plugin_z80.cpp).  An image is a     *)
(* sequence of sectors, <<>> when none is mounted; RAM is a row of areas   *)
(* of one sector, which the buffer pointer numbers.                        *)
(***************************************************************************)
EXTENDS Naturals, Sequences

CONSTANTS
  Base,           \* values of a byte register, 256 in the code
  Data, System,   \* what a sector can hold; System is the program
  Zero,           \* what cleared RAM holds
  Files           \* path to image, for the files the host can read

Byte == 0 .. (Base - 1)
Area == 0 .. (Base * Base - 1)
Content == Data \cup {Zero}

ASSUME Z80DiskAssumption ==
  /\ Base \in Nat \ {0, 1} /\ System \in Data /\ Zero \notin Data
  /\ \A path \in DOMAIN Files : Files[path] \in Seq(Content)

Device == [image : Seq(Content), protected : BOOLEAN, lba : [0 .. 2 -> Byte],
           bufPtr : [0 .. 1 -> Byte], error : BOOLEAN]

\* A digit of a sector number or of an area.
Digit(n, i) == (n \div <<1, Base, Base * Base>>[i + 1]) % Base

\* Mutant: the low bytes are swapped.
LbaSwapped(d) == d.lba[1] + Base * d.lba[0] + Base * Base * d.lba[2]

Lba(d) == d.lba[0] + Base * d.lba[1] + Base * Base * d.lba[2]
BufPtr(d) == d.bufPtr[0] + Base * d.bufPtr[1]

DeviceReset(d) ==
  [d EXCEPT !.lba = [i \in 0 .. 2 |-> 0], !.bufPtr = [i \in 0 .. 1 |-> 0], !.error = FALSE]

SetImage(d, image, protect) ==
  DeviceReset([d EXCEPT !.image = image, !.protected = protect])

NewDevice ==
  DeviceReset([image |-> <<>>, protected |-> FALSE, lba |-> <<>>, bufPtr |-> <<>>, error |-> FALSE])

\* Mutant: a write to a protected image goes through.
RefusedReadOnly(d, cmd) == cmd = "unknown" \/ d.image = <<>> \/ Lba(d) >= Len(d.image)

Refused(d, cmd) ==
  \/ cmd = "unknown" \/ d.image = <<>> \/ Lba(d) >= Len(d.image)
  \/ cmd = "write" /\ d.protected

\* ExecuteCommand: the device and RAM after it.
ExecuteCommand(d, ram, cmd) ==
  CASE cmd = "nop" -> [disk |-> [d EXCEPT !.error = FALSE], ram |-> ram]
    [] cmd # "nop" /\ Refused(d, cmd) -> [disk |-> [d EXCEPT !.error = TRUE], ram |-> ram]
    [] cmd = "read" /\ ~Refused(d, cmd) ->
         [disk |-> d, ram |-> [ram EXCEPT ![BufPtr(d)] = d.image[Lba(d) + 1]]]
    [] cmd = "write" /\ ~Refused(d, cmd) ->
         [disk |-> [d EXCEPT !.image[Lba(d) + 1] = ram[BufPtr(d)]], ram |-> ram]
-----------------------------------------------------------------------------
(***************************************************************************)
(* The disk settings that emfe_reset acts on.  An empty path leaves what   *)
(* emfe_z80_mount_disk_image mounted.                                      *)
(***************************************************************************)
NoPath == "none"
Paths == {NoPath, "missing"} \cup DOMAIN Files
Settings == [path : Paths, protect : BOOLEAN, boot : BOOLEAN]
Defaults == [path |-> NoPath, protect |-> FALSE, boot |-> FALSE]

ApplyDiskImageOnReset(d, s) ==
  IF s.path = NoPath THEN d
  ELSE IF s.path \in DOMAIN Files THEN SetImage(d, Files[s.path], s.protect)
  ELSE SetImage(d, <<>>, FALSE)

\* The system tracks go to where the program starts.
ApplyBootFromDiskOnReset(d, ram, s) ==
  IF s.boot /\ d.image # <<>> THEN [ram EXCEPT ![0] = d.image[1]] ELSE ram
=============================================================================
