-------------------------------- MODULE Drives --------------------------------
(***************************************************************************)
(* lib/modules/hydra.py: what the command line of a virtual machine makes  *)
(* of its drives and network interfaces (_build_drives, _build_adapters,   *)
(* _build): the index of each drive, its place on a bus, and the address   *)
(* of each device on the first PCI bus.                                    *)
(***************************************************************************)
EXTENDS Integers, Sequences, SequencesExt

VARIABLES
    machine,     \* the virtual machine: see Machines
    command      \* what was built of it, <<>> before that

driveVars == <<machine, command>>

\* Types of drives with their own treatment; any other one is a disk on the IDE bus.
Type == {"ide", "cd", "iso", "sata", "scsi", "virtio", "usb", "flash", "other"}

\* A drive: its type, its index, negative when it has none, and whether it is a block device
\* that may be written.
Drive(types, indexes, blocks) == [type : types, index : indexes, block : blocks]

-----------------------------------------------------------------------------
(* _build_drives(): the first loop checks each drive.                      *)

Unchecked == [drives |-> <<>>, taken |-> {}, ides |-> 0, fails |-> FALSE]

Counted(d) == IF d.type \in {"ide", "cd", "iso"} THEN 1 ELSE 0

Given(d, taken) == d.index >= 0 /\ d.index \notin taken

\* Mutated: as many as there are.
IndexCount(d, taken) == IF Given(d, taken) THEN d.index ELSE Cardinality(taken)

\* The index that it has, or one more than the largest: max() fails when there is none.
Index(d, taken) == IF Given(d, taken) THEN d.index ELSE Max(taken) + 1

\* The mount points are looked at for a block device, with the variable that counts the IDE
\* devices: what follows compares and adds a name.
CheckDrive(checked, d) ==
    IF checked.fails \/ d.block \/ (~Given(d, checked.taken) /\ checked.taken = {})
    THEN [checked EXCEPT !.fails = TRUE]
    ELSE LET index == Index(d, checked.taken) IN
         [drives |-> Append(checked.drives, [type |-> d.type, index |-> index]),
          taken |-> checked.taken \cup {index},
          ides |-> checked.ides + Counted(d),
          fails |-> checked.ides + Counted(d) > 4]

-----------------------------------------------------------------------------
(* The second loop places them; i counts IDE and SCSI devices, k those of  *)
(* the SATA bus.                                                           *)

Unplaced == [i |-> 0, k |-> 1, drives |-> <<>>]

\* Units are counted in halves: on other machines than q35 the code divides by two, with a
\* fraction in every case (unit "0.0", "0.5", "1.0"): the names are distinct, if not valid.
IdeUnit(i, q35) == IF q35 THEN 2 * (i + 1) ELSE i

PlaceDrive(placed, d, q35) ==
    LET on(bus, unit) ==
            Append(placed.drives, [bus |-> bus, unit |-> unit, type |-> d.type, index |-> d.index])
    IN  CASE d.type \in {"usb", "virtio", "flash"} ->
               [placed EXCEPT !.drives = on(d.type, -1)]
          [] d.type = "scsi" ->
               [placed EXCEPT !.i = @ + 1, !.drives = on("scsi", placed.i)]
          [] d.type = "sata" ->
               [placed EXCEPT !.k = @ + 1, !.drives = on("sata", placed.k)]
          [] OTHER ->
               [placed EXCEPT !.i = @ + 1, !.drives = on("ide", IdeUnit(placed.i, q35))]

\* _build_adapters(): the address of an interface counts those before it and itself.
Adapter(n) == 20 + n

\* _build(): the devices with an address of their own, the SCSI bus and the interfaces.
Addresses(drives, adapters) ==
    <<9, 12, 17, 18, 13, 14, 15, 16, 8, 11, 10>>
      \o (IF \E d \in ToSet(drives) : d.type = "scsi" THEN <<5>> ELSE <<>>)
      \o [n \in 1..adapters |-> Adapter(n)]

BuildCommand(m) ==
    LET checked == FoldLeft(CheckDrive, Unchecked, m.drives)
        placed == FoldLeft(LAMBDA p, d : PlaceDrive(p, d, m.q35), Unplaced, checked.drives)
    IN  IF checked.fails THEN [fails |-> TRUE]
        ELSE [fails |-> FALSE, drives |-> placed.drives,
              pci |-> Addresses(placed.drives, m.adapters)]

\* Machines with up to some drives of each sort, with five of those that are counted, and
\* with as many interfaces as fit.
Machines(length, adapters) ==
    [drives : UNION {[1..n -> Drive(Type, {-1, 0, 2}, {FALSE})] : n \in 0..length}
                \cup [1..2 -> Drive({"ide", "virtio"}, {-1, 1}, BOOLEAN)]
                \cup {<<[type |-> "usb", index |-> 0, block |-> FALSE]>> \o s :
                        s \in [1..5 -> Drive({"cd", "ide", "scsi"}, {-1}, {FALSE})]},
     q35 : BOOLEAN, adapters : {0, adapters}]

DrivesInit(length, adapters) == machine \in Machines(length, adapters) /\ command = <<>>

DrivesNext ==
    /\ command = <<>>
    /\ command' = BuildCommand(machine)
    /\ UNCHANGED machine

-----------------------------------------------------------------------------
(* Properties.                                                             *)

\* The drives of the command that share a bus where units count.
OnBus(bus) == SelectSeq(command.drives, LAMBDA d : d.bus = bus)

\* A command is built unless a drive is a block device that may be written, the first one
\* has no index, or more than four are counted.
Buildable ==
    /\ \A n \in DOMAIN machine.drives : ~machine.drives[n].block
    /\ machine.drives # <<>> => machine.drives[1].index >= 0
    /\ Len(SelectSeq(machine.drives, LAMBDA d : Counted(d) = 1)) <= 4

\* What is built names each drive with an index of its own, the one it was given when no
\* earlier drive has it; puts no two of a bus on one unit, and up to four IDE devices alone
\* on the units 1 to 4 of q35; and gives no address of the PCI bus twice.
DrivesPlaced ==
    command # <<>> =>
        /\ command.fails <=> ~Buildable
        /\ ~command.fails =>
             LET drives == command.drives
                 indexes == [n \in DOMAIN drives |-> drives[n].index]
             IN
             /\ IsInjective(indexes)
             /\ \A n \in DOMAIN drives :
                   machine.drives[n].index >= 0
                     => \E k \in 1..n : indexes[k] = machine.drives[n].index
             /\ \A bus \in {"ide", "scsi", "sata"} :
                   IsInjective([n \in DOMAIN OnBus(bus) |-> OnBus(bus)[n].unit])
             /\ machine.q35 /\ OnBus("scsi") = <<>>
                  => \A d \in ToSet(OnBus("ide")) : d.unit \in {2, 4, 6, 8} \/ Len(OnBus("ide")) > 4
             /\ IsInjective(command.pci) /\ \A a \in ToSet(command.pci) : a \in 1..31
===============================================================================
