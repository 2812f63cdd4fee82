-------------------------------- MODULE Drives --------------------------------
(***************************************************************************)
(* What smart_disk.rs makes of the SMART report of a drive.  A report has  *)
(* the fields bytes depend on; an attribute of an ATA table has its id,    *)
(* its name and its raw value.                                             *)
(***************************************************************************)
EXTENDS Integers, Sequences, SequencesExt, FiniteSetsExt

CONSTANTS
  NONE,                             \* a field that is absent
  DataUnit, Mib32, Gib, Block       \* the units counters are in, in bytes

ASSUME UnitAssumption == {DataUnit, Mib32, Gib, Block} \subseteq Nat \ {0}

Kinds == {"nvme", "intel", "intel_lbas", "kingston", "lbas", "micron"}
AttributeSet ==
  [id : Nat, raw : Nat, name : {"Host_Writes_32MiB", "Lifetime_Writes_GiB", "Load_Cycle_Count",
                                "Total_LBAs_Written", "Unknown_Attribute"}]
ASSUME AbsenceAssumption == NONE \notin Nat \union Seq(AttributeSet)

Attribute(id, name, raw) == [id |-> id, name |-> name, raw |-> raw]

(* External: how drives count what is written to them.  An Intel drive may *)
(* call a count of 32 MiB units LBAs, and then repeats it as attribute     *)
(* 225, which is another count on other drives.                            *)
UnitOf(kind) ==
  CASE kind = "nvme" -> DataUnit
    [] kind \in {"intel", "intel_lbas"} -> Mib32
    [] kind = "kingston" -> Gib
    [] kind \in {"lbas", "micron"} -> Block
Attributes(kind, count) ==
  CASE kind = "intel" -> {Attribute(225, "Host_Writes_32MiB", count),
                          Attribute(241, "Host_Writes_32MiB", count)}
    [] kind = "intel_lbas" -> {Attribute(225, "Load_Cycle_Count", count),
                               Attribute(241, "Total_LBAs_Written", count)}
    [] kind = "kingston" -> {Attribute(241, "Lifetime_Writes_GiB", count),
                             Attribute(246, "Total_LBAs_Written", count)}
    [] kind = "lbas" -> {Attribute(225, "Load_Cycle_Count", count + 1),
                         Attribute(241, "Total_LBAs_Written", count)}
    [] kind = "micron" -> {Attribute(246, "Total_LBAs_Written", count),
                           Attribute(241, "Unknown_Attribute", count + 1)}
Reports(kind, count) ==
  IF kind = "nvme" THEN {[nvme |-> count, table |-> NONE]}
  ELSE {[nvme |-> NONE, table |-> table] : table \in SetToSeqs(Attributes(kind, count))}
Incomplete == [nvme |-> NONE, table |-> NONE]

(* sata_bytes_written: names are tried in this order, whatever the order   *)
(* of the table, and of the entries that match the first is taken.         *)
Named(table, names) == {i \in DOMAIN table : table[i].name \in names}
RawOf(table, I) == table[Min(I)].raw
\* Mutant of SataBytes: LBAs are what they are called.
SataBytesAsNamed(table) ==
  LET mib32 == Named(table, {"Host_Writes_32MiB"})
      gib == Named(table, {"Lifetime_Writes_GiB", "Total_Writes_GiB"})
      lbas == {i \in Named(table, {"Total_LBAs_Written"}) : table[i].id \in {241, 246}}
  IN CASE mib32 # {} -> RawOf(table, mib32) * Mib32
       [] mib32 = {} /\ gib # {} -> RawOf(table, gib) * Gib
       [] mib32 = {} /\ gib = {} /\ lbas # {} -> RawOf(table, lbas) * Block
       [] OTHER -> 0
SataBytes(table) ==
  LET mib32 == Named(table, {"Host_Writes_32MiB"})
      gib == Named(table, {"Lifetime_Writes_GiB", "Total_Writes_GiB"})
      lbas == {i \in Named(table, {"Total_LBAs_Written"}) : table[i].id \in {241, 246}}
      mirror == {i \in DOMAIN table : table[i].id = 225}
      mirrored == mirror # {} /\ RawOf(table, mirror) = RawOf(table, lbas)
  IN CASE mib32 # {} -> RawOf(table, mib32) * Mib32
       [] mib32 = {} /\ gib # {} -> RawOf(table, gib) * Gib
       [] mib32 = {} /\ gib = {} /\ lbas # {} ->
            RawOf(table, lbas) * (IF mirrored THEN Mib32 ELSE Block)
       [] OTHER -> 0

(* parse_smart_json: a report without a counter counts nothing.            *)
BytesWritten(report) ==
  CASE report.nvme # NONE -> report.nvme * DataUnit
    [] report.nvme = NONE /\ report.table # NONE -> SataBytes(report.table)
    [] OTHER -> 0

=============================================================================
