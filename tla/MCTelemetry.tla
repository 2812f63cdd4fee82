---------------------------- MODULE MCTelemetry ----------------------------
(* An instance of Telemetry for TLC: hosts with two drives of one model,   *)
(* with one drive of each vendor, or with a battery.  Units differ and     *)
(* none is a sum of small multiples of the others.                         *)
EXTENDS Telemetry

CONSTANTS d1, d2, nvme, intel, intel_lbas, kingston, micron, b1

MCKindOf ==
  [d \in Devices |->
    CASE d \in {d1, d2} -> "lbas"
      [] d = nvme -> "nvme" [] d = intel -> "intel" [] d = intel_lbas -> "intel_lbas"
      [] d = kingston -> "kingston" [] d = micron -> "micron" [] d = b1 -> "battery"]
MCSubjectOf ==
  [d \in Devices |->
    CASE d \in {d1, d2} -> "Samsung" [] d = micron -> "Crucial" [] d = kingston -> "Kingston"
      [] d \in {intel, intel_lbas} -> "Intel" [] d = nvme -> "Unknown" [] d = b1 -> "battery"]
MCMaxWear == [d \in Devices |-> IF d \in {d1, d2} THEN 1 ELSE 2]
MCSetups == {{d1, d2}, {b1}} \cup {{d} : d \in {nvme, intel, intel_lbas, kingston, micron}}
=============================================================================
