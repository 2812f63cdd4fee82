------------------------------ MODULE Telemetry ------------------------------
(***************************************************************************)
(* The telemetry table (database.rs), the readings of drives and batteries *)
(* that are sampled into it (smart_disk.rs, battery.rs) and the remaining  *)
(* life projected from the samples (analytics/rul.rs).                     *)
(*                                                                         *)
(* The table outlives the program; its timestamps are the wall clock's,    *)
(* which can be set at any time.  A subject is a metric type with its      *)
(* context: the model of a drive, so two drives of one model share one.    *)
(***************************************************************************)
EXTENDS Integers, Sequences, FiniteSets, SequencesExt, Drives

CONSTANTS
  Devices,             \* the drives and batteries
  KindOf,              \* how each counts: the kind of a drive, "battery"
  SubjectOf,           \* where each is sampled: its model
  Setups,              \* bound: which of them a host may have
  Interval,            \* SAMPLE_INTERVAL_SECS
  Window,              \* SSD_WINDOW_DAYS, BATTERY_WINDOW_DAYS
  MinHistory,          \* MIN_HISTORY_DAYS
  MinDrop,             \* MIN_BATTERY_SOH_DROP
  EndOfLife,           \* the wear a battery is followed to (20 %)
  MaxTime, MaxWear, MaxSteps, MaxFaults \* bounds

ASSUME TimeAssumption ==
  {Interval, Window, MinHistory, MinDrop, EndOfLife, MaxTime, MaxSteps, MaxFaults}
    \subseteq Nat
ASSUME DropAssumption == MinDrop >= 2   \* more than the jitter of a report
ASSUME SetupAssumption ==
  /\ Setups \subseteq SUBSET Devices /\ MaxWear \in [Devices -> Nat]
  /\ KindOf \in [Devices -> Kinds \union {"battery"}] /\ NONE \notin Devices

VARIABLES
  samples,   \* the telemetry table, by id
  shown,     \* the last projection, and the samples it was made from
  now,       \* external: the wall clock
  setup,     \* external: the devices of the host
  worn,      \* external: what each device has worn
  counter,   \* external: what it has counted of that
  steps,     \* history: how often the clock was set
  faults     \* history: counters lost and reports without them, so far

program == <<samples, shown>>
host == <<now, setup, worn, counter, steps, faults>>
vars == <<program, host>>

Batteries == {d \in Devices : KindOf[d] = "battery"}
Nothing == [device |-> NONE, confidence |-> "low", series |-> <<>>, inserted |-> FALSE]

Init ==
  /\ samples = <<>> /\ shown = Nothing
  /\ now = 0 /\ setup \in Setups
  /\ worn = [d \in Devices |-> 0] /\ counter = worn
  /\ steps = 0 /\ faults = 0

-----------------------------------------------------------------------------
(* insert_metric_if_stale, under the lock of the connection: the age is    *)
(* that of the row with the largest id, and negative if it is of a later   *)
(* time than now.                                                          *)
IsNewest(i, subject) ==
  /\ i \in DOMAIN samples /\ samples[i].subject = subject
  /\ \A j \in DOMAIN samples : samples[j].subject = subject => j <= i
\* Mutant of Stale: a sample of the future is stale too.
StaleOrLater(subject) ==
  \A i \in DOMAIN samples : IsNewest(i, subject) =>
    now - samples[i].at >= Interval \/ samples[i].at > now
\* Mutant of Stale: a sample as old as the interval is not.
StaleStrictly(subject) ==
  \A i \in DOMAIN samples : IsNewest(i, subject) => now - samples[i].at > Interval
Stale(subject) ==
  \A i \in DOMAIN samples : IsNewest(i, subject) => now - samples[i].at >= Interval

(* metric_series: by id, from the last days only; the first and the last   *)
(* of the samples are what a projection is made from.                      *)
Kept(rows, subject) == {i \in DOMAIN rows : rows[i].subject = subject /\ rows[i].at >= now - Window}
Series(rows, subject) ==
  LET kept == Kept(rows, subject) IN
    IF kept = {} THEN <<>> ELSE <<rows[Min(kept)], rows[Max(kept)]>>

(* increasing_velocity_per_day, declining_velocity_per_day and the guards  *)
(* of calculate_ssd_rul and battery_projection.                            *)
Span(series) == Last(series).at - Head(series).at
Progress(series, battery) ==
  IF battery THEN Head(series).value - Last(series).value
  ELSE Last(series).value - Head(series).value
\* Mutant of Trusted: a battery has declined if its report has.
TrustedOnJitter(series, battery, current) ==
  /\ series # <<>> /\ Span(series) > 0 /\ Progress(series, battery) > 0
  /\ Span(series) >= MinHistory
  /\ battery => current > EndOfLife
Trusted(series, battery, current) ==
  /\ series # <<>> /\ Span(series) > 0 /\ Progress(series, battery) > 0
  /\ Span(series) >= MinHistory
  /\ battery => current > EndOfLife /\ Progress(series, battery) >= MinDrop

(* calculate_ssd_rul, calculate_battery_rul: sample, then project.         *)
Project(d, value, complete) ==
  LET subject == SubjectOf[d]
      inserted == Stale(subject)
      row == [subject |-> subject, at |-> now, value |-> value, device |-> d,
              worn |-> worn[d], counter |-> counter[d], steps |-> steps, complete |-> complete]
      rows == IF inserted THEN Append(samples, row) ELSE samples
      series == Series(rows, subject)
      battery == d \in Batteries
  IN /\ samples' = rows
     /\ shown' = [device |-> d, series |-> series, inserted |-> inserted,
                  confidence |-> IF Trusted(series, battery, value) THEN "high" ELSE "low"]

(* get_smart_data for one drive: smartctl answers without the counter of a *)
(* drive that sleeps or that it may not ask, and nothing written is the    *)
(* sample taken of that.                                                   *)
PollDrive(d) ==
  /\ \/ \E report \in Reports(KindOf[d], counter[d]) :
          Project(d, BytesWritten(report), TRUE) /\ UNCHANGED faults
     \/ /\ faults < MaxFaults /\ faults' = faults + 1
        /\ Project(d, BytesWritten(Incomplete), FALSE)
  /\ UNCHANGED <<now, setup, worn, counter, steps>>

(* get_battery_stats for one battery: its health is a whole percentage,    *)
(* and the one above it or the one below is reported.                      *)
PollBattery(d) ==
  /\ \E jitter \in 0..1 : Project(d, MaxWear[d] + 1 - worn[d] - jitter, TRUE)
  /\ UNCHANGED host

(* The program ends, is killed or crashes and is started again: the table  *)
(* is on disk, an insertion is a transaction of its own.                   *)
Restart ==
  /\ shown # Nothing /\ shown' = Nothing
  /\ UNCHANGED <<samples, host>>

-----------------------------------------------------------------------------
(* The host: time passes, the clock is set, devices wear, and the counter  *)
(* of a drive is lost with a reset of its controller.                      *)
Tick ==
  /\ now < MaxTime /\ now' = now + 1
  /\ UNCHANGED <<program, setup, worn, counter, steps, faults>>

SetClock(time) ==
  /\ steps < MaxSteps
  /\ now' = time /\ steps' = steps + 1
  /\ UNCHANGED <<program, setup, worn, counter, faults>>

Wear(d) ==
  /\ worn[d] < MaxWear[d]
  /\ worn' = [worn EXCEPT ![d] = @ + 1] /\ counter' = [counter EXCEPT ![d] = @ + 1]
  /\ UNCHANGED <<program, now, setup, steps, faults>>

LoseCounter(d) ==
  /\ d \notin Batteries /\ counter[d] # 0
  /\ faults < MaxFaults /\ faults' = faults + 1
  /\ counter' = [counter EXCEPT ![d] = 0]
  /\ UNCHANGED <<program, now, setup, worn, steps>>

Next ==
  \/ \E d \in setup \ Batteries : PollDrive(d) \/ LoseCounter(d)
  \/ \E d \in setup \intersect Batteries : PollBattery(d)
  \/ \E d \in setup : Wear(d)
  \/ Restart \/ Tick
  \/ \E time \in 0..MaxTime : SetClock(time)

Spec == Init /\ [][Next]_vars

-----------------------------------------------------------------------------
(* The samples of a subject are in the order of their times and at least   *)
(* the interval apart, whoever polls, however often the program restarts   *)
(* and however the clock is set: metric_series orders by id and relies on  *)
(* it, and the table grows no faster.                                      *)
HistoryIsSparse ==
  \A i, j \in DOMAIN samples :
    i < j /\ samples[i].subject = samples[j].subject => samples[j].at >= samples[i].at + Interval

(* A poll that takes no sample has one from the last interval, or one of a *)
(* time that is still to come, and then the clock was set after it.        *)
SilenceHasCause ==
  [][shown' # shown /\ shown'.device # NONE /\ ~shown'.inserted =>
       \E i \in DOMAIN samples :
         /\ IsNewest(i, SubjectOf[shown'.device])
         /\ \/ samples[i].at <= now /\ now < samples[i].at + Interval
            \/ samples[i].at > now /\ samples[i].steps < steps]_vars

(* High confidence rests on samples that are recent and far enough apart,  *)
(* and on wear that is real: no more than the device wore in between, but  *)
(* for the jitter of a battery, and not on jitter alone.  It does not      *)
(* where another drive of the same model is sampled in its place, or where *)
(* the first report in the window had no counter.                          *)
HighMeansMeasured ==
  shown.confidence = "high" =>
    LET first == Head(shown.series)
        last == Last(shown.series)
        battery == shown.device \in Batteries
        wear == last.worn - first.worn
    IN /\ \/ MinHistory <= last.at - first.at /\ last.at - first.at <= Window
          \/ first.steps # steps
       /\ \/ {first.device, last.device} # {shown.device}
          \/ ~first.complete
          \/ /\ wear > 0
             /\ Progress(shown.series, battery) <=
                  IF battery THEN wear + 1 ELSE wear * UnitOf(KindOf[shown.device])

(* The samples of a drive are in bytes, whatever its vendor calls the      *)
(* counter and wherever in the table it stands, or are of a report that    *)
(* had none.                                                               *)
SamplesAreBytes ==
  \A i \in DOMAIN samples :
    LET s == samples[i] IN
      s.device \in Batteries \/ ~s.complete \/ s.value = s.counter * UnitOf(KindOf[s.device])

=============================================================================
