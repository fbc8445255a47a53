------------------------------ MODULE Telemetry ------------------------------
(***************************************************************************)
(* Three readings of one heartbeat: the cockpit of the current state       *)
(* (src/web/src/lib/heartbeat.ts), the samples the dashboard draws         *)
(* (src/src/routes/dashboard.ts), from which the strip of the analytics    *)
(* page is made (src/web/src/lib/chartSeries.ts), and the fingerprint by   *)
(* which the archive decides that nothing changed                          *)
(* (src/src/services/archiveStore.ts).  Each makes up on its own for what  *)
(* proto3 leaves off the wire: a scalar that is zero.                      *)
(*                                                                         *)
(* A heartbeat gives each leaf a number: an enumeration's index, a         *)
(* Boolean's 0 or 1, Unset for an optional field that is not set.  A      *)
(* definition marked "Slip" is a faulty variant of the one below it, used  *)
(* by no action.                                                           *)
(***************************************************************************)
EXTENDS Integers, Sequences

CONSTANTS Rates,      \* power rates in ampere, 0 among them
          Threshold   \* COMPRESSOR_DRAW_THRESHOLD_A

ASSUME TelemetryAssumption == Rates \subseteq Nat /\ 0 \in Rates /\ Threshold \in Nat

VARIABLE telemetry   \* two heartbeats of a machine, and what is made of them

Unset == -1
Heartbeats ==
  [mode : {0, 1}, state : {0, 1}, rate : Rates,                      \* STANDBY and ON are 0
   temp : {0, 72}, fan : {0, 1}, setpoint : {0, 70},
   event : {Unset, 0, 1}, latch : {Unset, 0, 1}]
Usual == [mode |-> 1, state |-> 0, rate |-> 0, temp |-> 72, fan |-> 1, setpoint |-> 70,
          event |-> Unset, latch |-> 0]

Leaves == {"mode", "state", "rate", "temp", "fan", "setpoint", "event", "latch"}
Groups == {{"mode", "state", "rate"}, {"temp", "fan", "setpoint"}, {"event", "latch"}}
Optional == {"event", "latch"}
Enumerations == {"mode", "state"}          \* of STRING_LEAVES
ZeroMeaningful == {"rate", "fan"}          \* ZERO_MEANINGFUL_LEAVES
Fingerprinted == Leaves \ {"setpoint"}     \* not in extractTelemetry

-----------------------------------------------------------------------------
(* decodePayload: the message without its defaults, and with them *)

Wire(h) == [l \in {m \in Leaves : h[m] # Unset /\ (h[m] # 0 \/ m \in Optional)} |-> h[l]]
FullView(h) == [l \in {m \in Leaves : h[m] # Unset} |-> h[l]]

At(view, leaf) == IF leaf \in DOMAIN view THEN view[leaf] ELSE Unset

\* findTelemetry: the node of a machine is known by its temperature.
Recognised(h) == "temp" \in DOMAIN Wire(h)

\* effectiveCompressorState: the rate settles it where there is one.
CompressorState(reported, rate) ==
  IF rate = Unset THEN reported ELSE IF rate >= Threshold THEN 0 ELSE 1

-----------------------------------------------------------------------------
(* The samples of a heartbeat *)

\* Slip: all from the message without its defaults.
EmittedSparse(h) == Wire(h)

\* decodeInto: the numbers on the wire, the names of enumerations from the
\* view with defaults, and zeros of the leaves that always mean one.
Emitted(h) ==
  [l \in (DOMAIN Wire(h) \ Enumerations) \cup (DOMAIN FullView(h) \cap Enumerations)
         \cup {m \in ZeroMeaningful : At(FullView(h), m) = 0} |-> h[l]]

\* What stateAt finds of each series after the second heartbeat.
Latest(first, second) ==
  LET new == Emitted(second)  old == Emitted(first)
  IN  [l \in DOMAIN new \cup DOMAIN old |-> IF l \in DOMAIN new THEN new[l] ELSE old[l]]

\* cockpitAt: the strip
Strip(latest) ==
  [mode     |-> At(latest, "mode"),
   fan      |-> At(latest, "fan"),
   rate     |-> At(latest, "rate"),
   state    |-> CompressorState(At(latest, "state"), At(latest, "rate")),
   setpoint |-> IF At(latest, "setpoint") = 0 THEN Unset ELSE At(latest, "setpoint"),
   alarm    |-> At(latest, "event") = 1 \/ At(latest, "latch") = 1]

\* extractCockpit: most leaves from the wire, enumerations and the rate from
\* the view with defaults
Cockpit(h) ==
  [mode     |-> At(FullView(h), "mode"),
   fan      |-> At(Wire(h), "fan"),
   rate     |-> At(FullView(h), "rate"),
   state    |-> CompressorState(At(FullView(h), "state"), At(FullView(h), "rate")),
   setpoint |-> At(Wire(h), "setpoint"),
   alarm    |-> At(Wire(h), "event") = 1 \/ At(Wire(h), "latch") = 1]

\* fingerprint of extractTelemetry: the leaves on the wire, without powerTotal
Fingerprint(h) == [l \in Fingerprinted \cap DOMAIN Wire(h) |-> h[l]]

-----------------------------------------------------------------------------
\* Any two heartbeats; for TLC, two that differ in at most two groups of
\* their leaves.
AnyHeartbeats == \E first, second \in Heartbeats : telemetry = <<first, second>>

TelemetryInit ==
  \E usual \in Groups : \E first, second \in {h \in Heartbeats : \A l \in usual : h[l] = Usual[l]} :
    telemetry = <<first, second>>

TelemetryIdle == telemetry = <<>>

\* Both heartbeats are decoded for the chart and for the archive, the second
\* one for the current state.
Decode ==
  /\ Len(telemetry) = 2
  /\ LET first == telemetry[1]  second == telemetry[2]
     IN  telemetry' = Append(telemetry,
           [strip   |-> Strip(Latest(first, second)),
            cockpit |-> IF Recognised(second) THEN <<Cockpit(second)>> ELSE <<>>,
            repeat  |-> Recognised(first) /\ Recognised(second)
                          /\ Fingerprint(first) = Fingerprint(second)])

TelemetrySpec == AnyHeartbeats /\ [][Decode]_telemetry

-----------------------------------------------------------------------------
(* Properties *)

\* "rate and state then can never contradict on screen" (heartbeat.ts:75): the
\* strip shows the mode, the rate and the compressor of the last heartbeat as
\* the cockpit does, and whatever fan speed or setpoint the cockpit shows.  It
\* shows an alarm the cockpit shows, and after a heartbeat that still carries
\* the flags of the one before, no other.
StripAgrees ==
  Len(telemetry) = 3 =>
    \A cockpit \in {telemetry[3].cockpit[i] : i \in DOMAIN telemetry[3].cockpit} :
      LET strip == telemetry[3].strip
      IN  /\ \A f \in {"mode", "rate", "state"} : strip[f] = cockpit[f]
          /\ \A f \in {"fan", "setpoint"} : cockpit[f] = Unset \/ strip[f] = cockpit[f]
          /\ cockpit.alarm => strip.alarm
          /\ (\A l \in Optional : telemetry[2][l] = Unset => telemetry[1][l] = Unset)
             => strip.alarm = cockpit.alarm

\* A heartbeat that the archive folds into the run before would have shown
\* nothing new: the samples of the fingerprinted leaves, which the run stands
\* for, and what the cockpit shows of them are the same.
RepeatsAreEqual ==
  Len(telemetry) = 3 /\ telemetry[3].repeat =>
    /\ \A l \in Fingerprinted : At(Emitted(telemetry[1]), l) = At(Emitted(telemetry[2]), l)
    /\ \A f \in {"mode", "fan", "rate", "state", "alarm"} :
         Cockpit(telemetry[1])[f] = Cockpit(telemetry[2])[f]

\* The three readings of a heartbeat agree, whatever proto3 leaves out.
ReadingsAgree == StripAgrees /\ RepeatsAreEqual
=============================================================================
