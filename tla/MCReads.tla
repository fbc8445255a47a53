------------------------------- MODULE MCReads -------------------------------
(* What is answered from a table, a cache, a stream or the archive, for TLC: *)
(* `part' says which of the components a behaviour is about, while the       *)
(* others stay in one initial state.                                         *)
EXTENDS Beacons, CognitoUser, Analytics, Telemetry, Views

CONSTANT BoardEnd   \* bound: the last instant of a behaviour about the board

VARIABLE part

Parts == {"board", "users", "chart", "analysis", "telemetry", "view"}

pureVars == <<chart, analysis, telemetry, view>>
allVars == <<beaconVars, userVars, pureVars, clock, part>>

Init ==
  /\ part \in Parts /\ ClockInit
  /\ BeaconsInit /\ topic = FALSE /\ faults = 0
  /\ part # "board" => heard = [m \in Machines |-> Never]
  /\ UsersInit /\ (part # "users" => book = [s \in Subs |-> NoMail])
  /\ IF part = "chart" THEN ChartInit ELSE ChartIdle
  /\ IF part = "analysis" THEN AnalyticsInit ELSE AnalyticsIdle
  /\ IF part = "telemetry" THEN TelemetryInit ELSE TelemetryIdle
  /\ IF part = "view" THEN ViewsInit ELSE ViewsIdle

Next ==
  /\ UNCHANGED part
  /\ \/ /\ part = "board" /\ (PostsNext \/ ItemsNext \/ BoardNext \/ (clock < BoardEnd /\ BeaconTick))
        /\ UNCHANGED <<userVars, pureVars>>
     \/ /\ part = "users" /\ UsersNext
        /\ UNCHANGED <<beaconVars, pureVars>>
     \/ /\ part = "chart" /\ Draw
        /\ UNCHANGED <<beaconVars, userVars, analysis, telemetry, view, clock>>
     \/ /\ part = "analysis" /\ AnalyticsNext
        /\ UNCHANGED <<beaconVars, userVars, chart, telemetry, view, clock>>
     \/ /\ part = "telemetry" /\ Decode
        /\ UNCHANGED <<beaconVars, userVars, chart, analysis, view, clock>>
     \/ /\ part = "view" /\ ViewsNext
        /\ UNCHANGED <<beaconVars, userVars, chart, analysis, telemetry, clock>>

Spec == Init /\ [][Next]_allVars

\* The variables of the board and of the users keep their types, whichever
\* component a behaviour is about.
TypesOK == BeaconsTypeOK /\ UsersTypeOK

Symmetric == Permutations(Lookups) \cup Permutations(Machines)

FilterWords == {"eq", "ne", "gt", "contains", "exists", "70", "070", "cool", "true", "false", ""}
BucketWidths == [r \in {"5m", "1h"} |-> IF r = "5m" THEN 2 ELSE 3]
=============================================================================
