------------------------------ MODULE MCWrites ------------------------------
(* What changes something and must come to an end, for TLC: a beacon and   *)
(* its alert, the process itself, the tables phones write, the operator's  *)
(* "Mark all received".  `part' says which of them a behaviour is about,   *)
(* while the others stay in one initial state.                             *)
EXTENDS Beacons, ServerLife, Ledgers, OperatorPanel

VARIABLE part

Parts == {"alerts", "life", "ledgers", "panel"}

allVars == <<beaconVars, lifeVars, ledgerVars, panelVars, clock, part>>

Init ==
  /\ part \in Parts /\ ClockInit
  /\ BeaconsInit /\ topic = TRUE
  /\ part # "alerts" => faults = 0
  /\ heard = [m \in Machines |-> Never]
  /\ LifeInit /\ (part # "life" => brokerType = "memory")
  /\ LedgersInit
  /\ PanelInit /\ (part # "panel" => page = CHOOSE c \in Panels : TRUE)

Next ==
  /\ UNCHANGED part
  /\ \/ /\ part = "alerts" /\ (PostsNext \/ AlertsNext \/ ServerRestart \/ BeaconTick)
        /\ UNCHANGED <<lifeVars, ledgerVars, panelVars>>
     \/ /\ part = "life" /\ LifeNext
        /\ UNCHANGED <<beaconVars, ledgerVars, panelVars, clock>>
     \/ /\ part = "ledgers" /\ LedgersNext
        /\ UNCHANGED <<beaconVars, lifeVars, panelVars>>
     \/ /\ part = "panel" /\ PanelNext
        /\ UNCHANGED <<beaconVars, lifeVars, ledgerVars>>

\* The process takes its steps and the platform probes it; DynamoDB answers.
\* A part is only fair to its own steps: the others are never taken in it.
Fairness ==
  /\ WF_lifeVars(part = "life" /\ LifeSteps)
  /\ WF_lifeVars(part = "life" /\ ProbeSteps)
  /\ \A p \in Phones : WF_beaconVars(part = "alerts" /\ PostSteps(p))

Spec == Init /\ [][Next]_allVars /\ Fairness
=============================================================================
