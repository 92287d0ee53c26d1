------------------------------ MODULE MCParts ------------------------------
(***************************************************************************)
(* Ten parts of the bridge in one instance for TLC.  They share no        *)
(* variable, and how each of them sees the others is part of its own       *)
(* module, so nothing is gained by interleaving them: Init picks one part, *)
(* which then takes all the steps, while the others stay where they begin. *)
(***************************************************************************)
EXTENDS Outgoing, Enrollment, Lifecycle, Advisory, Notices, Connections, Relay, Frames,
        Status, Registry

VARIABLE part

Parts == {"outgoing", "enrollment", "lifecycle", "advisory", "notices", "connections",
          "relay", "frames", "status", "registry"}

\* A part that does not move has one initial state.
Resting ==
  /\ part # "enrollment" => config = [t \in Threads |-> NoConfig]
  /\ part # "lifecycle" => configOwner = 0
  /\ part # "connections" => enrolled = {CHOOSE p \in ChatPeers : TRUE}

PartsInit ==
  /\ part \in Parts
  /\ Init /\ EnrollmentInit /\ LifecycleInit /\ AdvisoryInit /\ NoticesInit
  /\ ConnectionsInit /\ RelayInit /\ FramesInit /\ StatusInit /\ RegistryInit
  /\ Resting

\* The parts that do not move, but for p.
RestOf(p) ==
  /\ p # "outgoing" => UNCHANGED vars
  /\ p # "enrollment" => UNCHANGED enrollmentVars
  /\ p # "lifecycle" => UNCHANGED lifecycleVars
  /\ p # "advisory" => UNCHANGED advisoryVars
  /\ p # "notices" => UNCHANGED noticesVars
  /\ p # "connections" => UNCHANGED connectionsVars
  /\ p # "relay" => UNCHANGED relayVars
  /\ p # "frames" => UNCHANGED framesVars
  /\ p # "status" => UNCHANGED statusVars
  /\ p # "registry" => UNCHANGED registryVars

Moves(p) == part = p /\ part' = p /\ RestOf(p)

PartsNext ==
  \/ Moves("outgoing") /\ Next
  \/ Moves("enrollment") /\ EnrollmentNext
  \/ Moves("lifecycle") /\ LifecycleNext
  \/ Moves("advisory") /\ AdvisoryNext
  \/ Moves("notices") /\ NoticesNext
  \/ Moves("connections") /\ ConnectionsNext
  \/ Moves("relay") /\ RelayNext
  \/ Moves("frames") /\ FramesNext
  \/ Moves("status") /\ StatusNext
  \/ Moves("registry") /\ RegistryNext

partsVars == <<part, vars, enrollmentVars, lifecycleVars, advisoryVars, noticesVars,
               connectionsVars, relayVars, framesVars, statusVars, registryVars>>

\* The fairness of the parts' own specifications.  One part takes all the steps of a
\* behaviour, so a condition on each of several parts is one on their disjunction.
PartsFairness ==
  /\ WF_partsVars(\/ Worker /\ Moves("outgoing")
                  \/ WorkerLooks /\ Moves("lifecycle")
                  \/ AdviserStep /\ Moves("advisory")
                  \/ TimePasses /\ Moves("connections"))
  /\ WF_partsVars(\/ Restart /\ Moves("outgoing")
                  \/ WorkerWrites /\ Moves("lifecycle")
                  \/ ClosesOld /\ Moves("connections"))
  /\ \A m \in Messages : WF_partsVars(MessageAges(m) /\ Moves("advisory"))

PartsSpec == PartsInit /\ [][PartsNext]_partsVars /\ PartsFairness

\* Every variable of every part has its type.
PartsTypeOK ==
  /\ part \in Parts
  /\ TypeOK /\ EnrollmentTypeOK /\ LifecycleTypeOK /\ AdvisoryTypeOK /\ NoticesTypeOK
  /\ ConnectionsTypeOK /\ RelayTypeOK /\ FramesTypeOK /\ StatusTypeOK
  /\ RegistryTypeOK
=============================================================================
