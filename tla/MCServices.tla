----------------------------- MODULE MCServices -----------------------------
(***************************************************************************)
(* The device's services for TLC: one specification that first chooses a   *)
(* component and then is this component's, the others resting.  They share *)
(* no state, so nothing is lost by not interleaving them, and one run      *)
(* explores them all.                                                      *)
(***************************************************************************)
EXTENDS WebrtcSession, Conversation, CredentialStore, RobotRegistry, SaveWorker, BleHost,
        RuleEngine, FunctionCalls, MotorPulse

VARIABLE part   \* the component that runs

\* A rotation of the slots needs one network more than there are slots, and an
\* update a second password for one of them.
MCNets == {"home", "work", "shop"}
MCPassword == {[net |-> n, ver |-> 1] : n \in MCNets} \union {[net |-> "home", ver |-> 2]}

Inits ==
    /\ WebrtcInit /\ ConvInit /\ CredInit /\ RegistryInit /\ SaveWorkerInit /\ BleHostInit
    /\ RuleInit /\ CallsInit /\ MotorInit

RunsWebrtc ==
    /\ part = "webrtc" /\ WebrtcNext
    /\ UNCHANGED <<convVars, credVars, registryVars, saveVars, bleVars, ruleVars, functionVars,
                   motorVars>>
RunsConv ==
    /\ part = "conversation" /\ ConvNext
    /\ UNCHANGED <<webrtcVars, credVars, registryVars, saveVars, bleVars, ruleVars, functionVars,
                   motorVars>>
RunsCred ==
    /\ part = "credentials" /\ CredNext
    /\ UNCHANGED <<webrtcVars, convVars, registryVars, saveVars, bleVars, ruleVars, functionVars,
                   motorVars>>
RunsRegistry ==
    /\ part = "registry" /\ RegistryNext
    /\ UNCHANGED <<webrtcVars, convVars, credVars, saveVars, bleVars, ruleVars, functionVars,
                   motorVars>>
RunsSaves ==
    /\ part = "saves" /\ SaveWorkerNext
    /\ UNCHANGED <<webrtcVars, convVars, credVars, registryVars, bleVars, ruleVars, functionVars,
                   motorVars>>
RunsBle ==
    /\ part = "ble" /\ BleHostNext
    /\ UNCHANGED <<webrtcVars, convVars, credVars, registryVars, saveVars, ruleVars, functionVars,
                   motorVars>>
RunsRules ==
    /\ part = "rules" /\ RuleNext
    /\ UNCHANGED <<webrtcVars, convVars, credVars, registryVars, saveVars, bleVars, functionVars,
                   motorVars>>
RunsCalls ==
    /\ part = "calls" /\ CallsNext
    /\ UNCHANGED <<webrtcVars, convVars, credVars, registryVars, saveVars, bleVars, ruleVars,
                   motorVars>>
RunsMotors ==
    /\ part = "motors" /\ MotorNext
    /\ UNCHANGED <<webrtcVars, convVars, credVars, registryVars, saveVars, bleVars, ruleVars,
                   functionVars>>

ServicesInit ==
    /\ Inits
    /\ part \in {"webrtc", "conversation", "credentials", "registry", "saves", "ble",
                "rules", "calls", "motors"}
    /\ part # "registry" => worker = "waiting"

ServicesNext ==
    /\ RunsWebrtc \/ RunsConv \/ RunsCred \/ RunsRegistry \/ RunsSaves \/ RunsBle
         \/ RunsRules \/ RunsCalls \/ RunsMotors
    /\ UNCHANGED part

serviceVars == <<part, webrtcVars, convVars, credVars, registryVars, saveVars, bleVars,
                 ruleVars, functionVars, motorVars>>

ServicesSpec == ServicesInit /\ [][ServicesNext]_serviceVars

\* Every variable of every service has its type.
ServicesTypeOK ==
    /\ WebrtcTypeOK /\ ConvTypeOK /\ CredTypeOK
    /\ RegistryTypeOK /\ SaveWorkerTypeOK /\ BleHostTypeOK
    /\ RuleTypeOK /\ CallsTypeOK /\ MotorTypeOK
=============================================================================
