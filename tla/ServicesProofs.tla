--------------------------- MODULE ServicesProofs ---------------------------
(***************************************************************************)
(* The services taken together, as the run over all of them takes them:    *)
(* a behaviour of ServicesSpec is one of every service, so what is proved  *)
(* of a service alone holds of it there, and no variable of the device's   *)
(* services ever leaves its type.                                          *)
(***************************************************************************)
EXTENDS MCServices, BleProofs, WebrtcSessionProofs, ConversationProofs, NvsProofs, TLAPS

\* A step of the services is a step of each, or leaves it alone: the nine share
\* no variable.
LEMMA OneAtATime ==
    ASSUME [ServicesNext]_serviceVars
    PROVE  /\ [WebrtcNext]_webrtcVars /\ [ConvNext]_convVars /\ [CredNext]_credVars
           /\ [RegistryNext]_registryVars /\ [SaveWorkerNext]_saveVars
           /\ [BleHostNext]_bleVars /\ [RuleNext]_ruleVars /\ [CallsNext]_functionVars
           /\ [MotorNext]_motorVars
<1>1. CASE RunsWebrtc BY <1>1 DEF RunsWebrtc
<1>2. CASE RunsConv BY <1>2 DEF RunsConv
<1>3. CASE RunsCred BY <1>3 DEF RunsCred
<1>4. CASE RunsRegistry BY <1>4 DEF RunsRegistry
<1>5. CASE RunsSaves BY <1>5 DEF RunsSaves
<1>6. CASE RunsBle BY <1>6 DEF RunsBle
<1>7. CASE RunsRules BY <1>7 DEF RunsRules
<1>8. CASE RunsCalls BY <1>8 DEF RunsCalls
<1>9. CASE RunsMotors BY <1>9 DEF RunsMotors
<1>10. CASE UNCHANGED serviceVars BY <1>10 DEF serviceVars
<1> QED
  BY <1>1, <1>2, <1>3, <1>4, <1>5, <1>6, <1>7, <1>8, <1>9, <1>10 DEF ServicesNext

\* Every behaviour of the services together is a behaviour of each of them.
THEOREM PartsBehave ==
    ServicesSpec => /\ WebrtcSpec /\ ConvSpec /\ CredSpec /\ RegistrySpec /\ SaveWorkerSpec
                    /\ BleHostSpec /\ RuleSpec /\ CallsSpec /\ MotorSpec
<1>1. ServicesInit => /\ WebrtcInit /\ ConvInit /\ CredInit /\ RegistryInit
                      /\ SaveWorkerInit /\ BleHostInit /\ RuleInit /\ CallsInit /\ MotorInit
  BY DEF ServicesInit, Inits
<1> QED
  BY <1>1, OneAtATime, PTL
  DEF ServicesSpec, WebrtcSpec, ConvSpec, CredSpec, RegistrySpec, SaveWorkerSpec,
      BleHostSpec, RuleSpec, CallsSpec, MotorSpec

\* Every variable of every service keeps its type.
THEOREM ServicesTypeCorrect == ServicesSpec => []ServicesTypeOK
<1>1. ServicesSpec => []WebrtcTypeOK
  BY PartsBehave, WebrtcTypeCorrect, PTL
<1>2. ServicesSpec => [](ConvTypeOK /\ CredTypeOK)
  BY PartsBehave, ConvInvariance, CredInvariance, PTL
<1>3. ServicesSpec => [](RegistryTypeOK /\ SaveWorkerTypeOK /\ BleHostTypeOK)
  BY PartsBehave, RegistryTypeCorrect, SaveTypeCorrect, BleTypeCorrect, PTL
<1>4. ServicesSpec => [](RuleTypeOK /\ CallsTypeOK /\ MotorTypeOK)
  BY PartsBehave, RulesTypeCorrect, CallsTypeCorrect, MotorTypeCorrect, PTL
<1>5. /\ WebrtcTypeOK /\ ConvTypeOK /\ CredTypeOK
      /\ RegistryTypeOK /\ SaveWorkerTypeOK /\ BleHostTypeOK
      /\ RuleTypeOK /\ CallsTypeOK /\ MotorTypeOK
      => ServicesTypeOK
  BY DEF ServicesTypeOK
<1> QED BY <1>1, <1>2, <1>3, <1>4, <1>5, PTL
=============================================================================
