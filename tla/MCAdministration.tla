--------------------------- MODULE MCAdministration ---------------------------
(***************************************************************************)
(* What administrators rely on: the secrets and their rotation, sessions,  *)
(* their second factor, the health of gateways and of the system,          *)
(* reconciliation, and the dashboard.  As in MCOperations, no code         *)
(* connects one of them to another but by their public methods, and a      *)
(* behaviour is one of a single part.                                      *)
(***************************************************************************)
EXTENDS Keys, Sessions, TwoFactor, Gateways, SystemHealth, Reconciliation, ControlPanel

CONSTANT Parts  \* those a run looks at

VARIABLE focus

TwoProviders == <<"midtrans", "tripay">>
OnePayment == [t \in Txs |-> "p"]

Init ==
    /\ KeysInit /\ SessionsInit /\ TwoFactorInit /\ GatewaysInit /\ HealthInit
    /\ ReconciliationInit /\ PanelInit
    /\ focus \in Parts

InKeys(A) ==
    /\ focus = "keys" /\ A
    /\ UNCHANGED <<focus, sessionVars, twoFactorVars, gatewayVars, healthVars,
                   reconciliationVars, panelVars>>
InSessions(A) ==
    /\ focus = "sessions" /\ A
    /\ UNCHANGED <<focus, keysVars, twoFactorVars, gatewayVars, healthVars,
                   reconciliationVars, panelVars>>
InTwoFactor(A) ==
    /\ focus = "second factor" /\ A
    /\ UNCHANGED <<focus, keysVars, sessionVars, gatewayVars, healthVars,
                   reconciliationVars, panelVars>>
InGateways(A) ==
    /\ focus = "gateways" /\ A
    /\ UNCHANGED <<focus, keysVars, sessionVars, twoFactorVars, healthVars,
                   reconciliationVars, panelVars>>
InHealth(A) ==
    /\ focus = "health" /\ A
    /\ UNCHANGED <<focus, keysVars, sessionVars, twoFactorVars, gatewayVars,
                   reconciliationVars, panelVars>>
InReconciliation(A) ==
    /\ focus = "reconciliation" /\ A
    /\ UNCHANGED <<focus, keysVars, sessionVars, twoFactorVars, gatewayVars,
                   healthVars, panelVars>>
InPanel(A) ==
    /\ focus = "panel" /\ A
    /\ UNCHANGED <<focus, keysVars, sessionVars, twoFactorVars, gatewayVars, healthVars,
                   reconciliationVars>>

Next ==
    \/ InKeys(KeysNext) \/ InSessions(SessionsNext) \/ InTwoFactor(TwoFactorNext)
    \/ InGateways(GatewaysNext) \/ InHealth(HealthNext)
    \/ InReconciliation(ReconciliationNext) \/ InPanel(PanelNext)

vars == <<keysVars, sessionVars, twoFactorVars, gatewayVars, healthVars,
          reconciliationVars, panelVars, focus>>

Spec == Init /\ [][Next]_vars

\* The timer of the gateway checks fires, and every request that is waited for
\* is answered, thrown or given up in the end
FairSpec ==
    /\ Spec
    /\ WF_vars(InGateways(TimerFires))
    /\ \A r \in Rounds : WF_vars(InGateways(Answered(r)))
    /\ WF_vars(InReconciliation(RunGoesOn))

TypeOK ==
    /\ KeysTypeOK /\ SessionsTypeOK /\ TwoFactorTypeOK /\ GatewaysTypeOK
    /\ HealthTypeOK /\ ReconciliationTypeOK /\ PanelTypeOK
=============================================================================
