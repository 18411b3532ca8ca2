------------------------------- MODULE MCParts -------------------------------
(***************************************************************************)
(* The subsystems around the sale, for TLC.  They share no variable: the   *)
(* initial state chooses one of them, the others rest in an initial state  *)
(* of theirs, and one run explores each of them by itself.                 *)
(***************************************************************************)
EXTENDS ChangeManager, CommandRunner, ValidatorLink, ArduinoLink, Catalog, Supervision,
        Kiosk, Store, Accounts, Lifecycle, Simulator, Ledger, Turntable

VARIABLE part

Parts == {"change", "runner", "link", "arduino", "catalog", "supervision", "kiosk", "store",
          "onec", "telemetry", "lifecycle", "simulator", "ledger", "turntable"}

\* The hopper of five is filled once, that of three twice.
MCLoaded == [d \in Denominations |-> IF d = 3 THEN 2 ELSE 1]

\* stop_runtime cancels the health monitor before the validator loop.
MCOrder == <<"health-monitor", "validator-events">>

MCShelf == <<"rose", "tulip">>

PartsInit ==
    /\ part \in Parts
    /\ ChangeInit /\ RunnerInit /\ LinkInit /\ ArduinoInit /\ CatalogInit /\ SupervisionInit
    /\ KioskInit /\ StoreInit /\ AccountsInit /\ LifecycleInit
    /\ SimulatorInit /\ LedgerInit /\ TurntableInit
    /\ \A i \in SlotNamed : stock[i] = Capacity /\ enabled[i]
    /\ part # "catalog" => \A i \in Items : stock[i] = Capacity /\ enabled[i]
    /\ part # "link" => ~accepting
    /\ part # "arduino" => ~door
    /\ part # "supervision" => answers = [d \in PolledDevices |-> "ready"]
    /\ part # "store" => v1 = {}
    /\ part # "onec" => exporting
    /\ part # "lifecycle" => ~stored.drift
    /\ part # "ledger" => db.products = {}

RestOf(p) ==
    /\ UNCHANGED part
    /\ p # "change" => UNCHANGED changeVars
    /\ p # "runner" => UNCHANGED runnerVars
    /\ p # "link" => UNCHANGED linkVars
    /\ p # "arduino" => UNCHANGED arduinoVars
    /\ p # "catalog" => UNCHANGED catalogVars
    /\ p # "supervision" => UNCHANGED supervisionVars
    /\ p # "kiosk" => UNCHANGED kioskVars
    /\ p # "store" => UNCHANGED storeVars
    /\ p # "onec" => UNCHANGED onecVars
    /\ p # "telemetry" => UNCHANGED telemetryVars
    /\ p # "lifecycle" => UNCHANGED lifecycleVars
    /\ p # "simulator" => UNCHANGED simulatorVars
    /\ p # "ledger" => UNCHANGED ledgerVars
    /\ p # "turntable" => UNCHANGED turntableVars

ChangeStep  == part = "change" /\ ChangeNext /\ RestOf("change")
RunnerStep  == part = "runner" /\ RunnerNext /\ RestOf("runner")
LinkStep    == part = "link" /\ LinkNext /\ RestOf("link")
ArduinoStep == part = "arduino" /\ ArduinoNext /\ RestOf("arduino")
CatalogStep == part = "catalog" /\ CatalogNext /\ RestOf("catalog")
KioskStep   == part = "kiosk" /\ KioskNext /\ RestOf("kiosk")
StoreStep   == part = "store" /\ StoreNext /\ RestOf("store")
SuperviseStep == part = "supervision" /\ SupervisionNext /\ RestOf("supervision")
OneCStep == part = "onec" /\ OneCNext /\ RestOf("onec")
TelemetryStep == part = "telemetry" /\ TelemetryNext /\ RestOf("telemetry")
LifecycleStep == part = "lifecycle" /\ LifecycleNext /\ RestOf("lifecycle")
SimulatorStep == part = "simulator" /\ SimulatorNext /\ RestOf("simulator")
LedgerStep  == part = "ledger" /\ LedgerNext /\ RestOf("ledger")
DrumStep    == part = "turntable" /\ TurntableNext /\ RestOf("turntable")

PartsNext ==
    \/ ChangeStep \/ RunnerStep \/ LinkStep \/ ArduinoStep \/ CatalogStep \/ KioskStep
    \/ StoreStep \/ SuperviseStep \/ OneCStep \/ TelemetryStep \/ LifecycleStep
    \/ SimulatorStep \/ LedgerStep \/ DrumStep

partsVars == <<part, changeVars, runnerVars, linkVars, arduinoVars, catalogVars,
               supervisionVars, kioskVars, storeVars, accountsVars, lifecycleVars,
               simulatorVars, ledgerVars, turntableVars>>

PartsSpec ==
    /\ PartsInit /\ [][PartsNext]_partsVars
    /\ WF_partsVars(part = "supervision" /\ PollStep /\ RestOf("supervision"))
    /\ WF_partsVars(part = "turntable" /\ DrumLoop /\ RestOf("turntable"))

\* Every variable of the subsystem that moves keeps the values its module
\* declares for it.
PartsTypeOK ==
    /\ part = "change" => ChangeTypeOK
    /\ part = "runner" => RunnerTypeOK
    /\ part = "link" => LinkTypeOK
    /\ part = "arduino" => ArduinoTypeOK
    /\ part = "catalog" => CatalogTypeOK
    /\ part = "supervision" => SupervisionTypeOK
    /\ part = "kiosk" => KioskTypeOK
    /\ part = "store" => StoreTypeOK
    /\ part \in {"onec", "telemetry"} => AccountsTypeOK
    /\ part = "lifecycle" => LifecycleTypeOK
    /\ part = "simulator" => SimulatorTypeOK
    /\ part = "ledger" => LedgerTypeOK
    /\ part = "turntable" => TurntableTypeOK

\* Whatever the counts have become, a planned change is exact: it pays the sum,
\* from what is there and not reserved, and it is found whenever there is one
\* (PlanIsExact of ChangeManager, which is costly to evaluate while another
\* subsystem moves).
PlansAreExact == part = "change" => PlanIsExact

=============================================================================
