------------------------------- MODULE Harnesses -------------------------------
(***************************************************************************)
(* The repository's parts that keep state of their own and share none: the *)
(* savepoint rewriting and the isolation suite of dbisolation/, the fault  *)
(* matrix of chaos/, the contract pipeline of pact/, the residue suites    *)
(* and the fixture of containers/, the minimiser of fuzz/, the selection   *)
(* of impact/, the availability sets of property/ and the clock of         *)
(* determinism/.  A behaviour runs one of them; the others stay as they    *)
(* started.                                                                *)
(***************************************************************************)
EXTENDS DbIsolation, Chaos, PactPipeline, ContainerSuites, SuiteFixture,
        Minimiser, ImpactSelection, Availability, SessionClock

databaseVars == <<rewriteVars, dbVars>>
DatabasesIdle == RewriteIdle /\ DbIdle
DatabasesInit == RewriteInit /\ DbInit
DatabasesNext ==
  \/ DbIdle /\ RewriteNext /\ UNCHANGED dbVars
  \/ RewriteIdle /\ DbNext /\ UNCHANGED rewriteVars

serviceVars == <<chaosVars, pactVars>>
ServicesIdle == ChaosIdle /\ PactIdle
ServicesInit == ChaosInit /\ PactInit
ServicesNext ==
  \/ PactIdle /\ ChaosNext /\ UNCHANGED pactVars
  \/ ChaosIdle /\ PactNext /\ UNCHANGED chaosVars

containersVars == <<containerVars, fixtureVars>>
ContainersIdle == ContainerIdle /\ FixtureIdle
ContainersInit == ContainerInit /\ FixtureInit
ContainersNext ==
  \/ FixtureIdle /\ ContainerNext /\ UNCHANGED fixtureVars
  \/ ContainerIdle /\ FixtureNext /\ UNCHANGED containerVars

searchVars == <<minimiserVars, impactVars>>
SearchesIdle == MinimiserIdle /\ ImpactIdle
SearchesInit == MinimiserInit /\ ImpactInit
SearchesNext ==
  \/ ImpactIdle /\ MinimiserNext /\ UNCHANGED impactVars
  \/ MinimiserIdle /\ ImpactNext /\ UNCHANGED minimiserVars

timeVars == <<availabilityVars, clockVars>>
TimesIdle == AvailabilityIdle /\ ClockIdle
TimesInit == AvailabilityInit /\ ClockInit
TimesNext ==
  \/ ClockIdle /\ AvailabilityNext /\ UNCHANGED clockVars
  \/ AvailabilityIdle /\ ClockNext /\ UNCHANGED availabilityVars

-----------------------------------------------------------------------------
vars == <<databaseVars, serviceVars, containersVars, searchVars, timeVars>>

Init ==
  /\ DatabasesInit /\ ServicesInit /\ ContainersInit
  /\ SearchesInit /\ TimesInit

Next ==
  \/ /\ ServicesIdle /\ ContainersIdle /\ SearchesIdle /\ TimesIdle
     /\ DatabasesNext
     /\ UNCHANGED <<serviceVars, containersVars, searchVars, timeVars>>
  \/ /\ DatabasesIdle /\ ContainersIdle /\ SearchesIdle /\ TimesIdle
     /\ ServicesNext
     /\ UNCHANGED <<databaseVars, containersVars, searchVars, timeVars>>
  \/ /\ DatabasesIdle /\ ServicesIdle /\ SearchesIdle /\ TimesIdle
     /\ ContainersNext
     /\ UNCHANGED <<databaseVars, serviceVars, searchVars, timeVars>>
  \/ /\ DatabasesIdle /\ ServicesIdle /\ ContainersIdle /\ TimesIdle
     /\ SearchesNext
     /\ UNCHANGED <<databaseVars, serviceVars, containersVars, timeVars>>
  \/ /\ DatabasesIdle /\ ServicesIdle /\ ContainersIdle /\ SearchesIdle
     /\ TimesNext
     /\ UNCHANGED <<databaseVars, serviceVars, containersVars, searchVars>>

Spec == Init /\ [][Next]_vars
=============================================================================
