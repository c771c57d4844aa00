-------------------------------- MODULE Console --------------------------------
(***************************************************************************)
(* The console of an administrator: the review dialog, the guided start,   *)
(* the login, the lists and the document details, and the keys its writes  *)
(* carry (Idempotency).  They share no state, so a behaviour is one of     *)
(* them while the others wait as they began.                               *)
(***************************************************************************)
EXTENDS ReviewDialog, Onboarding, AdminSession, AdminPages, Idempotency, TLC

VARIABLE part

consoleVars == <<reviewVars, onboardingVars, sessionVars, pageVars, vars, part>>

ConsoleInit ==
    /\ ReviewInit /\ OnboardingInit /\ SessionInit /\ PagesInit /\ Init
    /\ part \in {"review", "onboarding", "session", "list", "details", "keys"}
    /\ part # "list" => ~list.writes

Reviews ==
    part = "review" /\ ReviewNext /\ UNCHANGED <<onboardingVars, sessionVars, pageVars, vars>>
Starts ==
    part = "onboarding" /\ OnboardingNext /\ UNCHANGED <<reviewVars, sessionVars, pageVars, vars>>
LogsIn ==
    part = "session" /\ SessionNext /\ UNCHANGED <<reviewVars, onboardingVars, pageVars, vars>>
Lists ==
    part = "list" /\ ListNext /\ UNCHANGED <<reviewVars, onboardingVars, sessionVars, vars>>
Looks ==
    part = "details" /\ DetailsNext /\ UNCHANGED <<reviewVars, onboardingVars, sessionVars, vars>>
Repeats ==
    part = "keys" /\ Next /\ UNCHANGED <<reviewVars, onboardingVars, sessionVars, pageVars>>

ConsoleNext == (Reviews \/ Starts \/ LogsIn \/ Lists \/ Looks \/ Repeats) /\ UNCHANGED part

Symmetry == Permutations(Reviewers)

ConsoleSpec == ConsoleInit /\ [][ConsoleNext]_consoleVars
=============================================================================
