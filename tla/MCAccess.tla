------------------------------ MODULE MCAccess ------------------------------
(* A run looks at one part at a time; the others keep their first state.   *)
EXTENDS PortalTokens, UserDirectory, Sessions, RateLimit, PlansAndLeads, PortalSetup,
        Navigation, TLC

VARIABLE part

StillDirectory ==
  /\ staff = Staff /\ admins = {} /\ wereAdmins = {} /\ changes = 0
  /\ accounts = [p \in Staff |-> NoAccount]
  /\ pulls = [s \in Pulls |-> NoPull] /\ signing = NoSign

StillSessions ==
  /\ takesCookies = TRUE /\ hour = 0 /\ openings = 0 /\ store = NoToken
  /\ jar = [session |-> NoCookie, csrf |-> 0, operator |-> 0]
  /\ tabs = [t \in Tabs |-> Closed]
  /\ verdict = [of |-> "none", token |-> NoToken, answer |-> "none"]

StillSetup == SetupInit /\ roles = NoRoles

StillNavigation == NavigationInit /\ role = "ADMIN" /\ member /\ off = {}

MCInit ==
  /\ TokenInit /\ RateInit /\ PlansInit
  /\ part \in {"tokens", "rate", "plans", "directory", "sessions", "setup", "navigation"}
  /\ IF part = "directory" THEN DirectoryInit /\ Cardinality(staff) = 2 ELSE StillDirectory
  /\ IF part = "sessions" THEN SessionsInit ELSE StillSessions
  /\ IF part = "setup" THEN SetupInit ELSE StillSetup
  /\ IF part = "navigation" THEN NavigationInit /\ Cardinality(off) <= 1 ELSE StillNavigation

MCNext ==
  /\ UNCHANGED part
  /\ part # "tokens" => UNCHANGED tokenVars
  /\ part # "directory" => UNCHANGED directoryVars
  /\ part # "sessions" => UNCHANGED sessionVars
  /\ part # "rate" => UNCHANGED rateVars
  /\ part # "plans" => UNCHANGED planVars
  /\ part # "setup" => UNCHANGED setupVars
  /\ part # "navigation" => UNCHANGED navigationVars
  /\ \/ part = "tokens" /\ TokenNext
     \/ part = "directory" /\ DirectoryNext
     \/ part = "sessions" /\ SessionsNext
     \/ part = "rate" /\ RateNext
     \/ part = "plans" /\ PlansNext
     \/ part = "setup" /\ SetupNext
     \/ part = "navigation" /\ NavigationNext

all == <<part, tokenVars, directoryVars, sessionVars, rateVars, planVars, setupVars, navigationVars>>

MCSpec == MCInit /\ [][MCNext]_all

(* The slots of every part are the same two values.                        *)
Symmetry == Permutations(Requests)
=============================================================================
