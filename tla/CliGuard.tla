------------------------------ MODULE CliGuard ------------------------------
(***************************************************************************)
(* Which Claude CLI an install runs: bin/upgrade-claude-cli.sh, started by *)
(* hand, and bin/cli-upgrade-watchdog.sh, started by the scheduler every   *)
(* hour.  They share the installed package and no lock.                    *)
(***************************************************************************)
EXTENDS Naturals

CONSTANTS
  Releases,                               \* versions of the CLI
  Broken,                                 \* versions that cannot complete a turn
  FirstRelease,                           \* the version the install began with
  Attempts,                               \* VERIFY_ATTEMPTS
  MaxArrivals, MaxUpgrades, MaxCliFaults  \* bounds: images pulled, runs by hand, calls and installs lost

CliAssumption == Attempts \in Nat /\ FirstRelease \in Releases

VARIABLES
  installed,  \* the CLI on the PATH
  knownGood,  \* claude-cli.json, NoRelease before the watchdog's first run
  hand,       \* a run of upgrade-claude-cli.sh --to
  dog,        \* a run of cli-upgrade-watchdog.sh
  arrivals, upgrades, cliFaults

CliVars == <<installed, knownGood, hand, dog, arrivals, upgrades, cliFaults>>

NoRelease == 0
Out == [at |-> "out"]
NoCliFault == cliFaults' = cliFaults
CliFault == cliFaults < MaxCliFaults /\ cliFaults' = cliFaults + 1

CliInit ==
  /\ installed = FirstRelease /\ knownGood = NoRelease /\ hand = Out /\ dog = Out
  /\ arrivals = 0 /\ upgrades = 0 /\ cliFaults = 0

----------------------------------------------------------------------------
(* What both are made of.  A run is [at, back, tries, seen]: `back` is the  *)
(* version to revert to, `seen` the versions its failed turns ran on.       *)

\* One probe turn: it fails on a broken version, and when the API drops the call.
Completes == installed \notin Broken /\ NoCliFault
ProbeFails == \/ installed \in Broken /\ NoCliFault
              \/ installed \notin Broken /\ CliFault

LastAttempt_Early(p) == p.tries + 1 >= Attempts - 1
LastAttempt(p) == p.tries + 1 >= Attempts

\* verify_turn: the next place of run p, after a failed turn.
Retries(p, lost) ==
  [p EXCEPT !.tries = IF LastAttempt(p) THEN 0 ELSE p.tries + 1,
            !.seen = @ \cup {installed},
            !.at = IF LastAttempt(p) THEN lost ELSE p.at]

\* npm install -g: it installs the version, or leaves the old one.
Installs(v) == installed' = v /\ NoCliFault
InstallFails == installed' = installed /\ CliFault

----------------------------------------------------------------------------
(* upgrade-claude-cli.sh --to *)

HandStarts(v) ==
  /\ hand = Out /\ upgrades < MaxUpgrades /\ upgrades' = upgrades + 1
  /\ \/ hand' = [at |-> "probes", back |-> installed, tries |-> 0, seen |-> {}] /\ Installs(v)
     \/ hand' = hand /\ InstallFails
  /\ UNCHANGED <<knownGood, dog, arrivals>>

HandProbes ==
  /\ hand.at = "probes"
  /\ \/ Completes /\ hand' = Out
     \/ ProbeFails /\ hand' = Retries(hand, "reverts")
  /\ UNCHANGED <<installed, knownGood, dog, arrivals, upgrades>>

\* The revert; the turn after it only chooses the words of the notice.
HandReverts ==
  /\ hand.at = "reverts" /\ hand' = Out
  /\ Installs(hand.back) \/ InstallFails
  /\ UNCHANGED <<knownGood, dog, arrivals, upgrades>>

----------------------------------------------------------------------------
(* cli-upgrade-watchdog.sh *)

\* The first run adopts; with no drift there is no turn.
DogAdopts ==
  /\ dog = Out /\ knownGood = NoRelease
  /\ knownGood' = installed
  /\ UNCHANGED <<installed, hand, dog, arrivals, upgrades, cliFaults>>

CliDrift == knownGood # NoRelease /\ installed # knownGood

DogStarts ==
  /\ dog = Out /\ CliDrift
  /\ dog' = [at |-> "probes", back |-> knownGood, found |-> installed, tries |-> 0, seen |-> {}]
  /\ UNCHANGED <<installed, knownGood, hand, arrivals, upgrades, cliFaults>>

\* It adopts the version it read before the turn.
DogProbes ==
  /\ dog.at = "probes"
  /\ \/ Completes /\ dog' = Out /\ knownGood' = dog.found
     \/ ProbeFails /\ dog' = Retries(dog, "reverts") /\ knownGood' = knownGood
  /\ UNCHANGED <<installed, hand, arrivals, upgrades>>

RevertTo_Found == dog.found
RevertTo == dog.back

DogReverts ==
  /\ dog.at = "reverts" /\ dog' = Out
  /\ Installs(RevertTo) \/ InstallFails
  /\ UNCHANGED <<knownGood, hand, arrivals, upgrades>>

----------------------------------------------------------------------------
\* A rebuilt image, or an operator's npm install.
Arrives(v) ==
  /\ arrivals < MaxArrivals /\ arrivals' = arrivals + 1
  /\ installed' = v
  /\ UNCHANGED <<knownGood, hand, dog, upgrades, cliFaults>>

DogSteps == DogAdopts \/ DogStarts \/ DogProbes \/ DogReverts

CliNext ==
  \/ \E v \in Releases : HandStarts(v) \/ Arrives(v)
  \/ HandProbes \/ HandReverts
  \/ DogSteps

CliSpec == CliInit /\ [][CliNext]_CliVars

\* The scheduler starts the watchdog every hour, and the scripts run on.
CliFairness == WF_CliVars(DogSteps) /\ WF_CliVars(HandProbes \/ HandReverts)

----------------------------------------------------------------------------
(* Properties *)

\* A version is reverted because a turn failed on a version that is broken, or because every
\* attempt was lost: one dropped API call takes no working release away.
RevertHasCause ==
  \A p \in {hand, dog} :
    p.at = "reverts" => p.seen \cap Broken # {} \/ cliFaults >= Attempts

\* A broken version that arrives behind the install's back does not stay, once a version that
\* works is on record.  (On record may be a broken one: the first that was found is adopted
\* without a turn, and a version read before a run by hand reverted it is adopted after.)
BrokenIsReplaced ==
  (installed \in Broken /\ knownGood \in Releases \ Broken)
    ~> (installed \notin Broken \/ knownGood \in Broken)

=============================================================================
