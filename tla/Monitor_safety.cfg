SPECIFICATION Spec
CONSTANTS
  once = once
  plain = plain
  guardian = guardian
  owner = owner
  r1 = r1
  r2 = r2
  t1 = t1
  t2 = t2
  ch1 = ch1
  ch2 = ch2
  Runs <- MCRuns
  MaxConcurrent = 2
  MaxCrashes = 1
  Caps <- MCCaps
  Txns <- MCTxns
  Challenges <- MCChallenges
  SingleUse <- MCSingleUse
  Ceiling <- MCCeiling
  Caveats <- MCCaveats
  HumanConsent <- MCHumanConsent
  HumanAt = 2
  Asked <- MCAsked
SYMMETRY MCSymmetry
VIEW MCView
CHECK_DEADLOCK FALSE
INVARIANTS ChallengeAnsweredOnce ConsentBound DoomedNotGranted
  TxnReplayedOnlyByRace SingleUseReplayedOnlyByRace
