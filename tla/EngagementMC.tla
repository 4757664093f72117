---------------------------- MODULE EngagementMC ----------------------------
(***************************************************************************)
(* Instances of EngagementService for TLC.  A database that is not empty   *)
(* in the beginning holds an engagement whose discovery is done, one that  *)
(* has its solution package, or one that waits for its deposit only.       *)
(***************************************************************************)
EXTENDS EngagementService, TLC

CONSTANTS x1, i1, i2, r1, r2, d1, d2

\* After answerDiscovery().
ConfidentRecord == Answered(New, TRUE)

\* After runIndustryIntelligence(), runGapAnalysis() and runMultiAgentReview() too.
ReviewedRecord == Reviewed(GapsFound(Researched(ConfidentRecord)))

\* After produceSolutionPackage() too.
PackagedRecord == Packaged(ReviewedRecord, d1)

\* And approved, but for the deposit.
ApprovedRecord ==
    Advanced(Advanced(PackagedRecord, "internal_approval"), "client_approval")

PackagedOnly == {PackagedRecord}
Various == {NoRecord, ConfidentRecord, ApprovedRecord}

SomeSymmetry == Permutations(Instances) \cup Permutations(Requests)

=============================================================================
