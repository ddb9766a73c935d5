---------------------------- MODULE MCAttackLab -----------------------------
EXTENDS AttackLab

CONSTANTS l1, l2

MCPlays ==
  [r \in Lab |->
     IF r = l1 THEN SCENARIOS ELSE {SafeGithubRead, DisabledTool, SecretInOutput, MultipleSqlStatements}]

\* The hypothesis of LoneRunsPass.
ASSUME ScenariosPass == PipelinePasses

MCOverrides == [r \in Lab |-> {s \in SCENARIOS : Override(s) # None}]

=============================================================================
