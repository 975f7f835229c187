CONSTANTS
    Registrable = {"sol_issue_token", "sol_revoke_token"}
    Calls = {c1, c2}
    MaxTokens = 2
SYMMETRY Symmetry
SPECIFICATION Spec
INVARIANTS AnswersAreDurable RevocationsAreAudited
CHECK_DEADLOCK FALSE
