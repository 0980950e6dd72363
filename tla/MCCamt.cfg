SPECIFICATION Spec
CONSTANTS
  Names = {"BkToCstmrStmt", "Stmt", "Ntry", "NtryDtls", "TxDtls"}
  Nesting <- MCNesting
  Top = "top"
  Body = "BkToCstmrStmt"
  Statement = "Stmt"
  Texts <- MCTexts
  Events = {"Start", "Empty", "End", "Text", "CData", "Entity", "UnknownEntity", "Other"}
  MaxEvents = 11
  MaxMixed = 6
INVARIANTS RootIsFirstTree StatementsOfDocument ExplodesToEveryEntry
CHECK_DEADLOCK FALSE
