SPECIFICATION Spec
CONSTANTS
  Names = {"BkToCstmrStmt", "Stmt", "Ntry", "NtryDtls", "TxDtls"}
  Nesting <- MCNesting
  Top = "top"
  Body = "BkToCstmrStmt"
  Statement = "Stmt"
  Texts = {}
  Events = {"Start", "Empty", "End"}
  MaxEvents = 8
  MaxMixed = 0
INVARIANTS RawExplodesToItsStatement
CHECK_DEADLOCK FALSE
