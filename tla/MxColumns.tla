------------------------------ MODULE MxColumns ------------------------------
(***************************************************************************)
(* The columns of the MX tables and of the two exploders, as MtColumns has *)
(* those of the MT tables.  A path starts at the element that the row is   *)
(* made of, or at the document's body for what its rows share.  Which rows *)
(* a document has is modelled by MxMessages and Camt.                      *)
(***************************************************************************)
EXTENDS Cols

Pacs008Schema == <<
  <<"msg_id", "Utf8", {"GrpHdr/MsgId"}>>, <<"creation_dt", "Timestamp", {"GrpHdr/CreDtTm"}>>,
  <<"nb_of_txs", "Int32", {"GrpHdr/NbOfTxs"}>>,
  <<"settlement_method", "Utf8", {"GrpHdr/SttlmInf/SttlmMtd"}>>,
  <<"instr_id", "Utf8", {"PmtId/InstrId"}>>, <<"end_to_end_id", "Utf8", {"PmtId/EndToEndId"}>>,
  <<"tx_id", "Utf8", {"PmtId/TxId"}>>, <<"uetr", "Utf8", {"PmtId/UETR"}>>,
  <<"amount", "Decimal128", {"IntrBkSttlmAmt"}>>, <<"ccy", "Utf8", {"IntrBkSttlmAmt/@Ccy"}>>,
  <<"settlement_date", "Date32", {"IntrBkSttlmDt"}>>,
  <<"instructed_amount", "Decimal128", {"InstdAmt"}>>,
  <<"instructed_ccy", "Utf8", {"InstdAmt/@Ccy"}>>,
  <<"exchange_rate", "Decimal128", {"XchgRate"}>>, <<"charge_bearer", "Utf8", {"ChrgBr"}>>,
  <<"debtor_name", "Utf8", {"Dbtr/Nm"}>>, <<"debtor_iban", "Utf8", {"DbtrAcct/Id/IBAN"}>>,
  <<"debtor_acct_other", "Utf8", {"DbtrAcct/Id/Othr/Id"}>>,
  <<"debtor_agent_bic", "Utf8", {"DbtrAgt/FinInstnId/BICFI"}>>,
  <<"creditor_name", "Utf8", {"Cdtr/Nm"}>>, <<"creditor_iban", "Utf8", {"CdtrAcct/Id/IBAN"}>>,
  <<"creditor_acct_other", "Utf8", {"CdtrAcct/Id/Othr/Id"}>>,
  <<"creditor_agent_bic", "Utf8", {"CdtrAgt/FinInstnId/BICFI"}>>,
  <<"intermediary_agent1_bic", "Utf8", {"IntrmyAgt1/FinInstnId/BICFI"}>>,
  <<"purpose_code", "Utf8", {"Purp/Cd"}>>,
  <<"remittance_unstructured", "List", {"RmtInf/Ustrd"}>>,
  <<"remittance_struct_ref", "Utf8", {"RmtInf/Strd/CdtrRefInf/Ref"}>>,
  <<"raw", "Utf8", {"raw"}>>, <<"path", "Utf8", {"path"}>> >>

Pacs008Columns ==
     str_col(<<"msg_id">>) \o ts_col(<<"creation_dt">>) \o int_col(<<"nb_of_txs">>)
  \o str_col(<<"settlement_method", "instr_id", "end_to_end_id", "tx_id", "uetr">>)
  \o dec_col(<<"amount">>) \o str_col(<<"ccy">>) \o date_col(<<"settlement_date">>)
  \o dec_col(<<"instructed_amount">>) \o str_col(<<"instructed_ccy">>)
  \o dec_col(<<"exchange_rate">>)
  \o str_col(<<"charge_bearer", "debtor_name", "debtor_iban", "debtor_acct_other",
               "debtor_agent_bic", "creditor_name", "creditor_iban", "creditor_acct_other",
               "creditor_agent_bic", "intermediary_agent1_bic", "purpose_code">>)
  \o list_str_col(<<"remittance_unstructured">>)
  \o str_col(<<"remittance_struct_ref", "raw", "path">>)

Pacs008Row(m) ==
  [msg_id |-> At(m, "GrpHdr/MsgId"), creation_dt |-> At(m, "GrpHdr/CreDtTm"),
   nb_of_txs |-> At(m, "GrpHdr/NbOfTxs"),
   settlement_method |-> At(m, "GrpHdr/SttlmInf/SttlmMtd"),
   instr_id |-> At(m, "PmtId/InstrId"), end_to_end_id |-> At(m, "PmtId/EndToEndId"),
   tx_id |-> At(m, "PmtId/TxId"), uetr |-> At(m, "PmtId/UETR"),
   amount |-> At(m, "IntrBkSttlmAmt"), ccy |-> At(m, "IntrBkSttlmAmt/@Ccy"),
   settlement_date |-> At(m, "IntrBkSttlmDt"), instructed_amount |-> At(m, "InstdAmt"),
   instructed_ccy |-> At(m, "InstdAmt/@Ccy"), exchange_rate |-> At(m, "XchgRate"),
   charge_bearer |-> At(m, "ChrgBr"), debtor_name |-> At(m, "Dbtr/Nm"),
   debtor_iban |-> At(m, "DbtrAcct/Id/IBAN"),
   debtor_acct_other |-> At(m, "DbtrAcct/Id/Othr/Id"),
   debtor_agent_bic |-> At(m, "DbtrAgt/FinInstnId/BICFI"),
   creditor_name |-> At(m, "Cdtr/Nm"), creditor_iban |-> At(m, "CdtrAcct/Id/IBAN"),
   creditor_acct_other |-> At(m, "CdtrAcct/Id/Othr/Id"),
   creditor_agent_bic |-> At(m, "CdtrAgt/FinInstnId/BICFI"),
   intermediary_agent1_bic |-> At(m, "IntrmyAgt1/FinInstnId/BICFI"),
   purpose_code |-> At(m, "Purp/Cd"), remittance_unstructured |-> At(m, "RmtInf/Ustrd"),
   remittance_struct_ref |-> At(m, "RmtInf/Strd/CdtrRefInf/Ref"),
   raw |-> "raw", path |-> "path"]

Pacs002Schema == <<
  <<"msg_id", "Utf8", {"GrpHdr/MsgId"}>>, <<"creation_dt", "Timestamp", {"GrpHdr/CreDtTm"}>>,
  <<"orig_msg_id", "Utf8", {"OrgnlMsgId"}>>, <<"orig_msg_name", "Utf8", {"OrgnlMsgNmId"}>>,
  <<"group_status", "Utf8", {"GrpSts"}>>, <<"orig_instr_id", "Utf8", {"OrgnlInstrId"}>>,
  <<"orig_end_to_end_id", "Utf8", {"OrgnlEndToEndId"}>>,
  <<"orig_tx_id", "Utf8", {"OrgnlTxId"}>>, <<"orig_uetr", "Utf8", {"OrgnlUETR"}>>,
  <<"tx_status", "Utf8", {"TxSts"}>>, <<"status_reason_code", "Utf8", {"StsRsnInf/Rsn/Cd"}>>,
  <<"status_reason_prop", "Utf8", {"StsRsnInf/Rsn/Prtry"}>>,
  <<"status_reason_addtl", "List", {"StsRsnInf/AddtlInf"}>>,
  <<"accept_dt", "Timestamp", {"AccptncDtTm"}>>,
  <<"raw", "Utf8", {"raw"}>>, <<"path", "Utf8", {"path"}>> >>

Pacs002Columns ==
     str_col(<<"msg_id">>) \o ts_col(<<"creation_dt">>)
  \o str_col(<<"orig_msg_id", "orig_msg_name", "group_status", "orig_instr_id",
               "orig_end_to_end_id", "orig_tx_id", "orig_uetr", "tx_status",
               "status_reason_code", "status_reason_prop">>)
  \o list_str_col(<<"status_reason_addtl">>) \o ts_col(<<"accept_dt">>)
  \o str_col(<<"raw", "path">>)

\* Without a TxInfAndSts the one row has what stands at the group.
Pacs002Row(m) ==
  [msg_id |-> At(m, "GrpHdr/MsgId"), creation_dt |-> At(m, "GrpHdr/CreDtTm"),
   orig_msg_id |-> At(m, "OrgnlMsgId"), orig_msg_name |-> At(m, "OrgnlMsgNmId"),
   group_status |-> At(m, "GrpSts"), orig_instr_id |-> At(m, "OrgnlInstrId"),
   orig_end_to_end_id |-> At(m, "OrgnlEndToEndId"), orig_tx_id |-> At(m, "OrgnlTxId"),
   orig_uetr |-> At(m, "OrgnlUETR"), tx_status |-> At(m, "TxSts"),
   status_reason_code |-> At(m, "StsRsnInf/Rsn/Cd"),
   status_reason_prop |-> At(m, "StsRsnInf/Rsn/Prtry"),
   status_reason_addtl |-> At(m, "StsRsnInf/AddtlInf"), accept_dt |-> At(m, "AccptncDtTm"),
   raw |-> "raw", path |-> "path"]

Pain001Schema == <<
  <<"msg_id", "Utf8", {"GrpHdr/MsgId"}>>, <<"creation_dt", "Timestamp", {"GrpHdr/CreDtTm"}>>,
  <<"ctrl_sum", "Decimal128", {"GrpHdr/CtrlSum"}>>,
  <<"initiating_party", "Utf8", {"GrpHdr/InitgPty/Nm"}>>,
  <<"pmt_inf_id", "Utf8", {"PmtInfId"}>>, <<"pmt_method", "Utf8", {"PmtMtd"}>>,
  <<"requested_exec_date", "Date32", {"ReqdExctnDt", "ReqdExctnDt/Dt"}>>,
  <<"debtor_name", "Utf8", {"Dbtr/Nm"}>>, <<"debtor_iban", "Utf8", {"DbtrAcct/Id/IBAN"}>>,
  <<"debtor_agent_bic", "Utf8", {"DbtrAgt/FinInstnId/BICFI"}>>,
  <<"charge_bearer", "Utf8", {"ChrgBr"}>>, <<"end_to_end_id", "Utf8", {"PmtId/EndToEndId"}>>,
  <<"instr_id", "Utf8", {"PmtId/InstrId"}>>, <<"uetr", "Utf8", {"PmtId/UETR"}>>,
  <<"amount", "Decimal128", {"Amt/InstdAmt"}>>, <<"ccy", "Utf8", {"Amt/InstdAmt/@Ccy"}>>,
  <<"creditor_name", "Utf8", {"Cdtr/Nm"}>>, <<"creditor_iban", "Utf8", {"CdtrAcct/Id/IBAN"}>>,
  <<"creditor_agent_bic", "Utf8", {"CdtrAgt/FinInstnId/BICFI"}>>,
  <<"purpose_code", "Utf8", {"Purp/Cd"}>>,
  <<"remittance_unstructured", "List", {"RmtInf/Ustrd"}>>,
  <<"remittance_struct_ref", "Utf8", {"RmtInf/Strd/CdtrRefInf/Ref"}>>,
  <<"raw", "Utf8", {"raw"}>>, <<"path", "Utf8", {"path"}>> >>

Pain001Columns ==
     str_col(<<"msg_id">>) \o ts_col(<<"creation_dt">>) \o dec_col(<<"ctrl_sum">>)
  \o str_col(<<"initiating_party", "pmt_inf_id", "pmt_method">>)
  \o date_col(<<"requested_exec_date">>)
  \o str_col(<<"debtor_name", "debtor_iban", "debtor_agent_bic", "charge_bearer",
               "end_to_end_id", "instr_id", "uetr">>)
  \o dec_col(<<"amount">>)
  \o str_col(<<"ccy", "creditor_name", "creditor_iban", "creditor_agent_bic",
               "purpose_code">>)
  \o list_str_col(<<"remittance_unstructured">>)
  \o str_col(<<"remittance_struct_ref", "raw", "path">>)

Pain001Row(m) ==
  [msg_id |-> At(m, "GrpHdr/MsgId"), creation_dt |-> At(m, "GrpHdr/CreDtTm"),
   ctrl_sum |-> At(m, "GrpHdr/CtrlSum"), initiating_party |-> At(m, "GrpHdr/InitgPty/Nm"),
   pmt_inf_id |-> At(m, "PmtInfId"), pmt_method |-> At(m, "PmtMtd"),
   requested_exec_date |-> OrElse(At(m, "ReqdExctnDt/Dt"), At(m, "ReqdExctnDt")),
   debtor_name |-> At(m, "Dbtr/Nm"), debtor_iban |-> At(m, "DbtrAcct/Id/IBAN"),
   debtor_agent_bic |-> At(m, "DbtrAgt/FinInstnId/BICFI"),
   charge_bearer |-> At(m, "ChrgBr"), end_to_end_id |-> At(m, "PmtId/EndToEndId"),
   instr_id |-> At(m, "PmtId/InstrId"), uetr |-> At(m, "PmtId/UETR"),
   amount |-> At(m, "Amt/InstdAmt"), ccy |-> At(m, "Amt/InstdAmt/@Ccy"),
   creditor_name |-> At(m, "Cdtr/Nm"), creditor_iban |-> At(m, "CdtrAcct/Id/IBAN"),
   creditor_agent_bic |-> At(m, "CdtrAgt/FinInstnId/BICFI"),
   purpose_code |-> At(m, "Purp/Cd"), remittance_unstructured |-> At(m, "RmtInf/Ustrd"),
   remittance_struct_ref |-> At(m, "RmtInf/Strd/CdtrRefInf/Ref"),
   raw |-> "raw", path |-> "path"]

\* camt.053; camt.054 has the same columns and the same row (statement_of).
CamtSchema == <<
  <<"msg_id", "Utf8", {"GrpHdr/MsgId"}>>, <<"creation_dt", "Timestamp", {"GrpHdr/CreDtTm"}>>,
  <<"stmt_id", "Utf8", {"Id"}>>, <<"stmt_seq_nb", "Utf8", {"ElctrncSeqNb", "LglSeqNb"}>>,
  <<"account_iban", "Utf8", {"Acct/Id/IBAN"}>>,
  <<"account_other", "Utf8", {"Acct/Id/Othr/Id"}>>, <<"account_ccy", "Utf8", {"Acct/Ccy"}>>,
  <<"account_owner", "Utf8", {"Acct/Ownr/Nm"}>>, <<"from_dt", "Timestamp", {"FrToDt/FrDtTm"}>>,
  <<"to_dt", "Timestamp", {"FrToDt/ToDtTm"}>>, <<"opening_balance", "Decimal128", {"OPBD"}>>,
  <<"closing_balance", "Decimal128", {"CLBD"}>>,
  <<"closing_available", "Decimal128", {"CLAV"}>>,
  <<"ccy", "Utf8", {"OPBD/@Ccy", "CLBD/@Ccy"}>>, <<"entry_count", "Int32", {"Ntry_count"}>>,
  <<"sum_credits", "Decimal128", {"TxsSummry/TtlCdtNtries/Sum"}>>,
  <<"sum_debits", "Decimal128", {"TxsSummry/TtlDbtNtries/Sum"}>>,
  <<"raw", "Utf8", {"raw"}>>, <<"path", "Utf8", {"path"}>> >>

CamtColumns ==
     str_col(<<"msg_id">>) \o ts_col(<<"creation_dt">>)
  \o str_col(<<"stmt_id", "stmt_seq_nb", "account_iban", "account_other", "account_ccy",
               "account_owner">>)
  \o ts_col(<<"from_dt", "to_dt">>)
  \o dec_col(<<"opening_balance", "closing_balance", "closing_available">>)
  \o str_col(<<"ccy">>) \o int_col(<<"entry_count">>)
  \o dec_col(<<"sum_credits", "sum_debits">>) \o str_col(<<"raw", "path">>)

\* Bug: the legal sequence number is not looked for.
SequenceNumberElectronic(m) == At(m, "ElctrncSeqNb")

SequenceNumber(m) == OrElse(At(m, "ElctrncSeqNb"), At(m, "LglSeqNb"))

\* "OPBD" is the amount of the first balance with that code (balance_by_code).
CamtRow(m) ==
  [msg_id |-> At(m, "GrpHdr/MsgId"), creation_dt |-> At(m, "GrpHdr/CreDtTm"),
   stmt_id |-> At(m, "Id"), stmt_seq_nb |-> SequenceNumber(m),
   account_iban |-> At(m, "Acct/Id/IBAN"), account_other |-> At(m, "Acct/Id/Othr/Id"),
   account_ccy |-> At(m, "Acct/Ccy"), account_owner |-> At(m, "Acct/Ownr/Nm"),
   from_dt |-> At(m, "FrToDt/FrDtTm"), to_dt |-> At(m, "FrToDt/ToDtTm"),
   opening_balance |-> At(m, "OPBD"), closing_balance |-> At(m, "CLBD"),
   closing_available |-> At(m, "CLAV"),
   ccy |-> OrElse(At(m, "OPBD/@Ccy"), At(m, "CLBD/@Ccy")), entry_count |-> "Ntry_count",
   sum_credits |-> At(m, "TxsSummry/TtlCdtNtries/Sum"),
   sum_debits |-> At(m, "TxsSummry/TtlDbtNtries/Sum"), raw |-> "raw", path |-> "path"]
=============================================================================
