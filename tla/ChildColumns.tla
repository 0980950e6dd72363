---------------------------- MODULE ChildColumns ----------------------------
(***************************************************************************)
(* The columns that the exploders append (lines.rs, entries.rs), in the    *)
(* form of MtColumns.                                                      *)
(***************************************************************************)
EXTENDS Cols

LinesSchema == <<
  <<"line_idx", "Int32", {"ordinal"}>>, <<"value_date", "Date32", {"61/1"}>>,
  <<"entry_date", "Date32", {"61/2"}>>, <<"credit_debit", "Utf8", {"61/3/mark"}>>,
  <<"funds_code", "Utf8", {"61/3/funds"}>>, <<"amount", "Decimal128", {"61/4"}>>,
  <<"transaction_type_id", "Utf8", {"61/5"}>>, <<"customer_ref", "Utf8", {"61/6"}>>,
  <<"bank_ref", "Utf8", {"61/6//"}>>, <<"supplementary", "Utf8", {"61/7"}>>,
  <<"narrative", "Utf8", {"86"}>>, <<"narrative_struct", "Map", {"86/subfields"}>> >>

\* Bug: two references in the wrong order.
LinesColumnsSwapped ==
     int_col(<<"line_idx">>) \o date_col(<<"value_date", "entry_date">>)
  \o str_col(<<"credit_debit", "funds_code">>) \o dec_col(<<"amount">>)
  \o str_col(<<"transaction_type_id", "bank_ref", "customer_ref", "supplementary",
               "narrative">>)
  \o map_str_col(<<"narrative_struct">>)

LinesColumns ==
     int_col(<<"line_idx">>) \o date_col(<<"value_date", "entry_date">>)
  \o str_col(<<"credit_debit", "funds_code">>) \o dec_col(<<"amount">>)
  \o str_col(<<"transaction_type_id", "customer_ref", "bank_ref", "supplementary",
               "narrative">>)
  \o map_str_col(<<"narrative_struct">>)

\* How the subfields are told apart is modelled by StatementLine.
LinesRow(m) ==
  [line_idx |-> "ordinal", value_date |-> At(m, "61/1"), entry_date |-> At(m, "61/2"),
   credit_debit |-> At(m, "61/3/mark"), funds_code |-> At(m, "61/3/funds"),
   amount |-> At(m, "61/4"), transaction_type_id |-> At(m, "61/5"),
   customer_ref |-> At(m, "61/6"), bank_ref |-> At(m, "61/6//"),
   supplementary |-> At(m, "61/7"), narrative |-> At(m, "86"),
   narrative_struct |-> At(m, "86/subfields")]

\* The people and agents of a transaction, by the side they are on.
PartyOf(side) == "RltdPties/" \o side \o "/Nm"
IbanAt(side)  == "RltdPties/" \o side \o "Acct/Id/IBAN"
AgentOf(side) == "RltdAgts/" \o side \o "Agt/FinInstnId/BICFI"
Side(side)    == {PartyOf(side), IbanAt(side), AgentOf(side)}

\* (The comment of value_date names Dt only; the code looks at DtTm as well.)
EntriesSchema == <<
  <<"entry_idx", "Int32", {"ordinal"}>>, <<"tx_idx", "Int32", {"ordinal"}>>,
  <<"amount", "Decimal128", {"Amt"}>>, <<"ccy", "Utf8", {"Amt/@Ccy"}>>,
  <<"credit_debit", "Utf8", {"CdtDbtInd"}>>, <<"reversal", "Boolean", {"RvslInd"}>>,
  <<"status", "Utf8", {"Sts/Cd", "Sts"}>>,
  <<"booking_date", "Date32", {"BookgDt/Dt", "BookgDt/DtTm"}>>,
  <<"value_date", "Date32", {"ValDt/Dt", "ValDt/DtTm"}>>,
  <<"account_servicer_ref", "Utf8", {"AcctSvcrRef"}>>,
  <<"bank_tx_domain", "Utf8", {"BkTxCd/Domn/Cd"}>>,
  <<"bank_tx_family", "Utf8", {"BkTxCd/Domn/Fmly/Cd"}>>,
  <<"bank_tx_subfamily", "Utf8", {"BkTxCd/Domn/Fmly/SubFmlyCd"}>>,
  <<"bank_tx_proprietary", "Utf8", {"BkTxCd/Prtry/Cd"}>>,
  <<"end_to_end_id", "Utf8", {"Refs/EndToEndId"}>>, <<"tx_id", "Utf8", {"Refs/TxId"}>>,
  <<"uetr", "Utf8", {"Refs/UETR"}>>, <<"instr_id", "Utf8", {"Refs/InstrId"}>>,
  <<"mandate_id", "Utf8", {"Refs/MndtId"}>>,
  <<"counterparty_name", "Utf8", {PartyOf("Dbtr"), PartyOf("Cdtr")}>>,
  <<"counterparty_iban", "Utf8", {IbanAt("Dbtr"), IbanAt("Cdtr")}>>,
  <<"counterparty_agent_bic", "Utf8", {AgentOf("Dbtr"), AgentOf("Cdtr")}>>,
  <<"remittance_unstructured", "List", {"RmtInf/Ustrd"}>>,
  <<"remittance_struct_ref", "Utf8", {"RmtInf/Strd/CdtrRefInf/Ref"}>>,
  <<"addtl_entry_info", "Utf8", {"AddtlNtryInf"}>> >>

EntriesColumns ==
     int_col(<<"entry_idx", "tx_idx">>) \o dec_col(<<"amount">>)
  \o str_col(<<"ccy", "credit_debit">>) \o bool_col(<<"reversal">>) \o str_col(<<"status">>)
  \o date_col(<<"booking_date", "value_date">>)
  \o str_col(<<"account_servicer_ref", "bank_tx_domain", "bank_tx_family",
               "bank_tx_subfamily", "bank_tx_proprietary", "end_to_end_id", "tx_id", "uetr",
               "instr_id", "mandate_id", "counterparty_name", "counterparty_iban",
               "counterparty_agent_bic">>)
  \o list_str_col(<<"remittance_unstructured">>)
  \o str_col(<<"remittance_struct_ref", "addtl_entry_info">>)

\* The counterparty of a credit is its debtor, of anything else its creditor.
EntriesRow(m) ==
  LET side == IF "CdtDbtInd=CRDT" \in m THEN "Dbtr" ELSE "Cdtr"
  IN [entry_idx |-> "ordinal", tx_idx |-> "ordinal", amount |-> At(m, "Amt"),
      ccy |-> At(m, "Amt/@Ccy"), credit_debit |-> At(m, "CdtDbtInd"),
      reversal |-> At(m, "RvslInd"), status |-> OrElse(At(m, "Sts/Cd"), At(m, "Sts")),
      booking_date |-> OrElse(At(m, "BookgDt/Dt"), At(m, "BookgDt/DtTm")),
      value_date |-> OrElse(At(m, "ValDt/Dt"), At(m, "ValDt/DtTm")),
      account_servicer_ref |-> At(m, "AcctSvcrRef"),
      bank_tx_domain |-> At(m, "BkTxCd/Domn/Cd"),
      bank_tx_family |-> At(m, "BkTxCd/Domn/Fmly/Cd"),
      bank_tx_subfamily |-> At(m, "BkTxCd/Domn/Fmly/SubFmlyCd"),
      bank_tx_proprietary |-> At(m, "BkTxCd/Prtry/Cd"),
      end_to_end_id |-> At(m, "Refs/EndToEndId"), tx_id |-> At(m, "Refs/TxId"),
      uetr |-> At(m, "Refs/UETR"), instr_id |-> At(m, "Refs/InstrId"),
      mandate_id |-> At(m, "Refs/MndtId"), counterparty_name |-> At(m, PartyOf(side)),
      counterparty_iban |-> At(m, IbanAt(side)), counterparty_agent_bic |-> At(m, AgentOf(side)),
      remittance_unstructured |-> At(m, "RmtInf/Ustrd"),
      remittance_struct_ref |-> At(m, "RmtInf/Strd/CdtrRefInf/Ref"),
      addtl_entry_info |-> At(m, "AddtlNtryInf")]
=============================================================================
