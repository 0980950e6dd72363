------------------------------ MODULE MtColumns ------------------------------
(***************************************************************************)
(* The columns of the MT tables, as they are written down three times: the *)
(* schema of a table (name, Arrow type, and the places that the comment of *)
(* the column gives), the builders of `build`, which are put under the     *)
(* schema by position, and the row that the parser makes of a message.     *)
(***************************************************************************)
EXTENDS Cols

Mt103Schema == <<
  <<"senders_ref", "Utf8", {"20"}>>, <<"bank_op_code", "Utf8", {"23B"}>>,
  <<"instruction_codes", "List", {"23E"}>>,
  <<"value_date", "Date32", {"32A/date"}>>, <<"ccy", "Utf8", {"32A/ccy"}>>,
  <<"amount", "Decimal128", {"32A/amount"}>>,
  <<"instructed_ccy", "Utf8", {"33B/ccy"}>>,
  <<"instructed_amount", "Decimal128", {"33B/amount"}>>,
  <<"exchange_rate", "Decimal128", {"36"}>>,
  <<"ordering_customer", "Utf8", {"50a/name"}>>,
  <<"ordering_customer_acct", "Utf8", {"50a/account"}>>,
  <<"ordering_customer_bic", "Utf8", {"50a/bic"}>>,
  <<"ordering_institution", "Utf8", {"52a"}>>,
  <<"senders_correspondent", "Utf8", {"53a"}>>,
  <<"receivers_correspondent", "Utf8", {"54a"}>>,
  <<"third_reimbursement_inst", "Utf8", {"55a"}>>,
  <<"intermediary_inst", "Utf8", {"56a"}>>, <<"account_with_inst", "Utf8", {"57a"}>>,
  <<"beneficiary", "Utf8", {"59a/name"}>>,
  <<"beneficiary_acct", "Utf8", {"59a/account"}>>,
  <<"beneficiary_bic", "Utf8", {"59a/bic"}>>,
  <<"remittance_info", "Utf8", {"70"}>>, <<"details_of_charges", "Utf8", {"71A"}>>,
  <<"senders_charges", "List", {"71F"}>>, <<"receivers_charges", "Utf8", {"71G"}>>,
  <<"sender_to_receiver_info", "Utf8", {"72"}>>,
  <<"end_to_end_id", "Utf8", {"72/token", "121"}>>, <<"uetr", "Utf8", {"121"}>>,
  <<"raw", "Utf8", {"raw"}>>, <<"path", "Utf8", {"path"}>> >>

Mt103Columns ==
     str_col(<<"senders_ref", "bank_op_code">>) \o list_str_col(<<"instruction_codes">>)
  \o date_col(<<"value_date">>) \o str_col(<<"ccy">>) \o dec_col(<<"amount">>)
  \o str_col(<<"instructed_ccy">>) \o dec_col(<<"instructed_amount", "exchange_rate">>)
  \o str_col(<<"ordering_customer", "ordering_customer_acct", "ordering_customer_bic",
           "ordering_institution", "senders_correspondent", "receivers_correspondent",
           "third_reimbursement_inst", "intermediary_inst", "account_with_inst",
           "beneficiary", "beneficiary_acct", "beneficiary_bic", "remittance_info",
           "details_of_charges">>)
  \o list_str_col(<<"senders_charges">>)
  \o str_col(<<"receivers_charges", "sender_to_receiver_info", "end_to_end_id", "uetr",
           "raw", "path">>)

Mt103Row(m) ==
  [senders_ref |-> At(m, "20"), bank_op_code |-> At(m, "23B"),
   instruction_codes |-> At(m, "23E"), value_date |-> At(m, "32A/date"),
   ccy |-> At(m, "32A/ccy"), amount |-> At(m, "32A/amount"),
   instructed_ccy |-> At(m, "33B/ccy"), instructed_amount |-> At(m, "33B/amount"),
   exchange_rate |-> At(m, "36"), ordering_customer |-> At(m, "50a/name"),
   ordering_customer_acct |-> At(m, "50a/account"),
   ordering_customer_bic |-> At(m, "50a/bic"), ordering_institution |-> At(m, "52a"),
   senders_correspondent |-> At(m, "53a"), receivers_correspondent |-> At(m, "54a"),
   third_reimbursement_inst |-> At(m, "55a"), intermediary_inst |-> At(m, "56a"),
   account_with_inst |-> At(m, "57a"), beneficiary |-> At(m, "59a/name"),
   beneficiary_acct |-> At(m, "59a/account"), beneficiary_bic |-> At(m, "59a/bic"),
   remittance_info |-> At(m, "70"), details_of_charges |-> At(m, "71A"),
   senders_charges |-> At(m, "71F"), receivers_charges |-> At(m, "71G"),
   sender_to_receiver_info |-> At(m, "72"),
   end_to_end_id |-> OrElse(At(m, "72/token"), At(m, "121")), uetr |-> At(m, "121"),
   raw |-> "raw", path |-> "path"]

\* What parse_party finds in the field of a party.
Customer(tag) == {tag \o "/name", tag \o "/account", tag \o "/bic"}

Mt202Schema == <<
  <<"transaction_ref", "Utf8", {"20"}>>, <<"related_ref", "Utf8", {"21"}>>,
  <<"value_date", "Date32", {"32A/date"}>>, <<"ccy", "Utf8", {"32A/ccy"}>>,
  <<"amount", "Decimal128", {"32A/amount"}>>, <<"ordering_institution", "Utf8", {"52a"}>>,
  <<"senders_correspondent", "Utf8", {"53a"}>>,
  <<"receivers_correspondent", "Utf8", {"54a"}>>, <<"intermediary", "Utf8", {"56a"}>>,
  <<"account_with_inst", "Utf8", {"57a"}>>, <<"beneficiary_inst", "Utf8", {"58a"}>>,
  <<"sender_to_receiver_info", "Utf8", {"72"}>>, <<"is_cover", "Boolean", {"yes", "no"}>>,
  <<"cov_ordering_customer", "Utf8", Customer("50a")>>,
  <<"cov_beneficiary", "Utf8", Customer("59a")>>,
  <<"cov_remittance_info", "Utf8", {"70"}>>, <<"uetr", "Utf8", {"121"}>>,
  <<"raw", "Utf8", {"raw"}>>, <<"path", "Utf8", {"path"}>> >>

Mt202Columns ==
     str_col(<<"transaction_ref", "related_ref">>) \o date_col(<<"value_date">>)
  \o str_col(<<"ccy">>) \o dec_col(<<"amount">>)
  \o str_col(<<"ordering_institution", "senders_correspondent", "receivers_correspondent",
           "intermediary", "account_with_inst", "beneficiary_inst",
           "sender_to_receiver_info">>)
  \o bool_col(<<"is_cover">>)
  \o str_col(<<"cov_ordering_customer", "cov_beneficiary", "cov_remittance_info", "uetr",
           "raw", "path">>)

Mt202Row(m) ==
  LET Party(tag) == OrElse(At(m, tag \o "/name"),
                      OrElse(At(m, tag \o "/account"), At(m, tag \o "/bic")))
  IN [transaction_ref |-> At(m, "20"), related_ref |-> At(m, "21"),
      value_date |-> At(m, "32A/date"), ccy |-> At(m, "32A/ccy"),
      amount |-> At(m, "32A/amount"), ordering_institution |-> At(m, "52a"),
      senders_correspondent |-> At(m, "53a"), receivers_correspondent |-> At(m, "54a"),
      intermediary |-> At(m, "56a"), account_with_inst |-> At(m, "57a"),
      beneficiary_inst |-> At(m, "58a"), sender_to_receiver_info |-> At(m, "72"),
      is_cover |-> YesNo(m \cap (Customer("50a") \cup Customer("59a") \cup {"50a", "59a"}) # {}),
      cov_ordering_customer |-> Party("50a"), cov_beneficiary |-> Party("59a"),
      cov_remittance_info |-> At(m, "70"), uetr |-> At(m, "121"),
      raw |-> "raw", path |-> "path"]

\* A balance is in one of two fields; what parse_balance finds in a field.
Opening == [final |-> "60F", intermediate |-> "60M"]
Closing == [final |-> "62F", intermediate |-> "62M"]
Balance(tag) == {tag, tag \o "/dc", tag \o "/date", tag \o "/ccy", tag \o "/amount"}
EitherOf(balance, part) == {balance.final \o part, balance.intermediate \o part}

Mt940Schema == <<
  <<"statement_idx", "Int32", {"ordinal"}>>, <<"transaction_ref", "Utf8", {"20"}>>,
  <<"related_ref", "Utf8", {"21"}>>, <<"account", "Utf8", {"25"}>>,
  <<"statement_no", "Utf8", {"28C/statement"}>>, <<"sequence_no", "Utf8", {"28C/sequence"}>>,
  <<"opening_balance", "Decimal128", EitherOf(Opening, "/amount")>>,
  <<"opening_balance_dc", "Utf8", EitherOf(Opening, "/dc")>>,
  <<"opening_balance_date", "Date32", EitherOf(Opening, "/date")>>,
  <<"opening_is_intermediate", "Boolean", {"yes", "no"}>>,
  <<"ccy", "Utf8", EitherOf(Opening, "/ccy") \cup EitherOf(Closing, "/ccy")>>,
  <<"closing_balance", "Decimal128", EitherOf(Closing, "/amount")>>,
  <<"closing_balance_dc", "Utf8", EitherOf(Closing, "/dc")>>,
  <<"closing_balance_date", "Date32", EitherOf(Closing, "/date")>>,
  <<"closing_available", "Decimal128", {"64"}>>, <<"forward_available", "Decimal128", {"65"}>>,
  <<"line_count", "Int32", {"line_count"}>>,
  <<"raw", "Utf8", {"raw"}>>, <<"path", "Utf8", {"path"}>> >>

Mt940Columns ==
     int_col(<<"statement_idx">>)
  \o str_col(<<"transaction_ref", "related_ref", "account", "statement_no", "sequence_no">>)
  \o dec_col(<<"opening_balance">>) \o str_col(<<"opening_balance_dc">>)
  \o date_col(<<"opening_balance_date">>) \o bool_col(<<"opening_is_intermediate">>)
  \o str_col(<<"ccy">>) \o dec_col(<<"closing_balance">>) \o str_col(<<"closing_balance_dc">>)
  \o date_col(<<"closing_balance_date">>)
  \o dec_col(<<"closing_available", "forward_available">>) \o int_col(<<"line_count">>)
  \o str_col(<<"raw", "path">>)

\* Bug: each part of a balance is looked for in both fields.
BalancePartEither(m, balance, part) ==
  OrElse(At(m, balance.final \o part), At(m, balance.intermediate \o part))

\* Of a final and an intermediate balance the final one is read, whole.
BalancePart(m, balance, part) ==
  At(m, (IF m \cap Balance(balance.final) # {} THEN balance.final ELSE balance.intermediate)
        \o part)

Mt940Row(m) ==
  [statement_idx |-> "ordinal", transaction_ref |-> At(m, "20"),
   related_ref |-> At(m, "21"), account |-> At(m, "25"),
   statement_no |-> At(m, "28C/statement"), sequence_no |-> At(m, "28C/sequence"),
   opening_balance |-> BalancePart(m, Opening, "/amount"),
   opening_balance_dc |-> BalancePart(m, Opening, "/dc"),
   opening_balance_date |-> BalancePart(m, Opening, "/date"),
   opening_is_intermediate |->
     YesNo(m \cap Balance("60F") = {} /\ m \cap Balance("60M") # {}),
   ccy |-> OrElse(BalancePart(m, Opening, "/ccy"), BalancePart(m, Closing, "/ccy")),
   closing_balance |-> BalancePart(m, Closing, "/amount"),
   closing_balance_dc |-> BalancePart(m, Closing, "/dc"),
   closing_balance_date |-> BalancePart(m, Closing, "/date"),
   closing_available |-> At(m, "64"), forward_available |-> At(m, "65"),
   line_count |-> "line_count", raw |-> "raw", path |-> "path"]

Mt942Schema == <<
  <<"statement_idx", "Int32", {"ordinal"}>>, <<"transaction_ref", "Utf8", {"20"}>>,
  <<"related_ref", "Utf8", {"21"}>>, <<"account", "Utf8", {"25"}>>,
  <<"statement_no", "Utf8", {"28C/statement"}>>, <<"sequence_no", "Utf8", {"28C/sequence"}>>,
  <<"floor_limit_debit", "Decimal128", {"34F/debit"}>>,
  <<"floor_limit_credit", "Decimal128", {"34F/credit"}>>,
  <<"ccy", "Utf8", {"34F/ccy", "90D/ccy", "90C/ccy"}>>,
  <<"datetime_indication", "Timestamp", {"13D"}>>, <<"debit_count", "Int32", {"90D/count"}>>,
  <<"debit_sum", "Decimal128", {"90D/sum"}>>, <<"credit_count", "Int32", {"90C/count"}>>,
  <<"credit_sum", "Decimal128", {"90C/sum"}>>, <<"line_count", "Int32", {"line_count"}>>,
  <<"raw", "Utf8", {"raw"}>>, <<"path", "Utf8", {"path"}>> >>

\* Bug: two builders in the wrong order.
Mt942ColumnsSwapped ==
     int_col(<<"statement_idx">>)
  \o str_col(<<"transaction_ref", "related_ref", "account", "statement_no", "sequence_no">>)
  \o dec_col(<<"floor_limit_debit", "floor_limit_credit">>) \o ts_col(<<"datetime_indication">>)
  \o str_col(<<"ccy">>) \o int_col(<<"debit_count">>) \o dec_col(<<"debit_sum">>)
  \o int_col(<<"credit_count">>) \o dec_col(<<"credit_sum">>) \o int_col(<<"line_count">>)
  \o str_col(<<"raw", "path">>)

Mt942Columns ==
     int_col(<<"statement_idx">>)
  \o str_col(<<"transaction_ref", "related_ref", "account", "statement_no", "sequence_no">>)
  \o dec_col(<<"floor_limit_debit", "floor_limit_credit">>) \o str_col(<<"ccy">>)
  \o ts_col(<<"datetime_indication">>) \o int_col(<<"debit_count">>) \o dec_col(<<"debit_sum">>)
  \o int_col(<<"credit_count">>) \o dec_col(<<"credit_sum">>) \o int_col(<<"line_count">>)
  \o str_col(<<"raw", "path">>)

Mt942Row(m) ==
  [statement_idx |-> "ordinal", transaction_ref |-> At(m, "20"),
   related_ref |-> At(m, "21"), account |-> At(m, "25"),
   statement_no |-> At(m, "28C/statement"), sequence_no |-> At(m, "28C/sequence"),
   floor_limit_debit |-> At(m, "34F/debit"), floor_limit_credit |-> At(m, "34F/credit"),
   ccy |-> OrElse(At(m, "34F/ccy"), OrElse(At(m, "90D/ccy"), At(m, "90C/ccy"))),
   datetime_indication |-> At(m, "13D"), debit_count |-> At(m, "90D/count"),
   debit_sum |-> At(m, "90D/sum"), credit_count |-> At(m, "90C/count"),
   credit_sum |-> At(m, "90C/sum"), line_count |-> "line_count",
   raw |-> "raw", path |-> "path"]
=============================================================================
