---------------------------- MODULE MCProtoConvert ----------------------------
(* Small documents for TLC: every option is absent, empty and present, every *)
(* number is 0, ordinary and at the limit of its type.                     *)
EXTENDS ProtoConvert

Options(S) == {None} \cup {Some(x) : x \in S}
Lists(S) == {<<>>} \cup {<<x>> : x \in S}

MCDatum == {"err", "log", "key", "data", "0", "7", "text"}

Bytes == {0, U8 - 1}
MCReward == [reward_type : Options(1..4), commission : Options(Bytes)]

(* The amounts are nothing, below Epsilon and above it. *)
MCBalance ==
    {[account_index |-> i, ui_amount |-> ui, amount |-> a, ui_amount_string |-> <<a>>] :
        i \in Bytes, a \in 0..2, ui \in {None}} \cup
    {[account_index |-> U8 - 1, ui_amount |-> Some(a), amount |-> a, ui_amount_string |-> <<a>>] :
        a \in 0..2}

MCInner == {[index |-> U8 - 1, stack_height |-> None], [index |-> 0, stack_height |-> Some(2)]}

MCMeta ==
    [status : {None, Some("err")}, inner_instructions : Options(Lists(MCInner)),
     log_messages : Options(Lists({"log"})), token_balances : Options(Lists(MCBalance)),
     rewards : Options(Lists({[reward_type |-> None, commission |-> Some(0)]})),
     loaded_addresses : Lists({"key"}), return_data : Options({"data"})]

MCMessage ==
    {m \in [header : Bytes, versioned : BOOLEAN, address_table_lookups : Lists({"key"})] :
        m.versioned \/ m.address_table_lookups = <<>>}

(* A few messages with every metadata, and every message without. *)
MCTransaction ==
    {[message |-> m, meta |-> Some(meta)] : m \in {x \in MCMessage : x.header # 0}, meta \in MCMeta}
    \cup {[message |-> m, meta |-> None] : m \in {x \in MCMessage : ~x.versioned}}

SmallMeta ==
    [status |-> None, inner_instructions |-> None, log_messages |-> Some(<<>>),
     token_balances |-> None, rewards |-> None, loaded_addresses |-> <<"key">>,
     return_data |-> None]

SmallTransaction ==
    {[message |-> m, meta |-> Some(SmallMeta)] : m \in MCMessage}
    \cup {[message |-> m, meta |-> None] : m \in {x \in MCMessage : ~x.versioned}}

MCBlock ==
    [transactions : {<<>>} \cup {<<a, b>> : a, b \in SmallTransaction},
     rewards : Lists(MCReward), num_partitions : Options({0, 3}), block_height : Options({0})]

MCError ==
    [variant : Plain, index : {0}, inner : {0}, payload : {NoText}] \cup
    [variant : Indexed, index : Bytes, inner : {0}, payload : {NoText}] \cup
    [variant : {InstructionErrorType}, index : Bytes, inner : PlainInstructionError,
     payload : {NoText}] \cup
    [variant : {InstructionErrorType}, index : Bytes, inner : {Custom}, payload : {"0", "7"}] \cup
    [variant : {InstructionErrorType}, index : Bytes, inner : {BorshIoError}, payload : {"text"}]

MCNatives == [k \in Kind |->
    CASE k = "transaction" -> MCTransaction
      [] k = "block" -> MCBlock
      [] k = "rewards" -> [rewards : Lists(MCReward), num_partitions : Options({0, 3})]
      [] k = "error" -> MCError
      [] k = "entries" -> {<<>>} \cup {<<a, b>> : a, b \in {0, U32 - 1, U32, U32 + 1}}]

(* Written before there were flags, return data and ui_amount_string, with *)
(* a balance left out, or with numbers beyond the native types and texts   *)
(* that are no number, which the decoders still read.                      *)
OldMessage == [header |-> Some(U8 + 1), versioned |-> FALSE, address_table_lookups |-> <<"key">>]

OldAmount ==
    {[ui_amount |-> a, amount |-> a, ui_amount_string |-> <<>>] : a \in 0..2}
    \cup {[ui_amount |-> 2, amount |-> Unparsable, ui_amount_string |-> s] : s \in {<<>>, <<0>>}}

OldBalance == [account_index : {1}, ui_token_amount : Options(OldAmount)]

OldMeta ==
    [err : {None}, inner_instructions : {<<>>, <<[index |-> U8, stack_height |-> None]>>},
     inner_instructions_none : {FALSE}, log_messages : {<<>>}, log_messages_none : {FALSE},
     token_balances : Lists(OldBalance), rewards : {<<>>}, loaded_addresses : {<<>>},
     return_data : {None}, return_data_none : {FALSE}]

OldRewards == [reward_type : {-1, 0, 4, 5}, commission : {None, Some(U8 - 1), Some(U8)}]

OldInstructionError ==
    {[index |-> U8 - 1, error |-> 0, custom |-> Some("7")],
     [index |-> U8, error |-> BorshIoError, custom |-> None]}

MCOldProtos == [k \in Kind |->
    CASE k = "transaction" -> [message : {Some(OldMessage)}, meta : {None} \cup {Some(m) : m \in OldMeta}]
      [] k = "rewards" -> [rewards : Lists(OldRewards), num_partitions : {None}]
      [] k = "error" ->
             [transaction_error : {InstructionErrorType},
              instruction_error : {Some(e) : e \in OldInstructionError},
              transaction_details : {None}] \cup
             [transaction_error : {0} \cup Indexed, instruction_error : {None},
              transaction_details : {Some(U8 - 1), Some(U8)}]
      [] OTHER -> {}]
=============================================================================
