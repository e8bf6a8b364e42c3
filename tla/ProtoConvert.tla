----------------------------- MODULE ProtoConvert -----------------------------
(***************************************************************************)
(* The conversions of the proto crate (proto/src/convert.rs, proto/src/    *)
(* lib.rs).  A document (a transaction with its status, a block, rewards,  *)
(* the error of a transaction, a list of entries) is in its native form    *)
(* (solana_sdk, solana_transaction_status), in its protobuf form or, for   *)
(* status metadata and rewards, in the old bincode form (Stored...).  The  *)
(* machine passes one document from form to form, as often and in          *)
(* whichever order the conversions allow.                                  *)
(*                                                                         *)
(* Fields that every conversion copies are left out; of pre_ and           *)
(* post_token_balances, which are treated alike, there is one.  An option  *)
(* is a sequence of at most one element, and so is a text that may be      *)
(* empty: <<n>> is n in decimal.  A byte string that stands for a key, a   *)
(* hash or a signature has the right length, as the encoders write it.     *)
(***************************************************************************)
EXTENDS Integers, Sequences

CONSTANTS
    U8,         \* 2^8: what is a u8 in the native form is a u32 in protobuf
    U32,        \* 2^32: what is a usize in the native form is a u32 there too
    Epsilon,    \* f64::EPSILON, in the unit of ui_amount
    Datum,      \* keys, texts, error codes: what the conversions copy
    Natives,    \* the native documents to start from, per kind
    OldProtos   \* protobuf documents of older writers to start from, per kind

Kind == {"transaction", "block", "rewards", "error", "entries"}

ASSUME ConvertAssumption ==
    U8 \in Nat \ {0} /\ U32 \in Nat \ {0} /\ U8 <= U32 /\ Epsilon \in Nat

VARIABLES
    kind,   \* what the document is
    form,   \* "native", "proto" or "stored"; "failed" after an error or a panic
    value,  \* the document in that form
    orig    \* the native document it was at first

vars == <<kind, form, value, orig>>

-----------------------------------------------------------------------------
None == <<>>
Some(x) == <<x>>
Option(S) == {s \in Seq(S) : Len(s) <= 1}
UnwrapOr(option, default) == IF option = None THEN default ELSE option[1]
Each(F(_), s) == [i \in DOMAIN s |-> F(s[i])]
EachOfSome(F(_), option) == Each(LAMBDA s : Each(F, s), option)

(* Rewards: the type is an enum whose 0 is "none", the commission a text. *)
EncodeReward(r) ==
    [reward_type |-> UnwrapOr(r.reward_type, 0), commission |-> r.commission]

DecodeReward(r) ==
    [reward_type |-> IF r.reward_type \in 1..4 THEN Some(r.reward_type) ELSE None,
     commission |-> IF r.commission # <<>> /\ r.commission[1] < U8 THEN r.commission ELSE None]

EncodeRewards(rs) ==
    [rewards |-> Each(EncodeReward, rs.rewards), num_partitions |-> rs.num_partitions]

DecodeRewards(rs) ==
    [rewards |-> Each(DecodeReward, rs.rewards), num_partitions |-> rs.num_partitions]

(* StoredExtendedRewards has no num_partitions. *)
StoreRewards(rs) == [rewards |-> rs.rewards]
LoadRewards(rs) == [rewards |-> rs.rewards, num_partitions |-> None]

(* Token balances.  An amount is a text that u64::from_str reads or, like  *)
(* the default "", does not; the amount's other text, ui_amount_string, is *)
(* real_number_string_trimmed of what was read.                            *)
Unparsable == -1
Amount == Nat \cup {Unparsable}
AmountString(amount) == <<IF amount = Unparsable THEN 0 ELSE amount>>

(* UiTokenAmount::default(), for a balance without one. *)
DefaultTokenAmount == [ui_amount |-> 0, amount |-> Unparsable, ui_amount_string |-> <<>>]

EncodeBalance(b) ==
    [account_index |-> b.account_index % U32,
     ui_token_amount |-> Some([ui_amount |-> UnwrapOr(b.ui_amount, 0), amount |-> b.amount,
                               ui_amount_string |-> b.ui_amount_string])]

DecodeBalance(b) ==
    LET ui_token_amount == UnwrapOr(b.ui_token_amount, DefaultTokenAmount)
        ui_amount == ui_token_amount.ui_amount
        ui_amount_string == ui_token_amount.ui_amount_string
    IN  [account_index |-> b.account_index % U8,
         ui_amount |-> IF ui_amount > Epsilon THEN Some(ui_amount) ELSE None,
         amount |-> ui_token_amount.amount,
         ui_amount_string |-> IF ui_amount_string # <<>> THEN ui_amount_string
                              ELSE AmountString(ui_token_amount.amount)]

StoreBalance(b) ==
    [account_index |-> b.account_index, ui_amount |-> UnwrapOr(b.ui_amount, 0), amount |-> b.amount]

LoadBalance(b) ==
    [account_index |-> b.account_index, ui_amount |-> Some(b.ui_amount), amount |-> b.amount,
     ui_amount_string |-> AmountString(b.amount)]

EncodeInner(ii) == [index |-> ii.index % U32, stack_height |-> ii.stack_height]
DecodeInner(ii) == [index |-> ii.index % U8, stack_height |-> ii.stack_height]

-----------------------------------------------------------------------------
(* Status metadata.  Protobuf has no optional lists: inner instructions,   *)
(* logs and return data carry a flag for None, balances and rewards do not. *)

(* Fault: a flag is set for an empty list as well. *)
EncodeMetaEmptyIsNone(m) ==
    [err |-> m.status,
     inner_instructions |-> Each(EncodeInner, UnwrapOr(m.inner_instructions, <<>>)),
     inner_instructions_none |-> UnwrapOr(m.inner_instructions, <<>>) = <<>>,
     log_messages |-> UnwrapOr(m.log_messages, <<>>),
     log_messages_none |-> UnwrapOr(m.log_messages, <<>>) = <<>>,
     token_balances |-> Each(EncodeBalance, UnwrapOr(m.token_balances, <<>>)),
     rewards |-> Each(EncodeReward, UnwrapOr(m.rewards, <<>>)),
     loaded_addresses |-> m.loaded_addresses,
     return_data |-> m.return_data,
     return_data_none |-> m.return_data = None]

EncodeMeta(m) ==
    [err |-> m.status,
     inner_instructions |-> Each(EncodeInner, UnwrapOr(m.inner_instructions, <<>>)),
     inner_instructions_none |-> m.inner_instructions = None,
     log_messages |-> UnwrapOr(m.log_messages, <<>>),
     log_messages_none |-> m.log_messages = None,
     token_balances |-> Each(EncodeBalance, UnwrapOr(m.token_balances, <<>>)),
     rewards |-> Each(EncodeReward, UnwrapOr(m.rewards, <<>>)),
     loaded_addresses |-> m.loaded_addresses,
     return_data |-> m.return_data,
     return_data_none |-> m.return_data = None]

DecodeMeta(m) ==
    [status |-> m.err,
     inner_instructions |-> IF m.inner_instructions_none THEN None
                            ELSE Some(Each(DecodeInner, m.inner_instructions)),
     log_messages |-> IF m.log_messages_none THEN None ELSE Some(m.log_messages),
     token_balances |-> Some(Each(DecodeBalance, m.token_balances)),
     rewards |-> Some(Each(DecodeReward, m.rewards)),
     loaded_addresses |-> m.loaded_addresses,
     return_data |-> IF m.return_data_none THEN None ELSE m.return_data]

(* The bincode form has no loaded addresses: TryFrom refuses to drop any. *)
Storable(m) == m.loaded_addresses = <<>>

StoreMeta(m) ==
    [status |-> m.status,
     inner_instructions |-> m.inner_instructions,
     log_messages |-> m.log_messages,
     token_balances |-> EachOfSome(StoreBalance, m.token_balances),
     rewards |-> m.rewards,
     return_data |-> m.return_data]

LoadMeta(m) ==
    [status |-> m.status,
     inner_instructions |-> m.inner_instructions,
     log_messages |-> m.log_messages,
     token_balances |-> EachOfSome(LoadBalance, m.token_balances),
     rewards |-> m.rewards,
     loaded_addresses |-> <<>>,
     return_data |-> m.return_data]

-----------------------------------------------------------------------------
(* Transactions and blocks.  TransactionWithStatusMeta::MissingMetadata    *)
(* holds a legacy transaction and no meta; Complete holds either kind.     *)
(* The protobuf message is absent when it or the transaction around it is. *)
EncodeMessage(msg) ==
    [header |-> Some(msg.header % U32), versioned |-> msg.versioned,
     address_table_lookups |-> IF msg.versioned THEN msg.address_table_lookups ELSE <<>>]

DecodeMessage(msg) ==
    [header |-> msg.header[1] % U8, versioned |-> msg.versioned,
     address_table_lookups |-> IF msg.versioned THEN msg.address_table_lookups ELSE <<>>]

EncodeTransaction(tx) ==
    [message |-> Some(EncodeMessage(tx.message)), meta |-> Each(EncodeMeta, tx.meta)]

DecodeTransaction(tx) ==
    [message |-> DecodeMessage(tx.message[1]), meta |-> Each(DecodeMeta, tx.meta)]

(* The expects: a transaction with its message and header is required, and *)
(* "meta is required for versioned transactions".                          *)
Decodable(tx) ==
    /\ tx.message # None
    /\ tx.message[1].header # None
    /\ tx.meta = None => ~tx.message[1].versioned

EncodeBlock(b) ==
    [transactions |-> Each(EncodeTransaction, b.transactions),
     rewards |-> Each(EncodeReward, b.rewards),
     num_partitions |-> b.num_partitions, block_height |-> b.block_height]

DecodeBlock(b) ==
    [transactions |-> Each(DecodeTransaction, b.transactions),
     rewards |-> Each(DecodeReward, b.rewards),
     num_partitions |-> b.num_partitions, block_height |-> b.block_height]

-----------------------------------------------------------------------------
(* TransactionError of transaction_by_addr.proto.  A variant goes by its   *)
(* number in the enum there; the decoder matches on numbers.               *)
InstructionErrorType == 8
Indexed == {30, 31, 35}     \* DuplicateInstruction and two with an account_index
Plain == (0..38) \ (Indexed \cup {InstructionErrorType})

Custom == 25
BorshIoError == 44
PlainInstructionError == (0..53) \ {Custom}

NoText == "no text"

EncodeInstructionError(e) ==
    [index |-> e.index % U32, error |-> e.inner,
     custom |-> IF e.inner = Custom THEN Some(e.payload) ELSE None]

(* Fault: only two of the three variants carry their index. *)
DetailsOfTwo(e) == IF e.variant \in Indexed \ {35} THEN Some(e.index % U32) ELSE None

Details(e) == IF e.variant \in Indexed THEN Some(e.index % U32) ELSE None

EncodeError(e) ==
    [transaction_error |-> e.variant,
     instruction_error |-> IF e.variant = InstructionErrorType
                           THEN Some(EncodeInstructionError(e)) ELSE None,
     transaction_details |-> Details(e)]

(* What the arms of try_from return; None is an Err. *)
DecodeError(e) ==
    LET ie == e.instruction_error[1]
        Result(index, inner, payload) ==
            Some([variant |-> e.transaction_error, index |-> index % U8,
                  inner |-> inner, payload |-> payload])
    IN  CASE e.transaction_error = InstructionErrorType /\ e.instruction_error # None ->
                 IF ie.custom # None THEN Result(ie.index, Custom, ie.custom[1])
                 ELSE IF ie.error \in PlainInstructionError THEN Result(ie.index, ie.error, NoText)
                 ELSE None
          [] e.transaction_error \in Indexed /\ e.transaction_details # None ->
                 Result(e.transaction_details[1], 0, NoText)
          [] e.transaction_error \in Plain -> Result(0, 0, NoText)
          [] OTHER -> None

(* Entries: (position, EntrySummary) to Entry, which is read back without  *)
(* its position.                                                           *)
EncodeEntries(es) ==
    [i \in DOMAIN es |-> [index |-> (i - 1) % U32, starting_transaction_index |-> es[i] % U32]]

DecodeEntries(es) == [i \in DOMAIN es |-> es[i].starting_transaction_index]

-----------------------------------------------------------------------------
(* The native documents: what the Rust types and the constructors allow.   *)
Reward == [reward_type : Option(1..4), commission : Option(0..(U8 - 1))]

Rewards == [rewards : Seq(Reward), num_partitions : Option(Nat)]

TokenBalance ==
    {b \in [account_index : 0..(U8 - 1), ui_amount : Option(Nat), amount : Amount,
            ui_amount_string : Seq(Nat)] : b.ui_amount_string = AmountString(b.amount)}

InnerInstructions == [index : 0..(U8 - 1), stack_height : Option(Nat)]

Meta ==
    [status : Option(Datum), inner_instructions : Option(Seq(InnerInstructions)),
     log_messages : Option(Seq(Datum)), token_balances : Option(Seq(TokenBalance)),
     rewards : Option(Seq(Reward)), loaded_addresses : Seq(Datum), return_data : Option(Datum)]

Message ==
    {m \in [header : 0..(U8 - 1), versioned : BOOLEAN, address_table_lookups : Seq(Datum)] :
        ~m.versioned => m.address_table_lookups = <<>>}

Transaction ==
    {tx \in [message : Message, meta : Option(Meta)] : tx.meta = None => ~tx.message.versioned}

Block ==
    [transactions : Seq(Transaction), rewards : Seq(Reward), num_partitions : Option(Nat),
     block_height : Option(Nat)]

(* A field that a variant lacks is 0 or NoText. *)
Error ==
    {e \in [variant : 0..38, index : 0..(U8 - 1), inner : 0..53, payload : Datum \cup {NoText}] :
        /\ e.variant \in Plain => e.index = 0
        /\ e.variant # InstructionErrorType => e.inner = 0
        /\ e.inner \notin {Custom, BorshIoError} => e.payload = NoText}

Native(k) ==
    CASE k = "transaction" -> Transaction
      [] k = "block" -> Block
      [] k = "rewards" -> Rewards
      [] k = "error" -> Error
      [] k = "entries" -> Seq(Nat)

(* The protobuf documents: any number may be in a number's place, and a    *)
(* message may be absent.  Older writers knew no ui_amount_string.         *)
ProtoReward == [reward_type : Int, commission : Option(Nat)]

ProtoRewards == [rewards : Seq(ProtoReward), num_partitions : Option(Nat)]

ProtoAmount ==
    {a \in [ui_amount : Nat, amount : Amount, ui_amount_string : Seq(Nat)] :
        a.ui_amount_string \in {<<>>, AmountString(a.amount)}}

ProtoBalance == [account_index : Nat, ui_token_amount : Option(ProtoAmount)]

ProtoInner == [index : Nat, stack_height : Option(Nat)]

ProtoMeta ==
    [err : Option(Datum),
     inner_instructions : Seq(ProtoInner), inner_instructions_none : BOOLEAN,
     log_messages : Seq(Datum), log_messages_none : BOOLEAN,
     token_balances : Seq(ProtoBalance), rewards : Seq(ProtoReward),
     loaded_addresses : Seq(Datum), return_data : Option(Datum), return_data_none : BOOLEAN]

ProtoMessage == [header : Option(Nat), versioned : BOOLEAN, address_table_lookups : Seq(Datum)]

ProtoTransaction == [message : Option(ProtoMessage), meta : Option(ProtoMeta)]

ProtoBlock ==
    [transactions : Seq(ProtoTransaction), rewards : Seq(ProtoReward),
     num_partitions : Option(Nat), block_height : Option(Nat)]

ProtoError ==
    [transaction_error : Int,
     instruction_error : Option([index : Nat, error : Int, custom : Option(Datum)]),
     transaction_details : Option(Nat)]

ProtoEntry == [index : 0..(U32 - 1), starting_transaction_index : 0..(U32 - 1)]

Proto(k) ==
    CASE k = "transaction" -> ProtoTransaction
      [] k = "block" -> ProtoBlock
      [] k = "rewards" -> ProtoRewards
      [] k = "error" -> ProtoError
      [] k = "entries" -> Seq(ProtoEntry)

-----------------------------------------------------------------------------
EncodeAs(k, v) ==
    CASE k = "transaction" -> EncodeTransaction(v)
      [] k = "block" -> EncodeBlock(v)
      [] k = "rewards" -> EncodeRewards(v)
      [] k = "error" -> EncodeError(v)
      [] k = "entries" -> EncodeEntries(v)

(* None: an Err or a panic. *)
DecodeAs(k, v) ==
    CASE k = "transaction" -> IF Decodable(v) THEN Some(DecodeTransaction(v)) ELSE None
      [] k = "block" -> IF \A i \in DOMAIN v.transactions : Decodable(v.transactions[i])
                        THEN Some(DecodeBlock(v)) ELSE None
      [] k = "rewards" -> Some(DecodeRewards(v))
      [] k = "error" -> DecodeError(v)
      [] k = "entries" -> Some(DecodeEntries(v))

(* What a writer made is well formed, and an old document one that is still read. *)
ASSUME NativesAssumption == \A k \in Kind : Natives[k] \subseteq Native(k)
ASSUME OldProtosAssumption ==
    \A k \in Kind : \A v \in OldProtos[k] : v \in Proto(k) /\ DecodeAs(k, v) # None

Init ==
    /\ kind \in Kind
    /\ \/ form = "native" /\ value \in Natives[kind] /\ orig = value
       \/ form = "proto" /\ value \in OldProtos[kind] /\ orig = DecodeAs(kind, value)[1]

Encode ==
    /\ form = "native"
    /\ form' = "proto"
    /\ value' = EncodeAs(kind, value)
    /\ UNCHANGED <<kind, orig>>

Decode ==
    /\ form = "proto"
    /\ form' = IF DecodeAs(kind, value) = None THEN "failed" ELSE "native"
    /\ value' = IF DecodeAs(kind, value) = None THEN value ELSE DecodeAs(kind, value)[1]
    /\ UNCHANGED <<kind, orig>>

(* To the bincode form: a transaction's metadata by TryFrom, rewards also  *)
(* from their protobuf form, through the native one.                       *)
Store ==
    /\ \/ /\ kind = "transaction" /\ form = "native" /\ value.meta # None
          /\ Storable(value.meta[1])
          /\ value' = [value EXCEPT !.meta = Each(StoreMeta, @)]
       \/ kind = "rewards" /\ form = "native" /\ value' = StoreRewards(value)
       \/ kind = "rewards" /\ form = "proto" /\ value' = StoreRewards(DecodeRewards(value))
    /\ form' = "stored"
    /\ UNCHANGED <<kind, orig>>

Loaded ==
    IF kind = "rewards" THEN LoadRewards(value) ELSE [value EXCEPT !.meta = Each(LoadMeta, @)]

Load ==
    /\ form = "stored"
    /\ form' = "native"
    /\ value' = Loaded
    /\ UNCHANGED <<kind, orig>>

(* From the bincode form straight to protobuf. *)
StoredToProto ==
    /\ form = "stored"
    /\ form' = "proto"
    /\ value' = EncodeAs(kind, Loaded)
    /\ UNCHANGED <<kind, orig>>

Next == Encode \/ Decode \/ Store \/ Load \/ StoredToProto

Spec == Init /\ [][Next]_vars

-----------------------------------------------------------------------------
(* Properties.                                                             *)

(* Lists of the same length whose elements are related, None being empty.  *)
SameList(Same(_, _), a, b) ==
    LET x == UnwrapOr(a, <<>>)
        y == UnwrapOr(b, <<>>)
    IN  Len(x) = Len(y) /\ \A i \in 1..Len(x) : Same(x[i], y[i])

SameBalance(a, b) ==
    /\ a.account_index = b.account_index
    /\ a.amount = b.amount
    /\ a.ui_amount_string = b.ui_amount_string
    /\ \/ a.ui_amount = b.ui_amount
       \/ UnwrapOr(a.ui_amount, 0) <= Epsilon /\ UnwrapOr(b.ui_amount, 0) <= Epsilon

SameMeta(a, b) ==
    /\ a.status = b.status
    /\ a.inner_instructions = b.inner_instructions
    /\ a.log_messages = b.log_messages
    /\ SameList(SameBalance, a.token_balances, b.token_balances)
    /\ UnwrapOr(a.rewards, <<>>) = UnwrapOr(b.rewards, <<>>)
    /\ a.loaded_addresses = b.loaded_addresses
    /\ a.return_data = b.return_data

SameTransaction(a, b) ==
    /\ a.message = b.message
    /\ Len(a.meta) = Len(b.meta)
    /\ \A i \in 1..Len(a.meta) : SameMeta(a.meta[i], b.meta[i])

SameBlock(a, b) ==
    /\ SameList(SameTransaction, Some(a.transactions), Some(b.transactions))
    /\ a.rewards = b.rewards
    /\ a.num_partitions = b.num_partitions
    /\ a.block_height = b.block_height

SameRewards(a, b) == a.rewards = b.rewards /\ b.num_partitions \in {a.num_partitions, None}

SameError(a, b) == b = [a EXCEPT !.payload = IF a.inner = BorshIoError THEN b.payload ELSE @]

SameStart(a, b) == a = b \/ a >= U32

(* b is a as far as a reader of a document of kind k can tell. *)
Same(k, a, b) ==
    CASE k = "transaction" -> SameTransaction(a, b)
      [] k = "block" -> SameBlock(a, b)
      [] k = "rewards" -> SameRewards(a, b)
      [] k = "error" -> SameError(a, b)
      [] k = "entries" -> SameList(SameStart, Some(a), Some(b))

(* Nothing a reader relies on is lost, whichever conversions a document    *)
(* went through and however often: what it is in its native form is what   *)
(* it was, up to None for an empty list of balances or rewards, a          *)
(* ui_amount below f64::EPSILON, num_partitions (which the bincode form    *)
(* lacks), the text of a BorshIoError and indices beyond a u32.  In        *)
(* particular None and an empty list of inner instructions or logs stay    *)
(* apart, and loaded addresses are never dropped.                          *)
Faithful == form = "native" => Same(kind, orig, value)

(* What an encoder wrote, from any native document and after any detour    *)
(* through the bincode form, a decoder reads: no error and no panic, in    *)
(* spite of the numbers without an arm, the variants that need details and *)
(* the versioned transactions that need metadata.                          *)
NeverFails == form # "failed"

(* The inductive invariant behind both: whatever its form, the document    *)
(* can be brought back to a well-formed native one that is still the same. *)
StillThere(v) == v \in Native(kind) /\ Same(kind, orig, v)

ConvertInv ==
    /\ kind \in Kind
    /\ orig \in Native(kind)
    /\ \/ form = "native" /\ StillThere(value)
       \/ /\ form = "proto"
          /\ DecodeAs(kind, value) # None
          /\ StillThere(DecodeAs(kind, value)[1])
       \/ form = "stored" /\ kind \in {"transaction", "rewards"} /\ StillThere(Loaded)

=============================================================================
