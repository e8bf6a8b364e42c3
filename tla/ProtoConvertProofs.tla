-------------------------- MODULE ProtoConvertProofs --------------------------
(***************************************************************************)
(* The conversions of the proto crate, for documents of any size and       *)
(* integers of any width.  The lemmas go up from the smallest parts: for   *)
(* each there is what a decoder makes of any protobuf value, what it makes *)
(* of what the encoder wrote, and that "the same" is transitive.           *)
(***************************************************************************)
EXTENDS ProtoConvert, TLAPS

(* An option is empty or holds one value. *)
LEMMA OptionCases ==
    ASSUME NEW S, NEW o \in Option(S)
    PROVE  o = None \/ \E x \in S : o = Some(x)
<1>1. o \in Seq(S) /\ Len(o) <= 1
  BY DEF Option
<1>4. Len(o) = 0 \/ Len(o) = 1
  <2> DEFINE n == Len(o)
  <2>1. n \in Nat /\ n <= 1
    BY <1>1
  <2> HIDE DEF n
  <2>2. n = 0 \/ n = 1
    BY <2>1
  <2> QED
    BY <2>2 DEF n
<1>2. CASE Len(o) = 0
  BY <1>1, <1>2 DEF None
<1>3. CASE Len(o) = 1
  <2>1. o[1] \in S /\ o = <<o[1]>>
    BY <1>1, <1>3
  <2> QED
    BY <2>1 DEF Some
<1> QED
  BY <1>2, <1>3, <1>4

(* None and Some(x) are options, and differ. *)
LEMMA OptionTypes ==
    ASSUME NEW S
    PROVE  None \in Option(S) /\ \A x \in S : Some(x) \in Option(S) /\ Some(x)[1] = x /\ Some(x) # None
  BY DEF Option, None, Some

(* A u8 survives as a u32, and whatever comes as a u32 is read as a u8. *)
LEMMA NarrowNumbers ==
    /\ \A i \in 0..(U8 - 1) : i % U32 = i /\ i % U8 = i
    /\ \A i \in Nat : i % U8 \in 0..(U8 - 1) /\ i % U32 \in Nat
    /\ \A i \in Nat : i < U32 => i % U32 = i
  BY ConvertAssumption

-----------------------------------------------------------------------------
(* Rewards. *)

(* Any protobuf reward is read as a well-formed one. *)
LEMMA RewardRead ==
    ASSUME NEW r \in ProtoReward
    PROVE  DecodeReward(r) \in Reward
<1>1. r.reward_type \in Int /\ r.commission \in Option(Nat)
  BY DEF ProtoReward
<1>2. (IF r.reward_type \in 1..4 THEN Some(r.reward_type) ELSE None) \in Option(1..4)
  BY <1>1, OptionTypes
<1>3. (IF r.commission # <<>> /\ r.commission[1] < U8 THEN r.commission ELSE None)
        \in Option(0..(U8 - 1))
  <2>1. CASE r.commission = None
    BY <2>1, OptionTypes DEF None
  <2>2. ASSUME NEW n \in Nat, r.commission = Some(n)
        PROVE  <1>3!:
    BY <2>2, OptionTypes, ConvertAssumption DEF None, Some
  <2> QED
    BY <1>1, <2>1, <2>2, OptionCases
<1> QED
  BY <1>2, <1>3 DEF DecodeReward, Reward

(* A reward survives: 0 stands for no type, and a u8 commission parses. *)
LEMMA RewardRound ==
    ASSUME NEW r \in Reward
    PROVE  EncodeReward(r) \in ProtoReward /\ DecodeReward(EncodeReward(r)) = r
<1>1. r.reward_type \in Option(1..4) /\ r.commission \in Option(0..(U8 - 1))
  BY DEF Reward
<1>2. r = [reward_type |-> r.reward_type, commission |-> r.commission]
  BY DEF Reward
<1> DEFINE t == UnwrapOr(r.reward_type, 0)
<1>3. t \in Int /\ (IF t \in 1..4 THEN Some(t) ELSE None) = r.reward_type
  <2>1. CASE r.reward_type = None
    BY <2>1 DEF UnwrapOr
  <2>2. ASSUME NEW n \in 1..4, r.reward_type = Some(n)
        PROVE  <1>3!:
    BY <2>2 DEF UnwrapOr, None, Some
  <2> QED
    BY <1>1, <2>1, <2>2, OptionCases
<1>4. /\ r.commission \in Option(Nat)
      /\ (IF r.commission # <<>> /\ r.commission[1] < U8 THEN r.commission ELSE None)
             = r.commission
  <2>1. CASE r.commission = None
    BY <2>1, OptionTypes DEF None
  <2>2. ASSUME NEW n \in 0..(U8 - 1), r.commission = Some(n)
        PROVE  <1>4!:
    BY <2>2, OptionTypes, ConvertAssumption DEF None, Some
  <2> QED
    BY <1>1, <2>1, <2>2, OptionCases
<1> HIDE DEF t
<1>5. EncodeReward(r) = [reward_type |-> t, commission |-> r.commission]
  BY DEF EncodeReward, t
<1> QED
  BY <1>2, <1>3, <1>4, <1>5 DEF ProtoReward, DecodeReward

(* The same for lists of rewards. *)
LEMMA RewardListRead ==
    ASSUME NEW s \in Seq(ProtoReward)
    PROVE  Each(DecodeReward, s) \in Seq(Reward)
  BY RewardRead DEF Each

(* A list of rewards survives. *)
LEMMA RewardListRound ==
    ASSUME NEW s \in Seq(Reward)
    PROVE  /\ Each(EncodeReward, s) \in Seq(ProtoReward)
           /\ Each(DecodeReward, Each(EncodeReward, s)) = s
  BY RewardRound DEF Each

-----------------------------------------------------------------------------
(* Token balances. *)

(* unwrap_or on a value that is there. *)
LEMMA UnwrapSome == \A x, y : UnwrapOr(Some(x), y) = x
  BY DEF UnwrapOr, None, Some

(* The text of an amount is never empty, whether or not it is a number. *)
LEMMA AmountText ==
    ASSUME NEW a \in Amount
    PROVE  AmountString(a) \in Seq(Nat) /\ AmountString(a) # <<>>
<1>1. (IF a = Unparsable THEN 0 ELSE a) \in Nat
  BY DEF Amount
<1> QED
  BY <1>1 DEF AmountString

(* The fields of a balance. *)
LEMMA BalanceFields ==
    ASSUME NEW b \in TokenBalance
    PROVE  /\ b.account_index \in 0..(U8 - 1)
           /\ b.ui_amount \in Option(Nat)
           /\ b.amount \in Amount
           /\ b.ui_amount_string = AmountString(b.amount)
           /\ UnwrapOr(b.ui_amount, 0) \in Nat
<1>1. /\ b.account_index \in 0..(U8 - 1)
      /\ b.ui_amount \in Option(Nat)
      /\ b.amount \in Amount
      /\ b.ui_amount_string = AmountString(b.amount)
  BY DEF TokenBalance
<1>2. ASSUME NEW n \in Nat, b.ui_amount = Some(n)
      PROVE  UnwrapOr(b.ui_amount, 0) \in Nat
  BY <1>2 DEF UnwrapOr, None, Some
<1>3. CASE b.ui_amount = None
  BY <1>1, <1>3 DEF UnwrapOr
<1> QED
  BY <1>1, <1>2, <1>3, OptionCases

(* A balance that a decoder puts together is well formed. *)
LEMMA BalanceMade ==
    ASSUME NEW i \in 0..(U8 - 1), NEW ui \in Option(Nat), NEW a \in Amount
    PROVE  [account_index |-> i, ui_amount |-> ui, amount |-> a,
            ui_amount_string |-> AmountString(a)] \in TokenBalance
  BY AmountText DEF TokenBalance

(* What a decoder makes of a balance whose amount is there ... *)
LEMMA AmountRead ==
    ASSUME NEW b, NEW a \in ProtoAmount, UnwrapOr(b.ui_token_amount, DefaultTokenAmount) = a
    PROVE  /\ a.ui_amount \in Nat /\ a.amount \in Amount
           /\ DecodeBalance(b) =
                 [account_index |-> b.account_index % U8,
                  ui_amount |-> IF a.ui_amount > Epsilon THEN Some(a.ui_amount) ELSE None,
                  amount |-> a.amount, ui_amount_string |-> AmountString(a.amount)]
<1>1. /\ a.ui_amount \in Nat /\ a.amount \in Amount
      /\ a.ui_amount_string \in {<<>>, AmountString(a.amount)}
  BY DEF ProtoAmount
<1>2. (IF a.ui_amount_string # <<>> THEN a.ui_amount_string ELSE AmountString(a.amount))
        = AmountString(a.amount)
  BY <1>1
<1> QED
  BY <1>1, <1>2 DEF DecodeBalance

(* ... and of one without, which gets the default. *)
LEMMA AmountThere ==
    ASSUME NEW b \in ProtoBalance
    PROVE  /\ b.account_index \in Nat
           /\ \E a \in ProtoAmount : UnwrapOr(b.ui_token_amount, DefaultTokenAmount) = a
<1>1. b.account_index \in Nat /\ b.ui_token_amount \in Option(ProtoAmount)
  BY DEF ProtoBalance
<1>2. CASE b.ui_token_amount = None
  <2>1. DefaultTokenAmount \in ProtoAmount
    BY DEF DefaultTokenAmount, ProtoAmount, Amount
  <2> QED
    BY <1>1, <1>2, <2>1 DEF UnwrapOr
<1>3. ASSUME NEW a \in ProtoAmount, b.ui_token_amount = Some(a)
      PROVE  UnwrapOr(b.ui_token_amount, DefaultTokenAmount) = a
  BY <1>3 DEF UnwrapOr, None, Some
<1> QED
  BY <1>1, <1>2, <1>3, OptionCases

(* Any protobuf balance is read as a well-formed one. *)
LEMMA BalanceRead ==
    ASSUME NEW b \in ProtoBalance
    PROVE  DecodeBalance(b) \in TokenBalance
<1>1. PICK a \in ProtoAmount : UnwrapOr(b.ui_token_amount, DefaultTokenAmount) = a
  BY AmountThere
<1>2. a.ui_amount \in Nat /\ a.amount \in Amount
  BY <1>1, AmountRead
<1>3. (IF a.ui_amount > Epsilon THEN Some(a.ui_amount) ELSE None) \in Option(Nat)
  BY <1>2, OptionTypes
<1>4. b.account_index % U8 \in 0..(U8 - 1)
  BY AmountThere, NarrowNumbers
<1> QED
  BY <1>1, <1>2, <1>3, <1>4, AmountRead, BalanceMade

(* A balance survives, but for an amount below Epsilon. *)
LEMMA BalanceRound ==
    ASSUME NEW b \in TokenBalance
    PROVE  /\ EncodeBalance(b) \in ProtoBalance
           /\ SameBalance(b, DecodeBalance(EncodeBalance(b)))
<1> DEFINE u == UnwrapOr(b.ui_amount, 0)
           a == [ui_amount |-> u, amount |-> b.amount, ui_amount_string |-> AmountString(b.amount)]
           e == EncodeBalance(b)
           d == DecodeBalance(e)
<1>1. /\ b.account_index \in 0..(U8 - 1) /\ b.ui_amount \in Option(Nat) /\ b.amount \in Amount
      /\ b.ui_amount_string = AmountString(b.amount) /\ u \in Nat
  BY BalanceFields
<1>2. a \in ProtoAmount
  BY <1>1, AmountText DEF ProtoAmount
<1>7. e = [account_index |-> b.account_index, ui_token_amount |-> Some(a)]
  BY <1>1, NarrowNumbers DEF EncodeBalance
<1>3. e \in ProtoBalance
  <2> HIDE DEF a, e
  <2> QED
    BY <1>1, <1>2, <1>7, OptionTypes, ConvertAssumption DEF ProtoBalance
<1>4. d = [account_index |-> b.account_index,
           ui_amount |-> IF u > Epsilon THEN Some(u) ELSE None,
           amount |-> b.amount, ui_amount_string |-> AmountString(b.amount)]
  <2>3. a.ui_amount = u /\ a.amount = b.amount
    OBVIOUS
  <2> HIDE DEF e, u, a
  <2>1. b.account_index % U8 = b.account_index
    BY <1>1, NarrowNumbers
  <2>2. UnwrapOr(e.ui_token_amount, DefaultTokenAmount) = a
    BY <1>7, UnwrapSome
  <2> QED
    BY <1>2, <1>7, <2>1, <2>2, <2>3, AmountRead
<1>5. \/ d.ui_amount = b.ui_amount
      \/ u <= Epsilon /\ UnwrapOr(d.ui_amount, 0) <= Epsilon
  <2>1. CASE u > Epsilon
    <3>1. b.ui_amount # None
      BY <2>1, <1>1, ConvertAssumption DEF UnwrapOr
    <3>2. PICK n \in Nat : b.ui_amount = Some(n)
      BY <3>1, <1>1, OptionCases
    <3>3. u = n
      BY <3>2 DEF UnwrapOr, Some, None
    <3> QED
      BY <2>1, <1>4, <3>2, <3>3
  <2>2. CASE ~(u > Epsilon)
    <3>1. d.ui_amount = None
      BY <2>2, <1>4
    <3>2. UnwrapOr(d.ui_amount, 0) = 0
      BY <3>1 DEF UnwrapOr
    <3> QED
      BY <2>2, <3>2, <1>1, ConvertAssumption
  <2> QED
    BY <2>1, <2>2
<1> HIDE DEF u, a, e, d
<1>6. SameBalance(b, d)
  BY <1>1, <1>4, <1>5 DEF SameBalance, u
<1> QED
  BY <1>3, <1>6 DEF e, d

(* The bincode form makes a present amount of an absent one, which is 0.   *)
LEMMA BalanceStored ==
    ASSUME NEW b \in TokenBalance
    PROVE  /\ LoadBalance(StoreBalance(b)) \in TokenBalance
           /\ SameBalance(b, LoadBalance(StoreBalance(b)))
<1> DEFINE u == UnwrapOr(b.ui_amount, 0)
           d == LoadBalance(StoreBalance(b))
<1>1. /\ b.account_index \in 0..(U8 - 1) /\ b.ui_amount \in Option(Nat) /\ b.amount \in Amount
      /\ b.ui_amount_string = AmountString(b.amount) /\ u \in Nat
  BY BalanceFields
<1>2. d = [account_index |-> b.account_index, ui_amount |-> Some(u), amount |-> b.amount,
           ui_amount_string |-> AmountString(b.amount)]
  BY DEF LoadBalance, StoreBalance
<1>3. \/ d.ui_amount = b.ui_amount
      \/ u <= Epsilon /\ UnwrapOr(d.ui_amount, 0) <= Epsilon
  <2>1. CASE b.ui_amount = None
    <3>1. u = 0
      BY <2>1 DEF UnwrapOr
    <3>2. UnwrapOr(d.ui_amount, 0) = 0
      BY <1>2, <3>1 DEF UnwrapOr, Some, None
    <3> QED
      BY <3>1, <3>2, ConvertAssumption
  <2>2. ASSUME NEW n \in Nat, b.ui_amount = Some(n)
        PROVE  d.ui_amount = b.ui_amount
    <3>1. u = n
      BY <2>2 DEF UnwrapOr, Some, None
    <3> QED
      BY <1>2, <2>2, <3>1
  <2> QED
    BY <1>1, <2>1, <2>2, OptionCases
<1> HIDE DEF u, d
<1>4. d \in TokenBalance
  BY <1>1, <1>2, OptionTypes, BalanceMade
<1>5. SameBalance(b, d)
  BY <1>1, <1>2, <1>3 DEF SameBalance, u
<1> QED
  BY <1>4, <1>5 DEF d

(* "The same balance" is reflexive and transitive, which two lossy trips   *)
(* need.                                                                   *)
LEMMA SameBalanceOrder ==
    /\ \A a \in TokenBalance : SameBalance(a, a)
    /\ \A a, b, c \in TokenBalance : SameBalance(a, b) /\ SameBalance(b, c) => SameBalance(a, c)
  BY DEF SameBalance

(* An optional list read as a list. *)
LEMMA UnwrapList ==
    ASSUME NEW S, NEW o \in Option(Seq(S))
    PROVE  UnwrapOr(o, <<>>) \in Seq(S)
<1>1. CASE o = None
  BY <1>1 DEF UnwrapOr
<1>2. ASSUME NEW s \in Seq(S), o = Some(s)
      PROVE  UnwrapOr(o, <<>>) \in Seq(S)
  BY <1>2 DEF UnwrapOr, None, Some
<1> QED
  BY <1>1, <1>2, OptionCases

(* The same for lists of balances. *)
LEMMA BalanceListRead ==
    ASSUME NEW s \in Seq(ProtoBalance)
    PROVE  Each(DecodeBalance, s) \in Seq(TokenBalance)
  BY BalanceRead DEF Each

(* A list of balances survives entry by entry. *)
LEMMA BalanceListRound ==
    ASSUME NEW s \in Seq(TokenBalance)
    PROVE  LET d == Each(DecodeBalance, Each(EncodeBalance, s))
           IN  /\ d \in Seq(TokenBalance)
               /\ Len(d) = Len(s)
               /\ \A i \in 1..Len(s) : SameBalance(s[i], d[i])
<1> DEFINE e == Each(EncodeBalance, s)
           d == Each(DecodeBalance, e)
<1>1. e \in Seq(ProtoBalance) /\ Len(e) = Len(s) /\ \A i \in 1..Len(s) : e[i] = EncodeBalance(s[i])
  BY BalanceRound DEF Each
<1> HIDE DEF e
<1>2. d \in Seq(TokenBalance) /\ Len(d) = Len(s) /\ \A i \in 1..Len(s) : d[i] = DecodeBalance(e[i])
  BY <1>1, BalanceRead DEF Each
<1>3. \A i \in 1..Len(s) : SameBalance(s[i], d[i])
  <2> HIDE DEF d
  <2> QED
    BY <1>1, <1>2, BalanceRound
<1> QED
  BY <1>2, <1>3 DEF e

(* So it does through the bincode form. *)
LEMMA BalanceListStored ==
    ASSUME NEW s \in Seq(TokenBalance)
    PROVE  LET d == Each(LoadBalance, Each(StoreBalance, s))
           IN  /\ d \in Seq(TokenBalance)
               /\ Len(d) = Len(s)
               /\ \A i \in 1..Len(s) : SameBalance(s[i], d[i])
<1> DEFINE d == Each(LoadBalance, Each(StoreBalance, s))
<1>1. d = [i \in 1..Len(s) |-> LoadBalance(StoreBalance(s[i]))]
  BY DEF Each
<1> HIDE DEF d
<1>2. \A i \in 1..Len(s) : s[i] \in TokenBalance
  OBVIOUS
<1>3. d \in Seq(TokenBalance) /\ Len(d) = Len(s)
  BY <1>1, <1>2, BalanceStored
<1>4. \A i \in 1..Len(s) : SameBalance(s[i], d[i])
  BY <1>1, <1>2, BalanceStored
<1> QED
  BY <1>3, <1>4 DEF d

(* The order of "the same" on lists that may be absent. *)
LEMMA SameBalancesOrder ==
    ASSUME NEW a \in Option(Seq(TokenBalance)), NEW b \in Option(Seq(TokenBalance)),
           NEW c \in Option(Seq(TokenBalance))
    PROVE  /\ SameList(SameBalance, a, a)
           /\ SameList(SameBalance, a, b) /\ SameList(SameBalance, b, c)
                 => SameList(SameBalance, a, c)
<1> DEFINE x == UnwrapOr(a, <<>>)
           y == UnwrapOr(b, <<>>)
           z == UnwrapOr(c, <<>>)
<1>1. x \in Seq(TokenBalance) /\ y \in Seq(TokenBalance) /\ z \in Seq(TokenBalance)
  BY UnwrapList
<1> HIDE DEF x, y, z
<1>2. \A i \in 1..Len(x) : SameBalance(x[i], x[i])
  BY <1>1, SameBalanceOrder
<1>3. ASSUME Len(x) = Len(y), \A i \in 1..Len(x) : SameBalance(x[i], y[i]),
             Len(y) = Len(z), \A i \in 1..Len(y) : SameBalance(y[i], z[i])
      PROVE  \A i \in 1..Len(x) : SameBalance(x[i], z[i])
  BY <1>1, <1>3, SameBalanceOrder
<1> QED
  BY <1>2, <1>3 DEF SameList, x, y, z

-----------------------------------------------------------------------------
(* Inner instructions. *)

(* Inner instructions: any index that comes as a u32 is read as a u8. *)
LEMMA InnerListRead ==
    ASSUME NEW s \in Seq(ProtoInner)
    PROVE  Each(DecodeInner, s) \in Seq(InnerInstructions)
<1>1. \A ii \in ProtoInner : DecodeInner(ii) \in InnerInstructions
  BY NarrowNumbers DEF ProtoInner, DecodeInner, InnerInstructions
<1> QED
  BY <1>1 DEF Each

(* Inner instructions survive. *)
LEMMA InnerListRound ==
    ASSUME NEW s \in Seq(InnerInstructions)
    PROVE  Each(DecodeInner, Each(EncodeInner, s)) = s
<1>1. \A ii \in InnerInstructions : DecodeInner(EncodeInner(ii)) = ii
  BY NarrowNumbers DEF InnerInstructions, DecodeInner, EncodeInner
<1> QED
  BY <1>1 DEF Each

-----------------------------------------------------------------------------
(* Status metadata. *)

(* The fields of a well-formed TransactionStatusMeta. *)
LEMMA MetaFields ==
    ASSUME NEW m \in Meta
    PROVE  /\ m.status \in Option(Datum)
           /\ m.inner_instructions \in Option(Seq(InnerInstructions))
           /\ m.log_messages \in Option(Seq(Datum))
           /\ m.token_balances \in Option(Seq(TokenBalance))
           /\ m.rewards \in Option(Seq(Reward))
           /\ m.loaded_addresses \in Seq(Datum)
           /\ m.return_data \in Option(Datum)
  BY DEF Meta

(* A record of well-formed fields is a well-formed meta. *)
LEMMA MetaMade ==
    ASSUME NEW status \in Option(Datum), NEW inner \in Option(Seq(InnerInstructions)),
           NEW logs \in Option(Seq(Datum)), NEW balances \in Option(Seq(TokenBalance)),
           NEW rewards \in Option(Seq(Reward)), NEW loaded \in Seq(Datum),
           NEW data \in Option(Datum)
    PROVE  [status |-> status, inner_instructions |-> inner, log_messages |-> logs,
            token_balances |-> balances, rewards |-> rewards, loaded_addresses |-> loaded,
            return_data |-> data] \in Meta
  BY DEF Meta

(* Any protobuf meta is read as a well-formed one. *)
LEMMA MetaRead ==
    ASSUME NEW m \in ProtoMeta
    PROVE  DecodeMeta(m) \in Meta
<1>1. /\ m.err \in Option(Datum)
      /\ m.inner_instructions \in Seq(ProtoInner) /\ m.log_messages \in Seq(Datum)
      /\ m.token_balances \in Seq(ProtoBalance) /\ m.rewards \in Seq(ProtoReward)
      /\ m.loaded_addresses \in Seq(Datum) /\ m.return_data \in Option(Datum)
  BY DEF ProtoMeta
<1>2. (IF m.inner_instructions_none THEN None ELSE Some(Each(DecodeInner, m.inner_instructions)))
        \in Option(Seq(InnerInstructions))
  BY <1>1, InnerListRead, OptionTypes
<1>3. (IF m.log_messages_none THEN None ELSE Some(m.log_messages)) \in Option(Seq(Datum))
  BY <1>1, OptionTypes
<1>4. Some(Each(DecodeBalance, m.token_balances)) \in Option(Seq(TokenBalance))
  BY <1>1, BalanceListRead, OptionTypes
<1>5. Some(Each(DecodeReward, m.rewards)) \in Option(Seq(Reward))
  BY <1>1, RewardListRead, OptionTypes
<1>6. (IF m.return_data_none THEN None ELSE m.return_data) \in Option(Datum)
  BY <1>1, OptionTypes
<1> QED
  BY <1>1, <1>2, <1>3, <1>4, <1>5, <1>6, MetaMade DEF DecodeMeta

(* A flag says None, so that an empty list stays apart from it. *)
LEMMA FlaggedRound ==
    ASSUME NEW S, NEW o \in Option(Seq(S))
    PROVE  (IF o = None THEN None ELSE Some(UnwrapOr(o, <<>>))) = o
<1>1. ASSUME NEW s \in Seq(S), o = Some(s)
      PROVE  Some(UnwrapOr(o, <<>>)) = o
  BY <1>1, UnwrapSome
<1> QED
  BY <1>1, OptionCases

(* A meta survives; the *_none flags keep an absent list apart from an     *)
(* empty one where there is a flag.                                        *)
LEMMA MetaRound ==
    ASSUME NEW m \in Meta
    PROVE  /\ DecodeMeta(EncodeMeta(m)) \in Meta
           /\ SameMeta(m, DecodeMeta(EncodeMeta(m)))
<1> DEFINE inner == UnwrapOr(m.inner_instructions, <<>>)
           logs == UnwrapOr(m.log_messages, <<>>)
           balances == UnwrapOr(m.token_balances, <<>>)
           rewards == UnwrapOr(m.rewards, <<>>)
           readBalances == Each(DecodeBalance, Each(EncodeBalance, balances))
           d == DecodeMeta(EncodeMeta(m))
<1>1. /\ inner \in Seq(InnerInstructions) /\ logs \in Seq(Datum)
      /\ balances \in Seq(TokenBalance) /\ rewards \in Seq(Reward)
  BY MetaFields, UnwrapList
<1> HIDE DEF inner, logs, balances, rewards
<1>2. Each(DecodeInner, Each(EncodeInner, inner)) = inner
  BY <1>1, InnerListRound
<1>3. Each(DecodeReward, Each(EncodeReward, rewards)) = rewards
  BY <1>1, RewardListRound
<1>4. /\ readBalances \in Seq(TokenBalance)
      /\ Len(readBalances) = Len(balances)
      /\ \A i \in 1..Len(balances) : SameBalance(balances[i], readBalances[i])
  BY <1>1, BalanceListRound
<1> HIDE DEF readBalances
<1>5. (IF m.inner_instructions = None THEN None ELSE Some(inner)) = m.inner_instructions
  BY MetaFields, FlaggedRound DEF inner
<1>6. (IF m.log_messages = None THEN None ELSE Some(logs)) = m.log_messages
  BY MetaFields, FlaggedRound DEF logs
<1>7. d = [status |-> m.status, inner_instructions |-> m.inner_instructions,
           log_messages |-> m.log_messages, token_balances |-> Some(readBalances),
           rewards |-> Some(rewards), loaded_addresses |-> m.loaded_addresses,
           return_data |-> m.return_data]
  <2> DEFINE e == EncodeMeta(m)
  <2>1. /\ e.err = m.status
        /\ e.inner_instructions = Each(EncodeInner, inner)
        /\ e.inner_instructions_none = (m.inner_instructions = None)
        /\ e.log_messages = logs
        /\ e.log_messages_none = (m.log_messages = None)
        /\ e.token_balances = Each(EncodeBalance, balances)
        /\ e.rewards = Each(EncodeReward, rewards)
        /\ e.loaded_addresses = m.loaded_addresses
        /\ e.return_data = m.return_data
        /\ e.return_data_none = (m.return_data = None)
    BY DEF EncodeMeta, inner, logs, balances, rewards
  <2> HIDE DEF e
  <2>2. (IF e.return_data_none THEN None ELSE e.return_data) = m.return_data
    BY <2>1
  <2>3. (IF e.inner_instructions_none THEN None ELSE Some(Each(DecodeInner, e.inner_instructions)))
          = m.inner_instructions
    BY <2>1, <1>2, <1>5
  <2>4. (IF e.log_messages_none THEN None ELSE Some(e.log_messages)) = m.log_messages
    BY <2>1, <1>6
  <2>5. Each(DecodeBalance, e.token_balances) = readBalances
    BY <2>1 DEF readBalances
  <2>6. Each(DecodeReward, e.rewards) = rewards
    BY <2>1, <1>3
  <2>7. DecodeMeta(e) = d
    BY DEF e
  <2> QED
    BY <2>1, <2>2, <2>3, <2>4, <2>5, <2>6, <2>7 DEF DecodeMeta
<1> HIDE DEF d
<1>8. d \in Meta
  BY <1>1, <1>4, <1>7, MetaFields, MetaMade, OptionTypes
<1>9. SameMeta(m, d)
  <2>1. SameList(SameBalance, m.token_balances, d.token_balances)
    BY <1>4, <1>7, UnwrapSome DEF SameList, balances
  <2>2. UnwrapOr(m.rewards, <<>>) = UnwrapOr(d.rewards, <<>>)
    BY <1>7, UnwrapSome DEF rewards
  <2> QED
    BY <1>7, <2>1, <2>2 DEF SameMeta
<1> QED
  BY <1>8, <1>9 DEF d

(* EachOfSome keeps None and maps the list of a Some. *)
LEMMA StoredBalances ==
    ASSUME NEW o \in Option(Seq(TokenBalance))
    PROVE  LET d == EachOfSome(LoadBalance, EachOfSome(StoreBalance, o))
           IN  /\ d \in Option(Seq(TokenBalance))
               /\ SameList(SameBalance, o, d)
<1> DEFINE d == EachOfSome(LoadBalance, EachOfSome(StoreBalance, o))
<1>1. CASE o = None
  <2>1. d = None
    BY <1>1 DEF EachOfSome, Each, None
  <2> QED
    BY <1>1, <2>1, SameBalancesOrder, OptionTypes
<1>2. ASSUME NEW s \in Seq(TokenBalance), o = Some(s)
      PROVE  d \in Option(Seq(TokenBalance)) /\ SameList(SameBalance, o, d)
  <2> DEFINE t == Each(LoadBalance, Each(StoreBalance, s))
  <2>1. d = Some(t)
    BY <1>2 DEF EachOfSome, Each, Some
  <2>2. t \in Seq(TokenBalance) /\ Len(t) = Len(s) /\ \A i \in 1..Len(s) : SameBalance(s[i], t[i])
    BY <1>2, BalanceListStored
  <2> HIDE DEF d, t
  <2> QED
    BY <1>2, <2>1, <2>2, OptionTypes, UnwrapSome DEF SameList
<1> QED
  BY <1>1, <1>2, OptionCases

(* A meta survives in the bincode form. *)
LEMMA MetaStored ==
    ASSUME NEW m \in Meta, Storable(m)
    PROVE  /\ LoadMeta(StoreMeta(m)) \in Meta
           /\ SameMeta(m, LoadMeta(StoreMeta(m)))
<1> DEFINE balances == EachOfSome(LoadBalance, EachOfSome(StoreBalance, m.token_balances))
           d == LoadMeta(StoreMeta(m))
<1>1. balances \in Option(Seq(TokenBalance)) /\ SameList(SameBalance, m.token_balances, balances)
  BY MetaFields, StoredBalances
<1> HIDE DEF balances
<1>2. d = [status |-> m.status, inner_instructions |-> m.inner_instructions,
           log_messages |-> m.log_messages, token_balances |-> balances,
           rewards |-> m.rewards, loaded_addresses |-> <<>>, return_data |-> m.return_data]
  BY DEF LoadMeta, StoreMeta, balances
<1> HIDE DEF d
<1>3. d \in Meta
  <2>1. <<>> \in Seq(Datum)
    OBVIOUS
  <2> QED
    BY <1>1, <1>2, <2>1, MetaFields, MetaMade
<1>4. SameMeta(m, d)
  BY <1>1, <1>2 DEF SameMeta, Storable
<1> QED
  BY <1>3, <1>4 DEF d

(* "The same meta" is reflexive and transitive. *)
LEMMA SameMetaOrder ==
    /\ \A a \in Meta : SameMeta(a, a)
    /\ \A a, b, c \in Meta : SameMeta(a, b) /\ SameMeta(b, c) => SameMeta(a, c)
<1>1. ASSUME NEW a \in Meta PROVE SameMeta(a, a)
  BY MetaFields, SameBalancesOrder DEF SameMeta
<1>2. ASSUME NEW a \in Meta, NEW b \in Meta, NEW c \in Meta, SameMeta(a, b), SameMeta(b, c)
      PROVE  SameMeta(a, c)
  <2>1. SameList(SameBalance, a.token_balances, c.token_balances)
    BY <1>2, MetaFields, SameBalancesOrder DEF SameMeta
  <2> QED
    BY <1>2, <2>1 DEF SameMeta
<1> QED
  BY <1>1, <1>2

-----------------------------------------------------------------------------
(* Transactions. *)

(* Any protobuf message with a header is read as a well-formed one of the *)
(* same version.                                                           *)
LEMMA MessageRead ==
    ASSUME NEW m \in ProtoMessage, m.header # None
    PROVE  DecodeMessage(m) \in Message /\ DecodeMessage(m).versioned = m.versioned
<1>1. m.header \in Option(Nat) /\ m.versioned \in BOOLEAN /\ m.address_table_lookups \in Seq(Datum)
  BY DEF ProtoMessage
<1>2. (IF m.versioned THEN m.address_table_lookups ELSE <<>>) \in Seq(Datum)
  BY <1>1
<1>3. PICK h \in Nat : m.header = Some(h)
  BY <1>1, OptionCases
<1>4. m.header[1] = h
  BY <1>3, OptionTypes
<1> QED
  BY <1>1, <1>2, <1>4, NarrowNumbers DEF DecodeMessage, Message

(* A message survives: a legacy one has no lookups to lose. *)
LEMMA MessageRound ==
    ASSUME NEW m \in Message
    PROVE  /\ DecodeMessage(EncodeMessage(m)) = m
           /\ EncodeMessage(m).versioned = m.versioned
           /\ EncodeMessage(m).header # None
<1>1. /\ m.header \in 0..(U8 - 1)
      /\ ~m.versioned => m.address_table_lookups = <<>>
      /\ m = [header |-> m.header, versioned |-> m.versioned,
              address_table_lookups |-> m.address_table_lookups]
  BY DEF Message
<1>2. m.header % U32 = m.header /\ m.header % U8 = m.header
  BY <1>1, NarrowNumbers
<1>3. Some(m.header)[1] = m.header /\ Some(m.header) # None
  BY DEF Some, None
<1> QED
  BY <1>1, <1>2, <1>3 DEF EncodeMessage, DecodeMessage

(* A transaction from its two parts: legacy ones may lack metadata. *)
LEMMA TransactionMade ==
    ASSUME NEW m \in Message, NEW meta \in Option(Meta), meta = None => ~m.versioned
    PROVE  [message |-> m, meta |-> meta] \in Transaction
  BY DEF Transaction

(* The fields of a transaction; a versioned one has metadata. *)
LEMMA TransactionFields ==
    ASSUME NEW tx \in Transaction
    PROVE  /\ tx.message \in Message
           /\ tx.meta \in Option(Meta)
           /\ tx.meta = None => ~tx.message.versioned
           /\ tx = [message |-> tx.message, meta |-> tx.meta]
  BY DEF Transaction

(* Each on an option. *)
LEMMA EachOption ==
    /\ Each(EncodeMeta, None) = None
    /\ Each(DecodeMeta, None) = None
    /\ \A m : /\ Each(EncodeMeta, Some(m)) = Some(EncodeMeta(m))
              /\ Each(DecodeMeta, Some(m)) = Some(DecodeMeta(m))
              /\ Each(StoreMeta, Some(m)) = Some(StoreMeta(m))
              /\ Each(LoadMeta, Some(m)) = Some(LoadMeta(m))
  BY DEF Each, None, Some

(* A transaction that try_from accepts has a message, with a header. *)
LEMMA MessageThere ==
    ASSUME NEW tx \in ProtoTransaction, Decodable(tx)
    PROVE  tx.message[1] \in ProtoMessage /\ tx.message[1].header # None
<1>1. tx.message \in Option(ProtoMessage) /\ tx.message # None /\ tx.message[1].header # None
  BY DEF ProtoTransaction, Decodable
<1>2. PICK m \in ProtoMessage : tx.message = Some(m)
  BY <1>1, OptionCases
<1> QED
  BY <1>1, <1>2, OptionTypes

(* Any transaction try_from accepts is read as a well-formed one. *)
LEMMA TransactionRead ==
    ASSUME NEW tx \in ProtoTransaction, Decodable(tx)
    PROVE  DecodeTransaction(tx) \in Transaction
<1>1. tx.meta \in Option(ProtoMeta)
  BY DEF ProtoTransaction
<1>2. /\ DecodeMessage(tx.message[1]) \in Message
      /\ DecodeMessage(tx.message[1]).versioned = tx.message[1].versioned
  BY MessageThere, MessageRead
<1>3. CASE tx.meta = None
  BY <1>2, <1>3, EachOption, OptionTypes, TransactionMade DEF DecodeTransaction, Decodable
<1>4. ASSUME NEW m \in ProtoMeta, tx.meta = Some(m)
      PROVE  DecodeTransaction(tx) \in Transaction
  <2>1. DecodeMeta(m) \in Meta
    BY <1>4, MetaRead
  <2>2. Some(DecodeMeta(m)) \in Option(Meta) /\ Some(DecodeMeta(m)) # None
    BY <2>1, OptionTypes
  <2> QED
    BY <1>2, <1>4, <2>2, EachOption, TransactionMade DEF DecodeTransaction
<1> QED
  BY <1>1, <1>3, <1>4, OptionCases

(* Metadata that is the same on either side makes the transaction the same. *)
LEMMA SameTransactionMade ==
    ASSUME NEW tx \in Transaction, NEW m \in Meta, NEW d \in Meta, tx.meta = Some(m), SameMeta(m, d)
    PROVE  /\ [message |-> tx.message, meta |-> Some(d)] \in Transaction
           /\ SameTransaction(tx, [message |-> tx.message, meta |-> Some(d)])
<1>1. Some(d) \in Option(Meta) /\ Some(d) # None
  BY OptionTypes
<1>2. /\ Len(Some(d)) = Len(Some(m))
      /\ \A i \in 1..Len(Some(m)) : SameMeta(Some(m)[i], Some(d)[i])
  BY DEF Some
<1> QED
  BY <1>1, <1>2, TransactionFields, TransactionMade DEF SameTransaction

(* What from writes, try_from accepts, and the transaction survives. *)
LEMMA TransactionRound ==
    ASSUME NEW tx \in Transaction
    PROVE  /\ Decodable(EncodeTransaction(tx))
           /\ DecodeTransaction(EncodeTransaction(tx)) \in Transaction
           /\ SameTransaction(tx, DecodeTransaction(EncodeTransaction(tx)))
<1> DEFINE e == EncodeTransaction(tx)
           d == DecodeTransaction(e)
<1>1. /\ DecodeMessage(EncodeMessage(tx.message)) = tx.message
      /\ EncodeMessage(tx.message).versioned = tx.message.versioned
      /\ EncodeMessage(tx.message).header # None
  BY TransactionFields, MessageRound
<1>4. Some(EncodeMessage(tx.message))[1] = EncodeMessage(tx.message) /\ Some(EncodeMessage(tx.message)) # None
  BY DEF Some, None
<1>2. CASE tx.meta = None
  <2>1. e = [message |-> Some(EncodeMessage(tx.message)), meta |-> None]
    BY <1>2, EachOption DEF EncodeTransaction
  <2>2. Decodable(e)
    BY <1>1, <1>2, <1>4, <2>1, TransactionFields DEF Decodable
  <2>3. d = [message |-> tx.message, meta |-> None]
    BY <1>1, <1>4, <2>1, EachOption DEF DecodeTransaction
  <2>4. d = tx
    BY <1>2, <2>3, TransactionFields
  <2>5. SameTransaction(tx, tx)
    BY <1>2 DEF SameTransaction, None
  <2> QED
    BY <2>2, <2>4, <2>5
<1>3. ASSUME NEW m \in Meta, tx.meta = Some(m)
      PROVE  Decodable(e) /\ d \in Transaction /\ SameTransaction(tx, d)
  <2>1. e = [message |-> Some(EncodeMessage(tx.message)), meta |-> Some(EncodeMeta(m))]
    BY <1>3, EachOption DEF EncodeTransaction
  <2>2. Decodable(e)
    BY <1>1, <1>4, <2>1 DEF Decodable, None, Some
  <2>3. d = [message |-> tx.message, meta |-> Some(DecodeMeta(EncodeMeta(m)))]
    <3>1. e.message[1] = EncodeMessage(tx.message) /\ e.meta = Some(EncodeMeta(m))
      BY <1>4, <2>1
    <3> HIDE DEF e
    <3>2. Each(DecodeMeta, e.meta) = Some(DecodeMeta(EncodeMeta(m)))
      BY <3>1, EachOption
    <3> QED
      BY <1>1, <3>1, <3>2 DEF DecodeTransaction
  <2>4. DecodeMeta(EncodeMeta(m)) \in Meta /\ SameMeta(m, DecodeMeta(EncodeMeta(m)))
    BY MetaRound
  <2> HIDE DEF e, d
  <2> QED
    BY <1>3, <2>2, <2>3, <2>4, SameTransactionMade
<1> QED
  BY <1>2, <1>3, TransactionFields, OptionCases

(* A transaction with metadata survives in the bincode form. *)
LEMMA TransactionStored ==
    ASSUME NEW tx \in Transaction, tx.meta # None, Storable(tx.meta[1])
    PROVE  LET st == [tx EXCEPT !.meta = Each(StoreMeta, @)]
               d == [st EXCEPT !.meta = Each(LoadMeta, @)]
           IN  d \in Transaction /\ SameTransaction(tx, d)
<1> DEFINE st == [tx EXCEPT !.meta = Each(StoreMeta, @)]
           d == [st EXCEPT !.meta = Each(LoadMeta, @)]
<1>1. PICK m \in Meta : tx.meta = Some(m)
  BY TransactionFields, OptionCases
<1>2. Storable(m)
  BY <1>1 DEF Some
<1>3. st = [message |-> tx.message, meta |-> Some(StoreMeta(m))]
  <2>1. Each(StoreMeta, tx.meta) = Some(StoreMeta(m))
    BY <1>1, EachOption
  <2> QED
    BY <2>1, TransactionFields
<1>4. d = [message |-> tx.message, meta |-> Some(LoadMeta(StoreMeta(m)))]
  <2> HIDE DEF st
  <2>1. st.meta = Some(StoreMeta(m))
    BY <1>3
  <2>2. Each(LoadMeta, st.meta) = Some(LoadMeta(StoreMeta(m)))
    BY <2>1, EachOption
  <2> QED
    BY <1>3, <2>2
<1>5. LoadMeta(StoreMeta(m)) \in Meta /\ SameMeta(m, LoadMeta(StoreMeta(m)))
  BY <1>2, MetaStored
<1> HIDE DEF d
<1>6. d \in Transaction /\ SameTransaction(tx, d)
  BY <1>1, <1>4, <1>5, SameTransactionMade
<1> QED
  BY <1>6 DEF d

(* "The same transaction" is reflexive and transitive. *)
LEMMA SameTransactionOrder ==
    /\ \A a \in Transaction : SameTransaction(a, a)
    /\ \A a, b, c \in Transaction :
          SameTransaction(a, b) /\ SameTransaction(b, c) => SameTransaction(a, c)
<1>1. ASSUME NEW a \in Transaction
      PROVE  a.meta \in Seq(Meta)
  BY <1>1, TransactionFields DEF Option
<1>2. ASSUME NEW a \in Transaction PROVE SameTransaction(a, a)
  BY <1>1, <1>2, SameMetaOrder DEF SameTransaction
<1>3. ASSUME NEW a \in Transaction, NEW b \in Transaction, NEW c \in Transaction,
             SameTransaction(a, b), SameTransaction(b, c)
      PROVE  SameTransaction(a, c)
  <2>1. a.meta \in Seq(Meta) /\ b.meta \in Seq(Meta) /\ c.meta \in Seq(Meta)
    BY <1>1
  <2>2. Len(a.meta) = Len(b.meta) /\ Len(b.meta) = Len(c.meta)
    BY <1>3 DEF SameTransaction
  <2>3. ASSUME NEW i \in 1..Len(a.meta)
        PROVE  SameMeta(a.meta[i], c.meta[i])
    <3>1. SameMeta(a.meta[i], b.meta[i]) /\ SameMeta(b.meta[i], c.meta[i])
      BY <1>3, <2>2 DEF SameTransaction
    <3> QED
      BY <2>1, <2>2, <3>1, SameMetaOrder
  <2> QED
    BY <1>3, <2>2, <2>3 DEF SameTransaction
<1> QED
  BY <1>2, <1>3

-----------------------------------------------------------------------------
(* Blocks. *)

(* A block of acceptable transactions is read as a well-formed one. *)
LEMMA BlockRead ==
    ASSUME NEW b \in ProtoBlock, \A i \in DOMAIN b.transactions : Decodable(b.transactions[i])
    PROVE  DecodeBlock(b) \in Block
<1>1. /\ b.transactions \in Seq(ProtoTransaction) /\ b.rewards \in Seq(ProtoReward)
      /\ b.num_partitions \in Option(Nat) /\ b.block_height \in Option(Nat)
  BY DEF ProtoBlock
<1>2. Each(DecodeReward, b.rewards) \in Seq(Reward)
  BY <1>1, RewardListRead
<1>3. Each(DecodeTransaction, b.transactions) \in Seq(Transaction)
  BY <1>1, TransactionRead DEF Each
<1> QED
  BY <1>1, <1>2, <1>3 DEF DecodeBlock, Block

(* A block survives, and all its transactions are acceptable. *)
LEMMA BlockRound ==
    ASSUME NEW b \in Block
    PROVE  LET e == EncodeBlock(b)
           IN  /\ \A i \in DOMAIN e.transactions : Decodable(e.transactions[i])
               /\ DecodeBlock(e) \in Block
               /\ SameBlock(b, DecodeBlock(e))
<1> DEFINE e == EncodeBlock(b)
           d == DecodeBlock(e)
           txs == b.transactions
           written == Each(EncodeTransaction, txs)
           read == Each(DecodeTransaction, written)
<1>1. /\ txs \in Seq(Transaction) /\ b.rewards \in Seq(Reward)
      /\ b.num_partitions \in Option(Nat) /\ b.block_height \in Option(Nat)
  BY DEF Block
<1> HIDE DEF txs
<1>2. \A i \in 1..Len(txs) : txs[i] \in Transaction
  BY <1>1
<1>3. written = [i \in 1..Len(txs) |-> EncodeTransaction(txs[i])]
  BY <1>1 DEF Each
<1>4. read = [i \in 1..Len(txs) |-> DecodeTransaction(EncodeTransaction(txs[i]))]
  <2> HIDE DEF written
  <2> QED
    BY <1>3 DEF Each
<1> HIDE DEF written, read
<1>5. read \in Seq(Transaction) /\ Len(read) = Len(txs)
  BY <1>1, <1>2, <1>4, TransactionRound
<1>6. \A i \in 1..Len(txs) : SameTransaction(txs[i], read[i])
  BY <1>2, <1>4, TransactionRound
<1>7. \A i \in DOMAIN written : Decodable(written[i])
  BY <1>2, <1>3, TransactionRound
<1>8. Each(DecodeReward, Each(EncodeReward, b.rewards)) = b.rewards
  BY <1>1, RewardListRound
<1>9. e = [transactions |-> written, rewards |-> Each(EncodeReward, b.rewards),
           num_partitions |-> b.num_partitions, block_height |-> b.block_height]
  BY DEF EncodeBlock, written, txs
<1>10. d = [transactions |-> read, rewards |-> b.rewards,
            num_partitions |-> b.num_partitions, block_height |-> b.block_height]
  <2> HIDE DEF e
  <2>1. e.transactions = written /\ e.rewards = Each(EncodeReward, b.rewards)
    BY <1>9
  <2>2. Each(DecodeTransaction, e.transactions) = read
    BY <2>1 DEF read
  <2>3. Each(DecodeReward, e.rewards) = b.rewards
    BY <2>1, <1>8
  <2> QED
    BY <1>9, <2>2, <2>3 DEF DecodeBlock
<1>11. \A i \in DOMAIN e.transactions : Decodable(e.transactions[i])
  BY <1>7, <1>9
<1> HIDE DEF e, d
<1>12. d \in Block
  BY <1>1, <1>5, <1>10 DEF Block
<1>13. SameList(SameTransaction, Some(b.transactions), Some(d.transactions))
  BY <1>5, <1>6, <1>10, UnwrapSome DEF SameList, txs
<1>14. SameBlock(b, d)
  BY <1>10, <1>13 DEF SameBlock
<1> QED
  BY <1>11, <1>12, <1>14 DEF e, d

(* "The same block" is reflexive and transitive. *)
LEMMA SameBlockOrder ==
    /\ \A a \in Block : SameBlock(a, a)
    /\ \A a, b, c \in Block : SameBlock(a, b) /\ SameBlock(b, c) => SameBlock(a, c)
<1>1. \A a \in Block : a.transactions \in Seq(Transaction)
  BY DEF Block
<1>2. ASSUME NEW a \in Block PROVE SameBlock(a, a)
  BY <1>1, <1>2, SameTransactionOrder, UnwrapSome DEF SameBlock, SameList
<1>3. ASSUME NEW a \in Block, NEW b \in Block, NEW c \in Block, SameBlock(a, b), SameBlock(b, c)
      PROVE  SameBlock(a, c)
  <2> DEFINE x == a.transactions
             y == b.transactions
             z == c.transactions
  <2>1. x \in Seq(Transaction) /\ y \in Seq(Transaction) /\ z \in Seq(Transaction)
    BY <1>1
  <2>2. /\ Len(x) = Len(y) /\ \A i \in 1..Len(x) : SameTransaction(x[i], y[i])
        /\ Len(y) = Len(z) /\ \A i \in 1..Len(y) : SameTransaction(y[i], z[i])
    BY <1>3, UnwrapSome DEF SameBlock, SameList
  <2> HIDE DEF x, y, z
  <2>3. \A i \in 1..Len(x) : SameTransaction(x[i], z[i])
    BY <2>1, <2>2, SameTransactionOrder
  <2>4. SameList(SameTransaction, Some(x), Some(z))
    BY <2>2, <2>3, UnwrapSome DEF SameList
  <2> QED
    BY <1>3, <2>4 DEF SameBlock, x, z
<1> QED
  BY <1>2, <1>3

-----------------------------------------------------------------------------
(* Rewards of a block, with the number of partitions. *)

(* Any protobuf rewards are read as well-formed ones. *)
LEMMA RewardsRead ==
    ASSUME NEW r \in ProtoRewards
    PROVE  DecodeRewards(r) \in Rewards
<1>1. r.rewards \in Seq(ProtoReward) /\ r.num_partitions \in Option(Nat)
  BY DEF ProtoRewards
<1>2. Each(DecodeReward, r.rewards) \in Seq(Reward)
  BY <1>1, RewardListRead
<1> QED
  BY <1>1, <1>2 DEF DecodeRewards, Rewards

(* Rewards survive exactly in the protobuf form. *)
LEMMA RewardsRound ==
    ASSUME NEW r \in Rewards
    PROVE  DecodeRewards(EncodeRewards(r)) = r
<1>1. r.rewards \in Seq(Reward) /\ r = [rewards |-> r.rewards, num_partitions |-> r.num_partitions]
  BY DEF Rewards
<1>2. Each(DecodeReward, Each(EncodeReward, r.rewards)) = r.rewards
  BY <1>1, RewardListRound
<1> QED
  BY <1>1, <1>2 DEF DecodeRewards, EncodeRewards

(* In the bincode form they survive but for num_partitions. *)
LEMMA RewardsStored ==
    ASSUME NEW r \in Rewards
    PROVE  LoadRewards(StoreRewards(r)) \in Rewards /\ SameRewards(r, LoadRewards(StoreRewards(r)))
<1> DEFINE d == LoadRewards(StoreRewards(r))
<1>1. r.rewards \in Seq(Reward)
  BY DEF Rewards
<1>2. d = [rewards |-> r.rewards, num_partitions |-> None]
  BY DEF LoadRewards, StoreRewards
<1>3. None \in Option(Nat)
  BY OptionTypes
<1> HIDE DEF d
<1>4. d \in Rewards /\ SameRewards(r, d)
  BY <1>1, <1>2, <1>3 DEF Rewards, SameRewards
<1> QED
  BY <1>4 DEF d

-----------------------------------------------------------------------------
(* Entries. *)

(* Any protobuf entries are read as well-formed ones. *)
LEMMA EntriesRead ==
    ASSUME NEW s \in Seq(ProtoEntry)
    PROVE  DecodeEntries(s) \in Seq(Nat)
<1>1. ASSUME NEW i \in 1..Len(s)
      PROVE  s[i].starting_transaction_index \in Nat
  <2>1. s[i] \in ProtoEntry
    BY <1>1
  <2> QED
    BY <2>1 DEF ProtoEntry
<1> QED
  BY <1>1 DEF DecodeEntries

(* Starting indexes survive as u32. *)
LEMMA EntriesRound ==
    ASSUME NEW s \in Seq(Nat)
    PROVE  DecodeEntries(EncodeEntries(s)) = [i \in 1..Len(s) |-> s[i] % U32]
  BY DEF DecodeEntries, EncodeEntries

-----------------------------------------------------------------------------
(* Transaction errors. *)

(* The fields of a transaction error: which variants carry an index, an    *)
(* instruction error, a payload.                                           *)
LEMMA ErrorFields ==
    ASSUME NEW e \in Error
    PROVE  /\ e.variant \in 0..38 /\ e.index \in 0..(U8 - 1) /\ e.inner \in 0..53
           /\ e.payload \in Datum \cup {NoText}
           /\ e.variant \in Plain => e.index = 0
           /\ e.variant # InstructionErrorType => e.inner = 0
           /\ e.inner \notin {Custom, BorshIoError} => e.payload = NoText
           /\ e = [variant |-> e.variant, index |-> e.index, inner |-> e.inner,
                   payload |-> e.payload]
  BY DEF Error

(* The numbers of the enum are those of the arms, and no number is in two. *)
LEMMA Variants ==
    /\ InstructionErrorType \in 0..38 /\ InstructionErrorType \notin Indexed \cup Plain
    /\ Indexed \subseteq 0..38 /\ Plain \subseteq 0..38
    /\ \A v \in 0..38 : v = InstructionErrorType \/ v \in Indexed \/ v \in Plain
    /\ \A v \in Indexed : v \notin Plain
    /\ 0..53 = PlainInstructionError \cup {Custom} /\ Custom \notin PlainInstructionError
    /\ BorshIoError \in PlainInstructionError /\ 0 \in PlainInstructionError
    /\ 0 \notin {Custom, BorshIoError}
  BY DEF InstructionErrorType, Indexed, Plain, PlainInstructionError, Custom, BorshIoError

(* What each arm of the decoder returns. *)
LEMMA DecodeErrorArms ==
    ASSUME NEW e
    PROVE  LET ie == e.instruction_error[1]
           IN  /\ e.transaction_error = InstructionErrorType /\ e.instruction_error # None
                     => DecodeError(e) =
                          IF ie.custom # None
                          THEN Some([variant |-> e.transaction_error, index |-> ie.index % U8,
                                     inner |-> Custom, payload |-> ie.custom[1]])
                          ELSE IF ie.error \in PlainInstructionError
                          THEN Some([variant |-> e.transaction_error, index |-> ie.index % U8,
                                     inner |-> ie.error, payload |-> NoText])
                          ELSE None
               /\ e.transaction_error \in Indexed /\ e.transaction_details # None
                     => DecodeError(e) =
                          Some([variant |-> e.transaction_error,
                                index |-> e.transaction_details[1] % U8,
                                inner |-> 0, payload |-> NoText])
               /\ e.transaction_error \in Plain
                     => DecodeError(e) =
                          Some([variant |-> e.transaction_error, index |-> 0 % U8,
                                inner |-> 0, payload |-> NoText])
               /\ \/ e.transaction_error = InstructionErrorType /\ e.instruction_error # None
                  \/ e.transaction_error \in Indexed /\ e.transaction_details # None
                  \/ e.transaction_error \in Plain
                  \/ DecodeError(e) = None
  BY Variants DEF DecodeError

(* A record with those fields is a well-formed error. *)
LEMMA ErrorMade ==
    ASSUME NEW v \in 0..38, NEW i \in 0..(U8 - 1), NEW n \in 0..53, NEW x \in Datum \cup {NoText},
           v \in Plain => i = 0,
           v # InstructionErrorType => n = 0,
           n \notin {Custom, BorshIoError} => x = NoText
    PROVE  [variant |-> v, index |-> i, inner |-> n, payload |-> x] \in Error
  BY DEF Error

(* Any error try_from accepts is read as a well-formed one. *)
LEMMA ErrorRead ==
    ASSUME NEW e \in ProtoError, DecodeError(e) # None
    PROVE  DecodeError(e)[1] \in Error
<1>1. /\ e.transaction_error \in Int
      /\ e.instruction_error \in Option([index : Nat, error : Int, custom : Option(Datum)])
      /\ e.transaction_details \in Option(Nat)
  BY DEF ProtoError
<1>2. CASE e.transaction_error = InstructionErrorType /\ e.instruction_error # None
  <2>1. PICK ie \in [index : Nat, error : Int, custom : Option(Datum)] :
           e.instruction_error = Some(ie)
    BY <1>1, <1>2, OptionCases
  <2>2. e.instruction_error[1] = ie
    BY <2>1 DEF Some
  <2>3. ie.index % U8 \in 0..(U8 - 1)
    BY NarrowNumbers
  <2>4. CASE ie.custom # None
    <3>1. PICK c \in Datum : ie.custom = Some(c)
      BY <2>4, OptionCases
    <3>2. ie.custom[1] = c
      BY <3>1 DEF Some
    <3>3. DecodeError(e) = Some([variant |-> InstructionErrorType, index |-> ie.index % U8,
                                 inner |-> Custom, payload |-> c])
      BY <1>2, <2>2, <2>4, <3>2, DecodeErrorArms
    <3>4. [variant |-> InstructionErrorType, index |-> ie.index % U8,
           inner |-> Custom, payload |-> c] \in Error
      BY <2>3, Variants, ErrorMade
    <3> QED
      BY <3>3, <3>4 DEF Some
  <2>5. CASE ie.custom = None
    <3>1. ie.error \in PlainInstructionError
      BY <1>2, <2>2, <2>5, DecodeErrorArms
    <3>2. DecodeError(e) = Some([variant |-> InstructionErrorType, index |-> ie.index % U8,
                                 inner |-> ie.error, payload |-> NoText])
      BY <1>2, <2>2, <2>5, <3>1, DecodeErrorArms
    <3>3. [variant |-> InstructionErrorType, index |-> ie.index % U8,
           inner |-> ie.error, payload |-> NoText] \in Error
      BY <2>3, <3>1, Variants, ErrorMade
    <3> QED
      BY <3>2, <3>3 DEF Some
  <2> QED
    BY <2>4, <2>5
<1>3. CASE e.transaction_error \in Indexed /\ e.transaction_details # None
  <2>1. PICK n \in Nat : e.transaction_details = Some(n)
    BY <1>1, <1>3, OptionCases
  <2>2. e.transaction_details[1] = n
    BY <2>1 DEF Some
  <2>3. DecodeError(e) = Some([variant |-> e.transaction_error, index |-> n % U8,
                               inner |-> 0, payload |-> NoText])
    BY <1>3, <2>2, DecodeErrorArms
  <2>4. n % U8 \in 0..(U8 - 1)
    BY NarrowNumbers
  <2>5. [variant |-> e.transaction_error, index |-> n % U8, inner |-> 0, payload |-> NoText]
          \in Error
    BY <1>3, <2>4, Variants, ErrorMade
  <2> QED
    BY <2>3, <2>5 DEF Some
<1>4. CASE e.transaction_error \in Plain
  <2>1. 0 % U8 = 0 /\ 0 \in 0..(U8 - 1)
    BY ConvertAssumption
  <2>2. DecodeError(e) = Some([variant |-> e.transaction_error, index |-> 0,
                               inner |-> 0, payload |-> NoText])
    BY <1>4, <2>1, DecodeErrorArms
  <2>3. [variant |-> e.transaction_error, index |-> 0, inner |-> 0, payload |-> NoText] \in Error
    BY <1>4, <2>1, Variants, ErrorMade
  <2> QED
    BY <2>2, <2>3 DEF Some
<1> QED
  BY <1>2, <1>3, <1>4, DecodeErrorArms

(* An error comes back whole, but for the text of a BorshIoError: the arm  *)
(* the decoder takes is the one of the variant that was written.           *)
LEMMA ErrorRound ==
    ASSUME NEW e \in Error
    PROVE  DecodeError(EncodeError(e)) =
             Some([variant |-> e.variant, index |-> e.index, inner |-> e.inner,
                   payload |-> IF e.inner = BorshIoError THEN NoText ELSE e.payload])
<1> DEFINE p == EncodeError(e)
<1>1. /\ p.transaction_error = e.variant
      /\ p.instruction_error = IF e.variant = InstructionErrorType
                               THEN Some(EncodeInstructionError(e)) ELSE None
      /\ p.transaction_details = Details(e)
  BY DEF EncodeError
<1> HIDE DEF p
<1>2. e.index % U32 = e.index /\ e.index % U8 = e.index
  BY ErrorFields, NarrowNumbers
<1>3. CASE e.variant = InstructionErrorType
  <2> DEFINE ie == EncodeInstructionError(e)
  <2>1. /\ ie.index = e.index /\ ie.error = e.inner
        /\ ie.custom = IF e.inner = Custom THEN Some(e.payload) ELSE None
    BY <1>2 DEF EncodeInstructionError
  <2> HIDE DEF ie
  <2>2. p.instruction_error # None /\ p.instruction_error[1] = ie
    BY <1>1, <1>3 DEF Some, None, ie
  <2>3. CASE e.inner = Custom
    <3>1. ie.custom # None /\ ie.custom[1] = e.payload
      BY <2>1, <2>3 DEF Some, None
    <3>2. Custom # BorshIoError
      BY DEF Custom, BorshIoError
    <3> QED
      BY <1>1, <1>2, <1>3, <2>1, <2>2, <2>3, <3>1, <3>2, DecodeErrorArms DEF p
  <2>4. CASE e.inner # Custom
    <3>1. e.inner \in PlainInstructionError
      BY <2>4, ErrorFields, Variants
    <3>2. (IF e.inner = BorshIoError THEN NoText ELSE e.payload) = NoText
      BY <2>4, ErrorFields
    <3>3. ie.custom = None
      BY <2>1, <2>4
    <3> QED
      BY <1>1, <1>2, <1>3, <2>1, <2>2, <3>1, <3>2, <3>3, DecodeErrorArms DEF p
  <2> QED
    BY <2>3, <2>4
<1>4. CASE e.variant # InstructionErrorType
  <2>1. e.inner = 0 /\ e.payload = NoText
    BY <1>4, ErrorFields, Variants
  <2>2. (IF e.inner = BorshIoError THEN NoText ELSE e.payload) = NoText
    BY <2>1
  <2>3. CASE e.variant \in Indexed
    <3>1. p.transaction_details # None /\ p.transaction_details[1] = e.index
      BY <1>1, <1>2, <2>3 DEF Details, Some, None
    <3> QED
      BY <1>1, <1>2, <2>1, <2>2, <2>3, <3>1, DecodeErrorArms DEF p
  <2>4. CASE e.variant \in Plain
    <3>1. e.index = 0
      BY <2>4, ErrorFields
    <3> QED
      BY <1>1, <1>2, <2>1, <2>2, <2>4, <3>1, DecodeErrorArms DEF p
  <2> QED
    BY <1>4, <2>3, <2>4, ErrorFields, Variants
<1> QED
  BY <1>3, <1>4

-----------------------------------------------------------------------------
(* Documents of any kind. *)

(* The operators that depend on the kind, kind by kind. *)
LEMMA Kinds ==
    /\ Native("transaction") = Transaction /\ Native("block") = Block
    /\ Native("rewards") = Rewards /\ Native("error") = Error /\ Native("entries") = Seq(Nat)
    /\ Proto("transaction") = ProtoTransaction /\ Proto("block") = ProtoBlock
    /\ Proto("rewards") = ProtoRewards /\ Proto("error") = ProtoError
    /\ Proto("entries") = Seq(ProtoEntry)
  BY DEF Native, Proto

(* The encoder of each kind. *)
LEMMA KindEncode ==
    ASSUME NEW v
    PROVE  /\ EncodeAs("transaction", v) = EncodeTransaction(v)
           /\ EncodeAs("block", v) = EncodeBlock(v)
           /\ EncodeAs("rewards", v) = EncodeRewards(v)
           /\ EncodeAs("error", v) = EncodeError(v)
           /\ EncodeAs("entries", v) = EncodeEntries(v)
  BY DEF EncodeAs

(* The decoder of each kind. *)
LEMMA KindDecode ==
    ASSUME NEW v
    PROVE  /\ DecodeAs("transaction", v) =
                  IF Decodable(v) THEN Some(DecodeTransaction(v)) ELSE None
           /\ DecodeAs("block", v) =
                  IF \A i \in DOMAIN v.transactions : Decodable(v.transactions[i])
                  THEN Some(DecodeBlock(v)) ELSE None
           /\ DecodeAs("rewards", v) = Some(DecodeRewards(v))
           /\ DecodeAs("error", v) = DecodeError(v)
           /\ DecodeAs("entries", v) = Some(DecodeEntries(v))
  BY DEF DecodeAs

(* What "the same" means for each kind. *)
LEMMA KindSame ==
    ASSUME NEW a, NEW b
    PROVE  /\ Same("transaction", a, b) <=> SameTransaction(a, b)
           /\ Same("block", a, b) <=> SameBlock(a, b)
           /\ Same("rewards", a, b) <=> SameRewards(a, b)
           /\ Same("error", a, b) <=> SameError(a, b)
           /\ Same("entries", a, b)
                 <=> Len(a) = Len(b) /\ \A i \in 1..Len(a) : a[i] = b[i] \/ a[i] >= U32
  BY UnwrapSome DEF Same, SameList, SameStart

(* A document is the same as itself. *)
LEMMA SameItself ==
    ASSUME NEW k \in Kind, NEW v \in Native(k)
    PROVE  Same(k, v, v)
<1>1. CASE k = "transaction"
  BY <1>1, Kinds, KindSame, SameTransactionOrder
<1>2. CASE k = "block"
  BY <1>2, Kinds, KindSame, SameBlockOrder
<1>3. CASE k = "rewards"
  BY <1>3, KindSame DEF SameRewards
<1>4. CASE k = "error"
  BY <1>4, Kinds, KindSame, ErrorFields DEF SameError
<1>5. CASE k = "entries"
  BY <1>5, KindSame
<1> QED
  BY <1>1, <1>2, <1>3, <1>4, <1>5 DEF Kind

(* Whoever wrote a document, what a decoder makes of it is well formed. *)
LEMMA DecodedIsNative ==
    ASSUME NEW k \in Kind, NEW v \in Proto(k), DecodeAs(k, v) # None
    PROVE  DecodeAs(k, v)[1] \in Native(k)
<1>0. \A x : Some(x)[1] = x
  BY DEF Some
<1>1. CASE k = "transaction"
  <2>1. Decodable(v)
    BY <1>1, KindDecode
  <2> QED
    BY <1>0, <1>1, <2>1, Kinds, KindDecode, TransactionRead
<1>2. CASE k = "block"
  <2>1. \A i \in DOMAIN v.transactions : Decodable(v.transactions[i])
    BY <1>2, KindDecode
  <2>2. DecodeBlock(v) \in Block
    BY <1>2, <2>1, Kinds, BlockRead
  <2> QED
    BY <1>0, <1>2, <2>1, <2>2, Kinds, KindDecode
<1>3. CASE k = "rewards"
  BY <1>0, <1>3, Kinds, KindDecode, RewardsRead
<1>4. CASE k = "error"
  BY <1>4, Kinds, KindDecode, ErrorRead
<1>5. CASE k = "entries"
  BY <1>0, <1>5, Kinds, KindDecode, EntriesRead
<1> QED
  BY <1>1, <1>2, <1>3, <1>4, <1>5 DEF Kind

(* Written to protobuf and read again, a document is still what it was.    *)
LEMMA RoundTripKeeps ==
    ASSUME NEW k \in Kind, NEW o \in Native(k), NEW v \in Native(k), Same(k, o, v)
    PROVE  LET r == DecodeAs(k, EncodeAs(k, v))
           IN  r # None /\ r[1] \in Native(k) /\ Same(k, o, r[1])
<1> DEFINE r == DecodeAs(k, EncodeAs(k, v))
<1> SUFFICES r # None /\ r[1] \in Native(k) /\ Same(k, o, r[1])
  OBVIOUS
<1>0. \A x : Some(x)[1] = x /\ Some(x) # None
  BY DEF Some, None
<1>1. CASE k = "transaction"
  <2> DEFINE d == DecodeTransaction(EncodeTransaction(v))
  <2>1. Decodable(EncodeTransaction(v)) /\ d \in Transaction /\ SameTransaction(v, d)
    BY <1>1, Kinds, TransactionRound
  <2>2. r = Some(d)
    BY <1>1, <2>1, KindEncode, KindDecode
  <2> HIDE DEF d, r
  <2>3. SameTransaction(o, d)
    BY <1>1, <2>1, Kinds, KindSame, SameTransactionOrder
  <2> QED
    BY <1>0, <1>1, <2>1, <2>2, <2>3, Kinds, KindSame
<1>2. CASE k = "block"
  <2> DEFINE e == EncodeBlock(v)
             d == DecodeBlock(e)
  <2>1. /\ \A i \in DOMAIN e.transactions : Decodable(e.transactions[i])
        /\ d \in Block /\ SameBlock(v, d)
    BY <1>2, Kinds, BlockRound
  <2>2. r = Some(d)
    BY <1>2, <2>1, KindEncode, KindDecode
  <2> HIDE DEF e, d, r
  <2>3. SameBlock(o, d)
    BY <1>2, <2>1, Kinds, KindSame, SameBlockOrder
  <2> QED
    BY <1>0, <1>2, <2>1, <2>2, <2>3, Kinds, KindSame
<1>3. CASE k = "rewards"
  <2>1. r = Some(v)
    BY <1>3, Kinds, KindEncode, KindDecode, RewardsRound
  <2> HIDE DEF r
  <2> QED
    BY <1>0, <2>1
<1>4. CASE k = "error"
  <2> DEFINE d == [variant |-> v.variant, index |-> v.index, inner |-> v.inner,
                   payload |-> IF v.inner = BorshIoError THEN NoText ELSE v.payload]
  <2>1. v \in Error /\ o \in Error /\ SameError(o, v)
    BY <1>4, Kinds, KindSame
  <2>2. r = Some(d)
    BY <1>4, <2>1, KindEncode, KindDecode, ErrorRound
  <2>3. d \in Error
    <3>1. v.inner = BorshIoError => v.inner \in {Custom, BorshIoError}
      OBVIOUS
    <3> QED
      BY <2>1, <3>1, ErrorFields, ErrorMade
  <2>4. SameError(o, d)
    BY <2>1, ErrorFields DEF SameError
  <2> HIDE DEF d, r
  <2> QED
    BY <1>0, <1>4, <2>2, <2>3, <2>4, Kinds, KindSame
<1>5. CASE k = "entries"
  <2> DEFINE d == [i \in 1..Len(v) |-> v[i] % U32]
  <2>1. v \in Seq(Nat) /\ o \in Seq(Nat)
    BY <1>5, Kinds
  <2>2. r = Some(d)
    BY <1>5, <2>1, KindEncode, KindDecode, EntriesRound
  <2>3. d \in Seq(Nat) /\ Len(d) = Len(v)
    <3>1. ASSUME NEW i \in 1..Len(v)
          PROVE  v[i] % U32 \in Nat
      <4>1. v[i] \in Nat
        BY <2>1
      <4> QED
        BY <4>1, NarrowNumbers
    <3> QED
      BY <2>1, <3>1
  <2>4. Len(o) = Len(v) /\ \A i \in 1..Len(o) : o[i] = v[i] \/ o[i] >= U32
    BY <1>5, KindSame
  <2>5. ASSUME NEW i \in 1..Len(o), ~(o[i] >= U32)
        PROVE  o[i] = d[i]
    <3>1. o[i] \in Nat /\ v[i] = o[i] /\ d[i] = v[i] % U32
      BY <2>1, <2>4, <2>5
    <3> HIDE DEF d
    <3>2. o[i] < U32
      BY <2>5, <3>1, ConvertAssumption
    <3> QED
      BY <3>1, <3>2, NarrowNumbers
  <2> HIDE DEF d, r
  <2>6. Same(k, o, d)
    BY <1>5, <2>3, <2>4, <2>5, KindSame
  <2> QED
    BY <1>0, <1>5, <2>2, <2>3, <2>6, Kinds
<1> QED
  BY <1>1, <1>2, <1>3, <1>4, <1>5 DEF Kind

-----------------------------------------------------------------------------
(* A decoder's result is a fixed point: all that a round trip can lose is  *)
(* lost in the first.                                                      *)

(* A balance that was read once does not change any more. *)
LEMMA BalanceFixed ==
    ASSUME NEW b \in ProtoBalance
    PROVE  DecodeBalance(EncodeBalance(DecodeBalance(b))) = DecodeBalance(b)
<1>1. PICK a \in ProtoAmount : UnwrapOr(b.ui_token_amount, DefaultTokenAmount) = a
  BY AmountThere
<1> DEFINE d == DecodeBalance(b)
           i == b.account_index % U8
           u == IF a.ui_amount > Epsilon THEN a.ui_amount ELSE 0
           ui == IF a.ui_amount > Epsilon THEN Some(a.ui_amount) ELSE None
           x == [ui_amount |-> u, amount |-> a.amount, ui_amount_string |-> AmountString(a.amount)]
<1>2. i \in 0..(U8 - 1) /\ i % U32 = i /\ i % U8 = i
  BY AmountThere, NarrowNumbers
<1>3. UnwrapOr(ui, 0) = u
  BY UnwrapSome DEF UnwrapOr
<1>9. a.ui_amount \in Nat /\ a.amount \in Amount
  BY <1>1, AmountRead
<1>4. (IF u > Epsilon THEN Some(u) ELSE None) = ui
  BY <1>9, ConvertAssumption
<1>5. d = [account_index |-> i, ui_amount |-> ui, amount |-> a.amount,
           ui_amount_string |-> AmountString(a.amount)]
  BY <1>1, AmountRead
<1>10. x.ui_amount = u /\ x.amount = a.amount
  OBVIOUS
<1>11. x \in ProtoAmount
  <2>1. u \in Nat
    BY <1>9
  <2> HIDE DEF u
  <2> QED
    BY <1>9, <2>1, AmountText DEF ProtoAmount
<1>6. EncodeBalance(d) = [account_index |-> i, ui_token_amount |-> Some(x)]
  <2> HIDE DEF d, i, u, ui
  <2> QED
    BY <1>2, <1>3, <1>5 DEF EncodeBalance
<1> HIDE DEF d, i, u, ui, x
<1>7. UnwrapOr(EncodeBalance(d).ui_token_amount, DefaultTokenAmount) = x
  BY <1>6, UnwrapSome
<1>8. DecodeBalance(EncodeBalance(d)) = d
  BY <1>2, <1>4, <1>5, <1>6, <1>7, <1>10, <1>11, AmountRead
<1> QED
  BY <1>8 DEF d

(* Nor does a list of them. *)
LEMMA BalanceListFixed ==
    ASSUME NEW s \in Seq(ProtoBalance)
    PROVE  Each(DecodeBalance, Each(EncodeBalance, Each(DecodeBalance, s))) = Each(DecodeBalance, s)
  BY BalanceFixed DEF Each

(* Nor does a meta. *)
LEMMA MetaFixed ==
    ASSUME NEW m \in ProtoMeta
    PROVE  DecodeMeta(EncodeMeta(DecodeMeta(m))) = DecodeMeta(m)
<1> DEFINE d == DecodeMeta(m)
           balances == Each(DecodeBalance, m.token_balances)
           rewards == Each(DecodeReward, m.rewards)
<1>1. d \in Meta
  BY MetaRead
<1>2. /\ d.token_balances = Some(balances) /\ d.rewards = Some(rewards)
      /\ d = [status |-> d.status, inner_instructions |-> d.inner_instructions,
              log_messages |-> d.log_messages, token_balances |-> Some(balances),
              rewards |-> Some(rewards), loaded_addresses |-> d.loaded_addresses,
              return_data |-> d.return_data]
  BY DEF DecodeMeta
<1>3. Each(DecodeBalance, Each(EncodeBalance, balances)) = balances
  BY BalanceListFixed DEF ProtoMeta
<1>4. rewards \in Seq(Reward)
  BY RewardListRead DEF ProtoMeta
<1> HIDE DEF d, balances, rewards
<1>5. Each(DecodeReward, Each(EncodeReward, rewards)) = rewards
  BY <1>4, RewardListRound
<1>6. DecodeMeta(EncodeMeta(d)) = d
  <2> DEFINE e == EncodeMeta(d)
             inner == UnwrapOr(d.inner_instructions, <<>>)
             logs == UnwrapOr(d.log_messages, <<>>)
  <2>1. /\ e.err = d.status
        /\ e.inner_instructions = Each(EncodeInner, inner)
        /\ e.inner_instructions_none = (d.inner_instructions = None)
        /\ e.log_messages = logs
        /\ e.log_messages_none = (d.log_messages = None)
        /\ e.token_balances = Each(EncodeBalance, UnwrapOr(d.token_balances, <<>>))
        /\ e.rewards = Each(EncodeReward, UnwrapOr(d.rewards, <<>>))
        /\ e.loaded_addresses = d.loaded_addresses
        /\ e.return_data = d.return_data
        /\ e.return_data_none = (d.return_data = None)
    BY DEF EncodeMeta
  <2> HIDE DEF e
  <2>2. inner \in Seq(InnerInstructions)
    BY <1>1, MetaFields, UnwrapList
  <2>3. /\ (IF d.inner_instructions = None THEN None ELSE Some(inner)) = d.inner_instructions
        /\ (IF d.log_messages = None THEN None ELSE Some(logs)) = d.log_messages
    BY <1>1, MetaFields, FlaggedRound
  <2> HIDE DEF inner, logs
  <2>4. Each(DecodeInner, e.inner_instructions) = inner
    BY <2>1, <2>2, InnerListRound
  <2>5. (IF e.inner_instructions_none THEN None ELSE Some(Each(DecodeInner, e.inner_instructions)))
          = d.inner_instructions
    BY <2>1, <2>3, <2>4
  <2>6. (IF e.log_messages_none THEN None ELSE Some(e.log_messages)) = d.log_messages
    BY <2>1, <2>3
  <2>7. UnwrapOr(d.token_balances, <<>>) = balances /\ UnwrapOr(d.rewards, <<>>) = rewards
    BY <1>2, UnwrapSome
  <2>8. Each(DecodeBalance, e.token_balances) = balances
    BY <2>1, <2>7, <1>3
  <2>9. Each(DecodeReward, e.rewards) = rewards
    BY <2>1, <2>7, <1>5
  <2>10. (IF e.return_data_none THEN None ELSE e.return_data) = d.return_data
    BY <2>1
  <2>11. DecodeMeta(e) = d
    BY <1>2, <2>1, <2>5, <2>6, <2>8, <2>9, <2>10 DEF DecodeMeta
  <2> QED
    BY <2>11 DEF e
<1> QED
  BY <1>6 DEF d

(* Nor does a transaction. *)
LEMMA TransactionFixed ==
    ASSUME NEW tx \in ProtoTransaction, Decodable(tx)
    PROVE  DecodeTransaction(EncodeTransaction(DecodeTransaction(tx))) = DecodeTransaction(tx)
<1> DEFINE d == DecodeTransaction(tx)
           e == EncodeTransaction(d)
<1>1. tx.meta \in Option(ProtoMeta)
  BY DEF ProtoTransaction
<1>2. d.message = DecodeMessage(tx.message[1]) /\ d.meta = Each(DecodeMeta, tx.meta)
  BY DEF DecodeTransaction
<1>3. d = [message |-> d.message, meta |-> d.meta]
  BY DEF DecodeTransaction
<1> HIDE DEF d
<1>4. e.message[1] = EncodeMessage(d.message) /\ e.meta = Each(EncodeMeta, d.meta)
  BY DEF EncodeTransaction, Some
<1> HIDE DEF e
<1>5. DecodeMessage(e.message[1]) = d.message
  BY <1>2, <1>4, MessageThere, MessageRead, MessageRound
<1>6. Each(DecodeMeta, e.meta) = d.meta
  <2>1. CASE tx.meta = None
    <3>1. d.meta = None
      BY <1>2, <2>1, EachOption
    <3>2. e.meta = None
      BY <1>4, <3>1, EachOption
    <3> QED
      BY <3>1, <3>2, EachOption
  <2>2. ASSUME NEW m \in ProtoMeta, tx.meta = Some(m)
        PROVE  Each(DecodeMeta, e.meta) = d.meta
    <3>1. d.meta = Some(DecodeMeta(m))
      BY <1>2, <2>2, EachOption
    <3>2. e.meta = Some(EncodeMeta(DecodeMeta(m)))
      BY <1>4, <3>1, EachOption
    <3>3. Each(DecodeMeta, e.meta) = Some(DecodeMeta(EncodeMeta(DecodeMeta(m))))
      BY <3>2, EachOption
    <3> QED
      BY <2>2, <3>1, <3>3, MetaFixed
  <2> QED
    BY <1>1, <2>1, <2>2, OptionCases
<1>7. DecodeTransaction(e) = d
  BY <1>3, <1>5, <1>6 DEF DecodeTransaction
<1> QED
  BY <1>7 DEF d, e

(* Nor does a block. *)
LEMMA BlockFixed ==
    ASSUME NEW b \in ProtoBlock, \A i \in DOMAIN b.transactions : Decodable(b.transactions[i])
    PROVE  DecodeBlock(EncodeBlock(DecodeBlock(b))) = DecodeBlock(b)
<1> DEFINE txs == Each(DecodeTransaction, b.transactions)
           rewards == Each(DecodeReward, b.rewards)
           d == DecodeBlock(b)
           e == EncodeBlock(d)
<1>1. b.transactions \in Seq(ProtoTransaction) /\ b.rewards \in Seq(ProtoReward)
  BY DEF ProtoBlock
<1>2. Each(DecodeTransaction, Each(EncodeTransaction, txs)) = txs
  BY <1>1, TransactionFixed DEF Each
<1>3. rewards \in Seq(Reward)
  BY <1>1, RewardListRead
<1>4. d = [transactions |-> txs, rewards |-> rewards, num_partitions |-> b.num_partitions,
           block_height |-> b.block_height]
  BY DEF DecodeBlock
<1> HIDE DEF txs, rewards, d
<1>5. Each(DecodeReward, Each(EncodeReward, rewards)) = rewards
  BY <1>3, RewardListRound
<1>6. /\ e.transactions = Each(EncodeTransaction, txs) /\ e.rewards = Each(EncodeReward, rewards)
      /\ e.num_partitions = b.num_partitions /\ e.block_height = b.block_height
  BY <1>4 DEF EncodeBlock
<1> HIDE DEF e
<1>7. Each(DecodeTransaction, e.transactions) = txs /\ Each(DecodeReward, e.rewards) = rewards
  BY <1>2, <1>5, <1>6
<1>8. DecodeBlock(e) = d
  BY <1>4, <1>6, <1>7 DEF DecodeBlock
<1> QED
  BY <1>8 DEF d, e

(* Nor does an error: its text was given up when it was read. *)
LEMMA ErrorFixed ==
    ASSUME NEW e \in ProtoError, DecodeError(e) # None
    PROVE  DecodeError(EncodeError(DecodeError(e)[1])) = Some(DecodeError(e)[1])
<1> DEFINE d == DecodeError(e)[1]
<1>1. d \in Error
  BY ErrorRead
<1>2. d.inner = BorshIoError => d.payload = NoText
  <2>1. \A x : Some(x)[1] = x
    BY DEF Some
  <2>2. Custom # BorshIoError /\ 0 # BorshIoError
    BY DEF Custom, BorshIoError
  <2>3. ASSUME NEW i, NEW n, NEW x, n = BorshIoError => x = NoText,
               DecodeError(e) = Some([variant |-> e.transaction_error, index |-> i,
                                      inner |-> n, payload |-> x])
        PROVE  d.inner = BorshIoError => d.payload = NoText
    <3>1. d = [variant |-> e.transaction_error, index |-> i, inner |-> n, payload |-> x]
      BY <2>1, <2>3
    <3> HIDE DEF d
    <3> QED
      BY <2>3, <3>1
  <2>4. CASE e.transaction_error = InstructionErrorType /\ e.instruction_error # None
    <3> DEFINE ie == e.instruction_error[1]
    <3>1. CASE ie.custom # None
      <4>1. DecodeError(e) = Some([variant |-> e.transaction_error, index |-> ie.index % U8,
                                   inner |-> Custom, payload |-> ie.custom[1]])
        BY <2>4, <3>1, DecodeErrorArms
      <4> QED
        BY <2>2, <2>3, <4>1
    <3>2. CASE ie.custom = None
      <4>1. DecodeError(e) = Some([variant |-> e.transaction_error, index |-> ie.index % U8,
                                   inner |-> ie.error, payload |-> NoText])
        BY <2>4, <3>2, DecodeErrorArms
      <4> QED
        BY <2>3, <4>1
    <3> QED
      BY <3>1, <3>2
  <2>5. CASE e.transaction_error \in Indexed /\ e.transaction_details # None
    <3>1. DecodeError(e) = Some([variant |-> e.transaction_error,
                                 index |-> e.transaction_details[1] % U8,
                                 inner |-> 0, payload |-> NoText])
      BY <2>5, DecodeErrorArms
    <3> QED
      BY <2>3, <3>1
  <2>6. CASE e.transaction_error \in Plain
    <3>1. DecodeError(e) = Some([variant |-> e.transaction_error, index |-> 0 % U8,
                                 inner |-> 0, payload |-> NoText])
      BY <2>6, DecodeErrorArms
    <3> QED
      BY <2>3, <3>1
  <2> QED
    BY <2>4, <2>5, <2>6, DecodeErrorArms
<1> HIDE DEF d
<1>3. (IF d.inner = BorshIoError THEN NoText ELSE d.payload) = d.payload
  BY <1>2
<1>4. DecodeError(EncodeError(d)) = Some(d)
  BY <1>1, <1>3, ErrorRound, ErrorFields
<1> QED
  BY <1>4 DEF d

(* Nor do entries. *)
LEMMA EntriesFixed ==
    ASSUME NEW s \in Seq(ProtoEntry)
    PROVE  DecodeEntries(EncodeEntries(DecodeEntries(s))) = DecodeEntries(s)
<1> DEFINE d == DecodeEntries(s)
<1>1. d = [i \in 1..Len(s) |-> s[i].starting_transaction_index]
  BY DEF DecodeEntries
<1>2. d \in Seq(Nat)
  BY EntriesRead
<1>3. Len(d) = Len(s)
  BY <1>1, <1>2
<1>4. ASSUME NEW i \in 1..Len(s)
      PROVE  d[i] % U32 = d[i]
  <2>1. s[i] \in ProtoEntry
    BY <1>4
  <2>2. d[i] \in Nat /\ d[i] < U32
    BY <1>1, <2>1, ConvertAssumption DEF ProtoEntry
  <2> QED
    BY <2>2, NarrowNumbers
<1> HIDE DEF d
<1>5. DecodeEntries(EncodeEntries(d)) = [i \in 1..Len(d) |-> d[i] % U32]
  BY <1>2, EntriesRound
<1>6. [i \in 1..Len(d) |-> d[i] % U32] = d
  BY <1>2, <1>3, <1>4
<1> QED
  BY <1>5, <1>6 DEF d

(* Whatever a decoder accepted, from this or an older writer, is encoded   *)
(* and decoded from then on without any change at all: what a conversion   *)
(* gives up (None for an empty list, a dust amount, a text) it gives up    *)
(* the first time.                                                         *)
THEOREM SecondTripExact ==
    ASSUME NEW k \in Kind, NEW v \in Proto(k), DecodeAs(k, v) # None
    PROVE  LET d == DecodeAs(k, v)[1]
           IN  DecodeAs(k, EncodeAs(k, d)) = Some(d)
<1> DEFINE d == DecodeAs(k, v)[1]
<1> SUFFICES DecodeAs(k, EncodeAs(k, d)) = Some(d)
  OBVIOUS
<1>0. \A x : Some(x)[1] = x
  BY DEF Some
<1>1. d \in Native(k)
  BY DecodedIsNative
<1>2. CASE k = "transaction"
  <2>1. d = DecodeTransaction(v)
    BY <1>0, <1>2, KindDecode
  <2>4. Decodable(v)
    BY <1>2, KindDecode
  <2> HIDE DEF d
  <2>2. Decodable(EncodeTransaction(d))
    BY <1>1, <1>2, Kinds, TransactionRound
  <2>3. DecodeTransaction(EncodeTransaction(d)) = d
    BY <1>2, <2>1, <2>4, Kinds, TransactionFixed
  <2> QED
    BY <1>2, <2>2, <2>3, KindEncode, KindDecode
<1>3. CASE k = "block"
  <2>1. d = DecodeBlock(v)
    BY <1>0, <1>3, KindDecode
  <2>5. \A i \in DOMAIN v.transactions : Decodable(v.transactions[i])
    BY <1>3, KindDecode
  <2> HIDE DEF d
  <2> DEFINE e == EncodeBlock(d)
  <2>2. \A i \in DOMAIN e.transactions : Decodable(e.transactions[i])
    BY <1>1, <1>3, Kinds, BlockRound
  <2>3. DecodeBlock(e) = d
    BY <1>3, <2>1, <2>5, Kinds, BlockFixed
  <2>4. EncodeAs(k, d) = e
    BY <1>3, KindEncode
  <2> HIDE DEF e
  <2> QED
    BY <1>3, <2>2, <2>3, <2>4, KindDecode
<1>4. CASE k = "rewards"
  <2> HIDE DEF d
  <2> QED
    BY <1>1, <1>4, Kinds, KindEncode, KindDecode, RewardsRound
<1>5. CASE k = "error"
  BY <1>5, Kinds, KindEncode, KindDecode, ErrorFixed
<1>6. CASE k = "entries"
  <2>1. d = DecodeEntries(v)
    BY <1>0, <1>6, KindDecode
  <2> HIDE DEF d
  <2> QED
    BY <1>6, <2>1, Kinds, KindEncode, KindDecode, EntriesFixed
<1> QED
  BY <1>2, <1>3, <1>4, <1>5, <1>6 DEF Kind

-----------------------------------------------------------------------------
(* The machine. *)

(* New native documents and documents of older writers satisfy the         *)
(* invariant.                                                              *)
LEMMA ConvertStart == Init => ConvertInv
<1> SUFFICES ASSUME Init PROVE ConvertInv
  OBVIOUS
<1>1. kind \in Kind
  BY DEF Init
<1>2. CASE form = "native" /\ value \in Natives[kind] /\ orig = value
  <2>1. value \in Native(kind)
    BY <1>1, <1>2, NativesAssumption
  <2> QED
    BY <1>1, <1>2, <2>1, SameItself DEF ConvertInv, StillThere
<1>3. CASE form = "proto" /\ value \in OldProtos[kind] /\ orig = DecodeAs(kind, value)[1]
  <2>1. value \in Proto(kind) /\ DecodeAs(kind, value) # None
    BY <1>1, <1>3, OldProtosAssumption
  <2>2. orig \in Native(kind)
    BY <1>1, <1>3, <2>1, DecodedIsNative
  <2> QED
    BY <1>1, <1>3, <2>1, <2>2, SameItself DEF ConvertInv, StillThere
<1> QED
  BY <1>2, <1>3 DEF Init

(* Through the bincode form: only what it can hold is stored. *)
LEMMA StoreStep == ConvertInv /\ Store => ConvertInv'
<1> SUFFICES ASSUME ConvertInv, Store PROVE ConvertInv'
  OBVIOUS
<1>1. form' = "stored" /\ kind' = kind /\ orig' = orig
  BY DEF Store
<1>2. kind \in Kind /\ orig \in Native(kind)
  BY DEF ConvertInv
<1>3. CASE /\ kind = "transaction" /\ form = "native" /\ value.meta # None
           /\ Storable(value.meta[1])
           /\ value' = [value EXCEPT !.meta = Each(StoreMeta, @)]
  <2> DEFINE d == [value' EXCEPT !.meta = Each(LoadMeta, @)]
  <2>1. orig \in Transaction /\ value \in Transaction /\ SameTransaction(orig, value)
    BY <1>3, Kinds, KindSame DEF ConvertInv, StillThere
  <2>2. d \in Transaction /\ SameTransaction(value, d)
    BY <1>3, <2>1, TransactionStored
  <2>3. Loaded' = d
    BY <1>1, <1>3 DEF Loaded
  <2> HIDE DEF d
  <2>4. SameTransaction(orig, d)
    BY <2>1, <2>2, SameTransactionOrder
  <2> QED
    BY <1>1, <1>2, <1>3, <2>2, <2>3, <2>4, Kinds, KindSame DEF ConvertInv, StillThere
<1>4. ASSUME NEW r \in Rewards, kind = "rewards", SameRewards(orig, r), value' = StoreRewards(r)
      PROVE  ConvertInv'
  <2> DEFINE d == LoadRewards(StoreRewards(r))
  <2>1. d \in Rewards /\ SameRewards(r, d)
    BY <1>4, RewardsStored
  <2>2. Loaded' = d
    BY <1>1, <1>4 DEF Loaded
  <2> HIDE DEF d
  <2>3. SameRewards(orig, d)
    BY <1>4, <2>1 DEF SameRewards
  <2> QED
    BY <1>1, <1>2, <1>4, <2>1, <2>2, <2>3, Kinds, KindSame DEF ConvertInv, StillThere
<1>5. CASE kind = "rewards" /\ form = "native" /\ value' = StoreRewards(value)
  <2>1. value \in Rewards /\ SameRewards(orig, value)
    BY <1>5, Kinds, KindSame DEF ConvertInv, StillThere
  <2> QED
    BY <1>4, <1>5, <2>1
<1>6. CASE kind = "rewards" /\ form = "proto" /\ value' = StoreRewards(DecodeRewards(value))
  <2>1. DecodeAs(kind, value)[1] = DecodeRewards(value)
    BY <1>6, KindDecode DEF Some
  <2>2. DecodeRewards(value) \in Rewards /\ SameRewards(orig, DecodeRewards(value))
    BY <1>6, <2>1, Kinds, KindSame DEF ConvertInv, StillThere
  <2> QED
    BY <1>4, <1>6, <2>2
<1> QED
  BY <1>3, <1>5, <1>6 DEF Store

(* Every conversion keeps it. *)
LEMMA ConvertStep == ConvertInv /\ [Next]_vars => ConvertInv'
<1> SUFFICES ASSUME ConvertInv, [Next]_vars PROVE ConvertInv'
  OBVIOUS
<1>1. kind \in Kind /\ orig \in Native(kind)
  BY DEF ConvertInv
<1>2. CASE Encode
  <2>1. form = "native" /\ value \in Native(kind) /\ Same(kind, orig, value)
    BY <1>2 DEF Encode, ConvertInv, StillThere
  <2>2. /\ form' = "proto" /\ value' = EncodeAs(kind, value)
        /\ kind' = kind /\ orig' = orig
    BY <1>2 DEF Encode
  <2>3. /\ DecodeAs(kind, value') # None
        /\ DecodeAs(kind, value')[1] \in Native(kind)
        /\ Same(kind, orig, DecodeAs(kind, value')[1])
    BY <1>1, <2>1, <2>2, RoundTripKeeps
  <2> QED
    BY <1>1, <2>2, <2>3 DEF ConvertInv, StillThere
<1>3. CASE Decode
  <2>1. form = "proto" /\ DecodeAs(kind, value) # None /\ StillThere(DecodeAs(kind, value)[1])
    BY <1>3 DEF Decode, ConvertInv
  <2>2. /\ form' = "native" /\ value' = DecodeAs(kind, value)[1]
        /\ kind' = kind /\ orig' = orig
    BY <1>3, <2>1 DEF Decode
  <2> QED
    BY <1>1, <2>1, <2>2 DEF ConvertInv, StillThere
<1>4. CASE Store
  BY <1>4, StoreStep
<1>5. CASE Load
  <2>1. form = "stored" /\ StillThere(Loaded)
    BY <1>5 DEF Load, ConvertInv
  <2>2. form' = "native" /\ value' = Loaded /\ kind' = kind /\ orig' = orig
    BY <1>5 DEF Load
  <2> QED
    BY <1>1, <2>1, <2>2 DEF ConvertInv, StillThere
<1>6. CASE StoredToProto
  <2>1. Loaded \in Native(kind) /\ Same(kind, orig, Loaded)
    BY <1>6 DEF StoredToProto, ConvertInv, StillThere
  <2>2. /\ form' = "proto" /\ value' = EncodeAs(kind, Loaded)
        /\ kind' = kind /\ orig' = orig
    BY <1>6 DEF StoredToProto
  <2>3. /\ DecodeAs(kind, value') # None
        /\ DecodeAs(kind, value')[1] \in Native(kind)
        /\ Same(kind, orig, DecodeAs(kind, value')[1])
    BY <1>1, <2>1, <2>2, RoundTripKeeps
  <2> QED
    BY <1>1, <2>2, <2>3 DEF ConvertInv, StillThere
<1>7. CASE UNCHANGED vars
  BY <1>7 DEF vars, ConvertInv, StillThere, Loaded
<1> QED
  BY <1>2, <1>3, <1>4, <1>5, <1>6, <1>7 DEF Next

(* In whatever form a document is, and however often and by whichever      *)
(* conversions it got there, it can be brought back to a well-formed       *)
(* native document that is the original to its reader.                     *)
THEOREM ConversionsKeep == Spec => []ConvertInv
<1>1. Init => ConvertInv
  BY ConvertStart
<1>2. ConvertInv /\ [Next]_vars => ConvertInv'
  BY ConvertStep
<1> QED
  BY <1>1, <1>2, PTL DEF Spec

(* Documents of any size and integers of any width: nothing a reader       *)
(* relies on is lost by the From and TryFrom implementations.              *)
THEOREM ConversionsFaithful == Spec => []Faithful
<1>1. ConvertInv => Faithful
  BY DEF ConvertInv, Faithful, StillThere
<1> QED
  BY <1>1, ConversionsKeep, PTL

(* No try_from rejects, and no expect panics on, what a from wrote.        *)
THEOREM DecodersAccept == Spec => []NeverFails
<1>1. ConvertInv => NeverFails
  BY DEF ConvertInv, NeverFails
<1> QED
  BY <1>1, ConversionsKeep, PTL

=============================================================================
