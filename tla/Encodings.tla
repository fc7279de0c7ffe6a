----------------------------- MODULE Encodings -----------------------------
(***************************************************************************)
(* Accounts and amounts as text: encode_account and decode_account of      *)
(* rai::uint256_union, encode_dec, decode_dec and format_balance of        *)
(* rai::uint128_union (rai/lib/numbers.cpp), the C interface to them, and  *)
(* the conversions between units of the RPC server (rai/node/rpc.cpp) and  *)
(* of the send form (rai/qt/qt.cpp).                                       *)
(*                                                                         *)
(* The arithmetic is the code's; widths, numbers of digits and units are   *)
(* constants.  The number of an account followed by its checksum, which is *)
(* any function, is written in base 32, five bits to a letter.  Sixty      *)
(* letters hold four bits more than there are, so the first one is `1' or  *)
(* `3'.  A character is the value of its letter, or `Unused': another one  *)
(* of the range that the table covers, or `Outside' of this range.         *)
(***************************************************************************)
EXTENDS Integers, Sequences, SequencesExt

CONSTANTS
    Amounts,            \* 2^128
    MaxDigits,          \* digits of the largest amount: 39
    Copied,             \* what xrb_uint128_to_dec copies of them: 32
    Ratio,              \* units: powers of ten
    Precision,          \* digits wanted behind the point
    Base,               \* letters: 32
    Length,             \* letters of an account number: 60
    Accounts,           \* accounts: 2^256
    Checks,             \* checksums: 2^40
    checksum            \* account -> the hash that ends its text

VARIABLES input, output

vars == <<input, output>>

Amount == 0..(Amounts - 1)
Account == 0..(Accounts - 1)

(* Characters other than digits, in an amount ...                          *)
Minus == 10
Other == 11

(* ... and other than letters, in an account.                              *)
Unused == Base
Outside == -1

(* What an operation ends with instead of a number or a text.              *)
Failed == <<"error">>
Result(x) == <<"result", x>>

-----------------------------------------------------------------------------
Known == {"xrb_", "xrb-", "nano_", "nano-"}

encode_account(a) == [i \in 1..Length |-> ((a * Checks + checksum[a]) \div Base^(Length - i)) % Base]

(* The table has `~' for what is no letter; it is taken as a digit too.    *)
Tilde == 126
account_decode(c) == IF c = Unused THEN Tilde - 48 ELSE c

Number(body) == FoldLeft(LAMBDA n, c : n * Base + account_decode(c), 0, body)

(* The account is left alone (None) when the text is refused before the    *)
(* checksum is compared.                                                   *)
None == -1
decode_account(t) ==
    IF \/ t.prefix \notin Known \/ Len(t.body) # Length
       \/ t.body[1] \notin {0, 1}
       \/ \E i \in 1..Length : t.body[i] = Outside \/ account_decode(t.body[i]) = Tilde
    THEN [error |-> TRUE, account |-> None]
    ELSE LET n == Number(t.body)
             a == (n \div Checks) % Accounts
         IN  [error |-> n % Checks # checksum[a], account |-> a]

xrb_valid_address(t) == IF decode_account(t).error THEN 1 ELSE 0

-----------------------------------------------------------------------------
Power(n) == CHOOSE k \in 0..MaxDigits : 10^k <= n /\ n < 10^(k + 1)
encode_dec(n) == LET k == IF n = 0 THEN 0 ELSE Power(n)
                 IN  [i \in 1..(k + 1) |-> (n \div 10^(k + 1 - i)) % 10]

(* The stream takes digits as long as there are some.                      *)
Value(digits) == FoldLeft(LAMBDA n, d : n * 10 + d, 0, digits)
stream_number(t) == IF \E i \in DOMAIN t : t[i] \notin 0..9 THEN Failed ELSE Result(Value(t))

(* checked_uint128_t throws when the number is too large.  Of an empty text *)
(* the stream takes nothing, and the amount is 0.                          *)
decode_dec(t) ==
    IF Len(t) > MaxDigits \/ (Len(t) > 1 /\ t[1] = 0) \/ (Len(t) > 0 /\ t[1] = Minus) THEN Failed
    ELSE IF stream_number(t) = Failed \/ stream_number(t)[2] >= Amounts THEN Failed
    ELSE stream_number(t)

-----------------------------------------------------------------------------
(* A balance as it is shown: the digits before and behind the point, as    *)
(* numbers, and how many are behind it.  `less' is the text "< 0.01".  The  *)
(* separators are left out.                                                *)
format_frac(value, scale, precision) ==
    FoldLeft(LAMBDA f, i : IF f.reduce > 1 /\ f.rem > 0
                           THEN LET reduce == f.reduce \div 10
                                IN  [reduce |-> reduce, rem |-> f.rem % reduce, places |-> i,
                                     digits |-> 10 * f.digits + f.rem \div reduce]
                           ELSE f,
             [reduce |-> scale, rem |-> value, places |-> 0, digits |-> 0], [i \in 1..precision |-> i])

(* A precision beyond the digits of the unit divides by zero.              *)
format_balance(balance, scale, precision) ==
    LET int_part   == balance \div scale
        frac_part  == balance % scale
        prec_scale == scale \div 10^precision
        small      == int_part = 0 /\ frac_part > 0
        frac       == format_frac(frac_part, scale, precision)
    IN  IF small /\ prec_scale = 0 THEN Failed
        ELSE IF small /\ frac_part \div prec_scale = 0
        THEN Result([less |-> TRUE, whole |-> IF precision > 0 THEN 0 ELSE 1, places |-> precision,
                     digits |-> IF precision > 0 THEN 1 ELSE 0])
        ELSE Result([less |-> FALSE, whole |-> int_part, places |-> frac.places, digits |-> frac.digits])

-----------------------------------------------------------------------------
(* mrai_to_raw, krai_to_raw and rai_to_raw: the product wraps, and it is   *)
(* compared with what was multiplied.                                      *)
to_raw(amount, ratio) ==
    LET result == (amount * ratio) % Amounts
    IN  IF result > amount THEN Result(result) ELSE Failed

(* The send form: it divides again.                                        *)
send_actual(amount, ratio) ==
    LET actual == (amount * ratio) % Amounts
    IN  IF actual \div ratio = amount THEN Result(actual) ELSE Failed

xrb_uint128_to_dec(amount) ==
    LET text == encode_dec(amount)
    IN  Result(SubSeq(text, 1, IF Len(text) < Copied THEN Len(text) ELSE Copied))

-----------------------------------------------------------------------------
(* What a user types: digits or nothing, digits with a sign before or a    *)
(* letter behind them, and accounts of the right length, or of one         *)
(* character less or more.                                                 *)
Typed == UNION {[1..n -> 0..9] : n \in 0..MaxDigits}
         \cup {<<Minus>> \o t : t \in [1..1 -> 0..9]} \cup {t \o <<Other>> : t \in [1..1 -> 0..9]}
TypedAccounts == [prefix : Known \cup {"other"},
                  body : UNION {[1..n -> Outside..Unused] : n \in {Length - 1, Length, Length + 1}}]

Inputs ==
    [op : {"decode"}, text : Typed] \cup [op : {"write"}, amount : Amount]
    \cup [op : {"format"}, amount : Amount, ratio : Ratio, precision : Precision]
    \cup [op : {"to raw", "send"}, amount : Amount, ratio : Ratio] \cup [op : {"to dec"}, amount : Amount]
    \cup [op : {"account"}, text : TypedAccounts] \cup [op : {"write account"}, account : Account, prefix : Known]

(* to_account writes the prefix xrb_; a person may put another before it.  *)
Run(i) == CASE i.op = "decode"   -> decode_dec(i.text)
            [] i.op = "write"    -> decode_dec(encode_dec(i.amount))
            [] i.op = "format"   -> format_balance(i.amount, i.ratio, i.precision)
            [] i.op = "to raw"   -> to_raw(i.amount, i.ratio)
            [] i.op = "send"     -> send_actual(i.amount, i.ratio)
            [] i.op = "to dec"   -> xrb_uint128_to_dec(i.amount)
            [] i.op = "account"  -> Result(decode_account(i.text))
            [] i.op = "write account" -> Result(decode_account([prefix |-> i.prefix, body |-> encode_account(i.account)]))

Init == input \in Inputs /\ output = <<>>

convert == output = <<>> /\ output' = Run(input) /\ UNCHANGED input

Next == convert
Spec == Init /\ [][Next]_vars

Done(op) == input.op = op /\ output # <<>>
Ok == output # Failed

-----------------------------------------------------------------------------
(* decode_account gives back the account that encode_account wrote, with   *)
(* any of the prefixes (the tests account_transcode and                    *)
(* decode_nano_variant).                                                   *)
AccountIsRead == Done("write account") => output = Result([error |-> FALSE, account |-> input.account])

(* An account has one text: what is accepted is, letter by letter, what    *)
(* encode_account writes for the account that was read; xrb_valid_address  *)
(* accepts it and nothing else.  Texts with an unused character are left   *)
(* out: the code counts it as a digit.                                     *)
OneText ==
    Done("account") /\ (\A i \in DOMAIN input.text.body : input.text.body[i] # Unused) =>
        (xrb_valid_address(input.text) = 0) =
            \E a \in Account : input.text.body = encode_account(a) /\ input.text.prefix \in Known

(* decode_dec reads what encode_dec writes, and refuses a text that is not *)
(* what encode_dec writes for the amount: signs, zeros that lead and       *)
(* numbers that are too large (the tests decode_dec_negative,              *)
(* decode_dec_leading_zero and decode_dec_overflow).  One other text is    *)
(* read: the empty one, as 0.                                              *)
DecimalIsExact ==
    /\ Done("write") => output = Result(input.amount)
    /\ Done("decode") /\ Ok => \/ input.text = encode_dec(output[2])
                               \/ input.text = <<>> /\ output[2] = 0

(* The balance that is shown is the value rounded down to the digits       *)
(* wanted, and only zero reads as zero: an amount below the last digit is  *)
(* shown as less than one of it.                                           *)
BalanceRoundsDown ==
    Done("format") /\ Ok =>
        LET shown == output[2]
            units == shown.whole * 10^input.precision + shown.digits * 10^(input.precision - shown.places)
            exact == input.amount * 10^input.precision
        IN  IF shown.less THEN units = 1 /\ 0 < exact /\ exact < input.ratio
            ELSE /\ units * input.ratio <= exact /\ exact < (units + 1) * input.ratio
                 /\ units = 0 => input.amount = 0

(* The send form sends the amount that was typed, in raw, or nothing: a    *)
(* product that wrapped is never sent.                                     *)
SendIsExact == Done("send") /\ Ok => output[2] = input.amount * input.ratio

(* Where the product fits, the RPC server answers with it; and as long as  *)
(* the digits fit in what is copied, the C interface gives all of them.    *)
InRangeIsExact ==
    /\ Done("to raw") /\ input.ratio > 1 /\ input.amount > 0 /\ input.amount * input.ratio < Amounts =>
           output = Result(input.amount * input.ratio)
    /\ Done("to dec") /\ input.amount < 10^Copied => output = Result(encode_dec(input.amount))

=============================================================================
