------------------------------- MODULE Codecs -------------------------------
(***************************************************************************)
(* The pure conversions of the C++ API (mdbx.c++): the text encoders and   *)
(* decoders of slices (hexadecimal, Base58, Base64), slice::is_printable,  *)
(* the size-adaptive integer readers, and the translation between the      *)
(* flags of the C API and env::operate_parameters.                         *)
(*                                                                         *)
(* A slice is a sequence of bytes, a text is a sequence of ASCII codes.    *)
(* A decoder returns [ok, bytes]: ok = FALSE is the std::domain_error.     *)
(* The limbs of the Base58 arithmetic are parameters, since the modulus    *)
(* 58^9 of the 64-bit build is out of TLC's integers.                      *)
(***************************************************************************)
EXTENDS Integers, Sequences, FiniteSets, SequencesExt

CONSTANTS
    B58Digits,      \* Base58 digits of a limb when encoding: 9, or 4 with 32 bits
    B58Bytes        \* bytes of a limb when decoding: 7, or 3 with 32 bits

ASSUME LimbAssumption == B58Digits \in Nat \ {0} /\ B58Bytes \in Nat \ {0}

NL == 10
Bad == [ok |-> FALSE, bytes |-> <<>>]
Ok(s) == [ok |-> TRUE, bytes |-> s]
isspace(c) == c = 32 \/ c \in 9 .. 13
IsDigit(c) == c \in 48 .. 57
isxdigit(c) == IsDigit(c) \/ c \in 65 .. 70 \/ c \in 97 .. 102

\* envisage_result_length of an encoder: room for the wrapping of the lines.
Wrapped(bytes, wrap) == IF wrap > 0 THEN bytes + bytes \div wrap ELSE bytes

-----------------------------------------------------------------------------
(* Hexadecimal.                                                            *)

\* '0' + h + (((9 - h) >> 7) & alpha_offset).
HexDigit(h, uppercase) ==
    48 + h + IF h > 9 THEN (IF uppercase THEN 65 ELSE 97) - 58 ELSE 0

\* to_hex::write_bytes: a line break goes before a byte when the line is full.
ToHex(source, uppercase, wrap) ==
    LET put(acc, b) ==
            LET break == wrap > 0 /\ Len(acc.out) - acc.line >= wrap
                out == IF break THEN Append(acc.out, NL) ELSE acc.out
            IN  [line |-> IF break THEN Len(out) ELSE acc.line,
                 out |-> out \o << HexDigit(b \div 16, uppercase),
                                   HexDigit(b % 16, uppercase) >>]
    IN  FoldLeft(put, [line |-> 0, out |-> <<>>], source).out

\* to_hex::output: the same text, counting the width of the line instead.
ToHexOutput(source, uppercase, wrap) ==
    LET put(acc, b) ==
            LET break == wrap > 0 /\ acc.width >= wrap
            IN  [width |-> (IF break THEN 0 ELSE acc.width) + 2,
                 out |-> acc.out \o (IF break THEN <<NL>> ELSE <<>>)
                            \o << HexDigit(b \div 16, uppercase),
                                  HexDigit(b % 16, uppercase) >>]
    IN  FoldLeft(put, [width |-> 0, out |-> <<>>], source).out

\* (c | 0x20) - 'a', then 10 + ((. >> 7) & 39).
HexValue(c) ==
    LET h == (IF (c \div 32) % 2 = 1 THEN c ELSE c + 32) - 97
    IN  h + 10 + IF h < 0 THEN 39 ELSE 0

\* The loop of from_hex::write_bytes from the i-th character on.
RECURSIVE FromHexAt(_, _, _)
FromHexAt(source, ignore_spaces, i) ==
    CASE i > Len(source) -> Ok(<<>>)
      [] i <= Len(source) /\ ignore_spaces /\ isspace(source[i]) ->
            FromHexAt(source, ignore_spaces, i + 1)
      [] OTHER ->
            IF i = Len(source) \/ ~isxdigit(source[i]) \/ ~isxdigit(source[i + 1])
            THEN Bad
            ELSE LET rest == FromHexAt(source, ignore_spaces, i + 2)
                 IN  IF rest.ok
                     THEN Ok(<<HexValue(source[i]) * 16 + HexValue(source[i + 1])>>
                                \o rest.bytes)
                     ELSE Bad

FromHex(source, ignore_spaces) ==
    IF Len(source) % 2 = 1 /\ ~ignore_spaces
    THEN Bad
    ELSE FromHexAt(source, ignore_spaces, 1)

\* from_hex::is_erroneous: the same scan, which also asks for a byte.
RECURSIVE HexScan(_, _, _, _)
HexScan(source, ignore_spaces, i, got) ==
    CASE i > Len(source) -> ~got
      [] i <= Len(source) /\ ignore_spaces /\ isspace(source[i]) ->
            HexScan(source, ignore_spaces, i + 1, got)
      [] OTHER ->
            \/ i = Len(source)
            \/ ~isxdigit(source[i])
            \/ ~isxdigit(source[i + 1])
            \/ HexScan(source, ignore_spaces, i + 2, TRUE)

HexErroneous(source, ignore_spaces) ==
    \/ Len(source) % 2 = 1 /\ ~ignore_spaces
    \/ HexScan(source, ignore_spaces, 1, FALSE)

-----------------------------------------------------------------------------
(* Base58: a big number in limbs, the least significant first.             *)

\* b58_alphabet: digits without '0', letters without 'I', 'O' and 'l'.
b58_alphabet ==
    LET codes == (49 .. 57) \cup ((65 .. 90) \ {73, 79}) \cup ((97 .. 122) \ {108})
    IN  SelectSeq([c \in 1 .. 122 |-> c], LAMBDA c : c \in codes)

\* b58_map: the value of a character, negative when it is not a digit.
b58_map ==
    [c \in 0 .. 255 |->
        IF \E i \in 1 .. 58 : b58_alphabet[i] = c
        THEN (CHOOSE i \in 1 .. 58 : b58_alphabet[i] = c) - 1
        ELSE IF isspace(c) THEN -2 ELSE -1]

\* The do loop shared by b58_encode and b58_decode: the number of limbs is
\* multiplied by mul and carry is added to it, in place.
RECURSIVE Carry(_, _, _, _, _)
Carry(limbs, i, carry, mul, base) ==
    LET v == carry + (IF i <= Len(limbs) THEN limbs[i] ELSE 0) * mul
        done == IF i <= Len(limbs) THEN [limbs EXCEPT ![i] = v % base]
                                   ELSE Append(limbs, v % base)
    IN  IF v \div base > 0 \/ i < Len(limbs)
        THEN Carry(done, i + 1, v \div base, mul, base)
        ELSE done

\* The digits of one limb in the given base, the most significant first.
Digits(limb, base, n) == [k \in 1 .. n |-> (limb \div base ^ (n - k)) % base]

\* What the limbs spell, without the leading zeros.
Spell(limbs, base, n) ==
    LET all == FlattenSeq([k \in 1 .. Len(limbs) |->
                              Digits(limbs[Len(limbs) + 1 - k], base, n)])
        zero(k) == \A j \in 1 .. k : all[j] = 0
        skip == Cardinality({k \in 1 .. Len(all) : zero(k)})
    IN  SubSeq(all, skip + 1, Len(all))

\* The words of a b58_buffer for so many bytes.
b58_buffer(bytes, num, den, word) ==
    LET b == (bytes * num + den - 1) \div den
    IN  ((b + word - 2) \div (word - 1)) * word

b58_limbs(source) ==
    FoldLeft(LAMBDA limbs, b : Carry(limbs, 1, b, 256, 58 ^ B58Digits), <<>>, source)

b58_encode(source) ==
    LET digits == Spell(b58_limbs(source), 58, B58Digits)
    IN  [k \in 1 .. Len(digits) |-> b58_alphabet[digits[k] + 1]]

Zeros(source) == Cardinality({k \in 1 .. Len(source) : \A j \in 1 .. k : source[j] = 0})

\* line_wrapper::put of a character: the line is broken as soon as it is full.
WrapPut(w, c, wrap) ==
    LET out == Append(w.out, c)
    IN  IF wrap > 0 /\ Len(out) >= wrap + w.line
        THEN [line |-> Len(out) + 1, out |-> Append(out, NL)]
        ELSE [w EXCEPT !.out = out]

\* line_wrapper::put of a chunk.
WrapPutChunk(w, chunk, wrap) ==
    IF wrap = 0 \/ wrap > (Len(w.out) - w.line) + Len(chunk)
    THEN [w EXCEPT !.out = @ \o chunk]
    ELSE FoldLeft(LAMBDA acc, c : WrapPut(acc, c, wrap), w, chunk)

\* to_base58::write_bytes: a '1' for every leading zero byte, then the number.
ToBase58(source, wrap) ==
    LET zeros == Zeros(source)
        ones == FoldLeft(LAMBDA w, c : WrapPut(w, c, wrap), [line |-> 0, out |-> <<>>],
                         [k \in 1 .. zeros |-> 49])
    IN  WrapPutChunk(ones, b58_encode(SubSeq(source, zeros + 1, Len(source))), wrap).out

\* to_base58::output: the same text, counting the width of the line instead.
ToBase58Output(source, wrap) ==
    LET put(acc, c) ==
            LET full == wrap > 0 /\ acc.width + 1 >= wrap
            IN  [width |-> IF full THEN 0 ELSE acc.width + 1,
                 out |-> acc.out \o IF full THEN <<c, NL>> ELSE <<c>>]
        zeros == Zeros(source)
        ones == FoldLeft(put, [width |-> 0, out |-> <<>>], [k \in 1 .. zeros |-> 49])
        chunk == b58_encode(SubSeq(source, zeros + 1, Len(source)))
    IN  IF wrap = 0 \/ wrap > ones.width + Len(chunk)
        THEN ones.out \o chunk
        ELSE FoldLeft(put, ones, chunk).out

\* b58_decode: the digits are gathered, spaces are skipped when allowed.
b58_gather(source, ignore_spaces) ==
    LET put(acc, c) ==
            IF b58_map[c] >= 0
            THEN [acc EXCEPT !.bytes = Carry(@, 1, b58_map[c], 58, 256 ^ B58Bytes)]
            ELSE [acc EXCEPT !.ok = @ /\ ignore_spaces /\ isspace(c)]
    IN  FoldLeft(put, Ok(<<>>), source)

b58_decode(source, ignore_spaces) ==
    LET limbs == b58_gather(source, ignore_spaces)
    IN  IF limbs.ok THEN Ok(Spell(limbs.bytes, 256, B58Bytes)) ELSE Bad

\* from_base58::write_bytes: every leading '1' is a zero byte.  No character
\* below '1' starts the number.
FromBase58(source, ignore_spaces) ==
    LET head == Cardinality({k \in 1 .. Len(source) :
                                \A j \in 1 .. k : source[j] <= 49})
        ones == SelectSeq(SubSeq(source, 1, head), LAMBDA c : c = 49)
        junk == \E j \in 1 .. head :
                    source[j] # 49 /\ ~(ignore_spaces /\ isspace(source[j]))
        rest == b58_decode(SubSeq(source, head + 1, Len(source)), ignore_spaces)
    IN  IF junk \/ ~rest.ok THEN Bad
        ELSE Ok([k \in 1 .. Len(ones) |-> 0] \o rest.bytes)

\* from_base58::is_erroneous.
Base58Erroneous(source, ignore_spaces) ==
    \E i \in 1 .. Len(source) :
        b58_map[source[i]] < 0 /\ ~(ignore_spaces /\ isspace(source[i]))

-----------------------------------------------------------------------------
(* Base64.                                                                 *)

b64_alphabet ==
    [i \in 0 .. 63 |-> CASE i < 26 -> 65 + i
                         [] i \in 26 .. 51 -> 71 + i
                         [] i \in 52 .. 61 -> i - 4
                         [] i = 62 -> 43
                         [] i = 63 -> 47]

\* b64_map: OO = -8, EQ = -4, SP = -2, IL = -1.
EQ == -4
b64_map ==
    [c \in 0 .. 255 |->
        CASE \E i \in 0 .. 63 : b64_alphabet[i] = c ->
                CHOOSE i \in 0 .. 63 : b64_alphabet[i] = c
          [] c = 61 -> EQ
          [] c = 0 -> -8
          [] isspace(c) -> -2
          [] OTHER -> -1]

b64_3to4(x, y, z) ==
    << b64_alphabet[x \div 4],
       b64_alphabet[(x % 4) * 16 + y \div 16],
       b64_alphabet[(y % 16) * 4 + z \div 64],
       b64_alphabet[z % 64] >>

\* Mutant: a single byte is padded like two.
b64_tailShort(source, i, left) ==
    IF left = 0 THEN <<>>
    ELSE SubSeq(b64_3to4(source[i], IF left = 2 THEN source[i + 1] ELSE 0, 0), 1, 3) \o <<61>>

\* The last quad, of one or two bytes.
b64_tail(source, i, left) ==
    CASE left = 2 -> SubSeq(b64_3to4(source[i], source[i + 1], 0), 1, 3) \o <<61>>
      [] left = 1 -> SubSeq(b64_3to4(source[i], 0, 0), 1, 2) \o <<61, 61>>
      [] left = 0 -> <<>>

\* to_base64::write_bytes from the i-th byte on; line is where the line began.
RECURSIVE ToBase64At(_, _, _, _, _)
ToBase64At(source, wrap, i, line, out) ==
    LET left == Len(source) + 1 - i
        quad == out \o b64_3to4(source[i], source[i + 1], source[i + 2])
        break == wrap > 0 /\ Len(quad) - line >= wrap /\ left > 3
    IN  IF left < 3
        THEN out \o b64_tail(source, i, left)
        ELSE ToBase64At(source, wrap, i + 3, IF break THEN Len(quad) + 1 ELSE line,
                        IF break THEN Append(quad, NL) ELSE quad)

ToBase64(source, wrap) == ToBase64At(source, wrap, 1, 0, <<>>)

\* to_base64::output: the same text, counting the width of the line instead.
RECURSIVE ToBase64OutputAt(_, _, _, _)
ToBase64OutputAt(source, wrap, i, width) ==
    LET left == Len(source) + 1 - i
        break == wrap > 0 /\ width + 4 >= wrap /\ left > 3
    IN  IF left < 3
        THEN b64_tail(source, i, left)
        ELSE b64_3to4(source[i], source[i + 1], source[i + 2])
                \o (IF break THEN <<NL>> ELSE <<>>)
                \o ToBase64OutputAt(source, wrap, i + 3, IF break THEN 0 ELSE width + 4)

ToBase64Output(source, wrap) == ToBase64OutputAt(source, wrap, 1, 0)

\* b64_4to3, of which the decoder keeps the first n bytes.
b64_4to3(a, b, c, d, n) ==
    SubSeq(<< a * 4 + b \div 16, (b % 16) * 16 + c \div 4, (c % 4) * 64 + d >>, 1, n)

\* from_base64::write_bytes from the i-th character on.  Only the last quad may
\* be padded.
RECURSIVE FromBase64At(_, _, _, _)
FromBase64At(source, ignore_spaces, i, out) ==
    LET left == Len(source) + 1 - i
        v(k) == b64_map[source[i + k]]
        plain == \A k \in 0 .. 3 : v(k) >= 0
        padded == left = 4 /\ v(0) >= 0 /\ v(1) >= 0 /\ v(3) = EQ
    IN  IF left = 0 THEN Ok(out)
        ELSE IF ignore_spaces /\ isspace(source[i])
             THEN FromBase64At(source, ignore_spaces, i + 1, out)
        ELSE IF left < 4 THEN Bad
        ELSE IF plain
             THEN FromBase64At(source, ignore_spaces, i + 4,
                               out \o b64_4to3(v(0), v(1), v(2), v(3), 3))
        ELSE IF padded /\ v(2) >= 0 THEN Ok(out \o b64_4to3(v(0), v(1), v(2), 0, 2))
        ELSE IF padded /\ v(2) = EQ THEN Ok(out \o b64_4to3(v(0), v(1), 0, 0, 1))
        ELSE Bad

FromBase64(source, ignore_spaces) ==
    IF Len(source) % 4 # 0 /\ ~ignore_spaces
    THEN Bad
    ELSE FromBase64At(source, ignore_spaces, 1, <<>>)

\* from_base64::is_erroneous.
RECURSIVE Base64Scan(_, _, _, _)
Base64Scan(source, ignore_spaces, i, got) ==
    LET left == Len(source) + 1 - i
        v(k) == b64_map[source[i + k]]
    IN  IF left = 0 THEN ~got
        ELSE IF ignore_spaces /\ isspace(source[i])
             THEN Base64Scan(source, ignore_spaces, i + 1, got)
        ELSE IF left < 4 THEN TRUE
        ELSE IF \A k \in 0 .. 3 : v(k) >= 0
             THEN Base64Scan(source, ignore_spaces, i + 4, TRUE)
        ELSE ~( /\ left = 4 /\ v(0) >= 0 /\ v(1) >= 0 /\ v(3) = EQ
                /\ v(2) >= 0 \/ v(2) = EQ )

Base64Erroneous(source, ignore_spaces) ==
    \/ Len(source) % 4 # 0 /\ ~ignore_spaces
    \/ Base64Scan(source, ignore_spaces, 1, FALSE)

-----------------------------------------------------------------------------
(* slice::is_printable and the integer adapters.                           *)

\* map of is_printable: the length of the sequence a byte starts and the range
\* of its second byte; 0 when no sequence starts with it.
Lead(c) ==
    CASE c \in 32 .. 126   -> [len |-> 1, from |-> 128, to |-> 191]
      [] c \in 194 .. 223  -> [len |-> 2, from |-> 128, to |-> 191]
      [] c = 224           -> [len |-> 3, from |-> 160, to |-> 191]
      [] c = 237           -> [len |-> 3, from |-> 128, to |-> 159]
      [] c \in (225 .. 239) \ {237} -> [len |-> 3, from |-> 128, to |-> 191]
      [] c = 240           -> [len |-> 4, from |-> 144, to |-> 191]
      [] c \in 241 .. 243  -> [len |-> 4, from |-> 128, to |-> 191]
      [] c = 244           -> [len |-> 4, from |-> 128, to |-> 143]
      [] OTHER             -> [len |-> 0, from |-> 128, to |-> 191]

\* (P_ | X_) & map[c]: printable in an extended ASCII.  The leads of two and of
\* four bytes have none of the two bits, those of three bytes share one with P_.
Extended(c) ==
    \/ c \in 32 .. 126
    \/ c \in (130 .. 193) \ {141, 143, 144, 157}
    \/ c \in 224 .. 239
    \/ c \in 245 .. 255

RECURSIVE Utf8At(_, _)
Utf8At(s, i) ==
    \/ i = Len(s) + 1
    \/ LET lead == Lead(s[i])
       IN  /\ lead.len > 0
           /\ i + lead.len - 1 <= Len(s)
           /\ lead.len > 1 => s[i + 1] \in lead.from .. lead.to
           /\ \A k \in 2 .. lead.len - 1 : s[i + k] \in 128 .. 191
           /\ Utf8At(s, i + lead.len)

is_printable(s, disable_utf8) ==
    /\ s # <<>>
    /\ IF disable_utf8 THEN \A i \in DOMAIN s : Extended(s[i])
                       ELSE Utf8At(s, 1)

\* as_uint64_adapt and the narrower ones it falls back to: little endian, an
\* empty slice is zero, -1 stands for throw_bad_value_size.
RECURSIVE as_uint_adapt(_, _)
as_uint_adapt(s, width) ==
    IF Len(s) = width
    THEN FoldRight(LAMBDA b, acc : acc * 256 + b, s, 0)
    ELSE IF width > 1 THEN as_uint_adapt(s, width \div 2)
    ELSE IF s = <<>> THEN 0 ELSE -1

-----------------------------------------------------------------------------
(* Parameters of an environment and the flags of the C API.                *)

Modes == {"readonly", "write_file_io", "write_mapped_io"}

mode2flags(mode) ==
    CASE mode = "readonly" -> {"RDONLY"}
      [] mode = "write_file_io" -> {}
      [] mode = "write_mapped_io" -> {"WRITEMAP"}

\* MDBX_UTTERLY_NOSYNC is MDBX_SAFE_NOSYNC and a bit of its own.
DurabilityFlags(durability) ==
    CASE durability = "robust_synchronous" -> {}
      [] durability = "half_synchronous_weak_last" -> {"NOMETASYNC"}
      [] durability = "lazy_weak_tail" -> {"SAFE_NOSYNC"}
      [] durability = "whole_fragile" -> {"SAFE_NOSYNC", "UTTERLY"}

\* The options that are a flag each.
OptionFlags ==
    [exclusive |-> "EXCLUSIVE", no_sticky_threads |-> "NOSTICKYTHREADS",
     disable_readahead |-> "NORDAHEAD", disable_clear_memory |-> "NOMEMINIT",
     enable_validation |-> "VALIDATION"]

\* env::operate_parameters::make_flags; options is the set of those switched on.
make_flags(p) ==
    LET base == mode2flags(p.mode)
                   \cup {OptionFlags[o] : o \in p.options \cap DOMAIN OptionFlags}
    IN  IF p.mode = "readonly" THEN base
        ELSE (IF "nested_transactions" \in p.options THEN base \ {"WRITEMAP"} ELSE base)
                \cup (IF p.lifo THEN {"LIFORECLAIM"} ELSE {})
                \cup DurabilityFlags(p.durability)

mode_from_flags(flags) ==
    IF "RDONLY" \in flags THEN "readonly"
    ELSE IF "WRITEMAP" \in flags THEN "write_mapped_io" ELSE "write_file_io"

durability_from_flags(flags) ==
    IF {"SAFE_NOSYNC", "UTTERLY"} \subseteq flags THEN "whole_fragile"
    ELSE IF "SAFE_NOSYNC" \in flags THEN "lazy_weak_tail"
    ELSE IF "NOMETASYNC" \in flags THEN "half_synchronous_weak_last"
    ELSE "robust_synchronous"

options_from_flags(flags) ==
    {o \in DOMAIN OptionFlags :
        /\ OptionFlags[o] \in flags
        /\ o = "no_sticky_threads" => "EXCLUSIVE" \notin flags}
    \cup IF flags \cap {"WRITEMAP", "RDONLY"} = {} THEN {"nested_transactions"} ELSE {}

\* The constructor of env::operate_parameters from the flags of an environment.
params_from_flags(flags) ==
    [mode |-> mode_from_flags(flags), durability |-> durability_from_flags(flags),
     lifo |-> "LIFORECLAIM" \in flags, options |-> options_from_flags(flags)]
=============================================================================
