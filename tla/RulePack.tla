------------------------------ MODULE RulePack ------------------------------
(***************************************************************************)
(* How a rule of a P4 table becomes the key, mask and parameters that the  *)
(* driver takes: snp4_table.c of libsnp4 and the parsing half of table.cpp *)
(* of sn-p4.                                                               *)
(*                                                                         *)
(* Numbers are integers, as GMP's are.  The text of a number is <<n>>, or  *)
(* <<>> when mpz_init_set_str cannot read it.  A match is a record         *)
(* [format, key, mask]: key is a text, and mask is the text of the mask of *)
(* a "key_mask", the length of a "prefix"; a "range" has its bounds in key *)
(* and mask as plain numbers.  A field of a table is [type, bits].         *)
(***************************************************************************)
EXTENDS Integers, Sequences

UINT16_MAX == 65535

\* A sequence, whatever its items are.
IsList(q) == Len(q) \in Nat /\ q = [n \in 1 .. Len(q) |-> q[n]]

Ones(bits) == 2^bits - 1

Magnitude(n) == IF n < 0 THEN 0 - n ELSE n

\* Fault: 2^bits itself passes.
WiderThan_OffByOne(n, bits) == bits = 0 \/ Magnitude(n) > 2^bits

\* mpz_sizeinbase(n, 2) > bits: the size ignores the sign, and that of 0 is 1.
WiderThan(n, bits) == bits = 0 \/ Magnitude(n) >= 2^bits

\* Bit i of n in the two's complement of any length that GMP shows.
Bit(n, i) == (n \div 2^i) % 2

\* What table_rule_parse_match says of one match.
ParseMatch(m) ==
  CASE m.format = "key_mask" -> IF m.key = <<>> THEN "INVALID_KEY_FORMAT"
                                ELSE IF m.mask = <<>> THEN "INVALID_MASK_FORMAT"
                                ELSE "OK"
    [] m.format = "key_only" -> IF m.key = <<>> THEN "INVALID_KEY_FORMAT" ELSE "OK"
    [] m.format = "prefix"   -> IF m.mask > UINT16_MAX THEN "INVALID_PREFIX_LENGTH"
                                ELSE IF m.key = <<>> THEN "INVALID_KEY_FORMAT"
                                ELSE "OK"
    [] m.format = "range"    -> IF m.key > UINT16_MAX THEN "RANGE_LOWER_TOO_BIG"
                                ELSE IF m.mask > UINT16_MAX THEN "RANGE_UPPER_TOO_BIG"
                                ELSE "OK"
    [] m.format = "unused"   -> "OK"
    [] OTHER                 -> "UNKNOWN_MATCH_TYPE"

\* The key and the mask of one field, the mask by default when none is given.
KeyPart(m) ==
  CASE m.format = "range"  -> m.key
    [] m.format = "unused" -> 0
    [] OTHER               -> m.key[1]

DefaultMask(m, field) ==
  CASE field.type = "range"  -> KeyPart(m)
    [] field.type = "unused" -> 0
    [] OTHER                 -> Ones(field.bits)

MaskPart(m, field) ==
  CASE m.format = "key_mask" -> m.mask[1]
    [] m.format = "key_only" -> DefaultMask(m, field)
    [] m.format = "prefix"   -> Ones(m.mask) * 2^(field.bits - m.mask)
    [] m.format = "range"    -> m.mask
    [] m.format = "unused"   -> 0

\* No zero of the field stands above a one.
IsPrefixMask(mask, bits) ==
  ~ \E low \in 0 .. bits - 1, high \in 0 .. bits - 1 :
       low < high /\ Bit(mask, low) = 1 /\ Bit(mask, high) = 0

MaskAllowed(key, mask, field) ==
  CASE field.type = "bitfield" -> mask \in {0, Ones(field.bits)}
    [] field.type = "constant" -> mask = Ones(field.bits)
    [] field.type = "prefix"   -> IsPrefixMask(mask, field.bits)
    [] field.type = "range"    -> mask >= key
    [] field.type = "ternary"  -> TRUE
    [] field.type = "unused"   -> mask = 0

\* pack_partial_key_mask: what it says of a match for a field.
FieldStatus(m, field) ==
  IF m.format = "prefix" /\ m.mask > field.bits THEN "MASK_TOO_WIDE"
  ELSE IF field.type = "invalid" THEN "UNKNOWN_FIELD_TYPE"
  ELSE LET key  == KeyPart(m)
           mask == MaskPart(m, field)
       IN IF ~ MaskAllowed(key, mask, field) THEN "INVALID_MASK"
          ELSE IF WiderThan(key, field.bits) THEN "KEY_TOO_BIG"
          ELSE IF WiderThan(mask, field.bits) THEN "MASK_TOO_BIG"
          ELSE "OK"

\* mpz_mul_2exp(all, bits) then mpz_ior(all, part), for a part that is not
\* wider than bits: all the bits of a negative part above bits are ones.
Extend(all, part, bits) == IF part < 0 THEN part ELSE all * 2^bits + part

\* The parts of a sequence one after the other, the first in the high bits.
Joined(parts, bits) ==
  LET all[i \in 0 .. Len(parts)] ==
        IF i = 0 THEN 0 ELSE Extend(all[i - 1], parts[i], bits[i])
  IN  all[Len(parts)]

\* The bits of all parts together.
Total(bits) ==
  LET upTo[i \in 0 .. Len(bits)] == IF i = 0 THEN 0 ELSE upTo[i - 1] + bits[i]
  IN  upTo[Len(bits)]

\* The first complaint of a sequence of verdicts, or "OK".
FirstFailure(verdicts) ==
  LET bad == {i \in DOMAIN verdicts : verdicts[i] # "OK"}
  IN  IF bad = {} THEN "OK"
      ELSE verdicts[CHOOSE i \in bad : \A j \in bad : i <= j]

Widths(fields) == [i \in DOMAIN fields |-> fields[i].bits]

KeyOf(matches, fields) ==
  Joined([i \in DOMAIN matches |-> KeyPart(matches[i])], Widths(fields))

MaskOf(matches, fields) ==
  Joined([i \in DOMAIN matches |-> MaskPart(matches[i], fields[i])], Widths(fields))

\* snp4_rule_pack_matches: the fields one by one, then the size of the whole.
MatchesStatus(matches, fields, key_bits) ==
  LET first == FirstFailure([i \in DOMAIN matches |-> FieldStatus(matches[i], fields[i])])
  IN  IF first # "OK" THEN first
      ELSE IF WiderThan(KeyOf(matches, fields), key_bits) THEN "PACK_KEY_TOO_BIG"
      ELSE IF WiderThan(MaskOf(matches, fields), key_bits) THEN "PACK_MASK_TOO_BIG"
      ELSE "OK"

\* What mpz_export leaves in the arrays: it drops the sign.
PackedKey(matches, fields)  == Magnitude(KeyOf(matches, fields))
PackedMask(matches, fields) == Magnitude(MaskOf(matches, fields))

ParamsOf(params, widths) == Joined([i \in DOMAIN params |-> params[i][1]], widths)

\* snp4_rule_pack_params, for the widths of the parameters of an action.
ParamsStatus(params, widths, param_bits) ==
  IF param_bits = 0 THEN "OK"
  ELSE IF \E i \in DOMAIN params : WiderThan(params[i][1], widths[i]) THEN "PARAM_TOO_BIG"
  ELSE IF WiderThan(ParamsOf(params, widths), param_bits) THEN "PACK_PARAMS_TOO_BIG"
  ELSE "OK"

PackedParams(params, widths, param_bits) ==
  IF param_bits = 0 THEN 0 ELSE Magnitude(ParamsOf(params, widths))
=============================================================================
