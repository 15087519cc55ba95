------------------------------- MODULE Halves -------------------------------
(***************************************************************************)
(* Numbers of 16 bits and their conversion to floats: binary16 and         *)
(* bfloat16 where a checkpoint is converted (safetensors.cpp), binary16    *)
(* where a GGUF file is read (gguf_loader.h).                              *)
(*                                                                         *)
(* A float is its three fields.  A 16-bit number is an integer; 32 bits of *)
(* which the lower half is zero are written like a bfloat16.               *)
(***************************************************************************)
EXTENDS Integers

\* A number of 16 bits: uint16_t.
Bits16 == 0 .. 65535

Float(sign, exp, man) == [sign |-> sign, exp |-> exp, man |-> man]

\* The fields of a binary16 and of a bfloat16.
Half(h) == Float(h \div 32768, (h \div 1024) % 32, h % 1024)
Brain(h) == Float(h \div 32768, (h \div 128) % 256, h % 128)

Subnormal(f) == f.exp = 0 /\ f.man # 0

\* The shifts that bring the leading bit of a subnormal's fraction to bit 10.
Shifts(man) == CHOOSE k \in 1 .. 10 : man * 2 ^ k \in 1024 .. 2047

Normalized(f, exp) == Float(f.sign, exp, ((f.man * 2 ^ Shifts(f.man)) % 1024) * 8192)

\* sign | (uint32_t) e << 23 | man: a negative exponent sets the sign as well.
Packed(sign, e, man) == Float(IF e < 0 THEN 1 ELSE sign, e % 256, man)

\* Mutant: the exponents are not brought from one bias to the other.
f16_to_f32_SameBias(h) ==
    LET f == Half(h) IN Float(f.sign, f.exp, f.man * 8192)

\* safetensors.cpp, for checkpoints of type F16.
f16_to_f32(h) ==
    LET f == Half(h)
    IN  IF f.exp = 31 THEN Float(f.sign, 255, f.man * 8192)
        ELSE IF f.exp = 0 /\ f.man = 0 THEN Float(f.sign, 0, 0)
        ELSE IF f.exp = 0 THEN Normalized(f, 127 - 15 - Shifts(f.man))
        ELSE Float(f.sign, f.exp - 15 + 127, f.man * 8192)

\* The same for BF16; its subnormals are normalized to bit 7.
bf16_to_f32(h) ==
    LET f == Brain(h)
        shifts == Shifts(8 * f.man)
    IN  IF Subnormal(f)
        THEN Packed(f.sign, 127 - 126 - shifts, ((f.man * 2 ^ shifts) % 128) * 65536)
        ELSE Float(f.sign, f.exp, f.man * 65536)

\* gguf_loader.h, for tensors of type F16 and the scales of blocks.
fp16_to_fp32(h) ==
    LET f == Half(h)
    IN  IF f.exp = 0 /\ f.man = 0 THEN Float(f.sign, 0, 0)
        ELSE IF f.exp = 0
        THEN Normalized(f, 1 + (127 - 15) - (10 - Shifts(f.man)))
        ELSE IF f.exp = 31 THEN Float(f.sign, 255, f.man * 8192)
        ELSE Float(f.sign, f.exp + (127 - 15), f.man * 8192)

\* What they stand for: a binary16 with exponent field 0 is man * 2^-24, so
\* its leading bit, shifted k times, weighs 2^(10 - k - 24).
Exact(type, h) ==
    LET f == Half(h)
    IN  IF type # "F16" THEN Float(Brain(h).sign, Brain(h).exp, Brain(h).man * 65536)
        ELSE IF f.exp = 31 THEN Float(f.sign, 255, f.man * 8192)
        ELSE IF Subnormal(f)
        THEN Normalized(f, 127 + 10 - Shifts(f.man) - 24)
        ELSE IF f.exp = 0 THEN Float(f.sign, 0, 0)
        ELSE Float(f.sign, 127 + f.exp - 15, f.man * 8192)
=============================================================================
