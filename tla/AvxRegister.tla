---------------------------- MODULE AvxRegister ----------------------------
(***************************************************************************)
(* The vector registers of the sort: a 256-bit register is a sequence of   *)
(* four 64-bit lanes, a 512-bit register one of eight; lane 1 is the one   *)
(* at the lowest address.  The instructions are translated from their      *)
(* emulation in avxintrin_emu.h, the networks from avxcommon.h.            *)
(* Lanes hold non-negative integers: for those (and for no other bit       *)
(* patterns) the floating-point minimum the AVX2 build takes of two keys   *)
(* is their minimum as integers, which is what the AVX-512 build takes.    *)
(***************************************************************************)
EXTENDS Integers, Sequences

Bit(c, k) == (c \div 2^k) % 2

(* Lane-wise minimum and maximum. *)
min_pd(a, b) == [i \in DOMAIN a |-> IF a[i] < b[i] THEN a[i] ELSE b[i]]
max_pd(a, b) == [i \in DOMAIN a |-> IF a[i] < b[i] THEN b[i] ELSE a[i]]

(* Half h \in {0, 1} of a register. *)
Half(r, h) == SubSeq(r, h * (Len(r) \div 2) + 1, (h + 1) * (Len(r) \div 2))

(* Each result lane is one of the two lanes of its own half. *)
permute_pd(r, c) == [i \in 1..4 |-> Half(r, (i - 1) \div 2)[1 + Bit(c, i - 1)]]

(* Each result half is one of the four halves of the operands. *)
permute2f128(a, b, c) ==
    LET param == <<Half(a, 0), Half(a, 1), Half(b, 0), Half(b, 1)>>
        Pick(k) == IF Bit(k, 3) = 1 THEN <<0, 0>> ELSE param[1 + (k % 4)]
    IN  Pick(c % 16) \o Pick(c \div 16)

(* In each half, one lane of the first operand and one of the second. *)
shuffle_pd(a, b, c) ==
    [i \in 1..4 |-> Half(IF i % 2 = 1 THEN a ELSE b, (i - 1) \div 2)[1 + Bit(c, i - 1)]]

unpacklo_pd(a, b) == <<a[1], b[1], a[3], b[3]>>
unpackhi_pd(a, b) == <<a[2], b[2], a[4], b[4]>>
-----------------------------------------------------------------------------
(* The networks of the AVX2 build. *)

REVERSE(reg) == LET r == permute_pd(reg, 5) IN permute2f128(r, r, 1)

BITONIC4(a, b) ==
    LET l1  == min_pd(a, b)
        h1  == max_pd(a, b)
        l1p == permute2f128(l1, h1, 49)
        h1p == permute2f128(l1, h1, 32)
        l2  == min_pd(l1p, h1p)
        h2  == max_pd(l1p, h1p)
        l2p == shuffle_pd(l2, h2, 0)
        h2p == shuffle_pd(l2, h2, 15)
        l3  == min_pd(l2p, h2p)
        h3  == max_pd(l2p, h2p)
        l4  == unpacklo_pd(l3, h3)
        h4  == unpackhi_pd(l3, h3)
    IN  <<permute2f128(l4, h4, 32), permute2f128(l4, h4, 49)>>

BITONIC8(a1, a2, b1, b2) ==
    BITONIC4(min_pd(a1, b1), min_pd(a2, b2)) \o BITONIC4(max_pd(a1, b1), max_pd(a2, b2))

BITONIC_MERGE4(a, b) == BITONIC4(a, REVERSE(b))

(* (Mutant of BITONIC_MERGE8: the registers themselves keep their order.) *)
Mutant_RegistersKept(a1, a2, b1, b2) ==
    BITONIC8(a1, a2, REVERSE(b1), REVERSE(b2))

BITONIC_MERGE8(a1, a2, b1, b2) ==
    BITONIC8(a1, a2, REVERSE(b2), REVERSE(b1))

BITONIC_MERGE16(a, b) ==
    LET rb  == [k \in 1..4 |-> REVERSE(b[5 - k])]
        l   == [k \in 1..4 |-> min_pd(a[k], rb[k])]
        h   == [k \in 1..4 |-> max_pd(a[k], rb[k])]
    IN  BITONIC8(l[1], l[2], l[3], l[4]) \o BITONIC8(h[1], h[2], h[3], h[4])
-----------------------------------------------------------------------------
(* The networks of the AVX-512 build (USE_AVX_512, the default). *)

REVERSE4x64(reg) == [i \in 1..4 |-> reg[5 - i]]
REVERSE8x64(reg) == [i \in 1..8 |-> reg[9 - i]]

BITONIC4_avx512(a, b) ==
    LET l1  == min_pd(a, b)
        h1  == max_pd(a, b)
        l1p == permute2f128(l1, h1, 49)
        h1p == permute2f128(l1, h1, 32)
        l2  == min_pd(l1p, h1p)
        h2  == max_pd(l1p, h1p)
        l2p == unpacklo_pd(l2, h2)
        h2p == unpackhi_pd(l2, h2)
        l3  == min_pd(l2p, h2p)
        h3  == max_pd(l2p, h2p)
        l4  == unpacklo_pd(l3, h3)
        h4  == unpackhi_pd(l3, h3)
    IN  <<permute2f128(l4, h4, 32), permute2f128(l4, h4, 49)>>

BITONIC8_avx512(a, b) ==
    LET l1 == min_pd(a, b)
        h1 == max_pd(a, b)
    IN  BITONIC4_avx512(Half(l1, 0), Half(l1, 1)) \o BITONIC4_avx512(Half(h1, 0), Half(h1, 1))

BITONIC_MERGE4_avx512(a, b) == BITONIC4_avx512(a, REVERSE4x64(b))

(* The four quarter results are copied back into two 512-bit registers. *)
BITONIC_MERGE8_avx512(a, b) ==
    LET q == BITONIC8_avx512(a, REVERSE8x64(b)) IN <<q[1] \o q[2], q[3] \o q[4]>>

BITONIC_MERGE16_avx512(a1, a2, b1, b2) ==
    LET r1 == REVERSE8x64(b1)
        r2 == REVERSE8x64(b2)
        q  == BITONIC8_avx512(min_pd(a1, r2), min_pd(a2, r1))
        p  == BITONIC8_avx512(max_pd(a1, r2), max_pd(a2, r1))
    IN  <<q[1] \o q[2], q[3] \o q[4], p[1] \o p[2], p[3] \o p[4]>>
-----------------------------------------------------------------------------
(* Sorting in registers: an odd-even network over four registers sorts     *)
(* every lane's column, a transposition turns the columns into runs of 4.  *)

SortColumns(ra, rb, rc, rd) ==
    LET ra1 == min_pd(ra, rb)
        rb1 == max_pd(ra, rb)
        rc1 == min_pd(rc, rd)
        rd1 == max_pd(rc, rd)
        rb2 == min_pd(rb1, rd1)
        rd2 == max_pd(rb1, rd1)
        ra2 == min_pd(ra1, rc1)
        rc2 == max_pd(ra1, rc1)
    IN  <<ra2, min_pd(rb2, rc2), max_pd(rb2, rc2), rd2>>

Transpose4(a, b, c, d) ==
    LET a3 == unpacklo_pd(a, b)
        b4 == unpackhi_pd(a, b)
        c4 == unpacklo_pd(c, d)
        d3 == unpackhi_pd(c, d)
    IN  permute2f128(a3, c4, 32) \o permute2f128(b4, d3, 32)
        \o permute2f128(a3, c4, 49) \o permute2f128(b4, d3, 49)

(* The k-th register of n lanes of a sequence of items. *)
Register(items, k, n) == SubSeq(items, (k - 1) * n + 1, k * n)

(* 16 items (AVX2) and 32 items (AVX-512). *)
inregister_sort_avx2(items) ==
    LET r == SortColumns(Register(items, 1, 4), Register(items, 2, 4),
                         Register(items, 3, 4), Register(items, 4, 4))
    IN  Transpose4(r[1], r[2], r[3], r[4])

inregister_sort_avx512(items) ==
    LET r == SortColumns(Register(items, 1, 8), Register(items, 2, 8),
                         Register(items, 3, 8), Register(items, 4, 8))
        Batch(h) == Transpose4(Half(r[1], h), Half(r[2], h), Half(r[3], h), Half(r[4], h))
    IN  Batch(0) \o Batch(1)

inregister_sort_keyval32(items) ==
    IF Len(items) = 16 THEN inregister_sort_avx2(items) ELSE inregister_sort_avx512(items)

(* The aligned variant differs in its loads and stores only. *)
inregister_sort_keyval32_aligned(items) == inregister_sort_keyval32(items)
=============================================================================
