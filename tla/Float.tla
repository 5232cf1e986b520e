------------------------------- MODULE Float -------------------------------
(***************************************************************************)
(* stdlib/strtod.c: reading and writing floating-point numbers, with the   *)
(* integers of any length both need.                                       *)
(*                                                                         *)
(* The format is a constant.  A word has W bits (32 in the code), a half   *)
(* of it H; a double has P bits of mantissa (53) and the bias Bias (1023). *)
(* The tables of powers of ten split an exponent at bit TensBits (4) and   *)
(* have n_bigtens (5) large entries, Nine (9) digits fit in a word, and    *)
(* 2^-SlackBits stands for the tolerance 1e-7 of strtod's last test.       *)
(* DBL_DIG, Ten_pmax, DBL_MAX_10_EXP, Quick_max and Int_max follow from P  *)
(* and Bias as the comments of the file say.                               *)
(***************************************************************************)
EXTENDS Integers, Sequences, SequencesExt, FiniteSets

CONSTANTS W, H, P, Bias, TensBits, n_bigtens, Nine, SlackBits,
          DBL_DIG, Ten_pmax, DBL_MAX_10_EXP, Quick_max, Int_max, MaxExponent, Flaws

\* What follows a call, given what it returned.
Then(called, Rest(_)) == Rest(called)

FormatAssumption ==
  /\ W = 2 * H
  /\ 5^Ten_pmax < 2^P /\ 5^(Ten_pmax + 1) >= 2^P
  /\ 10^DBL_DIG < 2^(P - 1)

Value(S) == CHOOSE v \in S : TRUE

-----------------------------------------------------------------------------
(***************************************************************************)
(* Bigints: the words of a number, the lowest first.                       *)
(***************************************************************************)
Halves(x) == [i \in 1..(2 * Len(x)) |->
                IF i % 2 = 1 THEN x[(i + 1) \div 2] % 2^H ELSE x[i \div 2] \div 2^H]
Words(h) == [i \in 1..(Len(h) \div 2) |-> h[2 * i - 1] + 2^H * h[2 * i]]

RECURSIVE Stripped(_)
Stripped(x) == IF Len(x) > 1 /\ x[Len(x)] = 0 THEN Stripped(Front(x)) ELSE x

(* The number times m plus a. *)
RECURSIVE MultaddFrom(_, _, _, _)
MultaddFrom(x, i, m, a) ==
  IF i > Len(x) THEN (IF a # 0 THEN Append(x, a) ELSE x)
  ELSE LET y == (x[i] % 2^H) * m + a
           z == (x[i] \div 2^H) * m + (y \div 2^H)
       IN  MultaddFrom([x EXCEPT ![i] = (z % 2^H) * 2^H + (y % 2^H)], i + 1, m, z \div 2^H)
multadd(b, m, a) == MultaddFrom(b, 1, m, a)

RECURSIVE S2bFrom(_, _, _)
S2bFrom(b, digits, i) == IF i > Len(digits) THEN b ELSE S2bFrom(multadd(b, 10, digits[i]), digits, i + 1)
s2b(digits, y9) == S2bFrom(<<y9>>, digits, Nine + 1)

RECURSIVE BitLength(_)
BitLength(x) == IF x = 0 THEN 0 ELSE 1 + BitLength(x \div 2)
hi0bits(x) == W - BitLength(x)

RECURSIVE lo0bits(_)
lo0bits(x) == IF x % 2 = 1 THEN 0 ELSE 1 + lo0bits(x \div 2)

i2b(i) == <<i>>

(* One row of the multiplication: half y of b times a, added at half j.  A *)
(* row of a zero half is left out.                                         *)
RECURSIVE Row(_, _, _, _, _, _)
Row(c, a, y, j, i, carry) ==
  IF i > Len(a) THEN [c EXCEPT ![i + j] = carry]
  ELSE LET z == a[i] * y + c[i + j] + carry
       IN  Row([c EXCEPT ![i + j] = z % 2^H], a, y, j, i + 1, z \div 2^H)
RECURSIVE Rows(_, _, _, _)
Rows(c, a, b, j) ==
  IF j = Len(b) THEN c
  ELSE Rows(IF b[j + 1] = 0 THEN c ELSE Row(c, a, b[j + 1], j, 1, 0), a, b, j + 1)
mult(a, b) ==
  LET long == IF Len(a) < Len(b) THEN b ELSE a
      short == IF Len(a) < Len(b) THEN a ELSE b
      zero == [i \in 1..(2 * (Len(a) + Len(b))) |-> 0]
  IN  Stripped(Words(Rows(zero, Halves(long), Halves(short), 0)))

(* Powers of five: those below four from a table, the others by squaring   *)
(* 625, as often as the list of squares needs.                             *)
RECURSIVE Pow5From(_, _, _)
Pow5From(b, p5, k) ==
  Then(IF k % 2 = 1 THEN mult(b, p5) ELSE b, LAMBDA b1 :
      IF k \div 2 = 0 THEN b1
      ELSE Value({Pow5From(x, y, k \div 2) : x \in {b1}, y \in {mult(p5, p5)}}))
pow5mult(b, k) ==
  Then(IF k % 4 # 0 THEN multadd(b, 5^(k % 4), 0) ELSE b, LAMBDA b1 :
      IF k \div 4 = 0 THEN b1 ELSE Pow5From(b1, i2b(625), k \div 4))

RECURSIVE ShiftFrom(_, _, _, _)
ShiftFrom(x, i, k, z) ==
  IF i > Len(x) THEN (IF z # 0 THEN <<z>> ELSE <<>>)
  ELSE <<((x[i] * 2^k) % 2^W) + z>> \o ShiftFrom(x, i + 1, k, x[i] \div 2^(W - k))
lshift(b, k) == [i \in 1..(k \div W) |-> 0] \o ShiftFrom(b, 1, k % W, 0)

RECURSIVE CmpFrom(_, _, _)
CmpFrom(a, b, i) ==
  IF i = 0 THEN 0
  ELSE IF a[i] # b[i] THEN (IF a[i] < b[i] THEN -1 ELSE 1)
  ELSE CmpFrom(a, b, i - 1)
cmp(a, b) == IF Len(a) # Len(b) THEN Len(a) - Len(b) ELSE CmpFrom(a, b, Len(a))

(* The difference a - q * b of halves, b the shorter, with its borrow. *)
RECURSIVE Less(_, _, _, _, _, _)
Less(a, b, q, i, carry, borrow) ==
  IF i > Len(a) THEN a
  ELSE LET ys == (IF i <= Len(b) THEN b[i] ELSE 0) * q + carry
           y == a[i] - (ys % 2^H) + borrow
       IN  Less([a EXCEPT ![i] = y % 2^H], b, q, i + 1, ys \div 2^H, y \div 2^H)
Minus(a, b, q) == Stripped(Words(Less(Halves(a), Halves(b), q, 1, 0, 0)))

diff(a, b) ==
  LET i == cmp(a, b)
  IN  IF i = 0 THEN [sign |-> FALSE, x |-> <<0>>]
      ELSE IF i < 0 THEN [sign |-> TRUE, x |-> Minus(b, a, 1)]
      ELSE [sign |-> FALSE, x |-> Minus(a, b, 1)]

(* One digit of a quotient below ten: an estimate that is never too large  *)
(* and at most one too small, from the top words; what is left of b.       *)
quorem(b, S) ==
  LET n == Len(S)
      q == b[n] \div (S[n] + 1)
      b1 == IF q # 0 THEN Minus(b, S, q) ELSE b
  IN  IF Len(b) < n THEN [q |-> 0, b |-> b]
      ELSE IF cmp(b1, S) >= 0 THEN [q |-> q + 1, b |-> Minus(b1, S, 1)]
      ELSE [q |-> q, b |-> b1]

-----------------------------------------------------------------------------
(***************************************************************************)
(* Doubles: the value n * 2^q, with 2^(P-1) <= |n| < 2^P unless q is QMin; *)
(* the smallest power past the range stands for infinity.  The operations  *)
(* are those of the arithmetic unit, rounded to the nearest.               *)
(***************************************************************************)
Emin == 1 - Bias
QMin == Emin - (P - 1)
DBL_MAX_EXP == Bias + 1
Abs(n) == IF n < 0 THEN -n ELSE n
Hidden == 2^(P - 1)
D(n, q) == [n |-> n, q |-> q]
Zero == D(0, QMin)
HUGE_VAL == D(Hidden, DBL_MAX_EXP - (P - 1))
Big == D(2^P - 1, DBL_MAX_EXP - P)
Tiny == D(1, QMin)

(* The exponent and the fraction of the words of a double. *)
Field(d) == IF Abs(d.n) < Hidden THEN 0 ELSE d.q - QMin + 1
Frac(d) == Abs(d.n) % Hidden
WithField(d, f) == D(d.n, QMin + f - 1)

(* The fraction n/d of 2^q, brought to P bits, or to the lowest exponent. *)
RECURSIVE Fit(_, _, _)
Fit(n, d, q) ==
  IF n = 0 \/ (q < QMin /\ d > 2 * n) THEN <<0, 1, QMin>>
  ELSE IF n \div d >= 2^P \/ q < QMin THEN Fit(n, 2 * d, q + 1)
  ELSE IF n \div d < Hidden /\ q > QMin THEN Fit(2 * n, d, q - 1)
  ELSE <<n, d, q>>

Rounded(n, d, q) ==
  Then(Fit(Abs(n), d, q), LAMBDA f :
  LET m == f[1] \div f[2]
      r == 2 * (f[1] % f[2])
  IN Then(IF r > f[2] \/ (r = f[2] /\ m % 2 = 1) THEN m + 1 ELSE m, LAMBDA up :
     Then(IF up = 2^P THEN D(Hidden, f[3] + 1) ELSE D(up, f[3]), LAMBDA v :
  Then(IF v.q > Big.q THEN HUGE_VAL ELSE v, LAMBDA sat :
      IF n < 0 THEN D(-sat.n, sat.q) ELSE sat))))

Times(a, b) == Rounded(a.n * b.n, 1, a.q + b.q)
Over(a, b) == Rounded(a.n * (IF b.n < 0 THEN -1 ELSE 1), Abs(b.n), a.q - b.q)
Neg(a) == D(-a.n, a.q)
Plus(a, b) ==
  LET hi == IF a.q >= b.q THEN a ELSE b
      lo == IF a.q >= b.q THEN b ELSE a
  IN  IF lo.n = 0 THEN hi
      ELSE IF hi.n = 0 THEN lo
      ELSE IF hi.q - lo.q > P + 5 THEN hi
      ELSE Rounded(hi.n * 2^(hi.q - lo.q) + lo.n, 1, lo.q)

Key(a) == (IF a.n < 0 THEN -1 ELSE 1) * ((a.q - QMin) * Hidden + Abs(a.n))
Below(a, b) == Key(a) < Key(b)
Whole(n) == Rounded(n, 1, 0)
Half == Rounded(1, 1, -1)
Truncated(a) == IF a.q >= 0 THEN a.n * 2^a.q
                ELSE IF -a.q > P THEN 0
                ELSE (IF a.n < 0 THEN -1 ELSE 1) * (Abs(a.n) \div 2^(-a.q))

tens(k) == Rounded(5^k, 1, k)
bigtens(j) == tens(2^(TensBits + j))
tinytens(j) == LET k == 2^(TensBits + j) IN Rounded(1, 5^k, -k)

(* The space between a double and the next one. *)
ulp(x) ==
  LET L == Field(x) - (P - 1)
      frac == 2^(P - 2) \div 2^(-L)
  IN  IF L > 0 THEN D(Hidden, QMin + L - 1)
      ELSE D(IF frac = 0 THEN 1 ELSE frac, QMin)

(* The odd part of a double as a Bigint, its exponent and its bits. *)
d2b(d) ==
  LET k == lo0bits(Abs(d.n))
      odd == Abs(d.n) \div 2^k
  IN  [b |-> i2b(odd), e |-> d.q + k,
       bits |-> IF Field(d) # 0 THEN P - k ELSE BitLength(odd)]

(* The leading bits of a Bigint as a double between one and two, the bits  *)
(* past the P-th cut off, and the bits of its top word.                    *)
b2d(a) ==
  LET y == a[Len(a)]
      z == IF Len(a) > 1 THEN a[Len(a) - 1] ELSE 0
      both == y * 2^W + z
      len == BitLength(y) + W
  IN  [d |-> D(both \div 2^(len - P), 1 - P), e |-> W - hi0bits(y)]

ratio(a, b) ==
  LET da == b2d(a)
      db == b2d(b)
      k == (da.e - db.e) + W * (Len(a) - Len(b))
  IN  IF k > 0 THEN Over(D(da.d.n, da.d.q + k), db.d) ELSE Over(da.d, D(db.d.n, db.d.q - k))

-----------------------------------------------------------------------------
(***************************************************************************)
(* strtod.  A text is a sequence of digits and of the characters below.    *)
(***************************************************************************)
Point == 10
Exponent == 11
MinusSign == 12
PlusSign == 13
Blank == 14
Nul == 16
At(s, i) == IF i > Len(s) THEN Nul ELSE s[i]

RECURSIVE Past(_, _, _)
Past(s, i, C) == IF At(s, i) \in C THEN Past(s, i + 1, C) ELSE i

RECURSIVE Num(_)
Num(digits) == IF digits = <<>> THEN 0 ELSE 10 * Num(Front(digits)) + Last(digits)

RECURSIVE Trimmed(_)
Trimmed(digits) == IF digits # <<>> /\ Last(digits) = 0 THEN Trimmed(Front(digits)) ELSE digits

(* The digits of the text without those that say nothing, how many of them *)
(* follow the point, whether there was any digit, and where they end.      *)
Mantissa(s, start) ==
  LET from == Past(s, start, {0})
      point == Past(s, from, 0..9)
      whole == SubSeq(s, from, point - 1)
      first == IF whole = <<>> THEN Past(s, point + 1, {0}) ELSE point + 1
      end == Past(s, first, 0..9)
      frac == Trimmed(SubSeq(s, first, end - 1))
  IN  IF At(s, point) # Point
      THEN [digits |-> whole, nf |-> 0, any |-> point > start, end |-> point]
      ELSE [digits |-> whole \o frac, end |-> end,
            nf |-> IF frac = <<>> THEN 0 ELSE Len(frac) + (first - point - 1),
            any |-> point > start \/ end > point + 1]

(* The exponent after the digits, cut to what cannot overflow; the text    *)
(* ends before the letter when no digit follows it.                        *)
ExponentOf(s, at) ==
  LET from == IF At(s, at + 1) \in {MinusSign, PlusSign} THEN at + 2 ELSE at + 1
      first == Past(s, from, {0})
      end == Past(s, first, 0..9)
      n == IF end - first > 8 \/ Num(SubSeq(s, first, end - 1)) > MaxExponent THEN MaxExponent
           ELSE Num(SubSeq(s, first, end - 1))
  IN  IF At(s, at) # Exponent \/ At(s, from) \notin 0..9 THEN [e |-> 0, end |-> at]
      ELSE [e |-> IF At(s, at + 1) = MinusSign THEN -n ELSE n, end |-> end]

Answer(rv, erange) == [rv |-> rv, erange |-> erange]
Ovfl == Answer(HUGE_VAL, TRUE)
Undfl == Answer(Zero, TRUE)

(* A first approximation from the digits a double can hold: it is exact    *)
(* for short numbers, and then done.                                       *)
Leading(digits) ==
  LET k == IF Len(digits) < DBL_DIG + 1 THEN Len(digits) ELSE DBL_DIG + 1
      y == Whole(Num(SubSeq(digits, 1, IF k < Nine THEN k ELSE Nine)))
      z == Whole(Num(SubSeq(digits, Nine + 1, k)))
  IN  IF k > Nine THEN Plus(Times(tens(k - Nine), y), z) ELSE y

Short(digits, e) ==
  Len(digits) <= DBL_DIG /\ e >= -Ten_pmax /\ e <= Ten_pmax + (DBL_DIG - Len(digits))

ShortValue(digits, e) ==
  Then(Leading(digits), LAMBDA rv :
  LET i == DBL_DIG - Len(digits)
  IN  IF e = 0 THEN rv
      ELSE IF e < 0 THEN Over(rv, tens(-e))
      ELSE IF e <= Ten_pmax THEN Times(rv, tens(e))
      ELSE Times(Times(rv, tens(i)), tens(e - i)))

(* All but the last of the large powers that make up e1. *)
RECURSIVE Scale(_, _, _, _)
Scale(rv, e1, j, up) ==
  IF e1 <= 1 THEN [rv |-> rv, j |-> j]
  ELSE Scale(IF e1 % 2 = 1 THEN Times(rv, IF up THEN bigtens(j) ELSE tinytens(j)) ELSE rv,
             e1 \div 2, j + 1, up)

ScaledUp(rv, e1) ==
  LET low == e1 % 2^TensBits
      high == e1 \div 2^TensBits
      rv1 == IF low # 0 THEN Times(rv, tens(low)) ELSE rv
  IN Then(Scale(rv1, high, 0, TRUE), LAMBDA s :
  LET last == Times(D(s.rv.n, s.rv.q - P), bigtens(s.j))
  IN  IF high = 0 THEN Answer(rv1, FALSE)
      ELSE IF high * 2^TensBits > DBL_MAX_10_EXP THEN Ovfl
      ELSE IF Field(last) > DBL_MAX_EXP + Bias - P THEN Ovfl
      ELSE IF Field(last) > DBL_MAX_EXP + Bias - 1 - P THEN Answer(Big, FALSE)
      ELSE Answer(D(last.n, last.q + P), FALSE))

ScaledDown(rv, e1) ==
  LET low == e1 % 2^TensBits
      high == e1 \div 2^TensBits
      rv1 == IF low # 0 THEN Over(rv, tens(low)) ELSE rv
  IN Then(Scale(rv1, high, 0, FALSE), LAMBDA s :
  LET last == Times(s.rv, tinytens(s.j))
      twice == Times(Times(Whole(2), s.rv), tinytens(s.j))
  IN  IF high = 0 THEN Answer(rv1, FALSE)
      ELSE IF high >= 2^n_bigtens THEN Undfl
      ELSE IF last.n # 0 THEN Answer(last, FALSE)
      ELSE IF twice.n # 0 THEN Answer(Tiny, FALSE)
      ELSE Undfl)

(* The approximation bb, the number bd and half the space between doubles, *)
(* bs, all as integers, without their common powers of two.                *)
Compared(rv, bd0, e) ==
  Then(d2b(rv), LAMBDA bb :
  LET j == IF bb.e + bb.bits - 1 < Emin THEN bb.e + (P - Emin) ELSE P + 1 - bb.bits
      ten == IF e < 0 THEN -e ELSE 0
      bs2 == ten + (IF bb.e >= 0 THEN bb.e ELSE 0)
      bb2 == bs2 + j
      bd2 == (IF e < 0 THEN 0 ELSE e) + (IF bb.e >= 0 THEN 0 ELSE -bb.e) + j
      low == IF bb2 < bd2 THEN bb2 ELSE bd2
      i == IF low > bs2 THEN bs2 ELSE IF low > 0 THEN low ELSE 0
      five == pow5mult(i2b(1), ten)
  IN  [bb |-> lshift(IF ten > 0 THEN mult(five, bb.b) ELSE bb.b, bb2 - i),
       bd |-> lshift(pow5mult(bd0, IF e < 0 THEN 0 ELSE e), bd2 - i),
       bs |-> lshift(five, bs2 - i)])

(* The double just below a power of two. *)
DropDown(rv) == IF Field(rv) = 1 THEN D(Hidden - 1, QMin) ELSE D(2^P - 1, rv.q - 1)

(* Mutant: a tie always goes up. *)
HalfWayUp(rv, dsign) ==
  IF dsign THEN Answer(Plus(rv, ulp(rv)), FALSE) ELSE Answer(rv, FALSE)

(* Exactly half-way between two doubles: the even one. *)
HalfWay(rv, dsign) ==
  IF dsign /\ Frac(rv) = Hidden - 1 THEN Answer(WithField(D(Hidden, 0), Field(rv) + 1), FALSE)
  ELSE IF ~dsign /\ Frac(rv) = 0 THEN Answer(DropDown(rv), FALSE)
  ELSE IF rv.n % 2 = 0 THEN Answer(rv, FALSE)
  ELSE IF dsign THEN Answer(Plus(rv, ulp(rv)), FALSE)
  ELSE IF Plus(rv, Neg(ulp(rv))).n = 0 THEN Undfl
  ELSE Answer(Plus(rv, Neg(ulp(rv))), FALSE)

(* How far off the approximation is, in units of its last place: the size  *)
(* aadj and the signed aadj1.                                              *)
Adjustment(rv, r, dsign) ==
  LET half == Times(r, Half)
      one == Whole(1)
  IN  IF Below(Whole(2), r) THEN [aadj |-> half, aadj1 |-> IF dsign THEN half ELSE Neg(half)]
      ELSE IF dsign THEN [aadj |-> one, aadj1 |-> one]
      ELSE IF Frac(rv) # 0 THEN [aadj |-> one, aadj1 |-> Neg(one)]
      ELSE IF Below(r, one) THEN [aadj |-> Half, aadj1 |-> Neg(Half)]
      ELSE [aadj |-> half, aadj1 |-> Neg(half)]

(* Near the largest double the sum is made further down. *)
NearTop(rv, a) ==
  LET low == D(rv.n, rv.q - P)
      sum == Plus(low, Times(a.aadj1, ulp(low)))
  IN  IF Field(sum) >= DBL_MAX_EXP + Bias - P
      THEN [rv |-> Big, over |-> rv = Big, again |-> TRUE]
      ELSE [rv |-> D(sum.n, sum.q + P), over |-> FALSE, again |-> FALSE]

Elsewhere(rv, a, dsign) ==
  LET whole == Whole(Truncated(Plus(a.aadj, Half)))
      aadj1 == IF Field(rv) <= P - 1 /\ ~Below(a.aadj, Whole(1))
               THEN (IF dsign THEN whole ELSE Neg(whole)) ELSE a.aadj1
  IN  [rv |-> Plus(rv, Times(aadj1, ulp(rv))), over |-> FALSE, again |-> FALSE]

(* Enough is known to stop: the rest is clearly above or below one half. *)
Settled(rv, a, dsign) ==
  LET rest == Plus(a.aadj, Neg(Whole(Truncated(a.aadj))))
      slack == Rounded(1, 1, -SlackBits)
      under == Plus(Half, Neg(slack))
  IN  IF dsign \/ Frac(rv) # 0 THEN Below(rest, under) \/ Below(Plus(Half, slack), rest)
      ELSE Below(rest, Times(under, Half))

(* The hard part: compare the approximation with the number itself and     *)
(* correct it, until it is the nearest double.                             *)
RECURSIVE Adjust(_, _, _)
Adjust(rv, bd0, e) ==
  Then(Compared(rv, bd0, e), LAMBDA c :
  Then(diff(c.bb, c.bd), LAMBDA d :
  LET i == cmp(d.x, c.bs)
  IN Then(ratio(d.x, c.bs), LAMBDA r :
     Then(Adjustment(rv, r, d.sign), LAMBDA a :
     Then(IF Field(rv) = DBL_MAX_EXP + Bias - 1 THEN NearTop(rv, a) ELSE Elsewhere(rv, a, d.sign), LAMBDA n :
      IF i < 0
      THEN IF ~d.sign /\ Frac(rv) = 0 /\ cmp(lshift(d.x, 1), c.bs) > 0
           THEN Answer(DropDown(rv), FALSE) ELSE Answer(rv, FALSE)
      ELSE IF i = 0 THEN HalfWay(rv, d.sign)
      ELSE IF ~Below(Whole(2), r) /\ ~d.sign /\ rv = Tiny THEN Undfl
      ELSE IF n.over THEN Ovfl
      ELSE IF ~n.again /\ Field(rv) = Field(n.rv) /\ Settled(n.rv, a, d.sign)
           THEN Answer(n.rv, FALSE)
      ELSE Value({Adjust(x, bd0, e) : x \in {n.rv}}))))))

Nearest(digits, e) ==
  LET k == IF Len(digits) < DBL_DIG + 1 THEN Len(digits) ELSE DBL_DIG + 1
      e1 == e + Len(digits) - k
  IN Then(IF e1 > 0 THEN ScaledUp(Leading(digits), e1)
       ELSE IF e1 < 0 THEN ScaledDown(Leading(digits), -e1)
       ELSE Answer(Leading(digits), FALSE), LAMBDA first :
  LET y == Num(SubSeq(digits, 1, IF Len(digits) < Nine THEN Len(digits) ELSE Nine))
  IN  IF Short(digits, e) THEN Answer(ShortValue(digits, e), FALSE)
      ELSE IF first.erange THEN first
      ELSE Adjust(first.rv, s2b(digits, y), e))

strtod(s) ==
  LET blank == Past(s, 1, {Blank})
      start == IF At(s, blank) \in {MinusSign, PlusSign} THEN blank + 1 ELSE blank
  IN Then(Mantissa(s, start), LAMBDA m :
  LET x == ExponentOf(s, m.end)
  IN Then(Nearest(m.digits, x.e - m.nf), LAMBDA v :
  LET sign(d) == IF At(s, blank) = MinusSign THEN Neg(d) ELSE d
  IN  IF At(s, start) = Nul \/ ~m.any THEN [rv |-> Zero, erange |-> FALSE, end |-> 1]
      ELSE IF m.digits = <<>> THEN [rv |-> Zero, erange |-> FALSE, end |-> x.end]
      ELSE [rv |-> sign(v.rv), erange |-> v.erange, end |-> x.end]))

-----------------------------------------------------------------------------
(***************************************************************************)
(* __dtoa: the digits of a double d > 0 and the place of its point.  The   *)
(* estimate of its logarithm is computed exactly, from constants of five   *)
(* digits that err to the same side as those of the code.                  *)
(***************************************************************************)
Failed == [ok |-> FALSE]
Ret(digits, k) == [ok |-> TRUE, digits |-> IF digits = <<>> THEN <<0>> ELSE digits,
                   decpt |-> IF digits = <<>> THEN 1 ELSE k + 1]
no_digits == Ret(<<>>, 0)
one_digit(k) == Ret(<<1>>, k + 1)

(* Mutant: nines rounded up without moving the point. *)
RECURSIVE bump_upInPlace(_, _)
bump_upInPlace(digits, k) ==
  IF digits = <<>> THEN Ret(<<1>>, k)
  ELSE IF Last(digits) = 9 THEN bump_upInPlace(Front(digits), k)
  ELSE Ret([digits EXCEPT ![Len(digits)] = @ + 1], k)

RECURSIVE bump_up(_, _)
bump_up(digits, k) ==
  IF digits = <<>> THEN Ret(<<1>>, k + 1)
  ELSE IF Last(digits) = 9 THEN bump_up(Front(digits), k)
  ELSE Ret([digits EXCEPT ![Len(digits)] = @ + 1], k)

Estimate(d, i) ==
  LET m == d.n * 2^(P - BitLength(d.n))
      ds == (m - 3 * 2^(P - 2)) * 28953 + Hidden * (17610 + i * 30103)
  IN  ds \div (Hidden * 100000)

RECURSIVE TimesBigtens(_, _, _, _)
TimesBigtens(x, j, i, ieps) ==
  IF j = 0 THEN [x |-> x, ieps |-> ieps]
  ELSE IF j % 2 = 1 THEN TimesBigtens(Times(x, bigtens(i)), j \div 2, i + 1, ieps + 1)
  ELSE TimesBigtens(x, j \div 2, i + 1, ieps)

(* The double brought between one and ten, and its error so far. *)
Bletch == 2^(n_bigtens - 1)
QuickScaled(d, k) ==
  LET a == Abs(k)
      j == a \div 2^TensBits
      big == k > 0 /\ j >= Bletch
      x == TimesBigtens(IF k > 0 THEN tens(a % 2^TensBits) ELSE Times(d, tens(a % 2^TensBits)),
                        IF big THEN j - Bletch ELSE j, 0, IF big THEN 3 ELSE 2)
  IN  IF k = 0 THEN [d |-> d, ieps |-> 2]
      ELSE IF k < 0 THEN [d |-> x.x, ieps |-> x.ieps]
      ELSE [d |-> Over(IF big THEN Over(d, bigtens(n_bigtens - 1)) ELSE d, x.x), ieps |-> x.ieps]

(* Digits by floating-point arithmetic, as long as they are certain: with  *)
(* leftright only those needed, else all of them.                          *)
RECURSIVE QuickLeft(_, _, _, _, _)
QuickLeft(d, eps, digits, ilim, k) ==
  LET L == Truncated(d)
      rest == Plus(d, Neg(Whole(L)))
      ds == Append(digits, L)
  IN  IF Below(rest, eps) THEN Ret(ds, k)
      ELSE IF Below(Plus(Whole(1), Neg(rest)), eps) THEN bump_up(ds, k)
      ELSE IF Len(ds) >= ilim THEN Failed
      ELSE QuickLeft(Times(rest, Whole(10)), Times(eps, Whole(10)), ds, ilim, k)

RECURSIVE QuickAll(_, _, _, _, _)
QuickAll(d, eps, digits, ilim, k) ==
  LET L == Truncated(d)
      rest == Plus(d, Neg(Whole(L)))
      ds == Append(digits, L)
  IN  IF Len(ds) < ilim THEN QuickAll(Times(rest, Whole(10)), eps, ds, ilim, k)
      ELSE IF Below(Plus(Half, eps), rest) THEN bump_up(ds, k)
      ELSE IF Below(rest, Plus(Half, Neg(eps))) THEN Ret(Trimmed(ds), k)
      ELSE Failed

Quick(d0, k0, k_check, ilim0, ilim1, leftright) ==
  Then(QuickScaled(d0, k0), LAMBDA q :
  Then(k_check /\ Below(q.d, Whole(1)) /\ ilim0 > 0, LAMBDA low :
  LET ilim == IF low THEN ilim1 ELSE ilim0
      k == IF low THEN k0 - 1 ELSE k0
  IN Then(IF low THEN Times(q.d, Whole(10)) ELSE q.d, LAMBDA d :
     Then(Plus(Times(Whole(q.ieps + (IF low THEN 1 ELSE 0)), d), Whole(7)), LAMBDA e :
  LET eps == D(e.n, e.q - (P - 1))
      five == Plus(d, Neg(Whole(5)))
  IN  IF low /\ ilim1 <= 0 THEN Failed
      ELSE IF ilim = 0
      THEN IF Below(eps, five) THEN one_digit(k)
           ELSE IF Below(five, Neg(eps)) THEN no_digits ELSE Failed
      ELSE IF leftright
      THEN QuickLeft(d, Plus(Over(Half, tens(ilim - 1)), Neg(eps)), <<>>, ilim, k)
      ELSE QuickAll(d, Times(eps, tens(ilim - 1)), <<>>, ilim, k)))))

(* A small integer: its digits by division. *)
RECURSIVE SmallInteger(_, _, _, _, _)
SmallInteger(d, ds, digits, ilim, k) ==
  LET L == Truncated(Over(d, ds))
  IN Then(Plus(d, Neg(Times(Whole(L), ds))), LAMBDA rest :
  LET twice == Plus(rest, rest)
      all == Append(digits, L)
  IN  IF Len(all) = ilim
      THEN IF Below(ds, twice) \/ (twice = ds /\ L % 2 = 1) THEN bump_up(all, k) ELSE Ret(all, k)
      ELSE IF rest.n = 0 THEN Ret(all, k)
      ELSE SmallInteger(Times(rest, Whole(10)), ds, all, ilim, k))

(* The digits from b / S, until the rest is within mlo below or mhi above, *)
(* that is until they are the shortest that will do.                       *)
RECURSIVE LeftRight(_, _, _, _, _, _, _, _, _)
LeftRight(b0, S, mlo, mhi, digits, ilim, mode, odd, k) ==
  Then(quorem(b0, S), LAMBDA qr :
  LET dig == qr.q
      b == qr.b
      j == cmp(b, mlo)
      delta == diff(S, mhi)
      j1 == IF delta.sign THEN 1 ELSE cmp(b, delta.x)
      twice == cmp(lshift(b, 1), S)
      up == twice > 0 \/ (twice = 0 /\ dig % 2 = 1)
      round_9_up == bump_up(Append(digits, 9), k)
      all == Append(digits, dig)
  IN  IF j1 = 0 /\ mode = 0 /\ ~odd
      THEN IF dig = 9 THEN round_9_up
           ELSE Ret(Append(digits, IF j > 0 THEN dig + 1 ELSE dig), k)
      ELSE IF j < 0 \/ (j = 0 /\ mode = 0 /\ ~odd)
      THEN IF j1 > 0 /\ up
           THEN (IF dig = 9 THEN round_9_up ELSE Ret(Append(digits, dig + 1), k))
           ELSE Ret(all, k)
      ELSE IF j1 > 0
      THEN (IF dig = 9 THEN round_9_up ELSE Ret(Append(digits, dig + 1), k))
      ELSE IF Len(all) = ilim
      THEN (IF up THEN bump_up(all, k) ELSE Ret(Trimmed(all), k))
      ELSE Value({LeftRight(x, S, y, z, all, ilim, mode, odd, k) :
                  x \in {multadd(b, 10, 0)}, y \in {multadd(mlo, 10, 0)}, z \in {multadd(mhi, 10, 0)}}))

RECURSIVE Straight(_, _, _, _, _)
Straight(b0, S, digits, ilim, k) ==
  Then(quorem(b0, S), LAMBDA qr :
  LET all == Append(digits, qr.q)
      twice == cmp(lshift(qr.b, 1), S)
  IN  IF Len(all) < ilim THEN Value({Straight(x, S, all, ilim, k) : x \in {multadd(qr.b, 10, 0)}})
      ELSE IF twice > 0 \/ (twice = 0 /\ qr.q % 2 = 1) THEN bump_up(all, k)
      ELSE Ret(Trimmed(all), k))

(* The powers of two and five of b, of S and of the allowed error m. *)
Powers(bb, k, leftright, mode, ilim, denorm) ==
  LET b2 == (IF bb.e >= 0 THEN bb.e ELSE 0) + (IF k < 0 THEN -k ELSE 0)
      s2 == (IF bb.e >= 0 THEN 0 ELSE -bb.e) + (IF k >= 0 THEN k ELSE 0)
      b5 == IF k < 0 THEN -k ELSE 0
      s5 == IF k >= 0 THEN k ELSE 0
      j == ilim - 1
      more == IF b5 >= j THEN 0 ELSE j - b5
      i == IF mode < 2 THEN (IF denorm THEN bb.e + (Bias + (P - 1)) ELSE 1 + P - bb.bits)
           ELSE IF ilim < 0 THEN 0 ELSE ilim
      m2 == IF mode >= 2 /\ ilim < 0 THEN b2 - ilim ELSE b2
  IN  IF ~leftright THEN [b2 |-> b2, s2 |-> s2, m2 |-> b2, b5 |-> b5, s5 |-> s5, m5 |-> 0]
      ELSE IF mode < 2 THEN [b2 |-> b2 + i, s2 |-> s2 + i, m2 |-> b2, b5 |-> b5, s5 |-> s5, m5 |-> b5]
      ELSE [b2 |-> b2 + i, s2 |-> s2 + i, m2 |-> m2, b5 |-> b5 + more, s5 |-> s5 + more,
            m5 |-> IF b5 >= j THEN b5 - j ELSE 0]

(* The shift that leaves four zero bits above the divisor. *)
Lined(S, s5, s2) ==
  LET i == ((IF s5 # 0 THEN BitLength(Last(S)) ELSE 1) + s2) % W
      up == IF i = 0 THEN 0 ELSE W - i
  IN  IF up > 4 THEN up - 4 ELSE IF up < 4 THEN up + (W - 4) ELSE 0

Exactly(d, bb, k0, k_check, leftright, mode, ilim0, ilim1) ==
  Then(Powers(bb, k0, leftright, mode, ilim0, Field(d) = 0), LAMBDA p :
  LET common == IF p.m2 > 0 /\ p.s2 > 0 THEN (IF p.m2 < p.s2 THEN p.m2 ELSE p.s2) ELSE 0
      spec == mode < 2 /\ Frac(d) = 0 /\ Field(d) # 0
  IN Then(pow5mult(i2b(1), p.s5), LAMBDA five :
  LET s2 == p.s2 - common + (IF spec THEN 1 ELSE 0)
      i == Lined(five, p.s5, s2)
  IN Then(lshift(pow5mult(bb.b, p.b5), p.b2 - common + (IF spec THEN 1 ELSE 0) + i), LAMBDA b1 :
  Then(lshift(five, s2 + i), LAMBDA S :
  Then(k_check /\ cmp(b1, S) < 0, LAMBDA low :
     Then(IF low THEN multadd(b1, 10, 0) ELSE b1, LAMBDA b :
  LET m1 == pow5mult(i2b(1), p.m5)
  IN Then(lshift(IF low THEN multadd(m1, 10, 0) ELSE m1, p.m2 - common + i), LAMBDA mlo :
  LET k == IF low THEN k0 - 1 ELSE k0
      ilim == IF low THEN ilim1 ELSE ilim0
  IN  IF ilim <= 0 /\ mode > 2
      THEN IF ilim < 0 \/ cmp(b, multadd(S, 5, 0)) <= 0 THEN no_digits ELSE one_digit(k)
      ELSE IF leftright
      THEN LeftRight(b, S, mlo, IF spec THEN lshift(mlo, 1) ELSE mlo, <<>>, ilim, mode, d.n % 2 = 1, k)
      ELSE Straight(b, S, <<>>, ilim, k))))))))

dtoa(d, mode0, ndigits0) ==
  Then(d2b(d), LAMBDA bb :
  LET k1 == Estimate(d, bb.e + bb.bits - 1)
      k_check == k1 \notin 0..Ten_pmax
  IN Then(IF ~k_check /\ Below(d, tens(k1)) THEN k1 - 1 ELSE k1, LAMBDA k :
  LET mode == IF mode0 \notin 0..9 THEN 0 ELSE IF mode0 > 5 THEN mode0 - 4 ELSE mode0
      try_quick == mode0 \notin 6..9
      leftright == mode \in {0, 1, 4, 5}
      ndigits == IF mode < 2 THEN 0 ELSE IF mode \in {2, 4} /\ ndigits0 <= 0 THEN 1 ELSE ndigits0
      ilim == IF mode < 2 THEN -1 ELSE IF mode \in {2, 4} THEN ndigits ELSE ndigits + k + 1
      ilim1 == IF mode \in {3, 5} THEN ilim - 1 ELSE ilim
  IN Then(IF ilim \in 0..Quick_max /\ try_quick THEN Quick(d, k, k_check, ilim, ilim1, leftright) ELSE Failed, LAMBDA quick :
  Then(tens(k), LAMBDA ds :
      IF d.n = 0 THEN Ret(<<0>>, 0)
      ELSE IF quick.ok THEN quick
      ELSE IF bb.e >= 0 /\ k <= Int_max
      THEN IF ndigits < 0 /\ ilim <= 0
           THEN (IF ilim < 0 \/ ~Below(Times(Whole(5), ds), d) THEN no_digits ELSE one_digit(k))
           ELSE SmallInteger(d, ds, <<>>, ilim, k)
      ELSE Exactly(d, bb, k, k_check, leftright, mode, ilim, ilim1)))))

-----------------------------------------------------------------------------
(***************************************************************************)
(* What the operations are for.                                            *)
(***************************************************************************)
RECURSIVE NatOf(_)
NatOf(x) == IF x = <<>> THEN 0 ELSE Head(x) + 2^W * NatOf(Tail(x))
RECURSIVE BigOf(_)
BigOf(n) == IF n < 2^W THEN <<n>> ELSE <<n % 2^W>> \o BigOf(n \div 2^W)

(* The Bigints compute what natural numbers compute; quorem does for the   *)
(* quotients below ten it is used for, when S has four leading zero bits.  *)
BigintsAgree(a, b, k) ==
  LET x == BigOf(a)
      y == BigOf(b)
      d == diff(x, y)
      S == lshift(y, (W - 4 - BitLength(Last(y))) % W)
  IN  /\ a < 2^20 => /\ multadd(x, 125, k) = BigOf(125 * a + k)
                     /\ lshift(x, k) = BigOf(a * 2^k)
      /\ (b # 0 /\ a < 2000000000 \div b) => mult(x, y) = BigOf(a * b)
      /\ cmp(x, y) < 0 <=> a < b
      /\ d.x = BigOf(Abs(a - b)) /\ d.sign = (a < b)
      /\ (b < 1000) => pow5mult(y, k) = BigOf(b * 5^k)
      /\ (a \div b < 10) => quorem(lshift(x, (W - 4 - BitLength(Last(y))) % W), S)
                              = [q |-> a \div b, b |-> lshift(BigOf(a % b), (W - 4 - BitLength(Last(y))) % W)]

(* The order of b * 10^E and k * 2^q. *)
ExactCmp(b, E, k, q) ==
  LET low == IF E < q THEN E ELSE q
  IN  cmp(lshift(pow5mult(b, IF E > 0 THEN E ELSE 0), E - low),
          lshift(pow5mult(BigOf(k), IF E < 0 THEN -E ELSE 0), q - low))

(* The double d >= 0 is nearest to b * 10^E, the even one of two. *)
IsNearest(b, E, d) ==
  LET even == d.n % 2 = 0
  IN Then(ExactCmp(b, E, 2 * d.n + 1, d.q - 1), LAMBDA above :
  Then(IF d.n = Hidden /\ d.q > QMin THEN ExactCmp(b, E, 4 * d.n - 1, d.q - 2)
       ELSE ExactCmp(b, E, 2 * d.n - 1, d.q - 1), LAMBDA below :
      IF d = HUGE_VAL THEN ExactCmp(b, E, 2 * Big.n + 1, Big.q - 1) >= 0
      ELSE /\ above < 0 \/ (above = 0 /\ even)
           /\ d.n > 0 => (below > 0 \/ (below = 0 /\ even))))

(* Just below the smallest power of two with a full mantissa the doubles   *)
(* are as far apart as above it, but strtod takes them to be closer; and a *)
(* number half-way past the largest double becomes infinite without ERANGE.*)
Astray(b, E) ==
  \/ "boundary" \notin Flaws /\ IsNearest(b, E, D(Hidden, QMin))
  \/ "top" \notin Flaws /\ ExactCmp(b, E, 2 * Big.n + 1, Big.q - 1) = 0

ReadsNearest(digits, e) ==
  LET b == s2b(digits, Num(SubSeq(digits, 1, IF Len(digits) < Nine THEN Len(digits) ELSE Nine)))
  IN Then(Nearest(digits, e), LAMBDA v :
      ~Astray(b, e) =>
        /\ IsNearest(b, e, v.rv)
        /\ v.erange = (v.rv = HUGE_VAL \/ v.rv.n = 0))

(* A number in a text: blanks, a sign, digits with a point among them, an  *)
(* exponent; strtod reads the longest one the text begins with.            *)
Digits(s) == \A i \in DOMAIN s : s[i] \in 0..9
IsExponent(s) == s = <<>> \/ (/\ Head(s) = Exponent
                              /\ LET t == Tail(s)
                                     u == IF t # <<>> /\ Head(t) \in {MinusSign, PlusSign} THEN Tail(t) ELSE t
                                 IN  u # <<>> /\ Digits(u))
IsMantissa(s) == \/ s # <<>> /\ Digits(s)
                 \/ \E i \in DOMAIN s : s[i] = Point /\ Len(s) > 1 /\ Digits(RemoveAt(s, i))
IsNumber(s) ==
  \E i \in 0..Len(s), j \in 0..Len(s) :
    /\ i <= j
    /\ \A k \in 1..i : s[k] = Blank \/ (k = i /\ s[k] \in {MinusSign, PlusSign})
    /\ IsMantissa(SubSeq(s, i + 1, j))
    /\ IsExponent(SubSeq(s, j + 1, Len(s)))

ReadsAll(s) ==
  LET ends == {n \in 0..Len(s) : IsNumber(SubSeq(s, 1, n))}
  IN  strtod(s).end = 1 + (IF ends = {} THEN 0 ELSE CHOOSE n \in ends : \A k \in ends : k <= n)

(* The digits of mode 0 are read as the same double, and no shorter ones   *)
(* are.                                                                    *)
Shortest(d) ==
  Then(dtoa(d, 0, 0), LAMBDA r :
  LET E == r.decpt - Len(r.digits)
      n == Num(r.digits)
  IN  /\ IsNearest(BigOf(n), E, d)
      /\ Len(r.digits) > 1 => /\ ~IsNearest(BigOf(n \div 10), E + 1, d)
                              /\ ~IsNearest(BigOf(n \div 10 + 1), E + 1, d))

RECURSIVE TenTimes(_, _)
TenTimes(b, k) == IF k = 0 THEN b ELSE TenTimes(multadd(b, 10, 0), k - 1)

RoundedAt(d, n, u) ==
  Then(ExactCmp(multadd(n, 2, 1), u, d.n, d.q + 1), LAMBDA above :
  Then(ExactCmp(diff(multadd(n, 2, 0), i2b(1)).x, u, d.n, d.q + 1), LAMBDA below :
  LET even == n[1] % 2 = 0
  IN  /\ above > 0 \/ (above = 0 /\ even)
      /\ n # <<0>> => (below < 0 \/ (below = 0 /\ even))))

(* The digits of modes 2 to 9 are the double rounded at the digit asked    *)
(* for, the even digit of two, without the zeros at the end.  Generated    *)
(* from left to right they can be fewer (the allowed error of modes 4, 5,  *)
(* 8 and 9 is relative to the last bit of d), and a small integer keeps    *)
(* its zeros.                                                              *)
CorrectlyRounded(d, mode, ndigits) ==
  Then(dtoa(d, mode, ndigits), LAMBDA r :
  LET nd == IF ndigits <= 0 THEN 1 ELSE ndigits
      u == IF mode % 2 = 1 THEN -ndigits ELSE r.decpt - nd
      zeros == r.decpt - Len(r.digits) - u
  IN  IF "left" \notin Flaws /\ mode \in {4, 5, 8, 9} THEN TRUE
      ELSE IF r.digits = <<0>> THEN RoundedAt(d, <<0>>, u)
      ELSE /\ Last(r.digits) # 0 \/ ("zeros" \notin Flaws /\ r.decpt - 1 \in 0..Int_max)
           /\ zeros >= 0
           /\ \/ RoundedAt(d, TenTimes(BigOf(Num(r.digits)), zeros), u)
              \/ mode % 2 = 0 /\ r.digits = <<1>> /\ RoundedAt(d, TenTimes(<<1>>, zeros + 1), u - 1))
=============================================================================
