------------------------------- MODULE Decimals -------------------------------
(***************************************************************************)
(* Money as text: src/frontend/src/lib/decimal.ts.  Amounts stay the text   *)
(* the server sent, and every operation works on its digits.  A text is a   *)
(* record of what NUMBER_RE takes apart: sign, digits before the dot, the   *)
(* dot, digits after it.  A text without digits is not a number, and        *)
(* stands for everything else a person can type.                            *)
(***************************************************************************)
EXTENDS Integers, Sequences
LOCAL INSTANCE FiniteSetsExt

Text(sign, int, dot, frac) == [sign |-> sign, int |-> int, dot |-> dot, frac |-> frac]
Empty == Text("", <<>>, FALSE, <<>>)
Zero  == Text("", <<0>>, FALSE, <<>>)
One   == Text("", <<1>>, FALSE, <<>>)
Hundred == Text("", <<1, 0, 0>>, FALSE, <<>>)

IsDecimal(t) == t.int \o t.frac # <<>>

Zeros(n) == [i \in 1 .. n |-> 0]
PadStart(s, n) == Zeros(n - Len(s)) \o s
PadEnd(s, n)   == s \o Zeros(n - Len(s))

\* replace(/^0+(?=\d)/, "") and replace(/0+$/, "")
TrimStart(s) ==
  SubSeq(s, Min({Len(s)} \cup {i \in DOMAIN s : s[i] # 0}), Len(s))
TrimEnd(s) == SubSeq(s, 1, Max({0} \cup {i \in DOMAIN s : s[i] # 0}))

SplitParts(t) ==
  [negative |-> t.sign = "-",
   int  |-> TrimStart(IF t.int = <<>> THEN <<0>> ELSE t.int),
   frac |-> TrimEnd(t.frac)]

\* digits with fracLen of them behind the dot; there is no "-0"
JoinParts(negative, digits, fracLen) ==
  LET dot    == Len(digits) - fracLen
      before == IF dot = 0 THEN <<0>> ELSE TrimStart(SubSeq(digits, 1, dot))
      after  == TrimEnd(SubSeq(digits, dot + 1, Len(digits)))
  IN  IF before = <<0>> /\ after = <<>> THEN Zero
      ELSE Text(IF negative THEN "-" ELSE "", before, after # <<>>, after)

ShiftDecimal(t, places) ==
  LET int    == IF t.int = <<>> THEN <<0>> ELSE t.int
      dot    == Len(int) + places
      all    == int \o t.frac
      digits == PadEnd(Zeros(IF dot < 0 THEN -dot ELSE 0) \o all, dot)
  IN  JoinParts(t.sign = "-", digits, Len(digits) - (IF dot < 0 THEN 0 ELSE dot))

PercentFromFraction(t) == ShiftDecimal(t, 2)
FractionFromPercent(t) == ShiftDecimal(t, -2)

\* Adds one to a number in digits, carrying over its nines.
\* Mutant: the nines are stepped over and keep their value.
AddOneWithoutCarry(d) ==
  LET k == Max({0} \cup {i \in DOMAIN d : d[i] # 9})
      up == [i \in DOMAIN d |-> IF i = k THEN d[i] + 1 ELSE d[i]]
  IN  IF k = 0 THEN <<1>> \o up ELSE up
AddOne(d) ==
  LET k == Max({0} \cup {i \in DOMAIN d : d[i] # 9})
      up == [i \in DOMAIN d |-> IF i < k THEN d[i] ELSE IF i = k THEN d[i] + 1 ELSE 0]
  IN  IF k = 0 THEN <<1>> \o up ELSE up

\* Half up, on the magnitude.
RoundDecimal(t, places) ==
  LET p == SplitParts(t)
      keep == p.int \o SubSeq(p.frac, 1, places)
  IN  IF Len(p.frac) <= places THEN JoinParts(p.negative, p.int \o p.frac, Len(p.frac))
      ELSE JoinParts(p.negative, IF p.frac[places + 1] >= 5 THEN AddOne(keep) ELSE keep, places)

\* -1, 0 or 1: texts of the same length, in dictionary order
CompareDigits(a, b) ==
  LET differ == {i \in DOMAIN a : a[i] # b[i]}
  IN  IF differ = {} THEN 0
      ELSE IF a[Min(differ)] > b[Min(differ)] THEN 1 ELSE -1

\* The length of the whole part first: "2" is less than "10".
CompareMagnitude(a, b) ==
  LET n == Max({Len(a.frac), Len(b.frac)})
  IN  IF Len(a.int) # Len(b.int) THEN (IF Len(a.int) > Len(b.int) THEN 1 ELSE -1)
      ELSE CompareDigits(a.int \o PadEnd(a.frac, n), b.int \o PadEnd(b.frac, n))

CompareDecimal(s, t) ==
  LET a == SplitParts(s)
      b == SplitParts(t)
      zero(p) == p.int = <<0>> /\ p.frac = <<>>
  IN  CASE zero(a) /\ zero(b) -> 0
        [] ~(zero(a) /\ zero(b)) /\ a.negative # b.negative -> IF a.negative THEN -1 ELSE 1
        [] OTHER -> (IF a.negative THEN -1 ELSE 1) * CompareMagnitude(a, b)

\* Column by column from the right; carry[i] goes into the i-th column.
AddDigits(a, b) ==
  LET n == Len(a)
      carry[i \in 0 .. n] == IF i = n THEN 0 ELSE IF a[i + 1] + b[i + 1] + carry[i + 1] >= 10 THEN 1 ELSE 0
      sum == [i \in 1 .. n |-> (a[i] + b[i] + carry[i]) % 10]
  IN  IF carry[0] = 1 THEN <<1>> \o sum ELSE sum

\* The same with a borrow; a is not less than b.
SubDigits(a, b) ==
  LET n == Len(a)
      borrow[i \in 0 .. n] == IF i = n THEN 0 ELSE IF a[i + 1] - b[i + 1] - borrow[i + 1] < 0 THEN 1 ELSE 0
  IN  [i \in 1 .. n |-> (a[i] - b[i] - borrow[i]) % 10]

AddDecimal(s, t) ==
  LET a == SplitParts(s)
      b == SplitParts(t)
      fracLen == Max({Len(a.frac), Len(b.frac)})
      intLen  == Max({Len(a.int), Len(b.int)})
      digits(p) == PadStart(p.int, intLen) \o PadEnd(p.frac, fracLen)
      d == CompareMagnitude(a, b)
  IN  CASE a.negative = b.negative -> JoinParts(a.negative, AddDigits(digits(a), digits(b)), fracLen)
        [] a.negative # b.negative /\ d = 0 -> Zero
        [] a.negative # b.negative /\ d = 1 -> JoinParts(a.negative, SubDigits(digits(a), digits(b)), fracLen)
        [] OTHER -> JoinParts(b.negative, SubDigits(digits(b), digits(a)), fracLen)

NegateDecimal(t) ==
  LET p == SplitParts(t) IN JoinParts(~p.negative, p.int \o p.frac, Len(p.frac))

SubDecimal(s, t) == AddDecimal(s, NegateDecimal(t))

\* Schoolbook: each digit of a, from the right, adds its row to what is out;
\* at[j] is column j of the row, before its tens are carried to column j - 1.
MulDigits(a, b) ==
  LET row(out, i) ==
        LET at[j \in 1 .. Len(b)] ==
              out[i + j] + a[i] * b[j] + (IF j = Len(b) THEN 0 ELSE at[j + 1] \div 10)
        IN  [k \in DOMAIN out |->
               CASE k = i -> out[i] + at[1] \div 10
                 [] k \in i + 1 .. i + Len(b) -> at[k - i] % 10
                 [] OTHER -> out[k]]
      out[i \in 1 .. Len(a) + 1] ==
        IF i > Len(a) THEN Zeros(Len(a) + Len(b)) ELSE row(out[i + 1], i)
  IN  out[1]

MulDecimal(s, t) ==
  LET a == SplitParts(s)
      b == SplitParts(t)
  IN  JoinParts(a.negative # b.negative, MulDigits(a.int \o a.frac, b.int \o b.frac),
                Len(a.frac) + Len(b.frac))

\* No sign, a digit behind the dot if there is one, and not only zeros.
IsPositiveNumber(t) ==
  /\ t.sign = ""
  /\ t.dot => t.frac # <<>>
  /\ \E i \in DOMAIN (t.int \o t.frac) : (t.int \o t.frac)[i] # 0
-------------------------------------------------------------------------------
(* What a text is worth, counted in units of 10^-scale: the reference.      *)
Power10[n \in Nat] == IF n = 0 THEN 1 ELSE 10 * Power10[n - 1]

Worth(t, scale) ==
  LET d == t.int \o PadEnd(t.frac, scale)
      n[i \in 0 .. Len(d)] == IF i = 0 THEN 0 ELSE 10 * n[i - 1] + d[i]
  IN  (IF t.sign = "-" THEN -1 ELSE 1) * n[Len(d)]
===============================================================================
