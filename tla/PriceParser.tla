---------------------------- MODULE PriceParser ----------------------------
(***************************************************************************)
(* parse_price_as_fixedpt of trade_processor.cc.  A price is text: digits, *)
(* perhaps a dot and more digits.  The specification types such texts      *)
(* character by character; the properties compare what the function        *)
(* returns for the text so far with the number that is written there.      *)
(***************************************************************************)
EXTENDS FixedPt, Sequences

CONSTANTS Digits,     \* the digits that are typed
          MaxWhole,   \* bound on the digits before the dot
          MaxFrac     \* bound on the digits after it; 6 in the code's table

VARIABLES whole,  \* the digits before the dot
          dot,    \* whether there is a dot
          frac    \* the digits after it

vars == <<whole, dot, frac>>

Pow10 == <<10, 100, 1000, 10000, 100000, 1000000>>

\* Mutant: the table is off by one.
denominator_for_len_Off(len) == Pow10[len] \div 10

denominator_for_len(len) == Pow10[len]

strtol(digits) ==
  LET value[i \in 0 .. Len(digits)] == IF i = 0 THEN 0 ELSE value[i - 1] * 10 + digits[i]
  IN  value[Len(digits)]

\* A dot right after the first character is taken for a price with only a
\* fractional part; the sum computed there is discarded.
OnlyFractional == dot /\ Len(whole) = 1

parse_price_as_fixedpt ==
  IF ~dot THEN FromInt(strtol(whole))
  ELSE IF OnlyFractional THEN 0
  ELSE FromInt(strtol(whole))
         + FpDiv(FromInt(strtol(frac)), FromInt(denominator_for_len(Len(frac))))

\* Texts the function has a value for: the table ends at 6 digits, and a dot
\* with nothing after it reads past the table.
Defined == (~dot /\ whole # <<>>) \/ (dot /\ Len(frac) \in 1 .. 6)

Init == whole = <<>> /\ dot = FALSE /\ frac = <<>>

TypeWhole(d) ==
  ~dot /\ Len(whole) < MaxWhole /\ whole' = Append(whole, d) /\ UNCHANGED <<dot, frac>>

TypeDot == ~dot /\ dot' = TRUE /\ UNCHANGED <<whole, frac>>

TypeFrac(d) ==
  dot /\ Len(frac) < MaxFrac /\ frac' = Append(frac, d) /\ UNCHANGED <<whole, dot>>

Next == TypeDot \/ \E d \in Digits : TypeWhole(d) \/ TypeFrac(d)

Spec == Init /\ [][Next]_vars

-----------------------------------------------------------------------------
(* Properties *)

\* The written number times 10^Len(frac).
Written == strtol(whole \o frac)

Scale == IF frac = <<>> THEN 1 ELSE Pow10[Len(frac)]

\* p is the largest fixed-point number that is not above the written one.
Nearest(p) == p * Scale <= FromInt(Written) /\ FromInt(Written) < (p + 1) * Scale

\* A price is parsed to the nearest fixed-point number below it, whether the
\* whole part is missing or has several digits, and leading and trailing zeros
\* included.
ParsedNearest == Defined /\ ~OnlyFractional => Nearest(parse_price_as_fixedpt)

\* What the comment in the branch for prices with "only fractional part" says: the
\* fractional part is divided by 10 to its length and "then" added to the price.
FractionAdded ==
  Defined /\ OnlyFractional =>
    parse_price_as_fixedpt >= FpDiv(FromInt(strtol(frac)), FromInt(Scale))
=============================================================================
