-------------------------- MODULE TokenizerProofs ---------------------------
(***************************************************************************)
(* Theorems about Tokenizer, for every set of sources.                     *)
(*                                                                         *)
(* Each scanner gets a lemma: under what its callers know of the           *)
(* characters before offset i, its outcome is sound (Sound).  Together     *)
(* they say what ScanToken() returns (ScanTokenSound), which is all the    *)
(* invariants need.                                                        *)
(***************************************************************************)
EXTENDS Tokenizer, FiniteSetTheorems, TLAPS

-----------------------------------------------------------------------------
(* Characters and runs of characters                                       *)

\* A source is followed by its only null character.
BufOK ==
    /\ buf \in Seq(Characters \union {NUL})
    /\ Len(buf) > 0
    /\ At(Len(buf) - 1) = NUL
    /\ \A k \in 0 .. Len(buf) - 2 : At(k) # NUL

\* A non-empty set of naturals has a least element.
LEMMA LeastNatural ==
    ASSUME NEW T, T \subseteq Nat, T # {}
    PROVE  \E x \in T : \A y \in T : x <= y
<1> DEFINE Below(n) == 0 .. n
           F == {Below(n) : n \in T}
<1>1. F \subseteq FiniteSubsetsOf(Nat)
  <2> SUFFICES ASSUME NEW n \in T
               PROVE  Below(n) \in FiniteSubsetsOf(Nat)
    OBVIOUS
  <2>1. n \in Int /\ 0 \in Int
    OBVIOUS
  <2>2. IsFiniteSet(0 .. n)
    BY <2>1, FS_Interval
  <2>3. 0 .. n \subseteq Nat
    OBVIOUS
  <2> QED
    BY <2>2, <2>3 DEF FiniteSubsetsOf
<1>2. F # {}
  OBVIOUS
<1> HIDE DEF F
<1>3. PICK m \in F : \A o \in F : <<o, m>> \notin StrictSubsetOrdering(Nat)
  BY <1>1, <1>2, FS_StrictSubsetOrderingWellFounded, WFMin
<1>4. PICK x \in T : m = Below(x)
  BY DEF F
<1>5. ASSUME NEW y \in T
      PROVE  x <= y
  <2>1. SUFFICES ASSUME y < x
                 PROVE  FALSE
    OBVIOUS
  <2>2. Below(y) \in F
    BY DEF F
  <2>3. /\ Below(y) \subseteq Below(x) /\ Below(x) \subseteq Nat
        /\ x \in Below(x) /\ x \notin Below(y)
    BY <2>1
  <2>4. <<Below(y), Below(x)>> \in StrictSubsetOrdering(Nat)
    BY <2>3, Zenon DEF StrictSubsetOrdering
  <2> QED
    BY <1>3, <1>4, <2>2, <2>4
<1> QED
  BY <1>5

\* Consuming the characters of S stops at the first one that is not in S, the
\* null character at the latest.
LEMMA AfterRun ==
    ASSUME BufOK, NEW i \in 0 .. Len(buf) - 1, NEW S, NUL \notin S
    PROVE  /\ After(i, S) \in i .. Len(buf) - 1
           /\ At(After(i, S)) \notin S
           /\ All(i, After(i, S), S)
           /\ At(i) \in S => After(i, S) > i
<1> DEFINE T == {j \in i .. Len(buf) - 1 : At(j) \notin S}
<1>0. Len(buf) \in Nat
  BY DEF BufOK
<1>1. T \subseteq Nat /\ T # {}
  <2>1. Len(buf) - 1 \in T
    BY <1>0 DEF BufOK
  <2> QED
    BY <2>1, <1>0
<1>2. PICK x \in T : \A y \in T : x <= y
  BY <1>1, LeastNatural
<1>3. All(i, x, S)
  <2> SUFFICES ASSUME NEW k \in i .. x - 1
               PROVE  At(k) \in S
    BY DEF All
  <2>1. k \in i .. Len(buf) - 1 /\ ~(x <= k)
    BY <1>0, <1>2
  <2> QED
    BY <2>1, <1>2
<1>4. \E j \in i .. Len(buf) - 1 : At(j) \notin S /\ All(i, j, S)
  BY <1>2, <1>3
<1>5. /\ After(i, S) \in i .. Len(buf) - 1
      /\ At(After(i, S)) \notin S
      /\ All(i, After(i, S), S)
  BY <1>4, Zenon DEF After
<1>6. ASSUME At(i) \in S
      PROVE  After(i, S) > i
  <2>1. After(i, S) # i
    BY <1>5, <1>6
  <2> QED
    BY <2>1, <1>5, <1>0
<1> QED
  BY <1>5, <1>6

\* Only the last character of the buffer is the null character.
LEMMA NextInside ==
    ASSUME BufOK, NEW i \in 0 .. Len(buf) - 1, At(i) # NUL
    PROVE  i + 1 \in 0 .. Len(buf) - 1
<1>1. Len(buf) \in Nat
  BY DEF BufOK
<1>2. i # Len(buf) - 1
  BY DEF BufOK
<1> QED
  BY <1>1, <1>2

\* The classes of characters: no literal has a blank or null character.
LEMMA Classes ==
    /\ Binary \subseteq Octal /\ Octal \subseteq Decimal
    /\ Decimal \subseteq Hexadecimal
    /\ NUL \notin Hexadecimal /\ Hexadecimal \intersect Blanks = {}
    /\ NUL \notin Signs /\ Signs \intersect Blanks = {}
    /\ \A c \in {".", "b", "d", "o", "x", "e", "p"} : c # NUL /\ c \notin Blanks
    /\ Blanks \subseteq FollowUp /\ NUL \in FollowUp
    /\ "." \notin Decimal /\ "." \notin Hexadecimal
BY DEF Binary, Octal, Decimal, Hexadecimal, Blanks, Signs, NUL, FollowUp, Operators

-----------------------------------------------------------------------------
(* Scanners                                                                *)

NoBlank(i, j) == \A k \in i .. j - 1 : At(k) \notin Blanks

\* The kinds of messages that fit a character.
KindFits(kind, i) ==
    /\ kind = "unterminated" => At(i) \in FollowUp
    /\ kind = "not a valid" => At(i) \notin FollowUp

\* An error fits the character at which the scan stopped.
Fits(r) == r.error # NoError => KindFits(r.error[1], r.it)

\* What a scanner may return for the token that begins at first, having
\* continued at i.  A release build promises less: it goes on where an
\* assertion would stop it.
Sound(r, first, i) ==
    /\ r.it \in i .. Len(buf) - 1
    /\ r.id \in LiteralIds \union {"INVALID"}
    /\ r.error \in {NoError} \union (Kinds \X Subjects)
    /\ r.aborts \in BOOLEAN
    /\ NoBlank(first, r.it)
    /\ r.id = "INVALID" <=> (r.error # NoError \/ r.aborts)
    /\ Fits(r)
    /\ Asserts /\ r.id # "INVALID" =>
         IsLiteral(r.id, first, r.it) /\ At(r.it) \in FollowUp

\* The source has a length.
LEMMA BufLength == BufOK => Len(buf) \in Nat
BY DEF BufOK

\* A failing scan stops where it is.
LEMMA FailsSound ==
    ASSUME BufOK, NEW i \in 0 .. Len(buf) - 1, NEW first \in 0 .. i,
           NoBlank(first, i), NEW kind \in Kinds, NEW subject \in Subjects,
           KindFits(kind, i)
    PROVE  Sound(Fails(i, kind, subject), first, i)
<1>1. Len(buf) \in Nat
  BY BufLength
<1>2. <<kind, subject>> \in Kinds \X Subjects
  OBVIOUS
<1>3. <<kind, subject>> # <<>>
  OBVIOUS
<1>4. Fits(Fails(i, kind, subject))
  <2>1. Fails(i, kind, subject).it = i
    BY DEF Fails
  <2>2. Fails(i, kind, subject).error[1] = kind
    BY DEF Fails
  <2> QED
    BY <2>1, <2>2 DEF Fits
<1> DEFINE r == Fails(i, kind, subject)
<1>5. /\ r.it \in i .. Len(buf) - 1
      /\ r.id \in LiteralIds \union {"INVALID"}
      /\ r.error \in {NoError} \union (Kinds \X Subjects)
      /\ r.aborts \in BOOLEAN
      /\ NoBlank(first, r.it)
      /\ r.id = "INVALID" <=> (r.error # NoError \/ r.aborts)
      /\ ~(r.id # "INVALID")
  BY <1>1, <1>2, <1>3 DEF Fails, NoError
<1> HIDE DEF r
<1>6. Fits(r)
  BY <1>4 DEF r
<1>7. Sound(r, first, i)
  BY <1>5, <1>6 DEF Sound
<1> QED
  BY <1>7 DEF r

\* So does one that an assertion ends.
LEMMA AssertingSound ==
    ASSUME BufOK, NEW i \in 0 .. Len(buf) - 1, NEW first \in 0 .. i,
           NoBlank(first, i), NEW holds \in BOOLEAN, NEW r,
           (Asserts => holds) => Sound(r, first, i)
    PROVE  Sound(Asserting(i, holds, r), first, i)
<1>1. Len(buf) \in Nat
  BY DEF BufOK
<1>2. CASE Asserts /\ ~holds
  <2>1. Fits(Asserting(i, holds, r))
    BY <1>2 DEF Fits, Asserting
  <2> QED
    BY <1>1, <1>2, <2>1 DEF Sound, Asserting, NoError
<1>3. CASE ~(Asserts /\ ~holds)
  BY <1>3 DEF Asserting
<1> QED
  BY <1>2, <1>3

\* A literal found must be followed by one of FollowUp.
LEMMA FinishSound ==
    ASSUME BufOK, NEW i \in 0 .. Len(buf) - 1, NEW first \in 0 .. i,
           NoBlank(first, i), NEW id \in LiteralIds, NEW subject \in Subjects,
           Asserts => IsLiteral(id, first, i)
    PROVE  Sound(Finish(i, id, subject), first, i)
<1>1. Len(buf) \in Nat
  BY DEF BufOK
<1>2. CASE At(i) \in FollowUp
  <2>1. id # "INVALID"
    BY DEF LiteralIds
  <2> QED
    BY <1>1, <1>2, <2>1 DEF Sound, Finish, Found, NoError, Fits
<1>3. CASE At(i) \notin FollowUp
  BY <1>3, FailsSound DEF Finish, Kinds, KindFits
<1> QED
  BY <1>2, <1>3

\* Consuming digits adds no blank to the token.
LEMMA NoBlankExtends ==
    ASSUME BufOK, NEW i \in 0 .. Len(buf) - 1, NEW first \in 0 .. i,
           NEW j \in i .. Len(buf) - 1, NEW S \in SUBSET Hexadecimal,
           NoBlank(first, i), All(i, j, S)
    PROVE  NoBlank(first, j)
<1>1. Len(buf) \in Nat
  BY DEF BufOK
<1> SUFFICES ASSUME NEW k \in first .. j - 1
             PROVE  At(k) \notin Blanks
  BY DEF NoBlank
<1>2. CASE k < i
  BY <1>1, <1>2 DEF NoBlank
<1>3. CASE k >= i
  <2>1. At(k) \in S
    BY <1>1, <1>3 DEF All
  <2> QED
    BY <2>1, Classes
<1> QED
  BY <1>1, <1>2, <1>3

\* One more character that is not a blank.
LEMMA NoBlankNext ==
    ASSUME BufOK, NEW i \in 0 .. Len(buf) - 1, NEW first \in 0 .. i,
           NoBlank(first, i), At(i) \notin Blanks
    PROVE  NoBlank(first, i + 1)
<1>1. Len(buf) \in Nat
  BY DEF BufOK
<1> QED
  BY <1>1 DEF NoBlank

\* Digits that make a literal of what precedes them.
LEMMA ScanDigitsSound ==
    ASSUME BufOK, NEW i \in 0 .. Len(buf) - 1, NEW first \in 0 .. i,
           NoBlank(first, i), NEW S \in SUBSET Hexadecimal,
           NEW id \in LiteralIds, NEW subject \in Subjects,
           Asserts => \A j \in Int : Some(i, j, S) => IsLiteral(id, first, j)
    PROVE  Sound(ScanDigits(i, S, id, subject), first, i)
<1>1. Len(buf) \in Nat
  BY DEF BufOK
<1>2. CASE At(i) \in S
  <2> DEFINE j == After(i, S)
  <2>1. /\ j \in i .. Len(buf) - 1
        /\ All(i, j, S)
        /\ j > i
    BY <1>2, AfterRun, Classes
  <2> HIDE DEF j
  <2>2. j \in Int /\ j \in 0 .. Len(buf) - 1 /\ first \in 0 .. j
    BY <1>1, <2>1
  <2>3. Asserts => IsLiteral(id, first, j)
    BY <2>1, <2>2 DEF Some
  <2>4. NoBlank(first, j)
    BY <2>1, NoBlankExtends
  <2>5. Sound(Finish(j, id, subject), first, j)
    BY <2>2, <2>3, <2>4, FinishSound
  <2>6. Sound(Finish(j, id, subject), first, i)
    BY <1>1, <2>1, <2>5 DEF Sound
  <2> QED
    BY <1>2, <2>6 DEF ScanDigits, j
<1>3. CASE At(i) \notin S
  <2>1. CASE At(i) \in FollowUp
    <3>1. Sound(Fails(i, "unterminated", subject), first, i)
      BY <2>1, FailsSound DEF Kinds, KindFits
    <3> QED
      BY <1>3, <2>1, <3>1 DEF ScanDigits
  <2>2. CASE At(i) \notin FollowUp
    <3>1. Sound(Fails(i, "not a valid", subject), first, i)
      BY <2>2, FailsSound DEF Kinds, KindFits
    <3> QED
      BY <1>3, <2>2, <3>1 DEF ScanDigits
  <2> QED
    BY <2>1, <2>2
<1> QED
  BY <1>2, <1>3

\* The exponent of a floating-point literal whose mark is at i - 1.
LEMMA ExponentSound ==
    ASSUME BufOK, NEW i \in 1 .. Len(buf) - 1, NEW first \in 0 .. i - 1,
           NoBlank(first, i), NEW mark \in {"e", "p"}, At(i - 1) = mark,
           NEW id \in LiteralIds,
           Asserts => \A j \in Int :
                        Exponent(i - 1, j, mark) => IsLiteral(id, first, j)
    PROVE  Sound(wp_token_scan_flt_exponent(i, id), first, i)
<1>1. Len(buf) \in Nat /\ i \in 0 .. Len(buf) - 1 /\ first \in 0 .. i
  BY DEF BufOK
<1> DEFINE i1 == IF At(i) \in Signs THEN i + 1 ELSE i
           r == ScanDigits(i1, Decimal, id, "floating-point exponent")
<1>2. At(i) \in Signs => i + 1 \in 0 .. Len(buf) - 1
  BY <1>1, NextInside, Classes
<1>3. i1 \in 0 .. Len(buf) - 1 /\ first \in 0 .. i1 /\ i1 >= i
  BY <1>1, <1>2
<1>4. NoBlank(first, i1)
  BY <1>1, NoBlankNext, Classes
<1>5. ASSUME Asserts, NEW j \in Int, Some(i1, j, Decimal)
      PROVE  IsLiteral(id, first, j)
  <2>1. Exponent(i - 1, j, mark)
    <3>1. i - 1 < j
      BY <1>1, <1>3, <1>5 DEF Some
    <3>2. (i - 1) + 1 = i /\ (i - 1) + 2 = i + 1
      BY <1>1
    <3>3. CASE At(i) \in Signs
      BY <1>5, <3>1, <3>2, <3>3 DEF Exponent
    <3>4. CASE At(i) \notin Signs
      BY <1>5, <3>1, <3>2, <3>4 DEF Exponent
    <3> QED
      BY <3>3, <3>4
  <2> QED
    BY <1>5, <2>1
<1> HIDE DEF i1
<1>6. Sound(r, first, i1)
  BY <1>3, <1>4, <1>5, ScanDigitsSound, Classes DEF Subjects
<1> HIDE DEF r
<1>7. Sound(r, first, i)
  BY <1>1, <1>3, <1>6 DEF Sound
<1>8. (At(i - 1) \in {"e", "p"}) \in BOOLEAN
  OBVIOUS
<1> QED
  BY <1>1, <1>7, <1>8, AssertingSound DEF wp_token_scan_flt_exponent, r, i1

\* An exponent that begins where a mantissa ends.
LEMMA ExponentAtMark ==
    ASSUME BufOK, NEW j \in 0 .. Len(buf) - 1, NEW first \in 0 .. j,
           NoBlank(first, j), NEW mark \in {"e", "p"}, At(j) = mark,
           NEW id \in LiteralIds,
           Asserts => \A k \in Int : k > j /\ Exponent(j, k, mark) =>
                        IsLiteral(id, first, k)
    PROVE  Sound(wp_token_scan_flt_exponent(j + 1, id), first, j)
<1>1. Len(buf) \in Nat
  BY DEF BufOK
<1>2. /\ j + 1 \in 1 .. Len(buf) - 1
      /\ first \in 0 .. (j + 1) - 1
      /\ (j + 1) - 1 = j
  BY <1>1, NextInside, Classes
<1>3. NoBlank(first, j + 1)
  BY NoBlankNext, Classes
<1>4. Asserts => \A k \in Int : Exponent(j, k, mark) => IsLiteral(id, first, k)
  BY <1>1 DEF Exponent
<1> DEFINE s == wp_token_scan_flt_exponent(j + 1, id)
<1>5. Sound(s, first, j + 1)
  BY <1>2, <1>3, <1>4, ExponentSound
<1> HIDE DEF s
<1>6. Sound(s, first, j)
  BY <1>1, <1>5 DEF Sound
<1> QED
  BY <1>6 DEF s

\* An outcome for what was scanned from j on is one for what was before, too.
LEMMA SoundEarlier ==
    ASSUME BufOK, NEW j \in Int, NEW i \in Int, i <= j, NEW first, NEW r,
           Sound(r, first, j)
    PROVE  Sound(r, first, i)
<1>1. Len(buf) \in Nat
  BY DEF BufOK
<1> QED
  BY <1>1 DEF Sound

\* Digits and an exponent or nothing, after what with them makes a mantissa.
LEMMA DecimalFltSound ==
    ASSUME BufOK, NEW i \in 1 .. Len(buf) - 1, NEW first \in 0 .. i - 1,
           NoBlank(first, i),
           Asserts => \A j \in Int : j >= i /\ All(i, j, Decimal) =>
                        first + 1 < j /\ Pointed(first, j, Decimal)
    PROVE  Sound(wp_token_scan_decimal_flt(i), first, i)
<1>1. Len(buf) \in Nat /\ i \in 0 .. Len(buf) - 1 /\ first \in 0 .. i
  BY DEF BufOK
<1> DEFINE j == After(i, Decimal)
           r == IF At(j) = "e"
                  THEN wp_token_scan_flt_exponent(j + 1, "FLT_DECIMAL")
                  ELSE Finish(j, "FLT_DECIMAL", "decimal floating-point")
<1>2. j \in i .. Len(buf) - 1 /\ All(i, j, Decimal)
  BY <1>1, AfterRun, Classes
<1> HIDE DEF j
<1>3. j \in Int /\ j \in 0 .. Len(buf) - 1 /\ first \in 0 .. j /\ j >= i
  BY <1>1, <1>2
<1>4. NoBlank(first, j)
  BY <1>1, <1>2, NoBlankExtends, Classes
<1>5. Asserts => first + 1 < j /\ Pointed(first, j, Decimal)
  BY <1>2, <1>3
<1>6. ASSUME At(j) = "e"
      PROVE  Sound(r, first, j)
  <2>1. ASSUME Asserts, NEW k \in Int, k > j, Exponent(j, k, "e")
        PROVE  IsLiteral("FLT_DECIMAL", first, k)
    <3>1. j \in first .. k
      BY <1>3, <2>1
    <3> QED
      BY <1>5, <2>1, <3>1 DEF IsLiteral
  <2> QED
    BY <1>3, <1>4, <1>6, <2>1, ExponentAtMark DEF LiteralIds
<1>7. ASSUME At(j) # "e"
      PROVE  Sound(r, first, j)
  <2>1. Asserts => IsLiteral("FLT_DECIMAL", first, j)
    BY <1>3, <1>5 DEF IsLiteral
  <2> QED
    BY <1>3, <1>4, <1>7, <2>1, FinishSound DEF LiteralIds, Subjects
<1> HIDE DEF r
<1>8. Sound(r, first, i)
  BY <1>1, <1>3, <1>6, <1>7, SoundEarlier
<1>9. (At(i - 1) \in Decimal \union {"."}) \in BOOLEAN
  OBVIOUS
<1> QED
  BY <1>1, <1>8, <1>9, AssertingSound DEF wp_token_scan_decimal_flt, r, j

\* The same after the point of a hexadecimal number.
LEMMA HexadecimalFltSound ==
    ASSUME BufOK, NEW i \in 3 .. Len(buf) - 1, NEW first \in 0 .. i - 3,
           NoBlank(first, i), Prefixed(first, "x"), At(i - 1) = ".",
           All(first + 2, i - 1, Hexadecimal)
    PROVE  Sound(wp_token_scan_hexadecimal_flt(i, first), first, i)
<1>1. Len(buf) \in Nat /\ i \in 0 .. Len(buf) - 1 /\ first \in 0 .. i
  BY DEF BufOK
<1> DEFINE j == After(i, Hexadecimal)
           r == IF At(j) = "p"
                  THEN wp_token_scan_flt_exponent(j + 1, "FLT_HEXADECIMAL")
                  ELSE Finish(j, "FLT_HEXADECIMAL", "hexadecimal floating-point")
<1>2. j \in i .. Len(buf) - 1 /\ All(i, j, Hexadecimal)
  BY <1>1, AfterRun, Classes
<1> HIDE DEF j
<1>3. /\ j \in Int /\ j \in 0 .. Len(buf) - 1
      /\ first \in 0 .. j /\ j >= i /\ first + 2 <= j
  BY <1>1, <1>2
<1>4. NoBlank(first, j)
  BY <1>1, <1>2, NoBlankExtends, Classes
<1>5. Pointed(first + 2, j, Hexadecimal)
  <2>1. i - 1 \in first + 2 .. j - 1 /\ (i - 1) + 1 = i
    BY <1>1, <1>3
  <2> QED
    BY <1>2, <2>1 DEF Pointed
<1>6. ASSUME At(j) = "p"
      PROVE  Sound(r, first, j)
  <2>1. ASSUME NEW k \in Int, k > j, Exponent(j, k, "p")
        PROVE  IsLiteral("FLT_HEXADECIMAL", first, k)
    <3>1. j \in first + 2 .. k
      BY <1>3, <2>1
    <3> QED
      BY <1>5, <2>1, <3>1 DEF IsLiteral
  <2> QED
    BY <1>3, <1>4, <1>6, <2>1, ExponentAtMark DEF LiteralIds
<1>7. ASSUME At(j) # "p"
      PROVE  Sound(r, first, j)
  <2>1. IsLiteral("FLT_HEXADECIMAL", first, j)
    BY <1>3, <1>5 DEF IsLiteral
  <2> QED
    BY <1>3, <1>4, <1>7, <2>1, FinishSound DEF LiteralIds, Subjects
<1> HIDE DEF r
<1>8. Sound(r, first, i)
  BY <1>1, <1>3, <1>6, <1>7, SoundEarlier
<1>9. (Prefixed(first, "x") /\ At(i - 1) = ".") \in BOOLEAN
  OBVIOUS
<1> QED
  BY <1>1, <1>8, <1>9, AssertingSound DEF wp_token_scan_hexadecimal_flt, r, j

\* A number that begins with a decimal digit.  When the character before i is
\* neither a digit nor a point, a debug build stops.
LEMMA DecimalNumberSound ==
    ASSUME BufOK, NEW i \in 1 .. Len(buf) - 1, NEW first \in 0 .. i - 1,
           NoBlank(first, i),
           At(i - 1) \in Decimal \union {"."} => All(first, i, Decimal)
    PROVE  Sound(wp_token_scan_decimal_number(i), first, i)
<1>1. Len(buf) \in Nat /\ i \in 0 .. Len(buf) - 1 /\ first \in 0 .. i
  BY DEF BufOK
<1> DEFINE j == After(i, Decimal)
           r == CASE At(j) = "." -> wp_token_scan_decimal_flt(j + 1)
                  [] At(j) = "e" ->
                        wp_token_scan_flt_exponent(j + 1, "FLT_DECIMAL")
                  [] OTHER -> Finish(j, "INT_DECIMAL", "decimal number")
           before == At(i - 1) \in Decimal \union {"."}
<1>2. j \in i .. Len(buf) - 1 /\ All(i, j, Decimal)
  BY <1>1, AfterRun, Classes
<1> HIDE DEF j
<1>3. j \in Int /\ j \in 0 .. Len(buf) - 1 /\ first \in 0 .. j /\ j >= i
  BY <1>1, <1>2
<1>4. NoBlank(first, j)
  BY <1>1, <1>2, NoBlankExtends, Classes
<1> SUFFICES ASSUME Asserts => before
             PROVE  Sound(r, first, j)
  <2> HIDE DEF r, before
  <2>1. before \in BOOLEAN
    BY DEF before
  <2>2. ASSUME Sound(r, first, j)
        PROVE  Sound(r, first, i)
    BY <1>1, <1>3, <2>2, SoundEarlier
  <2> QED
    BY <1>1, <2>1, <2>2, AssertingSound
    DEF wp_token_scan_decimal_number, r, j, before
<1>5. Asserts => Some(first, j, Decimal)
  <2> SUFFICES ASSUME Asserts
               PROVE  Some(first, j, Decimal)
    OBVIOUS
  <2>1. All(first, i, Decimal)
    OBVIOUS
  <2>2. ASSUME NEW k \in first .. j - 1
        PROVE  At(k) \in Decimal
    BY <1>1, <1>2, <1>3, <2>1 DEF All
  <2> QED
    BY <1>1, <1>3, <2>2 DEF Some, All
<1>6. CASE At(j) = "."
  <2>1. j + 1 \in 1 .. Len(buf) - 1 /\ first \in 0 .. (j + 1) - 1
    BY <1>1, <1>3, <1>6, NextInside, Classes
  <2>2. NoBlank(first, j + 1)
    BY <1>3, <1>4, <1>6, NoBlankNext, Classes
  <2>3. ASSUME Asserts, NEW k \in Int, k >= j + 1, All(j + 1, k, Decimal)
        PROVE  first + 1 < k /\ Pointed(first, k, Decimal)
    <3>1. j \in first .. k - 1 /\ first + 1 < k
      BY <1>1, <1>3, <2>3
    <3> QED
      BY <1>5, <1>6, <2>3, <3>1 DEF Pointed, Some
  <2>4. Sound(wp_token_scan_decimal_flt(j + 1), first, j + 1)
    BY <2>1, <2>2, <2>3, DecimalFltSound
  <2>5. Sound(wp_token_scan_decimal_flt(j + 1), first, j)
    BY <1>3, <2>4, SoundEarlier
  <2> QED
    BY <1>6, <2>5
<1>7. CASE At(j) = "e"
  <2>1. ASSUME Asserts, NEW k \in Int, k > j, Exponent(j, k, "e")
        PROVE  IsLiteral("FLT_DECIMAL", first, k)
    <3>1. j \in first .. k
      BY <1>3, <2>1
    <3> QED
      BY <1>5, <2>1, <3>1 DEF IsLiteral
  <2>2. Sound(wp_token_scan_flt_exponent(j + 1, "FLT_DECIMAL"), first, j)
    BY <1>3, <1>4, <1>7, <2>1, ExponentAtMark DEF LiteralIds
  <2> QED
    BY <1>7, <2>2
<1>8. CASE At(j) \notin {".", "e"}
  <2>1. Asserts => IsLiteral("INT_DECIMAL", first, j)
    BY <1>5 DEF IsLiteral
  <2>2. Sound(Finish(j, "INT_DECIMAL", "decimal number"), first, j)
    BY <1>3, <1>4, <2>1, FinishSound DEF LiteralIds, Subjects
  <2> QED
    BY <1>8, <2>2
<1> QED
  BY <1>6, <1>7, <1>8

\* A number that begins with 0x.
LEMMA HexadecimalNumberSound ==
    ASSUME BufOK, NEW i \in 2 .. Len(buf) - 1, NEW first \in Nat,
           first = i - 2, NoBlank(first, i), Prefixed(first, "x")
    PROVE  Sound(wp_token_scan_hexadecimal_number(i, first), first, i)
<1>1. Len(buf) \in Nat /\ i \in 0 .. Len(buf) - 1 /\ first \in 0 .. i
  BY DEF BufOK
<1> DEFINE j == After(i, Hexadecimal)
           digits ==
             CASE At(j) = "." -> wp_token_scan_hexadecimal_flt(j + 1, first)
               [] At(j) = "p" ->
                     wp_token_scan_flt_exponent(j + 1, "FLT_HEXADECIMAL")
               [] OTHER -> Finish(j, "INT_HEXADECIMAL", "hexadecimal number")
           r == CASE At(i) \in HexadecimalLead -> digits
                  [] At(i) = "." -> wp_token_scan_hexadecimal_flt(i + 1, first)
                  [] At(i) = "p" ->
                        Fails(i, "exponent without", "hexadecimal number")
                  [] At(i) \in FollowUp ->
                        Fails(i, "unterminated", "hexadecimal number")
                  [] OTHER -> Fails(i, "not a valid", "hexadecimal number")
<1>2. j \in i .. Len(buf) - 1 /\ All(i, j, Hexadecimal)
  BY <1>1, AfterRun, Classes
<1>3. At(i) \in Hexadecimal => j > i
  BY <1>1, AfterRun, Classes
<1> HIDE DEF j
<1>4. /\ j \in Int /\ j \in 0 .. Len(buf) - 1
      /\ first \in 0 .. j /\ j >= i /\ first + 2 = i
  BY <1>1, <1>2
<1>5. NoBlank(first, j)
  BY <1>1, <1>2, NoBlankExtends, Classes
<1>6. ASSUME NEW m \in i .. Len(buf) - 1, At(m) = ".",
             All(i, m, Hexadecimal), NoBlank(first, m)
      PROVE  Sound(wp_token_scan_hexadecimal_flt(m + 1, first), first, i)
  <2>1. m \in 0 .. Len(buf) - 1 /\ first \in 0 .. m /\ m \in Int
    BY <1>1, <1>4
  <2>2. /\ m + 1 \in 3 .. Len(buf) - 1
        /\ first \in 0 .. (m + 1) - 3
        /\ (m + 1) - 1 = m
    BY <1>1, <1>4, <1>6, <2>1, NextInside, Classes
  <2>3. NoBlank(first, m + 1)
    BY <1>6, <2>1, NoBlankNext, Classes
  <2>4. All(first + 2, m, Hexadecimal)
    BY <1>4, <1>6
  <2>5. Sound(wp_token_scan_hexadecimal_flt(m + 1, first), first, m + 1)
    BY <1>6, <2>2, <2>3, <2>4, HexadecimalFltSound
  <2> QED
    BY <1>1, <2>1, <2>5, SoundEarlier
<1>7. ASSUME At(i) \in HexadecimalLead
      PROVE  Sound(digits, first, i)
  <2>1. Some(first + 2, j, Hexadecimal)
    BY <1>2, <1>3, <1>4, <1>7 DEF Some, HexadecimalLead
  <2>2. CASE At(j) = "."
    BY <1>2, <1>5, <1>6, <2>2
  <2>3. CASE At(j) = "p"
    <3>1. ASSUME NEW k \in Int, k > j, Exponent(j, k, "p")
          PROVE  IsLiteral("FLT_HEXADECIMAL", first, k)
      <4>1. j \in first + 2 .. k
        BY <1>4, <3>1
      <4> QED
        BY <2>1, <3>1, <4>1 DEF IsLiteral
    <3>2. Sound(wp_token_scan_flt_exponent(j + 1, "FLT_HEXADECIMAL"), first, j)
      BY <1>4, <1>5, <2>3, <3>1, ExponentAtMark DEF LiteralIds
    <3> QED
      BY <1>1, <1>4, <2>3, <3>2, SoundEarlier
  <2>4. CASE At(j) \notin {".", "p"}
    <3>1. IsLiteral("INT_HEXADECIMAL", first, j)
      BY <2>1 DEF IsLiteral
    <3>2. Sound(Finish(j, "INT_HEXADECIMAL", "hexadecimal number"), first, j)
      BY <1>4, <1>5, <3>1, FinishSound DEF LiteralIds, Subjects
    <3> DEFINE s == Finish(j, "INT_HEXADECIMAL", "hexadecimal number")
    <3>3. digits = s
      BY <2>4
    <3> HIDE DEF s, digits
    <3>4. Sound(s, first, j)
      BY <3>2 DEF s
    <3>5. Sound(s, first, i)
      BY <1>1, <1>4, <3>4, SoundEarlier
    <3> QED
      BY <3>3, <3>5
  <2> QED
    BY <2>2, <2>3, <2>4
<1> HIDE DEF digits
<1>8. ASSUME NEW kind \in Kinds, KindFits(kind, i)
      PROVE  Sound(Fails(i, kind, "hexadecimal number"), first, i)
  BY <1>1, <1>8, FailsSound DEF Subjects
<1>9. ASSUME At(i) = "."
      PROVE  Sound(wp_token_scan_hexadecimal_flt(i + 1, first), first, i)
  <2>1. All(i, i, Hexadecimal)
    BY <1>1 DEF All
  <2> QED
    BY <1>1, <1>6, <1>9, <2>1
<1>10. Sound(r, first, i)
  <2> USE DEF HexadecimalLead, Hexadecimal, Decimal, Octal, Binary, FollowUp,
              Blanks, Operators, Signs, NUL
  <2>1. CASE At(i) \in HexadecimalLead
    <3>1. At(i) \notin {".", "p"} \union FollowUp
      BY <2>1
    <3> QED
      BY <1>7, <2>1, <3>1
  <2>2. CASE At(i) = "."
    <3>1. At(i) \notin HexadecimalLead \union {"p"} \union FollowUp
      BY <2>2
    <3> QED
      BY <1>9, <2>2, <3>1
  <2>3. CASE At(i) \notin HexadecimalLead \union {"."}
    BY <1>8, <2>3 DEF Kinds, KindFits
  <2> QED
    BY <2>1, <2>2, <2>3
<1> HIDE DEF r
<1>11. AfterMark(i, "x") \in BOOLEAN
  BY DEF AfterMark
<1> QED
  BY <1>1, <1>10, <1>11, AssertingSound
  DEF wp_token_scan_hexadecimal_number, r, digits, j

\* What follows a leading 0.
LEMMA ScanAfterZeroSound ==
    ASSUME BufOK, NEW i \in 1 .. Len(buf) - 1, At(i - 1) = "0"
    PROVE  Sound(ScanAfterZero(i), i - 1, i)
<1> DEFINE first == i - 1
<1>1. /\ Len(buf) \in Nat /\ i \in 0 .. Len(buf) - 1
      /\ first \in Nat /\ first \in 0 .. i /\ first \in 0 .. i - 1
      /\ (i + 1) - 1 = i /\ (i + 1) - 2 = first /\ first + 1 = i
  BY DEF BufOK
<1> HIDE DEF first
<1>2. At(first) = "0" /\ "0" \in Decimal /\ "0" \notin Blanks
  BY DEF first, Binary, Octal, Decimal, Blanks
<1>3. NoBlank(first, i)
  BY <1>1, <1>2 DEF NoBlank
<1>4. ASSUME At(i) # NUL, At(i) \notin Blanks
      PROVE  /\ i + 1 \in 1 .. Len(buf) - 1 /\ i + 1 \in 0 .. Len(buf) - 1
             /\ first \in 0 .. i + 1 /\ first \in 0 .. (i + 1) - 1
             /\ NoBlank(first, i + 1)
  BY <1>1, <1>3, <1>4, NextInside, NoBlankNext
<1>5. ASSUME NEW r, i + 1 \in Int, Sound(r, first, i + 1)
      PROVE  Sound(r, first, i)
  BY <1>1, <1>5, SoundEarlier
<1>6. ASSUME NEW mark \in {"b", "o", "d"}, At(i) = mark,
             NEW S \in SUBSET Hexadecimal, NEW id \in LiteralIds,
             NEW subject \in Subjects,
             \A j \in Int : Prefixed(first, mark) /\ Some(first + 2, j, S) =>
                IsLiteral(id, first, j)
      PROVE  Sound(Asserting(i + 1, AfterMark(i + 1, mark),
                             ScanDigits(i + 1, S, id, subject)), first, i)
  <2> DEFINE s == ScanDigits(i + 1, S, id, subject)
             h == AfterMark(i + 1, mark)
  <2>1. /\ i + 1 \in 0 .. Len(buf) - 1 /\ first \in 0 .. i + 1
        /\ NoBlank(first, i + 1)
    BY <1>4, <1>6, Classes
  <2>2. Prefixed(first, mark) /\ first + 2 = i + 1
    BY <1>1, <1>2, <1>6 DEF Prefixed
  <2>3. \A j \in Int : Some(i + 1, j, S) => IsLiteral(id, first, j)
    BY <1>6, <2>2
  <2>4. Sound(s, first, i + 1)
    BY <2>1, <2>3, ScanDigitsSound
  <2>5. h \in BOOLEAN
    BY DEF AfterMark
  <2> HIDE DEF s, h
  <2>6. Sound(Asserting(i + 1, h, s), first, i + 1)
    BY <2>1, <2>4, <2>5, AssertingSound
  <2> QED
    BY <1>1, <1>5, <2>6 DEF s, h
<1>7. CASE At(i) = "b"
  <2>1. Sound(wp_token_scan_binary_int(i + 1), first, i)
    BY <1>6, <1>7, Classes
    DEF wp_token_scan_binary_int, IsLiteral, LiteralIds, Subjects
  <2> QED
    BY <1>7, <2>1 DEF ScanAfterZero, first, FollowUp, Blanks, Operators, Signs,
                      NUL, Decimal, Octal, Binary
<1>8. CASE At(i) = "o"
  <2>1. Sound(wp_token_scan_octal_int(i + 1), first, i)
    BY <1>6, <1>8, Classes
    DEF wp_token_scan_octal_int, IsLiteral, LiteralIds, Subjects
  <2> QED
    BY <1>8, <2>1 DEF ScanAfterZero, first, FollowUp, Blanks, Operators, Signs,
                      NUL, Decimal, Octal, Binary
<1>9. CASE At(i) = "d"
  <2>1. Sound(wp_token_scan_decimal_int(i + 1), first, i)
    BY <1>6, <1>9, Classes
    DEF wp_token_scan_decimal_int, IsLiteral, LiteralIds, Subjects
  <2> QED
    BY <1>9, <2>1 DEF ScanAfterZero, first, FollowUp, Blanks, Operators, Signs,
                      NUL, Decimal, Octal, Binary
<1>10. CASE At(i) = "x"
  <2>1. /\ i + 1 \in 2 .. Len(buf) - 1 /\ NoBlank(first, i + 1)
        /\ Prefixed(first, "x")
    BY <1>1, <1>2, <1>4, <1>10, Classes DEF Prefixed
  <2>2. Sound(wp_token_scan_hexadecimal_number(i + 1, first), first, i + 1)
    BY <1>1, <2>1, HexadecimalNumberSound
  <2>3. Sound(wp_token_scan_hexadecimal_number(i + 1, first), first, i)
    BY <1>1, <1>5, <2>2
  <2> QED
    BY <1>10, <2>3 DEF ScanAfterZero, first, FollowUp, Blanks, Operators, Signs,
                       NUL, Decimal, Octal, Binary
<1>11. ASSUME At(i) \notin FollowUp \union {"."}
       PROVE  Sound(wp_token_scan_decimal_number(i + 1), first, i)
  <2>1. At(i) # NUL /\ At(i) \notin Blanks
    BY <1>11, Classes
  <2>2. /\ i + 1 \in 1 .. Len(buf) - 1 /\ first \in 0 .. (i + 1) - 1
        /\ NoBlank(first, i + 1)
    BY <1>4, <2>1
  <2>3. At((i + 1) - 1) \in Decimal \union {"."} => All(first, i + 1, Decimal)
    <3> SUFFICES ASSUME At(i) \in Decimal, NEW k \in first .. i
                 PROVE  At(k) \in Decimal
      BY <1>1, <1>11 DEF All
    <3>1. k = first \/ k = i
      BY <1>1
    <3> QED
      BY <1>2, <3>1
  <2>4. Sound(wp_token_scan_decimal_number(i + 1), first, i + 1)
    BY <2>2, <2>3, DecimalNumberSound
  <2> QED
    BY <1>1, <1>5, <2>4
<1>12. CASE At(i) \in Decimal
  <2>1. At(i) \notin FollowUp \union {".", "b", "d", "o", "x", "e"}
    BY <1>12 DEF FollowUp, Blanks, Operators, Signs, NUL, Decimal, Octal, Binary
  <2> QED
    BY <1>11, <1>12, <2>1 DEF ScanAfterZero, first
<1>13. CASE At(i) = "."
  <2>1. /\ i + 1 \in 1 .. Len(buf) - 1 /\ first \in 0 .. (i + 1) - 1
        /\ NoBlank(first, i + 1)
    BY <1>4, <1>13, Classes
  <2>2. ASSUME NEW j \in Int, j >= i + 1, All(i + 1, j, Decimal)
        PROVE  first + 1 < j /\ Pointed(first, j, Decimal)
    <3>1. i \in first .. j - 1 /\ first + 1 < j
      BY <1>1, <2>2
    <3>2. All(first, i, Decimal)
      BY <1>1, <1>2 DEF All
    <3> QED
      BY <1>13, <2>2, <3>1, <3>2 DEF Pointed
  <2>3. Sound(wp_token_scan_decimal_flt(i + 1), first, i + 1)
    BY <2>1, <2>2, DecimalFltSound
  <2>4. Sound(wp_token_scan_decimal_flt(i + 1), first, i)
    BY <1>1, <1>5, <2>3
  <2> QED
    BY <1>13, <2>4 DEF ScanAfterZero, first, FollowUp, Blanks, Operators, Signs,
                       NUL, Decimal, Octal, Binary
<1>14. CASE At(i) = "e"
  <2>1. ASSUME NEW k \in Int, k > i, Exponent(i, k, "e")
        PROVE  IsLiteral("FLT_DECIMAL", first, k)
    <3>1. i \in first .. k
      BY <1>1, <2>1
    <3>2. Some(first, i, Decimal)
      BY <1>1, <1>2 DEF Some, All
    <3> QED
      BY <2>1, <3>1, <3>2 DEF IsLiteral
  <2>2. Sound(wp_token_scan_flt_exponent(i + 1, "FLT_DECIMAL"), first, i)
    BY <1>1, <1>3, <1>14, <2>1, ExponentAtMark DEF LiteralIds
  <2> QED
    BY <1>14, <2>2 DEF ScanAfterZero, first, FollowUp, Blanks, Operators, Signs,
                       NUL, Decimal, Octal, Binary
<1>15. CASE At(i) \in FollowUp
  <2>1. At(i) \notin Decimal \union {".", "b", "d", "o", "x", "e"}
    BY <1>15 DEF FollowUp, Blanks, Operators, Signs, NUL, Decimal, Octal, Binary
  <2>2. Some(first, i, Decimal)
    BY <1>1, <1>2 DEF Some, All
  <2>3. Sound(Found(i, "INT_DECIMAL"), first, i)
    BY <1>1, <1>3, <1>15, <2>2
    DEF Sound, Found, NoError, LiteralIds, IsLiteral, Fits
  <2> QED
    BY <1>15, <2>1, <2>3 DEF ScanAfterZero, first
<1>16. CASE At(i) \notin Decimal \union FollowUp
                            \union {".", "b", "d", "o", "x", "e"}
  BY <1>11, <1>16 DEF ScanAfterZero, first
<1> QED
  BY <1>7, <1>8, <1>9, <1>10, <1>12, <1>13, <1>14, <1>15, <1>16

\* What follows a point.
LEMMA ScanAfterPointSound ==
    ASSUME BufOK, NEW i \in 1 .. Len(buf) - 1, At(i - 1) = "."
    PROVE  Sound(ScanAfterPoint(i), i - 1, i)
<1> DEFINE first == i - 1
<1>1. /\ Len(buf) \in Nat /\ i \in 0 .. Len(buf) - 1 /\ i + 1 \in Int
      /\ first \in Nat /\ first \in 0 .. i /\ first + 1 = i
  BY DEF BufOK
<1> HIDE DEF first
<1>2. At(first) = "."
  BY DEF first
<1>3. NoBlank(first, i)
  BY <1>1, <1>2, Classes DEF NoBlank
<1>4. CASE At(i) \in Decimal
  <2>1. /\ i + 1 \in 1 .. Len(buf) - 1 /\ first \in 0 .. (i + 1) - 1
        /\ NoBlank(first, i + 1)
    BY <1>1, <1>3, <1>4, NextInside, NoBlankNext, Classes
  <2>2. ASSUME NEW j \in Int, j >= i + 1, All(i + 1, j, Decimal)
        PROVE  first + 1 < j /\ Pointed(first, j, Decimal)
    <3>1. first \in first .. j - 1 /\ first + 1 < j
      BY <1>1, <2>2
    <3>2. All(first, first, Decimal)
      BY <1>1 DEF All
    <3>3. All(first + 1, j, Decimal)
      BY <1>1, <1>4, <2>2 DEF All
    <3> QED
      BY <1>2, <3>1, <3>2, <3>3 DEF Pointed
  <2>3. Sound(wp_token_scan_decimal_flt(i + 1), first, i + 1)
    BY <2>1, <2>2, DecimalFltSound
  <2>4. Sound(wp_token_scan_decimal_flt(i + 1), first, i)
    BY <1>1, <2>3, SoundEarlier
  <2> QED
    BY <1>4, <2>4 DEF ScanAfterPoint, first
<1>5. CASE At(i) \notin Decimal
  <2>1. Sound(Fails(i, "unrecognized", "token"), first, i)
    BY <1>1, <1>3, FailsSound DEF Kinds, Subjects, KindFits
  <2> QED
    BY <1>5, <2>1 DEF ScanAfterPoint, first
<1> QED
  BY <1>4, <1>5

\* What w_tokenizer_advance() may find where no blank is.
TokenSound(r, i) ==
    /\ r.it \in i .. Len(buf)
    /\ r.id \in Ids
    /\ r.error \in {NoError} \union (Kinds \X Subjects)
    /\ r.aborts \in BOOLEAN
    /\ NoBlank(i, r.it)
    /\ r.id = "INVALID" <=> (r.error # NoError \/ r.aborts)
    /\ Fits(r)
    /\ r.id # "INVALID" => r.it > i
    /\ r.it = Len(buf) => r.id = "EOF"
    /\ Asserts /\ r.id # "INVALID" => IsLexeme(r.id, i, r.it)

\* The cases of w_tokenizer_advance(): literals by the lemmas above, operators
\* and the end by themselves.
LEMMA ScanTokenSound ==
    ASSUME BufOK, NEW i \in 0 .. Len(buf) - 1, At(i) \notin Blanks
    PROVE  TokenSound(ScanToken(i), i)
<1>1. Len(buf) \in Nat /\ (i + 1) - 1 = i
  BY DEF BufOK
<1>2. At(i) # NUL => i + 1 \in 1 .. Len(buf) - 1
  BY <1>1, NextInside
<1>3. ASSUME NEW r, Sound(r, i, i + 1)
      PROVE  TokenSound(r, i)
  <2>1. r.id \in Ids /\ r.it # Len(buf) /\ r.it > i /\ r.it \in i .. Len(buf)
    BY <1>1, <1>3 DEF Sound, Ids
  <2>2. Asserts /\ r.id # "INVALID" => IsLexeme(r.id, i, r.it)
    BY <1>3 DEF Sound, IsLexeme
  <2> QED
    BY <1>3, <2>1, <2>2 DEF Sound, TokenSound
<1>4. CASE At(i) = "0"
  <2>1. Sound(ScanAfterZero(i + 1), i, i + 1)
    BY <1>1, <1>2, <1>4, ScanAfterZeroSound DEF NUL
  <2> QED
    BY <1>3, <1>4, <2>1 DEF ScanToken, Operators, Signs, NUL
<1>5. CASE At(i) \in Decimal \ {"0"}
  <2>1. At(i) \notin Operators \union {"0", ".", NUL}
    BY <1>5 DEF Operators, Signs, NUL, Decimal, Octal, Binary
  <2>2. /\ i + 1 \in 1 .. Len(buf) - 1 /\ i \in 0 .. (i + 1) - 1
        /\ NoBlank(i, i + 1)
    BY <1>1, <1>2, <2>1 DEF NoBlank
  <2>3. All(i, i + 1, Decimal)
    BY <1>1, <1>5 DEF All
  <2>4. Sound(wp_token_scan_decimal_number(i + 1), i, i + 1)
    BY <2>2, <2>3, DecimalNumberSound
  <2> QED
    BY <1>3, <1>5, <2>1, <2>4 DEF ScanToken
<1>6. CASE At(i) = "."
  <2>1. At(i) \notin Decimal \union Operators \union {"0", NUL}
    BY <1>6 DEF Operators, Signs, NUL, Decimal, Octal, Binary
  <2>2. Sound(ScanAfterPoint(i + 1), i, i + 1)
    BY <1>1, <1>2, <1>6, <2>1, ScanAfterPointSound
  <2> QED
    BY <1>3, <1>6, <2>1, <2>2 DEF ScanToken
<1>7. ASSUME NEW id \in Ids \ {"INVALID"}, IsLexeme(id, i, i + 1),
             i + 1 = Len(buf) => id = "EOF"
      PROVE  TokenSound(Found(i + 1, id), i)
  <2>1. NoBlank(i, i + 1) /\ i + 1 \in i .. Len(buf) /\ i + 1 > i
    BY <1>1 DEF NoBlank
  <2> QED
    BY <1>7, <2>1 DEF TokenSound, Found, NoError, Fits
<1>8. CASE At(i) \in Operators
  <2>1. At(i) \notin Decimal \union {"0", ".", NUL}
    BY <1>8 DEF Operators, Signs, NUL, Decimal, Octal, Binary
  <2>2. OperatorId[At(i)] \in Ids \ {"INVALID"}
    BY <1>8 DEF Ids, OperatorId, Operators, Signs
  <2>3. IsLexeme(OperatorId[At(i)], i, i + 1)
    BY <1>8 DEF IsLexeme
  <2>4. i + 1 # Len(buf)
    BY <1>1, <1>2, <2>1
  <2>5. TokenSound(Found(i + 1, OperatorId[At(i)]), i)
    BY <1>7, <2>2, <2>3, <2>4
  <2> QED
    BY <1>8, <2>1, <2>5 DEF ScanToken
<1>9. CASE At(i) = NUL
  <2>1. At(i) \notin Decimal \union Operators \union {"0", "."}
    BY <1>9 DEF Operators, Signs, NUL, Decimal, Octal, Binary
  <2>2. "EOF" \in Ids \ {"INVALID"} /\ IsLexeme("EOF", i, i + 1)
    BY <1>9 DEF Ids, IsLexeme, OperatorId, Operators, Signs, LiteralIds
  <2>3. TokenSound(Found(i + 1, "EOF"), i)
    BY <1>7, <2>2
  <2> QED
    BY <1>9, <2>1, <2>3 DEF ScanToken
<1>10. CASE At(i) \notin Decimal \union Operators \union {"0", ".", NUL}
  <2> DEFINE r == Fails(i, "unrecognized", "token")
  <2>1. NoBlank(i, i) /\ i \in 0 .. i
    BY <1>1 DEF NoBlank
  <2>2. Sound(r, i, i)
    <3>1. "unrecognized" \in Kinds /\ "token" \in Subjects
      BY DEF Kinds, Subjects
    <3> QED
      BY <2>1, <3>1, FailsSound DEF KindFits
  <2>3. r.it = i /\ r.id = "INVALID"
    BY DEF Fails
  <2> HIDE DEF r
  <2>4. TokenSound(r, i)
    BY <1>1, <2>2, <2>3 DEF Sound, TokenSound, Ids
  <2> QED
    BY <1>10, <2>4 DEF ScanToken, r
<1> QED
  BY <1>4, <1>5, <1>6, <1>8, <1>9, <1>10

-----------------------------------------------------------------------------
(* Types and the end of the source                                         *)

\* TypeOK, with what it needs: the buffer never changes, and only the token
\* that ends the source takes the tokenizer beyond its last character.
TypeInv ==
    /\ BufOK
    /\ TypeOK
    /\ it = Len(buf) => pc = "client" /\ AtEnd
    /\ pc # "client" => status = "W_SUCCESS"

\* A scan: a token is found, an error reported, or an assertion fails.
Scan == ScanFound \/ ScanFails \/ ScanAborts

\* What every scan does, whatever it comes to.
LEMMA ScanStep ==
    ASSUME TypeInv, Scan
    PROVE  /\ Reading
           /\ it \in 0 .. Len(buf) - 1 /\ it \in Nat
           /\ At(it) \notin Blanks
           /\ TokenSound(ScanToken(it), it)
           /\ begin' = it
           /\ it' = ScanToken(it).it
           /\ column' = column + (ScanToken(it).it - it)
           /\ UNCHANGED <<buf, line>>
<1> USE DEF Scan, ScanFound, ScanFails, ScanAborts
<1>1. Consume(ScanToken(it))
  OBVIOUS
<1>2. Len(buf) \in Nat
  BY DEF TypeInv, BufOK
<1>3. it \in 0 .. Len(buf) - 1
  BY <1>1, <1>2 DEF TypeInv, TypeOK, Consume, Reading
<1>4. At(it) \notin Blanks
  BY <1>1 DEF Consume
<1>5. TokenSound(ScanToken(it), it)
  BY <1>3, <1>4, ScanTokenSound DEF TypeInv
<1> QED
  BY <1>1, <1>3, <1>4, <1>5 DEF Consume

\* A bit field keeps the values that fit in it.
LEMMA BitField ==
    ASSUME NEW x \in Nat, NEW limit \in Nat \ {0}
    PROVE  /\ x % limit \in Nat
           /\ x < limit => x % limit = x
OBVIOUS

\* Pointers into the source are subtracted in their order only.
LEMMA Difference ==
    ASSUME NEW x \in Nat, NEW y \in Nat, x >= y
    PROVE  x - y \in Nat
OBVIOUS

\* A call that returns keeps the type of the tokens.
LEMMA ReturnType ==
    ASSUME TypeInv, NEW result, NEW id \in Ids, Return(result, id),
           begin' \in Nat, it' \in Nat, it' >= begin'
    PROVE  /\ tokens' \in Seq([pos : Nat, len : Nat, id : Ids])
           /\ tokens' # <<>>
           /\ Len(tokens') = Len(tokens) + 1
           /\ tokens'[Len(tokens')] = [pos |-> begin' % PosLimit,
                                       len |-> (it' - begin') % LenLimit,
                                       id |-> id]
           /\ \A k \in 1 .. Len(tokens) : tokens'[k] = tokens[k]
<1> DEFINE t == [pos |-> begin' % PosLimit,
                 len |-> (it' - begin') % LenLimit, id |-> id]
<1>1. tokens \in Seq([pos : Nat, len : Nat, id : Ids])
  BY DEF TypeInv, TypeOK
<1>2. begin' % PosLimit \in Nat /\ (it' - begin') % LenLimit \in Nat
  <2>1. it' - begin' \in Nat
    BY Difference
  <2> QED
    BY <2>1, BitField, TokenizerAssumption
<1>3. t \in [pos : Nat, len : Nat, id : Ids]
  BY <1>2
<1>4. tokens' = Append(tokens, t)
  BY DEF Return
<1> HIDE DEF t
<1>5. /\ tokens' \in Seq([pos : Nat, len : Nat, id : Ids])
      /\ tokens' # <<>>
      /\ Len(tokens') = Len(tokens) + 1
      /\ tokens'[Len(tokens')] = t
      /\ \A k \in 1 .. Len(tokens) : tokens'[k] = tokens[k]
  BY <1>1, <1>3, <1>4
<1> QED
  BY <1>5 DEF t

\* The buffer of a source.
LEMMA InitTypeInv == Init => TypeInv
<1> SUFFICES ASSUME Init
             PROVE  TypeInv
  OBVIOUS
<1>1. PICK s \in Sources : buf = Append(s, NUL)
  BY DEF Init
<1>2. s \in Seq(Characters) /\ NUL \notin Characters
  BY TokenizerAssumption
<1>3. /\ buf \in Seq(Characters \union {NUL})
      /\ Len(buf) = Len(s) + 1
      /\ buf[Len(s) + 1] = NUL
      /\ \A k \in 1 .. Len(s) : buf[k] = s[k] /\ s[k] \in Characters
      /\ Len(s) \in Nat
  <2>1. s \in Seq(Characters \union {NUL})
    BY <1>2
  <2> QED
    BY <1>1, <1>2, <2>1
<1>4. BufOK
  BY <1>2, <1>3 DEF BufOK, At
<1>5. /\ it = 0 /\ begin = 0 /\ line = 1 /\ column = 1
      /\ errors = <<>> /\ tokens = <<>>
      /\ pc = "client" /\ status = "W_SUCCESS"
  BY DEF Init
<1>6. Len(buf) \in Nat /\ Len(buf) > 0
  BY <1>3
<1>7. errors \in Seq(Kinds \X Subjects)
  BY <1>5
<1>8. tokens \in Seq([pos : Nat, len : Nat, id : Ids])
  BY <1>5
<1>9. TypeOK
  BY <1>5, <1>6, <1>7, <1>8 DEF TypeOK, Statuses
<1> QED
  BY <1>4, <1>5, <1>6, <1>9 DEF TypeInv

\* TypeInv is inductive.
LEMMA NextTypeInv ==
    ASSUME TypeInv, [Next]_vars
    PROVE  TypeInv'
<1>0. Len(buf) \in Nat /\ it \in Nat
  BY DEF TypeInv, BufOK, TypeOK
<1>1. CASE Call
  <2>1. BufOK'
    BY <1>1 DEF Call, TypeInv, BufOK, At
  <2>2. it # Len(buf)
    BY <1>1 DEF Call, TypeInv
  <2>3. TypeOK'
    BY <1>0, <1>1, <2>2 DEF Call, TypeInv, TypeOK
  <2> QED
    BY <1>1, <2>1, <2>2, <2>3 DEF Call, TypeInv
<1>2. CASE SkipSpace \/ SkipNewline
  <2>1. BufOK'
    BY <1>2 DEF SkipSpace, SkipNewline, TypeInv, BufOK, At
  <2>2. /\ pc = "advance" /\ At(it) \in Blanks
        /\ begin' = it /\ it' = it + 1
        /\ UNCHANGED <<buf, errors, pc, status, tokens>>
    BY <1>2 DEF SkipSpace, SkipNewline, Reading, Blanks
  <2>3. line' \in Nat \ {0} /\ column' \in Nat \ {0}
    <3>1. line \in Nat \ {0} /\ column \in Nat \ {0}
      BY DEF TypeInv, TypeOK
    <3>2. CASE SkipSpace
      <4>1. line' = line /\ column' = column + 1
        BY <3>2 DEF SkipSpace
      <4>2. column + 1 \in Nat \ {0}
        BY <3>1
      <4> QED
        BY <3>1, <4>1, <4>2
    <3>3. CASE SkipNewline
      BY <3>1, <3>3 DEF SkipNewline
    <3> QED
      BY <1>2, <3>2, <3>3
  <2>4. it \in 0 .. Len(buf) - 1
    BY <1>0, <2>2 DEF TypeInv, TypeOK
  <2>5. At(it) # NUL
    BY <2>2 DEF Blanks, NUL
  <2>6. it + 1 \in 0 .. Len(buf) - 1
    BY <2>4, <2>5, NextInside DEF TypeInv
  <2>7. TypeOK'
    BY <1>0, <2>2, <2>3, <2>6 DEF TypeInv, TypeOK
  <2> QED
    BY <1>0, <2>1, <2>2, <2>6, <2>7 DEF TypeInv
<1>3. CASE Scan
  <2> DEFINE r == ScanToken(it)
  <2>1. /\ pc = "advance" /\ it \in 0 .. Len(buf) - 1 /\ TokenSound(r, it)
        /\ begin' = it /\ it' = r.it /\ column' = column + (r.it - it)
        /\ buf' = buf /\ line' = line
    BY <1>3, ScanStep DEF Reading
  <2>2. BufOK'
    BY <2>1 DEF TypeInv, BufOK, At
  <2>3. /\ it' \in Nat /\ it' \in it .. Len(buf) /\ begin' \in Nat
        /\ it' >= begin' /\ begin' \in 0 .. it'
    BY <1>0, <2>1 DEF TokenSound
  <2>4. line' \in Nat \ {0} /\ column' \in Nat \ {0}
    BY <1>0, <2>1, <2>3 DEF TypeInv, TypeOK
  <2>5. CASE ScanFound
    <3>1. Return("W_SUCCESS", r.id) /\ errors' = errors /\ r.id \in Ids
      BY <2>1, <2>5 DEF ScanFound, TokenSound
    <3> HIDE DEF r
    <3>2. /\ tokens' \in Seq([pos : Nat, len : Nat, id : Ids])
          /\ tokens' # <<>>
          /\ tokens'[Len(tokens')] = [pos |-> begin' % PosLimit,
                                      len |-> (it' - begin') % LenLimit,
                                      id |-> r.id]
      BY <2>3, <3>1, ReturnType
    <3>3. it' = Len(buf') => AtEnd'
      BY <2>1, <3>2 DEF TokenSound, AtEnd
    <3> QED
      BY <2>1, <2>2, <2>3, <2>4, <3>1, <3>2, <3>3
      DEF TypeInv, TypeOK, Return, Statuses
  <2>6. CASE ScanFails
    <3>1. r.error # NoError
      BY <2>6 DEF ScanFails
    <3>2. r.error \in Kinds \X Subjects /\ it' # Len(buf)
      BY <2>1, <3>1 DEF TokenSound
    <3>3. "INVALID" \in Ids
      BY DEF Ids
    <3>4. PICK result \in Statuses : Return(result, "INVALID")
      BY <2>6 DEF ScanFails, Statuses
    <3>5. errors' \in Seq(Kinds \X Subjects)
      <4>1. errors' = errors \/ errors' = Append(errors, r.error)
        BY <2>6 DEF ScanFails
      <4>2. errors \in Seq(Kinds \X Subjects)
        BY DEF TypeInv, TypeOK
      <4> HIDE DEF r
      <4> QED
        BY <3>2, <4>1, <4>2
    <3> HIDE DEF r
    <3>6. tokens' \in Seq([pos : Nat, len : Nat, id : Ids])
      BY <2>3, <3>3, <3>4, ReturnType
    <3> QED
      BY <2>1, <2>2, <2>3, <2>4, <3>2, <3>4, <3>5, <3>6
      DEF TypeInv, TypeOK, Return
  <2>7. CASE ScanAborts
    <3>1. r.aborts /\ pc' = "aborted" /\ UNCHANGED <<errors, status, tokens>>
      BY <2>7 DEF ScanAborts
    <3>2. it' # Len(buf)
      BY <2>1, <3>1 DEF TokenSound
    <3> HIDE DEF r
    <3> QED
      BY <2>1, <2>2, <2>3, <2>4, <3>1, <3>2 DEF TypeInv, TypeOK
  <2> QED
    BY <1>3, <2>5, <2>6, <2>7 DEF Scan
<1>4. CASE TooLarge
  <2>1. BufOK'
    BY <1>4 DEF TooLarge, TypeInv, BufOK, At
  <2>2. /\ begin' = begin /\ it' = it /\ begin \in Nat /\ it >= begin
        /\ it # Len(buf)
    BY <1>0, <1>4 DEF TooLarge, TypeInv, TypeOK
  <2>3. "INVALID" \in Ids /\ Return("W_ERROR_MAX_SIZE_EXCEEDED", "INVALID")
    BY <1>4 DEF TooLarge, Ids
  <2>4. tokens' \in Seq([pos : Nat, len : Nat, id : Ids])
    BY <1>0, <2>2, <2>3, ReturnType
  <2> QED
    BY <1>4, <2>1, <2>2, <2>3, <2>4
    DEF TooLarge, TypeInv, TypeOK, Return, Statuses
<1>5. CASE UNCHANGED vars
  BY <1>5 DEF vars, TypeInv, BufOK, At, TypeOK, AtEnd
<1> QED
  BY <1>1, <1>2, <1>3, <1>4, <1>5 DEF Next, Scan

\* The type invariant holds always.
LEMMA TypeInvAlways == Spec => []TypeInv
BY InitTypeInv, NextTypeInv, PTL DEF Spec

\* Every variable keeps its type, and no call starts beyond the source.
THEOREM TypeCorrect == Spec => []TypeOK
<1>1. TypeInv => TypeOK
  BY DEF TypeInv
<1> QED
  BY <1>1, TypeInvAlways, PTL

-----------------------------------------------------------------------------
(* Tokens are lexemes                                                      *)

\* No token is as long as the width of its length allows to tell.
ShortSources == \A s \in Sources : Len(s) + 1 < LenLimit

ShortBuf == Len(buf) < LenLimit

\* The source does not change.
LEMMA ShortBufAlways ==
    ASSUME ShortSources
    PROVE  Spec => []ShortBuf
<1>1. Init => ShortBuf
  <2> SUFFICES ASSUME Init
               PROVE  ShortBuf
    OBVIOUS
  <2>1. PICK s \in Sources : buf = Append(s, NUL)
    BY DEF Init
  <2>2. s \in Seq(Characters)
    BY TokenizerAssumption
  <2>3. Len(buf) = Len(s) + 1
    BY <2>1, <2>2
  <2> QED
    BY <2>3 DEF ShortSources, ShortBuf
<1>2. ShortBuf /\ [Next]_vars => ShortBuf'
  <2> SUFFICES ASSUME ShortBuf, [Next]_vars
               PROVE  ShortBuf'
    OBVIOUS
  <2>1. buf' = buf
    BY DEF Next, Call, SkipSpace, SkipNewline, ScanFound, ScanFails,
           ScanAborts, Consume, TooLarge, vars
  <2> QED
    BY <2>1 DEF ShortBuf
<1> QED
  BY <1>1, <1>2, PTL DEF Spec

\* The steps that return a token write one at the end of those there are.
LEMMA ScanReturns ==
    ASSUME TypeInv, ShortBuf, ScanFound \/ ScanFails
    PROVE  /\ pc' = "client" /\ status = "W_SUCCESS"
           /\ Len(tokens) \in Nat /\ Len(tokens') = Len(tokens) + 1
           /\ \A k \in 1 .. Len(tokens) : tokens'[k] = tokens[k]
           /\ tokens'[Len(tokens) + 1].pos = it
           /\ tokens'[Len(tokens) + 1].len = ScanToken(it).it - it
           /\ tokens'[Len(tokens) + 1].id = ScanToken(it).id
           /\ ScanToken(it).it - it \in Nat
<1> DEFINE r == ScanToken(it)
<1>1. /\ pc = "advance" /\ it < PosLimit /\ it \in Nat /\ TokenSound(r, it)
      /\ begin' = it /\ it' = r.it
  BY ScanStep DEF Scan, Reading
<1>2. r.it \in Nat /\ r.it >= it /\ r.it <= Len(buf) /\ Len(buf) \in Nat
  <2>1. Len(buf) \in Nat
    BY DEF TypeInv, BufOK
  <2> QED
    BY <1>1, <2>1 DEF TokenSound
<1>3. r.it - it \in Nat /\ r.it - it < LenLimit
  <2>1. LenLimit \in Nat
    BY TokenizerAssumption
  <2> QED
    BY <1>1, <1>2, <2>1 DEF ShortBuf
<1>4. r.id \in Ids /\ \E result \in Statuses : Return(result, r.id)
  <2>1. CASE ScanFound
    BY <1>1, <2>1 DEF ScanFound, TokenSound, Statuses
  <2>2. CASE ScanFails
    BY <1>1, <2>2 DEF ScanFails, TokenSound, Statuses
  <2> QED
    BY <2>1, <2>2
<1> HIDE DEF r
<1>5. PICK result \in Statuses : Return(result, r.id)
  BY <1>4
<1>6. /\ Len(tokens') = Len(tokens) + 1
      /\ tokens'[Len(tokens')] = [pos |-> begin' % PosLimit,
                                  len |-> (it' - begin') % LenLimit,
                                  id |-> r.id]
      /\ \A k \in 1 .. Len(tokens) : tokens'[k] = tokens[k]
  BY <1>1, <1>2, <1>4, <1>5, ReturnType
<1>7. it % PosLimit = it /\ (r.it - it) % LenLimit = r.it - it
  BY <1>1, <1>3, BitField, TokenizerAssumption
<1>8. Len(tokens) \in Nat
  BY DEF TypeInv, TypeOK
<1>9. pc' = "client" /\ status = "W_SUCCESS"
  BY <1>1, <1>5 DEF Return, TypeInv
<1>10. tokens'[Len(tokens) + 1] = [pos |-> it, len |-> r.it - it, id |-> r.id]
  BY <1>1, <1>6, <1>7
<1> QED
  BY <1>3, <1>6, <1>8, <1>9, <1>10 DEF r

\* A stretch of an unchanged source stays what it is.
LEMMA LexemeKept ==
    ASSUME buf' = buf, NEW k, NEW id, NEW i, NEW j, IsLexeme(id, i, j),
           tokens'[k].id = id, tokens'[k].pos = i,
           tokens'[k].pos + tokens'[k].len = j
    PROVE  IsLexeme(tokens[k].id, tokens[k].pos, End(k))'
BY DEF IsLexeme, IsLiteral, Pointed, Exponent, Prefixed, Some, All, At, End

\* So do the tokens when nothing is returned.
LEMMA LexemesKept ==
    ASSUME TokensAreLexemes, UNCHANGED <<buf, status, tokens>>
    PROVE  TokensAreLexemes'
<1> SUFFICES ASSUME NEW k \in Kept', (tokens[k].id # "INVALID")'
             PROVE  IsLexeme(tokens[k].id, tokens[k].pos, End(k))'
  BY DEF TokensAreLexemes
<1>1. k \in Kept /\ tokens[k].id # "INVALID"
  BY DEF Kept
<1>2. IsLexeme(tokens[k].id, tokens[k].pos, End(k))
  BY <1>1 DEF TokensAreLexemes
<1> QED
  BY <1>2, LexemeKept DEF End

\* TokensAreLexemes is inductive in a debug build.
LEMMA NextLexemes ==
    ASSUME Asserts, TypeInv, ShortBuf, TokensAreLexemes, [Next]_vars
    PROVE  TokensAreLexemes'
<1>1. CASE UNCHANGED <<buf, status, tokens>>
  BY <1>1, LexemesKept
<1>2. CASE ScanFound \/ ScanFails
  <2> DEFINE r == ScanToken(it)
  <2>1. /\ buf' = buf /\ it' = r.it /\ TokenSound(r, it) /\ it \in Nat
        /\ r.it \in Int
    <3>1. buf' = buf /\ it' = r.it /\ TokenSound(r, it) /\ it \in Nat
      BY <1>2, ScanStep DEF Scan
    <3>2. Len(buf) \in Nat
      BY DEF TypeInv, BufOK
    <3> QED
      BY <3>1, <3>2 DEF TokenSound
  <2>2. /\ status = "W_SUCCESS"
        /\ Len(tokens) \in Nat /\ Len(tokens') = Len(tokens) + 1
        /\ \A k \in 1 .. Len(tokens) : tokens'[k] = tokens[k]
        /\ tokens'[Len(tokens) + 1].pos = it
        /\ tokens'[Len(tokens) + 1].len = r.it - it
        /\ tokens'[Len(tokens) + 1].id = r.id
    BY <1>2, ScanReturns
  <2> HIDE DEF r
  <2> SUFFICES ASSUME NEW k \in Kept', (tokens[k].id # "INVALID")'
               PROVE  IsLexeme(tokens[k].id, tokens[k].pos, End(k))'
    BY DEF TokensAreLexemes
  <2>3. k \in 1 .. Len(tokens) \/ k = Len(tokens) + 1
    BY <2>2 DEF Kept
  <2>4. CASE k \in 1 .. Len(tokens)
    <3>1. IsLexeme(tokens[k].id, tokens[k].pos, End(k))
      BY <2>2, <2>4 DEF TokensAreLexemes, Kept
    <3> QED
      BY <2>1, <2>2, <2>4, <3>1, LexemeKept DEF End
  <2>5. CASE k = Len(tokens) + 1
    <3>1. IsLexeme(r.id, it, r.it)
      BY <2>1, <2>2, <2>5 DEF TokenSound
    <3>2. it + (r.it - it) = r.it
      BY <2>1
    <3> QED
      BY <2>1, <2>2, <2>5, <3>1, <3>2, LexemeKept
  <2> QED
    BY <2>3, <2>4, <2>5
<1>3. CASE TooLarge
  <2>1. /\ buf' = buf /\ begin' = begin /\ it' = it /\ "INVALID" \in Ids
        /\ Return("W_ERROR_MAX_SIZE_EXCEEDED", "INVALID")
        /\ begin \in Nat /\ it \in Nat /\ it >= begin
        /\ status = "W_SUCCESS"
    BY <1>3 DEF TooLarge, TypeInv, TypeOK, BufOK, Ids
  <2>2. /\ Len(tokens') = Len(tokens) + 1
        /\ \A k \in 1 .. Len(tokens) : tokens'[k] = tokens[k]
    BY <2>1, ReturnType
  <2>3. status' # "W_SUCCESS" /\ Len(tokens) \in Nat
    BY <2>1 DEF Return, TypeInv, TypeOK
  <2> SUFFICES ASSUME NEW k \in Kept', (tokens[k].id # "INVALID")'
               PROVE  IsLexeme(tokens[k].id, tokens[k].pos, End(k))'
    BY DEF TokensAreLexemes
  <2>4. k \in 1 .. Len(tokens)
    BY <2>2, <2>3 DEF Kept
  <2>5. IsLexeme(tokens[k].id, tokens[k].pos, End(k))
    BY <2>1, <2>2, <2>4 DEF TokensAreLexemes, Kept
  <2> QED
    BY <2>1, <2>2, <2>4, <2>5, LexemeKept DEF End
<1>4. CASE Call \/ SkipSpace \/ SkipNewline \/ ScanAborts \/ UNCHANGED vars
  BY <1>1, <1>4 DEF Call, SkipSpace, SkipNewline, ScanAborts, Consume, vars
<1> QED
  BY <1>2, <1>3, <1>4 DEF Next

\* In a debug build, whatever the source, all the tokens returned are lexemes
\* of their id.  (A release build takes "0Z" for a decimal integer.)
THEOREM TokensAreLexemesAlways ==
    ASSUME Asserts, ShortSources
    PROVE  Spec => []TokensAreLexemes
<1>1. Init => TokensAreLexemes
  <2> SUFFICES ASSUME Init PROVE Kept = {}
    BY DEF TokensAreLexemes
  <2>1. tokens = <<>> /\ Len(tokens) = 0
    BY DEF Init
  <2>2. Kept = 1 .. 0
    BY <2>1 DEF Init, Kept
  <2>3. \A k : k \notin 1 .. 0
    OBVIOUS
  <2> QED
    BY <2>2, <2>3
<1>2. TypeInv /\ ShortBuf /\ TokensAreLexemes /\ [Next]_vars => TokensAreLexemes'
  BY NextLexemes
<1> QED
  BY <1>1, <1>2, TypeInvAlways, ShortBufAlways, PTL DEF Spec

-----------------------------------------------------------------------------
(* Tokens and blanks tile the source                                       *)

\* Is a character part of a token that was returned?
Covered(c) == \E k \in 1 .. Len(tokens) : c \in tokens[k].pos .. End(k) - 1

\* TokensTileSource at every step that leads to a successful return, and that
\* no token reaches beyond what was read.
TileInv ==
    pc # "aborted" /\ status = "W_SUCCESS" =>
        /\ \A k \in 1 .. Len(tokens) : End(k) <= it
        /\ \A k \in 1 .. Len(tokens) - 1 : End(k) <= tokens[k + 1].pos
        /\ \A c \in 0 .. it - 1 : (At(c) \in Blanks) <=> ~Covered(c)

\* The tokens that there are do not change when one is added.
LEMMA EarlierTokens ==
    ASSUME NEW n \in Nat, Len(tokens) = n, Len(tokens') = n + 1,
           \A k \in 1 .. n : tokens'[k] = tokens[k],
           \A k \in 1 .. n : tokens[k].pos \in Nat /\ End(k) \in Nat,
           tokens'[n + 1].pos \in Nat, tokens'[n + 1].len \in Nat,
           NEW c \in Nat
    PROVE  Covered(c)' <=> \/ Covered(c)
                           \/ /\ tokens'[n + 1].pos <= c
                              /\ c < tokens'[n + 1].pos + tokens'[n + 1].len
<1>1. \A k \in 1 .. n : End(k)' = End(k) /\ tokens'[k].pos = tokens[k].pos
  BY DEF End
<1>2. 1 .. Len(tokens') = (1 .. n) \union {n + 1}
  OBVIOUS
<1>3. End(n + 1)' = tokens'[n + 1].pos + tokens'[n + 1].len
  BY DEF End
<1>4. Covered(c)' <=>
        \E k \in (1 .. n) \union {n + 1} : c \in tokens'[k].pos .. End(k)' - 1
  BY <1>2 DEF Covered
<1>5. Covered(c)' <=> \/ \E k \in 1 .. n : c \in tokens'[k].pos .. End(k)' - 1
                      \/ c \in tokens'[n + 1].pos .. End(n + 1)' - 1
  BY <1>4
<1>6. (\E k \in 1 .. n : c \in tokens'[k].pos .. End(k)' - 1) <=> Covered(c)
  BY <1>1 DEF Covered
<1>7. c \in tokens'[n + 1].pos .. End(n + 1)' - 1 <=>
        /\ tokens'[n + 1].pos <= c
        /\ c < tokens'[n + 1].pos + tokens'[n + 1].len
  BY <1>3
<1> QED
  BY <1>5, <1>6, <1>7

\* Where tokens lie.
LEMMA Offsets ==
    ASSUME TypeInv
    PROVE  /\ it \in Nat /\ Len(tokens) \in Nat
           /\ \A k \in 1 .. Len(tokens) :
                /\ tokens[k].pos \in Nat /\ tokens[k].len \in Nat
                /\ End(k) \in Nat
<1>1. it \in Nat /\ tokens \in Seq([pos : Nat, len : Nat, id : Ids])
  BY DEF TypeInv, TypeOK, BufOK
<1> DEFINE T == [pos : Nat, len : Nat, id : Ids]
<1>2. \A k \in 1 .. Len(tokens) : tokens[k] \in T
  <2>1. tokens \in Seq(T)
    BY <1>1
  <2> HIDE DEF T
  <2> QED
    BY <2>1
<1>3. \A k \in 1 .. Len(tokens) : tokens[k].pos \in Nat /\ tokens[k].len \in Nat
  BY <1>2
<1> QED
  BY <1>1, <1>3 DEF End

\* A blank that is skipped belongs to no token.
LEMMA BlankTiles ==
    ASSUME TypeInv, TileInv, SkipSpace \/ SkipNewline
    PROVE  TileInv'
<1>1. /\ pc = "advance" /\ status = "W_SUCCESS" /\ At(it) \in Blanks
      /\ it' = it + 1 /\ UNCHANGED <<buf, pc, status, tokens>>
  BY DEF SkipSpace, SkipNewline, Reading, Blanks, TypeInv
<1>2. /\ it \in Nat /\ Len(tokens) \in Nat
      /\ \A k \in 1 .. Len(tokens) : tokens[k].pos \in Nat /\ End(k) \in Nat
  BY Offsets
<1>3. /\ \A k \in 1 .. Len(tokens) : End(k) <= it
      /\ \A k \in 1 .. Len(tokens) - 1 : End(k) <= tokens[k + 1].pos
      /\ \A c \in 0 .. it - 1 : (At(c) \in Blanks) <=> ~Covered(c)
  BY <1>1 DEF TileInv
<1>4. ~Covered(it)
  BY <1>2, <1>3 DEF Covered
<1>5. \A c : Covered(c)' = Covered(c)
  BY <1>1 DEF Covered, End
<1>6. \A c \in 0 .. it : (At(c) \in Blanks) <=> ~Covered(c)
  BY <1>1, <1>2, <1>3, <1>4
<1>7. \A c : At(c)' = At(c)
  BY <1>1 DEF At
<1>8. \A c \in 0 .. it' - 1 : (At(c)' \in Blanks) <=> ~Covered(c)'
  BY <1>1, <1>2, <1>5, <1>6, <1>7
<1>9. \A k \in 1 .. Len(tokens') : End(k)' <= it'
  BY <1>1, <1>2, <1>3 DEF End
<1>10. \A k \in 1 .. Len(tokens') - 1 : End(k)' <= tokens'[k + 1].pos
  BY <1>1, <1>2, <1>3 DEF End
<1> QED
  BY <1>8, <1>9, <1>10 DEF TileInv

\* A token that is returned begins after the others and has no blank.
LEMMA TokenTiles ==
    ASSUME TypeInv, ShortBuf, TileInv, ScanFound \/ ScanFails
    PROVE  TileInv'
<1> DEFINE r == ScanToken(it)
<1>0. PICK n \in Nat : n = Len(tokens)
  BY Offsets
<1>1. /\ pc = "advance" /\ it \in Nat /\ TokenSound(r, it) /\ buf' = buf /\ it' = r.it
  BY ScanStep DEF Scan, Reading
<1>2. /\ status = "W_SUCCESS"
      /\ n \in Nat /\ Len(tokens') = n + 1
      /\ \A k \in 1 .. n : tokens'[k] = tokens[k]
      /\ tokens'[n + 1].pos = it
      /\ tokens'[n + 1].len = r.it - it
      /\ r.it - it \in Nat
  BY <1>0, ScanReturns
<1>3. r.it \in Nat /\ it <= r.it /\ NoBlank(it, r.it)
  <2>1. Len(buf) \in Nat
    BY DEF TypeInv, BufOK
  <2> QED
    BY <1>1, <2>1 DEF TokenSound
<1> HIDE DEF r
<1>4. \A k \in 1 .. n : tokens[k].pos \in Nat /\ End(k) \in Nat
  BY <1>0, Offsets
<1>5. /\ \A k \in 1 .. n : End(k) <= it
      /\ \A k \in 1 .. n - 1 : End(k) <= tokens[k + 1].pos
      /\ \A c \in 0 .. it - 1 : (At(c) \in Blanks) <=> ~Covered(c)
  BY <1>0, <1>1, <1>2 DEF TileInv
<1>6. \A k \in 1 .. n : End(k)' = End(k) /\ tokens'[k].pos = tokens[k].pos
  BY <1>2 DEF End
<1>7. it + (r.it - it) = r.it
  BY <1>1, <1>3
<1>8. End(n + 1)' = r.it
  BY <1>2, <1>7 DEF End
<1>9. \A k \in 1 .. Len(tokens') : End(k)' <= it'
  <2> SUFFICES ASSUME NEW k \in 1 .. n + 1
               PROVE  End(k)' <= it'
    BY <1>2
  <2>1. CASE k = n + 1
    BY <1>1, <1>3, <1>8, <2>1
  <2>2. CASE k # n + 1
    <3>1. k \in 1 .. n
      BY <1>2, <2>2
    <3>2. End(k)' = End(k) /\ End(k) <= it /\ End(k) \in Nat
      BY <1>4, <1>5, <1>6, <3>1
    <3> QED
      BY <1>1, <1>3, <3>2
  <2> QED
    BY <2>1, <2>2
<1>10. \A k \in 1 .. Len(tokens') - 1 : End(k)' <= tokens'[k + 1].pos
  <2> SUFFICES ASSUME NEW k \in 1 .. n
               PROVE  End(k)' <= tokens'[k + 1].pos
    BY <1>2
  <2>1. CASE k = n
    BY <1>2, <1>5, <1>6, <2>1
  <2>2. CASE k # n
    BY <1>2, <1>5, <1>6, <2>2
  <2> QED
    BY <2>1, <2>2
<1>11. ASSUME NEW c \in 0 .. it' - 1
       PROVE  (At(c)' \in Blanks) <=> ~Covered(c)'
  <2>1. c \in Nat /\ c < r.it /\ At(c)' = At(c)
    BY <1>1, <1>3 DEF At
  <2>2. Covered(c)' <=> \/ Covered(c)
                        \/ /\ tokens'[n + 1].pos <= c
                           /\ c < tokens'[n + 1].pos + tokens'[n + 1].len
    <3>1. tokens'[n + 1].pos \in Nat /\ tokens'[n + 1].len \in Nat
      BY <1>1, <1>2
    <3> QED
      BY <1>0, <1>2, <1>4, <2>1, <3>1, EarlierTokens
  <2>3. Covered(c)' <=> Covered(c) \/ (it <= c /\ c < r.it)
    <3>1. tokens'[n + 1].pos = it /\ tokens'[n + 1].pos + tokens'[n + 1].len = r.it
      BY <1>2, <1>7
    <3> QED
      BY <2>2, <3>1
  <2>4. CASE c < it
    BY <1>1, <1>5, <2>1, <2>3, <2>4
  <2>5. CASE c >= it
    BY <1>1, <1>3, <2>1, <2>3, <2>5 DEF NoBlank
  <2> QED
    BY <1>1, <2>1, <2>4, <2>5
<1> QED
  BY <1>9, <1>10, <1>11 DEF TileInv

\* TileInv is inductive.
LEMMA NextTiles ==
    ASSUME TypeInv, ShortBuf, TileInv, [Next]_vars
    PROVE  TileInv'
<1>1. CASE SkipSpace \/ SkipNewline
  BY <1>1, BlankTiles
<1>2. CASE ScanFound \/ ScanFails
  BY <1>2, TokenTiles
<1>3. CASE ScanAborts
  BY <1>3 DEF ScanAborts, TileInv
<1>4. CASE TooLarge
  BY <1>4 DEF TooLarge, Return, TileInv
<1>5. CASE Call \/ UNCHANGED vars
  <2>1. /\ UNCHANGED <<buf, it, status, tokens>>
        /\ pc' = "aborted" => pc = "aborted"
        /\ pc = "aborted" => pc' = "aborted"
    BY <1>5 DEF Call, vars
  <2> QED
    BY <2>1 DEF TileInv, Covered, End, At
<1> QED
  BY <1>1, <1>2, <1>3, <1>4, <1>5 DEF Next

\* Whatever the source, no character of it is lost or read twice: each belongs
\* to one token, or is a blank between them (token.c:713-730, 872-879).
THEOREM TokensTileSourceAlways ==
    ASSUME ShortSources
    PROVE  Spec => []TokensTileSource
<1>1. Init => TileInv
  <2> SUFFICES ASSUME Init PROVE TileInv
    OBVIOUS
  <2>1. it = 0 /\ Len(tokens) = 0
    BY DEF Init
  <2> QED
    BY <2>1 DEF TileInv
<1>2. TypeInv /\ ShortBuf /\ TileInv /\ [Next]_vars => TileInv'
  BY NextTiles
<1>3. TypeInv /\ TileInv => TokensTileSource
  <2> SUFFICES ASSUME TypeInv, TileInv, pc = "client", status = "W_SUCCESS"
               PROVE  /\ \A k \in Kept : (k + 1) \in Kept => End(k) <= tokens[k + 1].pos
                      /\ \A c \in 0 .. it - 1 :
                           (At(c) \in Blanks) <=>
                           ~ \E k \in Kept : c \in tokens[k].pos .. End(k) - 1
    BY DEF TokensTileSource
  <2>1. Kept = 1 .. Len(tokens) /\ Len(tokens) \in Nat
    BY Offsets DEF Kept
  <2>2. /\ \A k \in 1 .. Len(tokens) - 1 : End(k) <= tokens[k + 1].pos
        /\ \A c \in 0 .. it - 1 : (At(c) \in Blanks) <=> ~Covered(c)
    BY DEF TileInv
  <2>3. \A k \in Kept : (k + 1) \in Kept => End(k) <= tokens[k + 1].pos
    BY <2>1, <2>2
  <2> QED
    BY <2>1, <2>2, <2>3 DEF Covered
<1> QED
  BY <1>1, <1>2, <1>3, TypeInvAlways, ShortBufAlways, PTL DEF Spec

-----------------------------------------------------------------------------
(* Lines, columns and errors                                               *)

Newlines(n) == {k \in 0 .. n - 1 : At(k) = "\n"}

\* LineAndColumn, with the offset at which the line starts.
LinesUpTo(n) == line = 1 + Cardinality(Newlines(n))

StartsAt(start, n) ==
    /\ start \in {0} \union {k + 1 : k \in Newlines(n)}
    /\ column = n - start + 1
    /\ \A k \in Newlines(n) : k < start

\* Characters that are no newlines change nothing.
LEMMA NewlinesKept ==
    ASSUME NEW i \in Nat, NEW j \in Nat, i <= j,
           \A k \in i .. j - 1 : At(k) # "\n"
    PROVE  Newlines(j) = Newlines(i)
BY DEF Newlines

\* The newlines read are finitely many.
LEMMA NewlinesFinite ==
    ASSUME NEW n \in Nat
    PROVE  /\ IsFiniteSet(Newlines(n)) /\ Cardinality(Newlines(n)) \in Nat
           /\ n \notin Newlines(n)
<1>1. IsFiniteSet(0 .. n - 1)
  BY FS_Interval
<1>2. Newlines(n) \subseteq 0 .. n - 1
  BY DEF Newlines
<1>3. IsFiniteSet(Newlines(n))
  BY <1>1, <1>2, FS_Subset
<1> QED
  BY <1>3, FS_CardinalityType DEF Newlines

\* A newline is one more.
LEMMA NewlineCounts ==
    ASSUME NEW i \in Nat, At(i) = "\n"
    PROVE  /\ Newlines(i + 1) = Newlines(i) \union {i}
           /\ Cardinality(Newlines(i + 1)) = Cardinality(Newlines(i)) + 1
<1>1. Newlines(i + 1) = Newlines(i) \union {i}
  BY DEF Newlines
<1> QED
  BY <1>1, NewlinesFinite, FS_AddElement

\* What LineAndColumn says.
LEMMA LineAndColumnMeans ==
    LineAndColumn <=> LinesUpTo(it) /\ \E start : StartsAt(start, it)
BY DEF LineAndColumn, LinesUpTo, StartsAt, Newlines

\* The same of the next state.
LEMMA LineAndColumnNext ==
    ASSUME buf' = buf
    PROVE  LineAndColumn' <=>
             /\ line' = 1 + Cardinality(Newlines(it'))
             /\ \E start : /\ start \in {0} \union {k + 1 : k \in Newlines(it')}
                           /\ column' = it' - start + 1
                           /\ \A k \in Newlines(it') : k < start
BY DEF LineAndColumn, Newlines, At

\* Characters that are no newlines move the column with the offset.
LEMMA ColumnMoves ==
    ASSUME TypeInv, LineAndColumn, buf' = buf, line' = line,
           NEW j \in Nat, it <= j, it' = j, column' = column + (j - it),
           \A k \in it .. j - 1 : At(k) # "\n"
    PROVE  LineAndColumn'
<1>1. it \in Nat
  BY Offsets
<1>2. Newlines(j) = Newlines(it)
  BY <1>1, NewlinesKept
<1>3. PICK start : StartsAt(start, it)
  BY LineAndColumnMeans
<1>4. start \in Int
  BY <1>3 DEF StartsAt, Newlines
<1>5. line' = 1 + Cardinality(Newlines(it'))
  BY <1>2, LineAndColumnMeans DEF LinesUpTo
<1>6. column' = it' - start + 1
  BY <1>1, <1>3, <1>4 DEF StartsAt
<1>7. /\ start \in {0} \union {k + 1 : k \in Newlines(it')}
      /\ \A k \in Newlines(it') : k < start
  BY <1>2, <1>3 DEF StartsAt
<1> QED
  BY <1>5, <1>6, <1>7, LineAndColumnNext

\* LineAndColumn is inductive.
LEMMA NextLines ==
    ASSUME TypeInv, LineAndColumn, [Next]_vars
    PROVE  LineAndColumn'
<1>0. it \in Nat
  BY Offsets
<1>1. CASE SkipSpace
  <2>1. /\ buf' = buf /\ line' = line /\ it' = it + 1 /\ column' = column + 1
        /\ At(it) # "\n"
    BY <1>1 DEF SkipSpace
  <2>2. column' = column + ((it + 1) - it)
    BY <1>0, <2>1
  <2>3. \A k \in it .. (it + 1) - 1 : At(k) # "\n"
    BY <1>0, <2>1
  <2> QED
    BY <1>0, <2>1, <2>2, <2>3, ColumnMoves
<1>2. CASE SkipNewline
  <2>1. /\ buf' = buf /\ line' = line + 1 /\ it' = it + 1 /\ column' = 1
        /\ At(it) = "\n"
    BY <1>2 DEF SkipNewline
  <2>2. /\ Newlines(it') = Newlines(it) \union {it}
        /\ Cardinality(Newlines(it')) = Cardinality(Newlines(it)) + 1
    BY <1>0, <2>1, NewlineCounts
  <2>3. line' = 1 + Cardinality(Newlines(it'))
    BY <1>0, <2>1, <2>2, LineAndColumnMeans, NewlinesFinite DEF LinesUpTo
  <2>4. column' = it' - (it + 1) + 1
    BY <1>0, <2>1
  <2>5. it + 1 \in {0} \union {k + 1 : k \in Newlines(it')}
    BY <2>2
  <2>6. \A k \in Newlines(it') : k < it + 1
    BY <1>0, <2>2 DEF Newlines
  <2> QED
    BY <2>1, <2>3, <2>4, <2>5, <2>6, LineAndColumnNext
<1>3. CASE Scan
  <2> DEFINE r == ScanToken(it)
  <2>1. /\ buf' = buf /\ line' = line /\ it' = r.it /\ TokenSound(r, it)
        /\ column' = column + (r.it - it)
    BY <1>3, ScanStep
  <2>2. Len(buf) \in Nat
    BY DEF TypeInv, BufOK
  <2>3. r.it \in Nat /\ it <= r.it /\ NoBlank(it, r.it)
    BY <1>0, <2>1, <2>2 DEF TokenSound
  <2> HIDE DEF r
  <2>4. \A k \in it .. r.it - 1 : At(k) # "\n"
    BY <2>3 DEF NoBlank, Blanks
  <2> QED
    BY <2>1, <2>3, <2>4, ColumnMoves
<1>4. CASE Call \/ TooLarge \/ UNCHANGED vars
  BY <1>4 DEF Call, TooLarge, vars, LineAndColumn, At
<1> QED
  BY <1>1, <1>2, <1>3, <1>4 DEF Next, Scan

\* Whatever the source, line and column are those of the next character
\* (token.c:112-118, 722-727).
THEOREM LineAndColumnAlways == Spec => []LineAndColumn
<1>1. Init => LineAndColumn
  <2> SUFFICES ASSUME Init PROVE LineAndColumn
    OBVIOUS
  <2>1. it = 0 /\ line = 1 /\ column = 1
    BY DEF Init
  <2>2. Newlines(0) = {}
    BY DEF Newlines
  <2>3. Cardinality(Newlines(it)) = 0
    BY <2>1, <2>2, FS_EmptySet
  <2>4. StartsAt(0, it)
    BY <2>1, <2>2 DEF StartsAt
  <2> QED
    BY <2>1, <2>3, <2>4, LineAndColumnMeans DEF LinesUpTo
<1>2. TypeInv /\ LineAndColumn /\ [Next]_vars => LineAndColumn'
  BY NextLines
<1> QED
  BY <1>1, <1>2, TypeInvAlways, PTL DEF Spec

\* The first n tokens that are invalid.
InvalidUpTo(n) == {k \in 1 .. n : tokens[k].id = "INVALID"}

\* They are finitely many, and one more token adds itself or nothing.
LEMMA InvalidCounts ==
    ASSUME NEW n \in Nat, Len(tokens') = n + 1,
           \A k \in 1 .. n : tokens'[k] = tokens[k]
    PROVE  /\ InvalidUpTo(n)' = InvalidUpTo(n)
           /\ Cardinality(InvalidUpTo(n)) \in Nat
           /\ InvalidUpTo(n + 1)' =
                InvalidUpTo(n) \union
                  (IF tokens'[n + 1].id = "INVALID" THEN {n + 1} ELSE {})
           /\ Cardinality(InvalidUpTo(n) \union {n + 1}) =
                Cardinality(InvalidUpTo(n)) + 1
<1>1. IsFiniteSet(1 .. n)
  BY FS_Interval
<1>2. InvalidUpTo(n) \subseteq 1 .. n
  BY DEF InvalidUpTo
<1>3. IsFiniteSet(InvalidUpTo(n)) /\ n + 1 \notin InvalidUpTo(n)
  BY <1>1, <1>2, FS_Subset
<1>4. InvalidUpTo(n)' = InvalidUpTo(n)
  BY DEF InvalidUpTo
<1>5. 1 .. n + 1 = (1 .. n) \union {n + 1}
  OBVIOUS
<1>6. InvalidUpTo(n + 1)' =
        {k \in (1 .. n) \union {n + 1} : tokens'[k].id = "INVALID"}
  BY <1>5 DEF InvalidUpTo
<1>7. InvalidUpTo(n + 1)' =
        InvalidUpTo(n)' \union {k \in {n + 1} : tokens'[k].id = "INVALID"}
  BY <1>6 DEF InvalidUpTo
<1>8. Cardinality(InvalidUpTo(n)) \in Nat
  BY <1>3, FS_CardinalityType
<1>9. Cardinality(InvalidUpTo(n) \union {n + 1}) =
        Cardinality(InvalidUpTo(n)) + 1
  BY <1>3, FS_AddElement
<1> QED
  BY <1>4, <1>7, <1>8, <1>9

\* ErrorsMatchTokens is inductive.
LEMMA NextErrors ==
    ASSUME TypeInv, ErrorsMatchTokens, [Next]_vars
    PROVE  ErrorsMatchTokens'
<1>0. Len(errors) \in Nat /\ it \in Nat /\ errors \in Seq(Kinds \X Subjects)
  BY Offsets DEF TypeInv, TypeOK
<1>n. PICK n \in Nat : n = Len(tokens)
  BY Offsets
<1>1. CASE UNCHANGED <<errors, status, tokens>>
  BY <1>1 DEF ErrorsMatchTokens, Kept
<1>2. ASSUME status = "W_SUCCESS"
      PROVE  Len(errors) = Cardinality(InvalidUpTo(n))
  <2>1. Kept = 1 .. n
    BY <1>2, <1>n DEF Kept
  <2> QED
    BY <2>1 DEF ErrorsMatchTokens, InvalidUpTo
<1>3. CASE ScanFound \/ ScanFails
  <2> DEFINE r == ScanToken(it)
  <2>1. /\ pc = "advance" /\ TokenSound(r, it) /\ begin' = it /\ it' = r.it
    BY <1>3, ScanStep DEF Scan, Reading
  <2>2. Len(buf) \in Nat /\ status = "W_SUCCESS"
    BY <2>1 DEF TypeInv, BufOK
  <2>3. r.it \in Nat /\ it <= r.it /\ r.id \in Ids
    BY <1>0, <2>1, <2>2 DEF TokenSound
  <2>4. PICK result \in Statuses :
          /\ Return(result, r.id)
          /\ result = "W_SUCCESS" =>
               IF r.id = "INVALID"
                 THEN r.error \in Kinds \X Subjects /\ errors' = Append(errors, r.error)
                 ELSE errors' = errors
          /\ result # "W_SUCCESS" => errors' = errors
    <3>1. CASE ScanFound
      BY <2>1, <3>1 DEF ScanFound, TokenSound, Statuses
    <3>2. CASE ScanFails
      <4>1. r.id = "INVALID" /\ r.error \in Kinds \X Subjects
        BY <2>1, <3>2 DEF ScanFails, TokenSound
      <4> QED
        BY <3>2, <4>1 DEF ScanFails, Statuses
    <3> QED
      BY <1>3, <3>1, <3>2
  <2> HIDE DEF r
  <2>5. /\ Len(tokens') = n + 1
        /\ \A k \in 1 .. n : tokens'[k] = tokens[k]
        /\ tokens'[n + 1].id = r.id
    <3>1. /\ Len(tokens') = Len(tokens) + 1
          /\ \A k \in 1 .. Len(tokens) : tokens'[k] = tokens[k]
          /\ tokens'[Len(tokens')].id = r.id
      <4>1. /\ r.id \in Ids /\ Return(result, r.id)
            /\ begin' \in Nat /\ it' \in Nat /\ it' >= begin'
        BY <1>0, <2>1, <2>3, <2>4
      <4>2. /\ Len(tokens') = Len(tokens) + 1
            /\ \A k \in 1 .. Len(tokens) : tokens'[k] = tokens[k]
            /\ tokens'[Len(tokens')] = [pos |-> begin' % PosLimit,
                                        len |-> (it' - begin') % LenLimit,
                                        id |-> r.id]
        BY <4>1, ReturnType
      <4> QED
        BY <4>2
    <3> QED
      BY <1>n, <3>1
  <2>6. Len(errors) = Cardinality(InvalidUpTo(n))
    BY <1>2, <2>2
  <2>7. CASE result = "W_SUCCESS"
    <3>1. Kept' = 1 .. n + 1
      BY <2>4, <2>5, <2>7 DEF Return, Kept
    <3>2. ErrorsMatchTokens' <=> Len(errors') = Cardinality(InvalidUpTo(n + 1)')
      BY <3>1 DEF ErrorsMatchTokens, InvalidUpTo
    <3>3. CASE r.id = "INVALID"
      <4>1. Len(errors') = Len(errors) + 1
        BY <1>0, <2>4, <2>7, <3>3
      <4> QED
        BY <2>5, <2>6, <3>2, <3>3, <4>1, InvalidCounts
    <3>4. CASE r.id # "INVALID"
      <4>1. InvalidUpTo(n + 1)' = InvalidUpTo(n)
        BY <2>5, <3>4, InvalidCounts
      <4> QED
        BY <2>4, <2>6, <2>7, <3>2, <3>4, <4>1
    <3> QED
      BY <3>3, <3>4
  <2>8. CASE result # "W_SUCCESS"
    <3>1. Kept' = 1 .. n
      BY <2>4, <2>5, <2>8 DEF Return, Kept
    <3>2. ErrorsMatchTokens' <=> Len(errors') = Cardinality(InvalidUpTo(n)')
      BY <3>1 DEF ErrorsMatchTokens, InvalidUpTo
    <3> QED
      BY <2>4, <2>5, <2>6, <2>8, <3>2, InvalidCounts
  <2> QED
    BY <2>7, <2>8
<1>4. CASE TooLarge
  <2>1. /\ errors' = errors /\ begin' = begin /\ it' = it /\ "INVALID" \in Ids
        /\ Return("W_ERROR_MAX_SIZE_EXCEEDED", "INVALID")
        /\ begin \in Nat /\ it >= begin
        /\ status = "W_SUCCESS" /\ status' # "W_SUCCESS"
    BY <1>4 DEF TooLarge, TypeInv, TypeOK, BufOK, Ids, Return
  <2>2. Len(tokens') = n + 1 /\ \A k \in 1 .. n : tokens'[k] = tokens[k]
    BY <1>0, <1>n, <2>1, ReturnType
  <2>3. Kept' = 1 .. n
    BY <2>1, <2>2 DEF Kept
  <2>4. ErrorsMatchTokens' <=> Len(errors') = Cardinality(InvalidUpTo(n)')
    BY <2>3 DEF ErrorsMatchTokens, InvalidUpTo
  <2> QED
    BY <1>2, <2>1, <2>2, <2>4, InvalidCounts
<1>5. CASE Call \/ SkipSpace \/ SkipNewline \/ ScanAborts \/ UNCHANGED vars
  BY <1>1, <1>5 DEF Call, SkipSpace, SkipNewline, ScanAborts, vars
<1> QED
  BY <1>3, <1>4, <1>5 DEF Next

\* There are as many errors as invalid tokens: a client that counts the latter
\* keeps within the places that tokenizer.errors has (token.c:121-153).
THEOREM ErrorsMatchTokensAlways == Spec => []ErrorsMatchTokens
<1>1. Init => ErrorsMatchTokens
  <2> SUFFICES ASSUME Init PROVE ErrorsMatchTokens
    OBVIOUS
  <2>1. Len(errors) = 0 /\ Len(tokens) = 0 /\ status = "W_SUCCESS"
    BY DEF Init
  <2>2. {k \in Kept : tokens[k].id = "INVALID"} = {}
    BY <2>1 DEF Kept
  <2> QED
    BY <2>1, <2>2, FS_EmptySet DEF ErrorsMatchTokens
<1>2. TypeInv /\ ErrorsMatchTokens /\ [Next]_vars => ErrorsMatchTokens'
  BY NextErrors
<1> QED
  BY <1>1, <1>2, TypeInvAlways, PTL DEF Spec

-----------------------------------------------------------------------------
(* The messages                                                            *)

\* MessagesFit is inductive: a call that does not fail itself leaves the
\* tokenizer at the character that its message is about.
LEMMA NextFits ==
    ASSUME TypeInv, MessagesFit, [Next]_vars
    PROVE  MessagesFit'
<1>1. CASE UNCHANGED <<buf, it, errors, pc, status, tokens>>
  BY <1>1 DEF MessagesFit, Invalid, At
<1>2. CASE Call \/ SkipSpace \/ SkipNewline \/ ScanAborts
  <2>1. pc' # "client"
    BY <1>2 DEF Call, SkipSpace, SkipNewline, ScanAborts, Reading
  <2> QED
    BY <2>1 DEF MessagesFit, Invalid
<1>3. CASE TooLarge
  <2>1. status' # "W_SUCCESS"
    BY <1>3 DEF TooLarge, Return
  <2> QED
    BY <2>1 DEF MessagesFit, Invalid
<1>4. CASE ScanFound \/ ScanFails
  <2> DEFINE r == ScanToken(it)
  <2>1. /\ TokenSound(r, it) /\ buf' = buf /\ begin' = it /\ it' = r.it
        /\ it \in Nat /\ Len(buf) \in Nat
    BY <1>4, ScanStep, BufLength DEF Scan, TypeInv
  <2>2. /\ r.it \in Nat /\ it <= r.it /\ r.id \in Ids /\ Fits(r)
        /\ r.id = "INVALID" <=> (r.error # NoError \/ r.aborts)
    BY <2>1 DEF TokenSound
  <2>3. CASE ScanFound
    <3>1. r.id # "INVALID" /\ Return("W_SUCCESS", r.id)
      BY <2>2, <2>3 DEF ScanFound
    <3> HIDE DEF r
    <3>2. tokens'[Len(tokens')].id = r.id
      <4>1. /\ Return("W_SUCCESS", r.id) /\ r.id \in Ids
            /\ begin' \in Nat /\ it' \in Nat /\ it' >= begin'
        BY <2>1, <2>2, <3>1
      <4>2. tokens'[Len(tokens')] = [pos |-> begin' % PosLimit,
                                     len |-> (it' - begin') % LenLimit,
                                     id |-> r.id]
        BY <4>1, ReturnType
      <4> QED
        BY <4>2
    <3> QED
      BY <3>1, <3>2 DEF MessagesFit, Invalid
  <2>4. CASE ScanFails
    <3>1. r.error # NoError
          /\ (status' = "W_SUCCESS" => errors' = Append(errors, r.error))
      BY <2>4 DEF ScanFails, Return
    <3> HIDE DEF r
    <3>2. CASE status' = "W_SUCCESS"
      <4>1. errors'[Len(errors')] = r.error
        <5>1. errors \in Seq(Kinds \X Subjects)
          BY DEF TypeInv, TypeOK
        <5>2. r.error \in Kinds \X Subjects
          BY <2>1, <3>1 DEF TokenSound
        <5> QED
          BY <3>1, <3>2, <5>1, <5>2
      <4>2. At(it)' = At(r.it)
        BY <2>1 DEF At
      <4> QED
        BY <2>2, <3>1, <4>1, <4>2 DEF MessagesFit, Fits, KindFits
    <3>3. CASE status' # "W_SUCCESS"
      BY <3>3 DEF MessagesFit, Invalid
    <3> QED
      BY <3>2, <3>3
  <2> QED
    BY <1>4, <2>3, <2>4
<1> QED
  BY <1>1, <1>2, <1>3, <1>4 DEF Next, vars

\* For every source, a message that says "unterminated" is about a place where
\* a literal may end, and one that says "not a valid" about one where it may
\* not (token.c:156-658).
THEOREM MessagesFitAlways == Spec => []MessagesFit
<1>1. Init => MessagesFit
  BY DEF Init, MessagesFit, Invalid
<1>2. TypeInv /\ MessagesFit /\ [Next]_vars => MessagesFit'
  BY NextFits
<1> QED
  BY <1>1, <1>2, TypeInvAlways, PTL DEF Spec


-----------------------------------------------------------------------------
(* Lexemes are found                                                       *)

\* Where a run of S ends is not a matter of how it is looked for.
LEMMA AfterIs ==
    ASSUME BufOK, NEW i \in 0 .. Len(buf) - 1, NEW j \in i .. Len(buf) - 1,
           NEW S, NUL \notin S, All(i, j, S), At(j) \notin S
    PROVE  After(i, S) = j
<1> DEFINE a == After(i, S)
<1>1. Len(buf) \in Nat
  BY BufLength
<1>2. a \in i .. Len(buf) - 1 /\ At(a) \notin S /\ All(i, a, S)
  BY AfterRun
<1> HIDE DEF a
<1>3. ~(a < j)
  BY <1>1, <1>2 DEF All
<1>4. ~(j < a)
  BY <1>1, <1>2 DEF All
<1> QED
  BY <1>1, <1>2, <1>3, <1>4 DEF a

\* A stretch that has characters, none of them null, ends inside of the source.
LEMMA SomeInside ==
    ASSUME BufOK, NEW i \in Nat, NEW j \in 0 .. Len(buf), NEW S, NUL \notin S,
           Some(i, j, S)
    PROVE  j \in 1 .. Len(buf) - 1
<1>1. Len(buf) \in Nat
  BY BufLength
<1>2. i < j /\ j - 1 \in i .. j - 1
  BY <1>1 DEF Some
<1>3. At(j - 1) \in S
  BY <1>2 DEF Some, All
<1>4. j # Len(buf)
  BY <1>3 DEF BufOK
<1> QED
  BY <1>1, <1>2, <1>4

\* No character of a literal may follow one.
LEMMA FollowUpIsApart ==
    /\ Hexadecimal \intersect FollowUp = {}
    /\ "." \notin FollowUp /\ "e" \notin FollowUp /\ "p" \notin FollowUp
    /\ Binary \subseteq Hexadecimal /\ Octal \subseteq Hexadecimal
    /\ Decimal \subseteq Hexadecimal /\ NUL \notin Hexadecimal
    /\ {".", "e", "p", "b", "d", "o", "x"} \intersect Hexadecimal = {}
BY DEF Binary, Octal, Decimal, Hexadecimal, Blanks, Signs, NUL, FollowUp, Operators

\* Digits up to a character that may follow.
LEMMA ScanDigitsFinds ==
    ASSUME BufOK, NEW i \in 0 .. Len(buf) - 1, NEW j \in 0 .. Len(buf),
           NEW S, S \subseteq Hexadecimal, Some(i, j, S), At(j) \in FollowUp,
           NEW id, NEW subject
    PROVE  ScanDigits(i, S, id, subject) = Found(j, id)
<1>1. Len(buf) \in Nat /\ NUL \notin S /\ At(j) \notin S
  BY BufLength, FollowUpIsApart
<1>2. j \in 1 .. Len(buf) - 1
  BY <1>1, SomeInside
<1>3. i < j /\ At(i) \in S
  BY <1>1 DEF Some, All
<1>4. After(i, S) = j
  BY <1>1, <1>2, <1>3, AfterIs DEF Some
<1> QED
  BY <1>3, <1>4 DEF ScanDigits, Finish

\* An exponent after its mark.
LEMMA ExponentFinds ==
    ASSUME BufOK, NEW m \in 0 .. Len(buf) - 1, NEW j \in 0 .. Len(buf),
           NEW mark \in {"e", "p"}, Exponent(m, j, mark), At(j) \in FollowUp,
           NEW id
    PROVE  wp_token_scan_flt_exponent(m + 1, id) = Found(j, id)
<1>1. Len(buf) \in Nat /\ Decimal \subseteq Hexadecimal
      /\ Decimal \intersect Signs = {} /\ NUL \notin Decimal
  BY BufLength, FollowUpIsApart
     DEF Decimal, Octal, Binary, Signs, NUL
<1>2. At((m + 1) - 1) \in {"e", "p"} /\ m < j /\ m + 1 \in Nat /\ m + 2 \in Nat
  <2>1. (m + 1) - 1 = m
    OBVIOUS
  <2> QED
    BY <2>1 DEF Exponent
<1> DEFINE digits(k) == ScanDigits(k, Decimal, id, "floating-point exponent")
<1>3. wp_token_scan_flt_exponent(m + 1, id) =
        digits(IF At(m + 1) \in Signs THEN (m + 1) + 1 ELSE m + 1)
  BY <1>2 DEF wp_token_scan_flt_exponent, Asserting
<1>4. CASE Some(m + 1, j, Decimal)
  <2>1. j \in 1 .. Len(buf) - 1 /\ m + 1 < j /\ At(m + 1) \in Decimal
    BY <1>1, <1>2, <1>4, SomeInside DEF Some, All
  <2>2. m + 1 \in 0 .. Len(buf) - 1
    BY <1>1, <2>1
  <2>3. digits(m + 1) = Found(j, id)
    <3>1. \A subject : ScanDigits(m + 1, Decimal, id, subject) = Found(j, id)
      BY <1>1, <1>4, <2>2, ScanDigitsFinds
    <3> QED
      BY <3>1, Zenon
  <2>4. At(m + 1) \notin Signs
    BY <1>1, <2>1
  <2> HIDE DEF digits
  <2> QED
    BY <1>3, <2>3, <2>4
<1>5. CASE At(m + 1) \in Signs /\ Some(m + 2, j, Decimal)
  <2>1. j \in 1 .. Len(buf) - 1 /\ m + 2 < j
    BY <1>1, <1>2, <1>5, SomeInside DEF Some
  <2>2. m + 2 \in 0 .. Len(buf) - 1 /\ (m + 1) + 1 = m + 2
    BY <1>1, <2>1
  <2>3. digits(m + 2) = Found(j, id)
    <3>1. \A subject : ScanDigits(m + 2, Decimal, id, subject) = Found(j, id)
      BY <1>1, <1>5, <2>2, ScanDigitsFinds
    <3> QED
      BY <3>1, Zenon
  <2> HIDE DEF digits
  <2> QED
    BY <1>3, <1>5, <2>2, <2>3
<1> QED
  BY <1>4, <1>5 DEF Exponent

\* What may come after digits: the end of the literal or an exponent.
Rest(m, j, mark) == m = j \/ Exponent(m, j, mark)

\* Where the digits end.
LEMMA RestEnds ==
    ASSUME BufOK, NEW m \in 1 .. Len(buf), NEW j \in 0 .. Len(buf),
           NEW mark \in {"e", "p"}, Rest(m, j, mark), At(j) \in FollowUp,
           At(m - 1) # NUL
    PROVE  /\ m \in 1 .. Len(buf) - 1
           /\ IF m = j THEN At(m) \in FollowUp ELSE At(m) = mark
           /\ At(m) \notin Hexadecimal \union {"."}
           /\ NUL \notin Hexadecimal /\ NUL \notin Decimal
<1>1. Len(buf) \in Nat
  BY BufLength
<1>2. m # Len(buf)
  BY DEF BufOK
<1>3. IF m = j THEN At(m) \in FollowUp ELSE At(m) = mark
  BY DEF Rest, Exponent
<1> QED
  BY <1>1, <1>2, <1>3, FollowUpIsApart

LEMMA DecimalFltFinds ==
    ASSUME BufOK, NEW k \in 1 .. Len(buf) - 1, NEW m \in k .. Len(buf),
           NEW j \in 0 .. Len(buf),
           At(k - 1) \in Decimal \union {"."}, All(k, m, Decimal),
           Rest(m, j, "e"), At(j) \in FollowUp
    PROVE  wp_token_scan_decimal_flt(k) = Found(j, "FLT_DECIMAL")
<1>1. Len(buf) \in Nat /\ NUL \notin Decimal \union {"."}
  BY BufLength, Classes DEF NUL
<1>2. At(m - 1) # NUL
  <2>1. CASE m = k
    BY <1>1, <2>1
  <2>2. CASE m # k
    <3>1. m - 1 \in k .. m - 1
      BY <1>1, <2>2
    <3> QED
      BY <1>1, <3>1 DEF All
  <2> QED
    BY <2>1, <2>2
<1>3. /\ m \in 1 .. Len(buf) - 1
      /\ IF m = j THEN At(m) \in FollowUp ELSE At(m) = "e"
      /\ At(m) \notin Hexadecimal
  BY <1>1, <1>2, RestEnds
<1>4. After(k, Decimal) = m
  <2>1. At(m) \notin Decimal /\ m \in k .. Len(buf) - 1
    BY <1>3, FollowUpIsApart
  <2> QED
    BY <1>1, <2>1, AfterIs
<1>5. CASE m = j
  BY <1>3, <1>4, <1>5, FollowUpIsApart
     DEF wp_token_scan_decimal_flt, Asserting, Finish
<1>6. CASE m # j
  <2>1. wp_token_scan_flt_exponent(m + 1, "FLT_DECIMAL") = Found(j, "FLT_DECIMAL")
    BY <1>1, <1>3, <1>6, ExponentFinds DEF Rest
  <2> QED
    BY <1>3, <1>4, <1>6, <2>1 DEF wp_token_scan_decimal_flt, Asserting
<1> QED
  BY <1>5, <1>6

LEMMA HexadecimalFltFinds ==
    ASSUME BufOK, NEW k \in 1 .. Len(buf) - 1, NEW m \in k .. Len(buf),
           NEW j \in 0 .. Len(buf), NEW first, Prefixed(first, "x"),
           At(k - 1) = ".", All(k, m, Hexadecimal),
           Rest(m, j, "p"), At(j) \in FollowUp
    PROVE  wp_token_scan_hexadecimal_flt(k, first) = Found(j, "FLT_HEXADECIMAL")
<1>1. Len(buf) \in Nat /\ NUL \notin Hexadecimal \union {"."}
  BY BufLength, Classes DEF NUL
<1>2. At(m - 1) # NUL
  <2>1. CASE m = k
    BY <1>1, <2>1
  <2>2. CASE m # k
    <3>1. m - 1 \in k .. m - 1
      BY <1>1, <2>2
    <3> QED
      BY <1>1, <3>1 DEF All
  <2> QED
    BY <2>1, <2>2
<1>3. /\ m \in 1 .. Len(buf) - 1
      /\ IF m = j THEN At(m) \in FollowUp ELSE At(m) = "p"
      /\ At(m) \notin Hexadecimal
  BY <1>1, <1>2, RestEnds
<1>4. After(k, Hexadecimal) = m
  BY <1>1, <1>3, AfterIs
<1>5. CASE m = j
  BY <1>3, <1>4, <1>5, FollowUpIsApart
     DEF wp_token_scan_hexadecimal_flt, Asserting, Finish
<1>6. CASE m # j
  <2>1. wp_token_scan_flt_exponent(m + 1, "FLT_HEXADECIMAL")
          = Found(j, "FLT_HEXADECIMAL")
    BY <1>1, <1>3, <1>6, ExponentFinds DEF Rest
  <2> QED
    BY <1>3, <1>4, <1>6, <2>1 DEF wp_token_scan_hexadecimal_flt, Asserting
<1> QED
  BY <1>5, <1>6

\* A number whose first digits were consumed: an integer, one with a point, or
\* one with an exponent.
LEMMA DecimalNumberFinds ==
    ASSUME BufOK, NEW k \in 1 .. Len(buf) - 1, NEW p \in k .. Len(buf) - 1,
           NEW j \in 0 .. Len(buf),
           At(k - 1) \in Decimal, All(k, p, Decimal), At(j) \in FollowUp
    PROVE  /\ p = j => wp_token_scan_decimal_number(k) = Found(j, "INT_DECIMAL")
           /\ Exponent(p, j, "e") =>
                wp_token_scan_decimal_number(k) = Found(j, "FLT_DECIMAL")
           /\ \A m \in p + 1 .. Len(buf) :
                At(p) = "." /\ All(p + 1, m, Decimal) /\ Rest(m, j, "e") =>
                  wp_token_scan_decimal_number(k) = Found(j, "FLT_DECIMAL")
<1>1. Len(buf) \in Nat /\ NUL \notin Decimal
  BY BufLength, FollowUpIsApart
<1>2. ASSUME At(p) \notin Decimal PROVE After(k, Decimal) = p
  BY <1>1, <1>2, AfterIs
<1>3. ASSUME p = j
      PROVE  wp_token_scan_decimal_number(k) = Found(j, "INT_DECIMAL")
  <2>1. At(p) \notin Decimal \union {".", "e"}
    BY <1>3, FollowUpIsApart
  <2> QED
    BY <1>2, <1>3, <2>1 DEF wp_token_scan_decimal_number, Asserting, Finish
<1>4. ASSUME Exponent(p, j, "e")
      PROVE  wp_token_scan_decimal_number(k) = Found(j, "FLT_DECIMAL")
  <2>1. At(p) = "e" /\ At(p) \notin Decimal
    BY <1>4, FollowUpIsApart DEF Exponent
  <2>2. wp_token_scan_flt_exponent(p + 1, "FLT_DECIMAL") = Found(j, "FLT_DECIMAL")
    BY <1>1, <1>4, ExponentFinds
  <2> QED
    BY <1>2, <2>1, <2>2 DEF wp_token_scan_decimal_number, Asserting
<1>5. ASSUME NEW m \in p + 1 .. Len(buf), At(p) = ".",
             All(p + 1, m, Decimal), Rest(m, j, "e")
      PROVE  wp_token_scan_decimal_number(k) = Found(j, "FLT_DECIMAL")
  <2>1. At(p) \notin Decimal /\ At(p) # NUL
    BY <1>5, FollowUpIsApart DEF NUL
  <2>2. p + 1 \in 1 .. Len(buf) - 1 /\ (p + 1) - 1 = p
    BY <1>1, <2>1, NextInside
  <2>3. wp_token_scan_decimal_flt(p + 1) = Found(j, "FLT_DECIMAL")
    BY <1>5, <2>2, DecimalFltFinds
  <2> QED
    BY <1>2, <1>5, <2>1, <2>3 DEF wp_token_scan_decimal_number, Asserting
<1> QED
  BY <1>3, <1>4, <1>5

\* What follows the prefix of a hexadecimal number: likewise, but the first
\* digit must be one that the code lists.
LEMMA HexadecimalNumberFinds ==
    ASSUME BufOK, NEW k \in 2 .. Len(buf) - 1, NEW p \in k .. Len(buf) - 1,
           NEW j \in 0 .. Len(buf), NEW first, Prefixed(first, "x"),
           AfterMark(k, "x"), All(k, p, Hexadecimal), At(j) \in FollowUp,
           p = k \/ At(k) \in HexadecimalLead
    PROVE  /\ p = j /\ p # k =>
                wp_token_scan_hexadecimal_number(k, first)
                  = Found(j, "INT_HEXADECIMAL")
           /\ Exponent(p, j, "p") /\ p # k =>
                wp_token_scan_hexadecimal_number(k, first)
                  = Found(j, "FLT_HEXADECIMAL")
           /\ \A m \in p + 1 .. Len(buf) :
                At(p) = "." /\ All(p + 1, m, Hexadecimal) /\ Rest(m, j, "p") =>
                  wp_token_scan_hexadecimal_number(k, first)
                    = Found(j, "FLT_HEXADECIMAL")
<1> DEFINE a == After(k, Hexadecimal)
           digits ==
             CASE At(a) = "." -> wp_token_scan_hexadecimal_flt(a + 1, first)
               [] At(a) = "p" -> wp_token_scan_flt_exponent(a + 1, "FLT_HEXADECIMAL")
               [] OTHER -> Finish(a, "INT_HEXADECIMAL", "hexadecimal number")
<1>1. Len(buf) \in Nat /\ NUL \notin Hexadecimal
  BY BufLength, FollowUpIsApart
<1>2. At(k) \in HexadecimalLead =>
        wp_token_scan_hexadecimal_number(k, first) = digits
  <2>1. At(k) \in HexadecimalLead => At(k) \notin {".", "p"} \union FollowUp
    BY FollowUpIsApart DEF HexadecimalLead
  <2> QED
    BY <2>1 DEF wp_token_scan_hexadecimal_number, Asserting
<1>3. At(k) = "." =>
        wp_token_scan_hexadecimal_number(k, first)
          = wp_token_scan_hexadecimal_flt(k + 1, first)
  <2>1. At(k) = "." => At(k) \notin HexadecimalLead \union {"p"} \union FollowUp
    BY FollowUpIsApart DEF HexadecimalLead
  <2> QED
    BY <2>1 DEF wp_token_scan_hexadecimal_number, Asserting
<1>4. ASSUME At(p) \notin Hexadecimal PROVE a = p
  BY <1>1, <1>4, AfterIs
<1> HIDE DEF a
<1>5. ASSUME p = j, p # k
      PROVE  wp_token_scan_hexadecimal_number(k, first) = Found(j, "INT_HEXADECIMAL")
  <2>1. At(p) \notin Hexadecimal \union {".", "p"} /\ At(p) \in FollowUp
    BY <1>5, FollowUpIsApart
  <2>2. digits = Finish(p, "INT_HEXADECIMAL", "hexadecimal number")
    BY <1>4, <2>1
  <2>3. digits = Found(p, "INT_HEXADECIMAL")
    BY <2>1, <2>2 DEF Finish
  <2> HIDE DEF digits
  <2> QED
    BY <1>2, <1>5, <2>3
<1>6. ASSUME Exponent(p, j, "p"), p # k
      PROVE  wp_token_scan_hexadecimal_number(k, first) = Found(j, "FLT_HEXADECIMAL")
  <2>1. At(p) = "p" /\ At(p) \notin Hexadecimal
    BY <1>6, FollowUpIsApart DEF Exponent
  <2>2. wp_token_scan_flt_exponent(p + 1, "FLT_HEXADECIMAL")
          = Found(j, "FLT_HEXADECIMAL")
    BY <1>1, <1>6, ExponentFinds
  <2>3. digits = Found(j, "FLT_HEXADECIMAL")
    BY <1>4, <2>1, <2>2
  <2> HIDE DEF digits
  <2> QED
    BY <1>2, <1>6, <2>3
<1>7. ASSUME NEW m \in p + 1 .. Len(buf), At(p) = ".",
             All(p + 1, m, Hexadecimal), Rest(m, j, "p")
      PROVE  wp_token_scan_hexadecimal_number(k, first) = Found(j, "FLT_HEXADECIMAL")
  <2>1. At(p) \notin Hexadecimal /\ At(p) # NUL
    BY <1>7, FollowUpIsApart DEF NUL
  <2>2. p + 1 \in 1 .. Len(buf) - 1 /\ (p + 1) - 1 = p
    BY <1>1, <2>1, NextInside
  <2>3. wp_token_scan_hexadecimal_flt(p + 1, first) = Found(j, "FLT_HEXADECIMAL")
    BY <1>7, <2>2, HexadecimalFltFinds
  <2>4. digits = Found(j, "FLT_HEXADECIMAL")
    BY <1>4, <1>7, <2>1, <2>3
  <2> HIDE DEF digits
  <2> QED
    BY <1>2, <1>3, <1>7, <2>3, <2>4
<1> QED
  BY <1>5, <1>6, <1>7

\* The cases of a leading 0,
LEMMA AfterZeroCases ==
    ASSUME NEW i
    PROVE  /\ At(i) = "b" => ScanAfterZero(i) = wp_token_scan_binary_int(i + 1)
           /\ At(i) = "d" => ScanAfterZero(i) = wp_token_scan_decimal_int(i + 1)
           /\ At(i) = "o" => ScanAfterZero(i) = wp_token_scan_octal_int(i + 1)
           /\ At(i) = "x" => ScanAfterZero(i)
                               = wp_token_scan_hexadecimal_number(i + 1, i - 1)
           /\ At(i) \in Decimal =>
                ScanAfterZero(i) = wp_token_scan_decimal_number(i + 1)
           /\ At(i) = "." => ScanAfterZero(i) = wp_token_scan_decimal_flt(i + 1)
           /\ At(i) = "e" => ScanAfterZero(i)
                               = wp_token_scan_flt_exponent(i + 1, "FLT_DECIMAL")
           /\ At(i) \in FollowUp => ScanAfterZero(i) = Found(i, "INT_DECIMAL")
<1>1. /\ {"b", "d", "o", "x", ".", "e"} \intersect (Decimal \union FollowUp) = {}
      /\ Decimal \intersect FollowUp = {}
  BY DEF Decimal, Octal, Binary, FollowUp, Blanks, Operators, Signs, NUL
<1> QED
  BY <1>1 DEF ScanAfterZero

\* and those of a token.
LEMMA TokenCases ==
    ASSUME NEW i
    PROVE  /\ At(i) = "0" => ScanToken(i) = ScanAfterZero(i + 1)
           /\ At(i) \in Decimal /\ At(i) # "0" =>
                ScanToken(i) = wp_token_scan_decimal_number(i + 1)
           /\ At(i) = "." => ScanToken(i) = ScanAfterPoint(i + 1)
           /\ At(i) \in Operators =>
                ScanToken(i) = Found(i + 1, OperatorId[At(i)])
           /\ At(i) = NUL => ScanToken(i) = Found(i + 1, "EOF")
<1>1. /\ {".", NUL} \intersect (Decimal \union Operators) = {}
      /\ "." # NUL /\ Decimal \intersect Operators = {}
      /\ "0" \notin Operators \union {".", NUL}
  BY DEF Decimal, Octal, Binary, Operators, Signs, NUL
<1> QED
  BY <1>1 DEF ScanToken

\* A token that begins with decimal digits.
LEMMA DecimalFinds ==
    ASSUME BufOK, NEW i \in 0 .. Len(buf) - 1, NEW p \in i + 1 .. Len(buf) - 1,
           NEW j \in 0 .. Len(buf), All(i, p, Decimal), At(j) \in FollowUp
    PROVE  /\ p = j => ScanToken(i) = Found(j, "INT_DECIMAL")
           /\ Exponent(p, j, "e") => ScanToken(i) = Found(j, "FLT_DECIMAL")
           /\ \A m \in p + 1 .. Len(buf) :
                At(p) = "." /\ All(p + 1, m, Decimal) /\ Rest(m, j, "e") =>
                  ScanToken(i) = Found(j, "FLT_DECIMAL")
<1>1. Len(buf) \in Nat /\ At(i) \in Decimal /\ (i + 1) + 1 = i + 2
  BY BufLength DEF All
<1>2. ASSUME NEW k \in i + 1 .. p,
             ScanToken(i) = wp_token_scan_decimal_number(k)
      PROVE  /\ p = j => ScanToken(i) = Found(j, "INT_DECIMAL")
             /\ Exponent(p, j, "e") => ScanToken(i) = Found(j, "FLT_DECIMAL")
             /\ \A m \in p + 1 .. Len(buf) :
                  At(p) = "." /\ All(p + 1, m, Decimal) /\ Rest(m, j, "e") =>
                    ScanToken(i) = Found(j, "FLT_DECIMAL")
  <2>1. /\ k \in 1 .. Len(buf) - 1 /\ p \in k .. Len(buf) - 1
        /\ k - 1 \in i .. p - 1
    BY <1>1, <1>2
  <2>2. At(k - 1) \in Decimal /\ All(k, p, Decimal)
    BY <1>1, <2>1 DEF All
  <2> QED
    BY <1>2, <2>1, <2>2, DecimalNumberFinds
<1>3. CASE At(i) # "0"
  BY <1>1, <1>2, <1>3, TokenCases
<1>4. CASE At(i) = "0" /\ p # i + 1
  <2>1. i + 1 \in i .. p - 1 /\ i + 2 \in i + 1 .. p
    BY <1>1, <1>4
  <2>2. At(i + 1) \in Decimal
    BY <2>1 DEF All
  <2>3. ScanToken(i) = wp_token_scan_decimal_number(i + 2)
    BY <1>1, <1>4, <2>2, TokenCases, AfterZeroCases
  <2> QED
    BY <1>2, <2>1, <2>3
<1>5. CASE At(i) = "0" /\ p = i + 1
  <2>1. ScanToken(i) = ScanAfterZero(p)
    BY <1>5, TokenCases
  <2>2. p = j => ScanToken(i) = Found(j, "INT_DECIMAL")
    BY <2>1, AfterZeroCases
  <2>3. ASSUME Exponent(p, j, "e") PROVE ScanToken(i) = Found(j, "FLT_DECIMAL")
    <3>1. wp_token_scan_flt_exponent(p + 1, "FLT_DECIMAL") = Found(j, "FLT_DECIMAL")
      BY <1>1, <2>3, ExponentFinds
    <3>2. At(p) = "e"
      BY <2>3 DEF Exponent
    <3> QED
      BY <2>1, <3>1, <3>2, AfterZeroCases
  <2>4. ASSUME NEW m \in p + 1 .. Len(buf), At(p) = ".",
               All(p + 1, m, Decimal), Rest(m, j, "e")
        PROVE  ScanToken(i) = Found(j, "FLT_DECIMAL")
    <3>1. At(p) # NUL
      BY <2>4 DEF NUL
    <3>2. p + 1 \in 1 .. Len(buf) - 1 /\ (p + 1) - 1 = p
      BY <1>1, <3>1, NextInside
    <3>3. wp_token_scan_decimal_flt(p + 1) = Found(j, "FLT_DECIMAL")
      BY <2>4, <3>2, DecimalFltFinds
    <3> QED
      BY <2>1, <2>4, <3>3, AfterZeroCases
  <2> QED
    BY <2>2, <2>3, <2>4
<1> QED
  BY <1>3, <1>4, <1>5

\* A point, and digits after it.
LEMMA PointFinds ==
    ASSUME BufOK, NEW i \in 0 .. Len(buf) - 1, NEW m \in i + 2 .. Len(buf),
           NEW j \in 0 .. Len(buf), At(i) = ".", All(i + 1, m, Decimal),
           Rest(m, j, "e"), At(j) \in FollowUp
    PROVE  ScanToken(i) = Found(j, "FLT_DECIMAL")
<1>1. Len(buf) \in Nat /\ (i + 1) + 1 = i + 2 /\ (i + 2) - 1 = i + 1
  BY BufLength
<1>2. At(i + 1) \in Decimal /\ At(i + 1) # NUL /\ At(i) # NUL
  <2>1. i + 1 \in i + 1 .. m - 1
    BY <1>1
  <2>2. At(i + 1) \in Decimal
    BY <2>1 DEF All
  <2> QED
    BY <2>2, FollowUpIsApart DEF NUL
<1>3. i + 2 \in 1 .. Len(buf) - 1
  <2>1. i + 1 \in 0 .. Len(buf) - 1
    BY <1>2, NextInside
  <2> QED
    BY <1>1, <1>2, <2>1, NextInside
<1>4. All(i + 2, m, Decimal)
  BY <1>1 DEF All
<1>5. wp_token_scan_decimal_flt(i + 2) = Found(j, "FLT_DECIMAL")
  BY <1>1, <1>2, <1>3, <1>4, DecimalFltFinds
<1>6. ScanToken(i) = ScanAfterPoint(i + 1)
  BY TokenCases
<1> QED
  BY <1>1, <1>2, <1>5, <1>6 DEF ScanAfterPoint

\* A prefix of two characters.
LEMMA PrefixInside ==
    ASSUME BufOK, NEW i \in 0 .. Len(buf) - 1, NEW mark \in {"b", "o", "d", "x"},
           Prefixed(i, mark)
    PROVE  /\ i + 2 \in 2 .. Len(buf) - 1
           /\ AfterMark(i + 2, mark)
           /\ ScanToken(i) = ScanAfterZero(i + 1)
           /\ At(i + 1) = mark
           /\ (i + 1) + 1 = i + 2 /\ (i + 1) - 1 = i
<1>1. Len(buf) \in Nat /\ (i + 1) + 1 = i + 2 /\ (i + 1) - 1 = i
      /\ (i + 2) - 2 = i /\ (i + 2) - 1 = i + 1
  BY BufLength
<1>2. At(i) = "0" /\ At(i + 1) = mark /\ At(i) # NUL /\ At(i + 1) # NUL
  BY DEF Prefixed, NUL
<1>3. i + 2 \in 0 .. Len(buf) - 1
  <2>1. i + 1 \in 0 .. Len(buf) - 1
    BY <1>2, NextInside
  <2> QED
    BY <1>1, <1>2, <2>1, NextInside
<1> QED
  BY <1>1, <1>2, <1>3, TokenCases DEF AfterMark

\* Integers after a prefix.
LEMMA PrefixedIntFinds ==
    ASSUME BufOK, NEW i \in 0 .. Len(buf) - 1, NEW j \in 0 .. Len(buf),
           At(j) \in FollowUp
    PROVE  /\ Prefixed(i, "b") /\ Some(i + 2, j, Binary) =>
                ScanToken(i) = Found(j, "INT_BINARY")
           /\ Prefixed(i, "o") /\ Some(i + 2, j, Octal) =>
                ScanToken(i) = Found(j, "INT_OCTAL")
           /\ Prefixed(i, "d") /\ Some(i + 2, j, Decimal) =>
                ScanToken(i) = Found(j, "INT_DECIMAL")
<1> DEFINE k == i + 2
<1>1. ASSUME NEW S, S \subseteq Hexadecimal, k \in 0 .. Len(buf) - 1, Some(k, j, S)
      PROVE  \A id, subject : ScanDigits(k, S, id, subject) = Found(j, id)
  BY <1>1, ScanDigitsFinds
<1>2. ASSUME Prefixed(i, "b"), Some(k, j, Binary)
      PROVE  ScanToken(i) = Found(j, "INT_BINARY")
  <2>1. /\ k \in 2 .. Len(buf) - 1 /\ AfterMark(k, "b")
        /\ ScanToken(i) = ScanAfterZero(i + 1) /\ At(i + 1) = "b" /\ (i + 1) + 1 = k
    BY <1>2, PrefixInside
  <2>2. ScanToken(i) = wp_token_scan_binary_int(k)
    BY <2>1, AfterZeroCases
  <2>3. \A id, subject : ScanDigits(k, Binary, id, subject) = Found(j, id)
    BY <1>1, <1>2, <2>1, FollowUpIsApart
  <2>4. wp_token_scan_binary_int(k)
          = ScanDigits(k, Binary, "INT_BINARY", "binary integer")
    BY <2>1 DEF wp_token_scan_binary_int, Asserting
  <2> QED
    BY <2>2, <2>3, <2>4, Zenon
<1>3. ASSUME Prefixed(i, "o"), Some(k, j, Octal)
      PROVE  ScanToken(i) = Found(j, "INT_OCTAL")
  <2>1. /\ k \in 2 .. Len(buf) - 1 /\ AfterMark(k, "o")
        /\ ScanToken(i) = ScanAfterZero(i + 1) /\ At(i + 1) = "o" /\ (i + 1) + 1 = k
    BY <1>3, PrefixInside
  <2>2. ScanToken(i) = wp_token_scan_octal_int(k)
    BY <2>1, AfterZeroCases
  <2>3. \A id, subject : ScanDigits(k, Octal, id, subject) = Found(j, id)
    BY <1>1, <1>3, <2>1, FollowUpIsApart
  <2>4. wp_token_scan_octal_int(k)
          = ScanDigits(k, Octal, "INT_OCTAL", "octal integer")
    BY <2>1 DEF wp_token_scan_octal_int, Asserting
  <2> QED
    BY <2>2, <2>3, <2>4, Zenon
<1>4. ASSUME Prefixed(i, "d"), Some(k, j, Decimal)
      PROVE  ScanToken(i) = Found(j, "INT_DECIMAL")
  <2>1. /\ k \in 2 .. Len(buf) - 1 /\ AfterMark(k, "d")
        /\ ScanToken(i) = ScanAfterZero(i + 1) /\ At(i + 1) = "d" /\ (i + 1) + 1 = k
    BY <1>4, PrefixInside
  <2>2. ScanToken(i) = wp_token_scan_decimal_int(k)
    BY <2>1, AfterZeroCases
  <2>3. \A id, subject : ScanDigits(k, Decimal, id, subject) = Found(j, id)
    BY <1>1, <1>4, <2>1, FollowUpIsApart
  <2>4. wp_token_scan_decimal_int(k)
          = ScanDigits(k, Decimal, "INT_DECIMAL", "decimal integer")
    BY <2>1 DEF wp_token_scan_decimal_int, Asserting
  <2> QED
    BY <2>2, <2>3, <2>4, Zenon
<1> QED
  BY <1>2, <1>3, <1>4

\* The hexadecimal literals whose first digit the code does not know.
LedBy9(i, j) == j > i + 2 /\ Prefixed(i, "x") /\ At(i + 2) = "9"

LEMMA HexadecimalFinds ==
    ASSUME BufOK, NEW i \in 0 .. Len(buf) - 1, NEW j \in i + 1 .. Len(buf),
           Prefixed(i, "x"), ~LedBy9(i, j), At(j) \in FollowUp,
           NEW id \in {"INT_HEXADECIMAL", "FLT_HEXADECIMAL"}, IsLiteral(id, i, j)
    PROVE  ScanToken(i) = Found(j, id)
<1> DEFINE k == i + 2
<1>1. /\ Len(buf) \in Nat /\ k \in 2 .. Len(buf) - 1 /\ AfterMark(k, "x")
      /\ j \in 0 .. Len(buf) /\ NUL \notin Hexadecimal /\ k = i + 2
  BY BufLength, PrefixInside, FollowUpIsApart
<1>2. ScanToken(i) = wp_token_scan_hexadecimal_number(k, i)
  BY PrefixInside, AfterZeroCases
<1> HIDE DEF k
<1>3. ASSUME NEW m \in 0 .. Len(buf), Some(k, m, Hexadecimal), m <= j
      PROVE  m \in k .. Len(buf) - 1 /\ m # k /\ At(k) \in HexadecimalLead
             /\ All(k, m, Hexadecimal)
  <2>1. m \in 1 .. Len(buf) - 1
    BY <1>1, <1>3, SomeInside
  <2>2. k < m /\ At(k) \in Hexadecimal /\ At(k) # "9"
    BY <1>1, <1>3 DEF Some, All, LedBy9
  <2> QED
    BY <1>1, <1>3, <2>1, <2>2 DEF Some, HexadecimalLead
<1>4. CASE id = "INT_HEXADECIMAL"
  <2>1. Some(k, j, Hexadecimal)
    BY <1>1, <1>4 DEF IsLiteral
  <2>2. j \in k .. Len(buf) - 1 /\ j # k /\ At(k) \in HexadecimalLead
        /\ All(k, j, Hexadecimal)
    BY <1>1, <1>3, <2>1
  <2> QED
    BY <1>1, <1>2, <1>4, <2>2, HexadecimalNumberFinds
<1>5. CASE id = "FLT_HEXADECIMAL"
  <2>1. PICK m \in k .. j :
          \/ Some(k, m, Hexadecimal) /\ Exponent(m, j, "p")
          \/ /\ Pointed(k, m, Hexadecimal)
             /\ m = j \/ Exponent(m, j, "p")
    BY <1>1, <1>5 DEF IsLiteral
  <2>2. CASE Some(k, m, Hexadecimal) /\ Exponent(m, j, "p")
    <3>1. m \in k .. Len(buf) - 1 /\ m # k /\ At(k) \in HexadecimalLead
          /\ All(k, m, Hexadecimal)
      BY <1>1, <1>3, <2>1, <2>2
    <3> QED
      BY <1>1, <1>2, <1>5, <2>2, <3>1, HexadecimalNumberFinds
  <2>3. CASE Pointed(k, m, Hexadecimal) /\ (m = j \/ Exponent(m, j, "p"))
    <3>1. PICK p \in k .. m - 1 : /\ At(p) = "."
                                  /\ All(k, p, Hexadecimal)
                                  /\ All(p + 1, m, Hexadecimal)
      BY <2>3 DEF Pointed
    <3>2. Rest(m, j, "p") /\ m \in p + 1 .. Len(buf) /\ p \in k .. Len(buf) - 1
      BY <1>1, <2>1, <2>3, <3>1 DEF Rest
    <3>3. p = k \/ At(k) \in HexadecimalLead
      <4>1. SUFFICES ASSUME p # k PROVE At(k) \in HexadecimalLead
        OBVIOUS
      <4>2. Some(k, p, Hexadecimal)
        BY <1>1, <3>1, <4>1 DEF Some
      <4> QED
        BY <1>1, <1>3, <2>1, <3>2, <4>2
    <3> QED
      BY <1>1, <1>2, <1>5, <3>1, <3>2, <3>3, HexadecimalNumberFinds
  <2> QED
    BY <2>1, <2>2, <2>3
<1> QED
  BY <1>4, <1>5

\* Where a lexeme begins the scan returns it, and nothing else is one there.
LEMMA ScanTokenFinds ==
    ASSUME BufOK, NEW i \in 0 .. Len(buf) - 1, NEW j \in i + 1 .. Len(buf),
           NEW id, IsLexeme(id, i, j), ~LedBy9(i, j)
    PROVE  ScanToken(i) = Found(j, id)
<1>1. Len(buf) \in Nat /\ j \in 0 .. Len(buf) /\ NUL \notin Decimal
  BY BufLength, FollowUpIsApart
<1>2. CASE j = i + 1 /\ (\/ At(i) = NUL /\ id = "EOF"
                         \/ At(i) \in Operators /\ id = OperatorId[At(i)])
  BY <1>2, TokenCases
<1>3. CASE id \in LiteralIds /\ IsLiteral(id, i, j) /\ At(j) \in FollowUp
  <2>1. CASE id \in {"INT_BINARY", "INT_OCTAL"}
    BY <1>1, <1>3, <2>1, PrefixedIntFinds DEF IsLiteral
  <2>2. CASE id \in {"INT_HEXADECIMAL", "FLT_HEXADECIMAL"}
    <3>1. Prefixed(i, "x")
      BY <1>3, <2>2 DEF IsLiteral
    <3> QED
      BY <1>3, <2>2, <3>1, HexadecimalFinds
  <2>3. CASE id = "INT_DECIMAL"
    <3>1. CASE Some(i, j, Decimal)
      <4>1. j \in i + 1 .. Len(buf) - 1 /\ All(i, j, Decimal)
        BY <1>1, <3>1, SomeInside DEF Some
      <4> QED
        BY <1>1, <1>3, <2>3, <4>1, DecimalFinds
    <3>2. CASE Prefixed(i, "d") /\ Some(i + 2, j, Decimal)
      BY <1>1, <1>3, <2>3, <3>2, PrefixedIntFinds
    <3> QED
      BY <1>3, <2>3, <3>1, <3>2 DEF IsLiteral
  <2>4. CASE id = "FLT_DECIMAL"
    <3>1. PICK m \in i .. j :
            \/ Some(i, m, Decimal) /\ Exponent(m, j, "e")
            \/ /\ Pointed(i, m, Decimal) /\ i + 1 < m
               /\ m = j \/ Exponent(m, j, "e")
      BY <1>3, <2>4 DEF IsLiteral
    <3>2. CASE Some(i, m, Decimal) /\ Exponent(m, j, "e")
      <4>1. m \in i + 1 .. Len(buf) - 1 /\ All(i, m, Decimal)
        BY <1>1, <3>1, <3>2, SomeInside DEF Some
      <4> QED
        BY <1>1, <1>3, <2>4, <3>2, <4>1, DecimalFinds
    <3>3. CASE Pointed(i, m, Decimal) /\ i + 1 < m /\ (m = j \/ Exponent(m, j, "e"))
      <4>1. PICK p \in i .. m - 1 : /\ At(p) = "."
                                    /\ All(i, p, Decimal)
                                    /\ All(p + 1, m, Decimal)
        BY <3>3 DEF Pointed
      <4>2. Rest(m, j, "e") /\ m \in p + 1 .. Len(buf)
        BY <1>1, <3>1, <3>3, <4>1 DEF Rest
      <4>3. CASE p = i
        <5>1. m \in i + 2 .. Len(buf)
          BY <1>1, <3>1, <3>3
        <5> QED
          BY <1>1, <1>3, <2>4, <4>1, <4>2, <4>3, <5>1, PointFinds
      <4>4. CASE p # i
        <5>1. p \in i + 1 .. Len(buf) - 1
          BY <1>1, <3>1, <4>1, <4>4
        <5> QED
          BY <1>1, <1>3, <2>4, <4>1, <4>2, <5>1, DecimalFinds
      <4> QED
        BY <4>3, <4>4
    <3> QED
      BY <3>1, <3>2, <3>3
  <2> QED
    BY <1>3, <2>1, <2>2, <2>3, <2>4 DEF LiteralIds
<1> QED
  BY <1>2, <1>3 DEF IsLexeme


\* So the grammar is not ambiguous: what begins at a character is one lexeme.
LEMMA LexemesAreUnique ==
    ASSUME BufOK, NEW i \in 0 .. Len(buf) - 1,
           NEW j \in i + 1 .. Len(buf), NEW id, IsLexeme(id, i, j), ~LedBy9(i, j),
           NEW k \in i + 1 .. Len(buf), NEW other, IsLexeme(other, i, k),
           ~LedBy9(i, k)
    PROVE  j = k /\ id = other
<1>1. Found(j, id) = Found(k, other)
  BY ScanTokenFinds
<1> QED
  BY <1>1 DEF Found

\* A token that is all of what begins where it does.
Whole(t) ==
    \A id \in Ids, j \in t.pos + 1 .. Len(buf) :
        IsLexeme(id, t.pos, j) /\ ~LedBy9(t.pos, j) => t.id = id /\ t.pos + t.len = j

LEMMA WholeTokens == LexemesAreFound <=> \A k \in Kept : Whole(tokens[k])
BY DEF LexemesAreFound, Whole, LedBy9, End

\* What begins at a place of an unchanged source stays what it is.
LEMMA LexemeSame ==
    ASSUME buf' = buf, NEW id, NEW i, NEW j
    PROVE  /\ IsLexeme(id, i, j)' <=> IsLexeme(id, i, j)
           /\ LedBy9(i, j)' <=> LedBy9(i, j)
<1>1. \A k : At(k)' = At(k)
  BY DEF At
<1> QED
  BY <1>1 DEF IsLexeme, IsLiteral, Pointed, Exponent, Prefixed, Some, All, LedBy9

LEMMA WholeKept ==
    ASSUME buf' = buf, NEW k, NEW t, t = tokens'[k], Whole(t)
    PROVE  Whole(tokens[k])'
<1> SUFFICES ASSUME NEW id \in Ids, NEW j \in t.pos + 1 .. Len(buf),
                    IsLexeme(id, t.pos, j)', ~LedBy9(t.pos, j)'
             PROVE  t.id = id /\ t.pos + t.len = j
  BY DEF Whole, Ids
<1>1. IsLexeme(id, t.pos, j) /\ ~LedBy9(t.pos, j)
  BY LexemeSame
<1> QED
  BY <1>1 DEF Whole

\* The token of a scan is whole.
LEMMA WholeReturned ==
    ASSUME TypeInv, ShortBuf, ScanFound \/ ScanFails,
           NEW t, t.pos = it, t.len = ScanToken(it).it - it,
           t.id = ScanToken(it).id
    PROVE  Whole(t)
<1>1. BufOK /\ Len(buf) \in Nat /\ it \in 0 .. Len(buf) - 1
  <2>1. pc = "advance"
    BY ScanStep DEF Scan, Reading
  <2> QED
    BY <2>1 DEF TypeInv, TypeOK, BufOK
<1> SUFFICES ASSUME NEW id \in Ids, NEW j \in it + 1 .. Len(buf),
                    IsLexeme(id, it, j), ~LedBy9(it, j)
             PROVE  t.id = id /\ it + t.len = j
  BY DEF Whole
<1>2. ScanToken(it) = Found(j, id)
  BY <1>1, ScanTokenFinds
<1>3. ScanToken(it).it = j /\ ScanToken(it).id = id
  BY <1>2 DEF Found
<1> QED
  BY <1>1, <1>3

\* LexemesAreFound is inductive.
LEMMA NextFound ==
    ASSUME TypeInv, ShortBuf, LexemesAreFound, [Next]_vars
    PROVE  LexemesAreFound'
<1>1. \A k \in Kept : Whole(tokens[k])
  BY WholeTokens
<1>2. CASE UNCHANGED <<buf, status, tokens>>
  <2> SUFFICES ASSUME NEW k \in Kept' PROVE Whole(tokens[k])'
    BY DEF LexemesAreFound, Whole, LedBy9, End
  <2>1. k \in Kept
    BY <1>2 DEF Kept
  <2> QED
    BY <1>1, <1>2, <2>1, WholeKept
<1>3. CASE ScanFound \/ ScanFails
  <2> DEFINE r == ScanToken(it)
  <2>1. buf' = buf
    BY <1>3, ScanStep DEF Scan
  <2>2. /\ status = "W_SUCCESS"
        /\ Len(tokens) \in Nat /\ Len(tokens') = Len(tokens) + 1
        /\ \A k \in 1 .. Len(tokens) : tokens'[k] = tokens[k]
        /\ tokens'[Len(tokens) + 1].pos = it
        /\ tokens'[Len(tokens) + 1].len = r.it - it
        /\ tokens'[Len(tokens) + 1].id = r.id
    BY <1>3, ScanReturns
  <2> SUFFICES ASSUME NEW k \in Kept' PROVE Whole(tokens[k])'
    BY DEF LexemesAreFound, Whole, LedBy9, End
  <2>3. k \in 1 .. Len(tokens) \/ k = Len(tokens) + 1
    BY <2>2 DEF Kept
  <2>4. CASE k \in 1 .. Len(tokens)
    <3>1. Whole(tokens[k])
      BY <1>1, <2>2, <2>4 DEF Kept
    <3> QED
      BY <2>1, <2>2, <2>4, <3>1, WholeKept
  <2>5. CASE k = Len(tokens) + 1
    <3>1. PICK t : t = tokens'[k]
      OBVIOUS
    <3>2. Whole(t)
      BY <1>3, <2>2, <2>5, <3>1, WholeReturned
    <3> QED
      BY <2>1, <3>1, <3>2, WholeKept
  <2> QED
    BY <2>3, <2>4, <2>5
<1>4. CASE TooLarge
  <2>1. /\ buf' = buf /\ begin' = begin /\ it' = it /\ "INVALID" \in Ids
        /\ Return("W_ERROR_MAX_SIZE_EXCEEDED", "INVALID")
        /\ begin \in Nat /\ it \in Nat /\ it >= begin
        /\ status = "W_SUCCESS"
    BY <1>4 DEF TooLarge, TypeInv, TypeOK, BufOK, Ids
  <2>2. /\ Len(tokens') = Len(tokens) + 1
        /\ \A k \in 1 .. Len(tokens) : tokens'[k] = tokens[k]
    BY <2>1, ReturnType
  <2>3. status' # "W_SUCCESS" /\ Len(tokens) \in Nat
    BY <2>1 DEF Return, TypeInv, TypeOK
  <2> SUFFICES ASSUME NEW k \in Kept' PROVE Whole(tokens[k])'
    BY DEF LexemesAreFound, Whole, LedBy9, End
  <2>4. k \in 1 .. Len(tokens)
    BY <2>2, <2>3 DEF Kept
  <2>5. Whole(tokens[k])
    BY <1>1, <2>1, <2>4 DEF Kept
  <2> QED
    BY <2>1, <2>2, <2>4, <2>5, WholeKept
<1>5. CASE Call \/ SkipSpace \/ SkipNewline \/ ScanAborts \/ UNCHANGED vars
  BY <1>2, <1>5 DEF Call, SkipSpace, SkipNewline, ScanAborts, Consume, vars
<1> QED
  BY <1>3, <1>4, <1>5 DEF Next

\* Whatever the source and the build, the tokenizer returns every lexeme that
\* begins where it reads, whole and under its id, and never takes it for an
\* error or for a shorter one.  Only the hexadecimal literals that start with
\* a 9 are left out.
THEOREM LexemesAreFoundAlways ==
    ASSUME ShortSources
    PROVE  Spec => []LexemesAreFound
<1>1. Init => LexemesAreFound
  <2> SUFFICES ASSUME Init PROVE Kept = {}
    BY DEF LexemesAreFound
  <2>1. tokens = <<>> /\ Len(tokens) = 0
    BY DEF Init
  <2>2. Kept = 1 .. 0
    BY <2>1 DEF Init, Kept
  <2>3. \A k : k \notin 1 .. 0
    OBVIOUS
  <2> QED
    BY <2>2, <2>3
<1>2. TypeInv /\ ShortBuf /\ LexemesAreFound /\ [Next]_vars => LexemesAreFound'
  BY NextFound
<1> QED
  BY <1>1, <1>2, TypeInvAlways, ShortBufAlways, PTL DEF Spec

=============================================================================
