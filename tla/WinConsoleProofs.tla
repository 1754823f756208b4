-------------------------- MODULE WinConsoleProofs --------------------------
(***************************************************************************)
(* Theorems about WinConsole for every number of threads, messages and     *)
(* prints, every length of the buffer, and whichever calls to the system   *)
(* fail: the mutex that the threads create is one, one thread prints at a  *)
(* time, no chunk ends behind its message, and the messages come out like  *)
(* on a terminal; and about TextCuts for texts of every length: they are   *)
(* cut between two units.                                                  *)
(***************************************************************************)
EXTENDS WinConsole, TextCuts, WinMutexProofs, SequenceTheorems, WellFoundedInduction

-----------------------------------------------------------------------------
(* Functions that are defined by recursion.                                *)

\* The natural numbers are well founded.
LEMMA AllNaturals ==
  ASSUME NEW S, 0 \in S, \A n \in Nat : n \in S => n + 1 \in S
  PROVE  Nat \subseteq S
<1> DEFINE Others == Nat \ S
<1>1. SUFFICES ASSUME Others # {} PROVE FALSE
  OBVIOUS
<1>2. PICK x \in Others : \A y \in Others : ~(<<y, x>> \in OpToRel(<, Nat))
  <2>1. Others \subseteq Nat
    OBVIOUS
  <2> HIDE DEF Others
  <2>2. QED
    BY <1>1, <2>1, NatLessThanWellFounded, WFMin
<1>3. \A y \in Others : ~(y < x)
  BY <1>2 DEF OpToRel
<1>4. x \in Nat /\ x # 0 /\ x - 1 \in Nat /\ x - 1 < x
  OBVIOUS
<1>5. x - 1 \in S
  BY <1>3, <1>4
<1>6. x - 1 + 1 \in S
  BY <1>4, <1>5
<1>7. QED
  BY <1>4, <1>6

\* A step can be taken from a start as often as one likes.
Iterates(f, start, step, n) ==
    f[0] = start /\ \A k \in 0 .. (n - 1) : f[k + 1] = step[k][f[k]]

HasIterates(S, start, step) ==
    \E f \in [Nat -> S] :
        f[0] = start /\ \A n \in Nat : f[n + 1] = step[n][f[n]]

LEMMA Iterated ==
  ASSUME NEW S, NEW start \in S, NEW step \in [Nat -> [S -> S]]
  PROVE  HasIterates(S, start, step)
<1> DEFINE Reached == {n \in Nat : \E f \in [Nat -> S] : Iterates(f, start, step, n)}
<1>1. Nat \subseteq Reached
  <2>1. 0 \in Reached
    <3>1. [n \in Nat |-> start] \in [Nat -> S]
      OBVIOUS
    <3>2. Iterates([n \in Nat |-> start], start, step, 0)
      BY DEF Iterates
    <3>3. QED
      BY <3>1, <3>2
  <2>2. ASSUME NEW n \in Nat, n \in Reached PROVE n + 1 \in Reached
    <3>1. PICK f \in [Nat -> S] : Iterates(f, start, step, n)
      BY <2>2
    <3> DEFINE g == [f EXCEPT ![n + 1] = step[n][f[n]]]
    <3>2. g \in [Nat -> S]
      <4>1. step[n][f[n]] \in S
        OBVIOUS
      <4>2. QED
        BY <4>1
    <3>3. Iterates(g, start, step, n + 1)
      <4>1. g[0] = start
        BY <3>1 DEF Iterates
      <4>2. ASSUME NEW k \in 0 .. n PROVE g[k + 1] = step[k][g[k]]
        <5>1. g[k] = f[k]
          OBVIOUS
        <5>2. CASE k = n
          BY <5>1, <5>2
        <5>3. CASE k < n
          <6>1. g[k + 1] = f[k + 1]
            BY <5>3
          <6>2. k \in 0 .. (n - 1)
            BY <5>3
          <6>3. QED
            BY <3>1, <5>1, <6>1, <6>2 DEF Iterates
        <5>4. QED
          BY <5>2, <5>3
      <4>3. n + 1 - 1 = n
        OBVIOUS
      <4>4. QED
        BY <4>1, <4>2, <4>3 DEF Iterates
    <3>4. n + 1 \in Nat
      OBVIOUS
    <3> HIDE DEF g
    <3>5. QED
      BY <3>2, <3>3, <3>4
  <2> HIDE DEF Reached
  <2>3. QED
    BY <2>1, <2>2, AllNaturals
<1>2. ASSUME NEW m \in Nat, NEW n \in Nat, m <= n,
             NEW f \in [Nat -> S], Iterates(f, start, step, m),
             NEW g \in [Nat -> S], Iterates(g, start, step, n)
      PROVE  f[m] = g[m]
  <2> DEFINE Same == {k \in Nat : k <= m => f[k] = g[k]}
  <2>1. 0 \in Same
    BY <1>2 DEF Iterates
  <2>2. ASSUME NEW k \in Nat, k \in Same PROVE k + 1 \in Same
    <3>1. SUFFICES ASSUME k + 1 <= m PROVE f[k + 1] = g[k + 1]
      OBVIOUS
    <3>2. k \in 0 .. (m - 1) /\ k \in 0 .. (n - 1) /\ f[k] = g[k]
      BY <1>2, <2>2, <3>1
    <3>3. QED
      BY <1>2, <3>2 DEF Iterates
  <2>3. Nat \subseteq Same
    <3> HIDE DEF Same
    <3>1. QED
      BY <2>1, <2>2, AllNaturals
  <2>4. QED
    BY <2>3
<1> DEFINE at(n) == CHOOSE f \in [Nat -> S] : Iterates(f, start, step, n)
<1>3. \A n \in Nat : at(n) \in [Nat -> S] /\ Iterates(at(n), start, step, n)
  BY <1>1
<1> DEFINE F == [n \in Nat |-> at(n)[n]]
<1> HIDE DEF at
<1>4. F \in [Nat -> S]
  BY <1>3
<1>5. F[0] = start
  BY <1>3 DEF Iterates
<1>6. ASSUME NEW n \in Nat PROVE F[n + 1] = step[n][F[n]]
  <2>1. n + 1 \in Nat /\ n <= n + 1 /\ n \in 0 .. (n + 1 - 1)
    OBVIOUS
  <2>2. at(n + 1)[n + 1] = step[n][at(n + 1)[n]]
    BY <1>3, <2>1 DEF Iterates
  <2>3. at(n)[n] = at(n + 1)[n]
    BY <1>2, <1>3, <2>1
  <2>4. QED
    BY <2>1, <2>2, <2>3
<1> HIDE DEF F
<1>7. QED
  BY <1>4, <1>5, <1>6 DEF HasIterates

-----------------------------------------------------------------------------
(* The conversion and the scan.                                            *)

\* One more byte begins a character or continues one.
LEMMA WideStep ==
  ASSUME NEW text, NEW first \in Nat
  PROVE  /\ Wide(text, first, first) = <<>>
         /\ \A n \in Nat :
              /\ Wide(text, first, first + n) \in Seq(Nat)
              /\ Wide(text, first, first + n + 1) =
                   IF At(text, first + n) = "cont" THEN Wide(text, first, first + n)
                   ELSE Append(Wide(text, first, first + n), first + n + 1)
<1> DEFINE More(s, n) == IF At(text, first + n) = "cont" THEN s
                         ELSE Append(s, first + n + 1)
           Body(f) == [n \in Nat |->
                         IF n = 0 THEN <<>>
                         ELSE IF At(text, first + n - 1) = "cont" THEN f[n - 1]
                         ELSE Append(f[n - 1], first + n)]
           W == CHOOSE f : f = Body(f)
           step == [n \in Nat |-> [s \in Seq(Nat) |-> More(s, n)]]
<1>1. W = Body(W)
  <2>1. step \in [Nat -> [Seq(Nat) -> Seq(Nat)]]
    <3>1. ASSUME NEW n \in Nat, NEW s \in Seq(Nat) PROVE More(s, n) \in Seq(Nat)
      <4>1. first + n + 1 \in Nat
        OBVIOUS
      <4>2. QED
        BY <4>1
    <3> HIDE DEF More
    <3>2. QED
      BY <3>1
  <2>2. <<>> \in Seq(Nat)
    OBVIOUS
  <2> HIDE DEF step
  <2>3. PICK f \in [Nat -> Seq(Nat)] :
          f[0] = <<>> /\ \A n \in Nat : f[n + 1] = step[n][f[n]]
    <3>1. HasIterates(Seq(Nat), <<>>, step)
      BY <2>1, <2>2, Iterated
    <3>2. QED
      BY <3>1 DEF HasIterates
  <2>4. ASSUME NEW n \in Nat
        PROVE  f[n] = IF n = 0 THEN <<>>
                      ELSE IF At(text, first + n - 1) = "cont" THEN f[n - 1]
                      ELSE Append(f[n - 1], first + n)
    <3>1. CASE n = 0
      BY <2>3, <3>1
    <3>2. CASE n # 0
      <4>1. n - 1 \in Nat /\ n - 1 + 1 = n /\ first + (n - 1) = first + n - 1
            /\ first + (n - 1) + 1 = first + n
        BY <3>2
      <4>2. f[n - 1] \in Seq(Nat)
        BY <4>1
      <4>3. f[n] = step[n - 1][f[n - 1]]
        BY <2>3, <4>1
      <4>4. step[n - 1][f[n - 1]] = More(f[n - 1], n - 1)
        BY <4>1, <4>2 DEF step
      <4>5. QED
        BY <3>2, <4>1, <4>3, <4>4
    <3>3. QED
      BY <3>1, <3>2
  <2>5. f = Body(f)
    BY <2>3, <2>4
  <2> HIDE DEF Body
  <2>6. QED
    BY <2>5
<1>2. \A n \in Nat : Wide(text, first, first + n) = W[n]
  <2>1. ASSUME NEW n \in Nat PROVE (first + n) - first = n
    OBVIOUS
  <2>2. ASSUME NEW n \in Nat PROVE Wide(text, first, first + n) = W[(first + n) - first]
    BY DEF Wide
  <2> HIDE DEF W
  <2>3. QED
    BY <2>1, <2>2
<1> HIDE DEF W
<1>3. W[0] = <<>>
  BY <1>1
<1>4. ASSUME NEW n \in Nat PROVE W[n + 1] = More(W[n], n)
  <2>1. n + 1 \in Nat /\ n + 1 # 0 /\ n + 1 - 1 = n
        /\ first + (n + 1) - 1 = first + n /\ first + (n + 1) = first + n + 1
    OBVIOUS
  <2> DEFINE value(k) == IF k = 0 THEN <<>>
                         ELSE IF At(text, first + k - 1) = "cont" THEN W[k - 1]
                         ELSE Append(W[k - 1], first + k)
  <2>2. W[n + 1] = value(n + 1)
    <3>1. W = [k \in Nat |-> value(k)]
      BY <1>1
    <3> HIDE DEF value
    <3>2. QED
      BY <2>1, <3>1
  <2>3. QED
    BY <2>1, <2>2
<1>5. Nat \subseteq {n \in Nat : W[n] \in Seq(Nat)}
  <2> DEFINE T == {n \in Nat : W[n] \in Seq(Nat)}
  <2>1. 0 \in T
    <3>1. 0 \in Nat
      OBVIOUS
    <3>2. QED
      BY <1>3, <3>1, EmptySeq
  <2>2. ASSUME NEW n \in Nat, n \in T PROVE n + 1 \in T
    <3>1. first + n + 1 \in Nat /\ n + 1 \in Nat /\ W[n] \in Seq(Nat)
      BY <2>2
    <3>2. More(W[n], n) \in Seq(Nat)
      BY <3>1
    <3> HIDE DEF More
    <3>3. W[n + 1] \in Seq(Nat)
      BY <1>4, <3>2
    <3>4. QED
      BY <3>1, <3>3
  <2> HIDE DEF T
  <2>3. Nat \subseteq T
    BY <2>1, <2>2, AllNaturals
  <2>4. QED
    BY <2>3 DEF T
<1>6. first + 0 = first /\ \A n \in Nat : n + 1 \in Nat /\ first + (n + 1) = first + n + 1
  OBVIOUS
<1>7. Wide(text, first, first) = <<>>
  BY <1>2, <1>3, <1>6
<1>8. ASSUME NEW n \in Nat
      PROVE  /\ Wide(text, first, first + n) \in Seq(Nat)
             /\ Wide(text, first, first + n + 1) = More(Wide(text, first, first + n), n)
  <2>1. Wide(text, first, first + n) = W[n]
    BY <1>2
  <2>2. Wide(text, first, first + n + 1) = W[n + 1]
    BY <1>2, <1>6
  <2>3. QED
    BY <1>4, <1>5, <2>1, <2>2
<1>9. QED
  BY <1>7, <1>8

\* The characters of two parts of a message are those of the first and of the second.
Joins(text, first, m, n) ==
    Wide(text, first, first + m + n) =
        Wide(text, first, first + m) \o Wide(text, first + m, first + m + n)

LEMMA WideJoins ==
  ASSUME NEW text, NEW first \in Nat, NEW m \in Nat, NEW n \in Nat
  PROVE  Joins(text, first, m, n)
<1> DEFINE next == first + m
           Former == Wide(text, first, first + m)
           T == {k \in Nat : Wide(text, first, next + k) =
                               Former \o Wide(text, next, next + k)}
<1>1. next \in Nat /\ next + 0 = next
  OBVIOUS
<1>2. Former \in Seq(Nat)
  BY WideStep
<1>3. 0 \in T
  <2>1. Wide(text, next, next) = <<>>
    BY <1>1, WideStep
  <2> HIDE DEF next
  <2>2. Former \o <<>> = Former
    <3> HIDE DEF Former
    <3>1. QED
      BY <1>2
  <2>3. Wide(text, first, next) = Former
    BY DEF next
  <2>4. QED
    BY <1>1, <2>1, <2>2, <2>3
<1>4. ASSUME NEW k \in Nat, k \in T PROVE k + 1 \in T
  <2> DEFINE A == Wide(text, first, next + k)
             B == Wide(text, next, next + k)
             C == Wide(text, first, next + k + 1)
             D == Wide(text, next, next + k + 1)
  <2>1. B \in Seq(Nat)
        /\ D = IF At(text, next + k) = "cont" THEN B ELSE Append(B, next + k + 1)
    BY <1>1, WideStep
  <2>2. C = IF At(text, next + k) = "cont" THEN A ELSE Append(A, next + k + 1)
    <3>1. m + k \in Nat /\ first + (m + k) = next + k
          /\ first + (m + k) + 1 = next + k + 1
      OBVIOUS
    <3>2. Wide(text, first, first + (m + k) + 1) =
            IF At(text, first + (m + k)) = "cont" THEN Wide(text, first, first + (m + k))
            ELSE Append(Wide(text, first, first + (m + k)), first + (m + k) + 1)
      BY <3>1, WideStep
    <3> HIDE DEF next
    <3>3. QED
      BY <3>1, <3>2
  <2>3. A = Former \o B
    BY <1>4
  <2>4. next + k + 1 \in Nat /\ next + (k + 1) = next + k + 1 /\ k + 1 \in Nat
    OBVIOUS
  <2>5. C = Former \o D
    <3> HIDE DEF A, B, C, D, Former, next
    <3> DEFINE c == next + k + 1
    <3>1. c \in Nat
      BY <2>4
    <3> HIDE DEF c
    <3>2. Append(Former \o B, c) = Former \o Append(B, c)
      <4>1. <<c>> \in Seq(Nat)
        BY <3>1
      <4>2. Append(Former \o B, c) = (Former \o B) \o <<c>>
        BY <1>2, <2>1, <3>1, AppendIsConcat, ConcatProperties
      <4>3. Append(B, c) = B \o <<c>>
        BY <2>1, <3>1, AppendIsConcat
      <4>4. (Former \o B) \o <<c>> = Former \o (B \o <<c>>)
        BY <1>2, <2>1, <4>1, ConcatAssociative
      <4>5. QED
        BY <4>2, <4>3, <4>4
    <3> USE DEF c
    <3>3. QED
      BY <2>1, <2>2, <2>3, <3>2
  <2> HIDE DEF next, Former
  <2>6. QED
    BY <2>4, <2>5
<1> HIDE DEF T
<1>5. Nat \subseteq T
  BY <1>3, <1>4, AllNaturals
<1>6. QED
  BY <1>5 DEF T, Joins

LEMMA WideFromStart ==
  ASSUME NEW text, NEW m \in Nat, NEW n \in Nat
  PROVE  Wide(text, 0, m + n) = Wide(text, 0, m) \o Wide(text, m, m + n)
<1> DEFINE first == 0
<1>1. first \in Nat /\ first + m = m
  OBVIOUS
<1> HIDE DEF first
<1>2. Joins(text, first, m, n)
  BY <1>1, WideJoins
<1>3. Wide(text, first, m + n) = Wide(text, first, m) \o Wide(text, m, m + n)
  BY <1>1, <1>2 DEF Joins
<1>4. QED
  BY <1>3 DEF first

LEMMA WideTyped ==
  ASSUME NEW text, NEW m \in Nat
  PROVE  Wide(text, 0, m) \in Seq(Nat) /\ Wide(text, 0, 0) = <<>>
<1> DEFINE first == 0
<1>1. first \in Nat /\ first + m = m
  OBVIOUS
<1> HIDE DEF first
<1>2. Wide(text, first, first + m) \in Seq(Nat) /\ Wide(text, first, first) = <<>>
  BY <1>1, WideStep
<1>3. Wide(text, first, m) \in Seq(Nat)
  BY <1>1, <1>2
<1>4. QED
  BY <1>2, <1>3 DEF first

\* What the scan may be.
Scans == [state : {"default", "esc", "initial", "intermediate", "exit"}, out : Nat]

LEMMA ScannedType ==
  ASSUME NEW s \in Scans, NEW c, NEW n \in Nat
  PROVE  Scanned(s, c, n) \in Scans
<1>1. ScannedOutside(s, c, n) \in Scans
  BY DEF ScannedOutside, Scans
<1>2. CASE s.state = "default"
  BY <1>1, <1>2 DEF Scanned
<1>3. CASE s.state = "esc"
  BY <1>3 DEF Scanned, Scans
<1>4. CASE s.state \in {"initial", "intermediate"}
  BY <1>4 DEF Scanned, Scans
<1>5. CASE s.state = "exit"
  BY <1>5 DEF Scanned, Scans
<1>6. QED
  BY <1>2, <1>3, <1>4, <1>5 DEF Scans

\* The effect of a byte, field by field.
LEMMA ScannedFields ==
  ASSUME NEW s \in Scans, NEW c, NEW n \in Nat
  PROVE  LET r == Scanned(s, c, n)
         IN  /\ s.state = "default" =>
                  \/ c = "nul" /\ r.state = "exit" /\ r.out = n
                  \/ c = "esc" /\ r.state = "esc" /\ r.out = n
                  \/ c # "nul" /\ r.state = "default" /\ r.out \in {s.out, n}
             /\ s.state = "esc" /\ c = "[" => r.state = "initial" /\ r.out = s.out
             /\ s.state \in {"initial", "intermediate"} =>
                  \/ /\ c \in {"1", "sp"} /\ r.out = s.out
                     /\ r.state \in {"initial", "intermediate"}
                  \/ r.state = "default" /\ r.out = n
             /\ s.state = "exit" => r.state = "exit" /\ r.out = s.out
<1> DEFINE r == Scanned(s, c, n)
<1>1. CASE s.state = "default"
  <2>1. r = ScannedOutside(s, c, n)
    BY <1>1 DEF Scanned
  <2>2. \/ c = "nul" /\ r = [s EXCEPT !.out = n, !.state = "exit"]
        \/ c = "esc" /\ r = [s EXCEPT !.out = n, !.state = "esc"]
        \/ c = "cont" /\ r = s
        \/ c \notin {"nul", "esc", "cont"} /\ r = [s EXCEPT !.out = n]
    <3> HIDE DEF r
    <3>1. QED
      BY <2>1 DEF ScannedOutside
  <2> HIDE DEF r
  <2>3. \/ c = "nul" /\ r.state = "exit" /\ r.out = n
        \/ c = "esc" /\ r.state = "esc" /\ r.out = n
        \/ c # "nul" /\ r.state = "default" /\ r.out \in {s.out, n}
    BY <1>1, <2>2 DEF Scans
  <2>4. QED
    BY <1>1, <2>3 DEF r
<1>2. CASE s.state = "esc"
  BY <1>2 DEF Scanned, Scans
<1>3. CASE s.state \in {"initial", "intermediate"}
  BY <1>3 DEF Scanned, Scans
<1>4. CASE s.state = "exit"
  BY <1>4 DEF Scanned, Scans
<1>5. QED
  BY <1>1, <1>2, <1>3, <1>4 DEF Scans

\* The scan goes byte after byte.
LEMMA ScanStep ==
  ASSUME NEW text, NEW from \in Nat
  PROVE  /\ Scan(text, from, 0) = [state |-> "default", out |-> 0]
         /\ \A n \in Nat :
              /\ Scan(text, from, n) \in Scans
              /\ Scan(text, from, n + 1) =
                   Scanned(Scan(text, from, n), At(text, from + n), n)
<1> DEFINE start == [state |-> "default", out |-> 0]
           Body(f) == [n \in Nat |->
                         IF n = 0 THEN start
                         ELSE Scanned(f[n - 1], At(text, from + n - 1), n - 1)]
           W == CHOOSE f : f = Body(f)
           step == [n \in Nat |-> [s \in Scans |-> Scanned(s, At(text, from + n), n)]]
<1>1. W = Body(W)
  <2>1. step \in [Nat -> [Scans -> Scans]]
    BY ScannedType
  <2>2. start \in Scans
    BY DEF Scans
  <2> HIDE DEF step, start
  <2>3. PICK f \in [Nat -> Scans] :
          f[0] = start /\ \A n \in Nat : f[n + 1] = step[n][f[n]]
    <3>1. HasIterates(Scans, start, step)
      BY <2>1, <2>2, Iterated
    <3>2. QED
      BY <3>1 DEF HasIterates
  <2>4. ASSUME NEW n \in Nat
        PROVE  f[n] = IF n = 0 THEN start
                      ELSE Scanned(f[n - 1], At(text, from + n - 1), n - 1)
    <3>1. CASE n = 0
      BY <2>3, <3>1
    <3>2. CASE n # 0
      <4>1. n - 1 \in Nat /\ n - 1 + 1 = n /\ from + (n - 1) = from + n - 1
        BY <3>2
      <4>2. f[n - 1] \in Scans
        BY <4>1
      <4>3. f[n] = step[n - 1][f[n - 1]]
        BY <2>3, <4>1
      <4>4. step[n - 1][f[n - 1]] = Scanned(f[n - 1], At(text, from + (n - 1)), n - 1)
        BY <4>1, <4>2 DEF step
      <4>5. QED
        BY <3>2, <4>1, <4>3, <4>4
    <3>3. QED
      BY <3>1, <3>2
  <2>5. f = Body(f)
    BY <2>3, <2>4
  <2> HIDE DEF Body
  <2>6. QED
    BY <2>5
<1>2. \A n \in Nat : Scan(text, from, n) = W[n]
  BY DEF Scan
<1> HIDE DEF W
<1>3. W[0] = start
  BY <1>1
<1> HIDE DEF start
<1>4. ASSUME NEW n \in Nat PROVE W[n + 1] = Scanned(W[n], At(text, from + n), n)
  <2>1. n + 1 \in Nat /\ n + 1 # 0 /\ n + 1 - 1 = n /\ from + (n + 1) - 1 = from + n
    OBVIOUS
  <2> DEFINE value(k) == IF k = 0 THEN start
                         ELSE Scanned(W[k - 1], At(text, from + k - 1), k - 1)
  <2>2. W[n + 1] = value(n + 1)
    <3>1. W = [k \in Nat |-> value(k)]
      BY <1>1
    <3> HIDE DEF value
    <3>2. QED
      BY <2>1, <3>1
  <2>3. QED
    BY <2>1, <2>2
<1>5. Nat \subseteq {n \in Nat : W[n] \in Scans}
  <2> DEFINE T == {n \in Nat : W[n] \in Scans}
  <2>1. 0 \in T
    BY <1>3 DEF start, Scans
  <2>2. ASSUME NEW n \in Nat, n \in T PROVE n + 1 \in T
    BY <1>4, <2>2, ScannedType
  <2> HIDE DEF T
  <2>3. Nat \subseteq T
    BY <2>1, <2>2, AllNaturals
  <2>4. QED
    BY <2>3 DEF T
<1>6. \A n \in Nat : n + 1 \in Nat
  OBVIOUS
<1>7. QED
  BY <1>2, <1>3, <1>4, <1>5, <1>6 DEF start

\* The bytes of a message.
ByteKinds == {"esc", "[", "1", "sp", "a", "lead", "cont"}

\* Where the scan of a complete text may be after n bytes: behind the null byte
\* never, since whatever escape sequence it is in still has its end before it.
Inside(text, from, n, state, out) ==
    /\ from + out <= Len(text)
    /\ out <= n
    /\ state = "default" => from + n <= Len(text)
    /\ state = "esc" => from + n \in 1 .. Len(text) /\ text[from + n] = "esc"
    /\ state \in {"initial", "intermediate"} =>
         \E last \in (from + n + 1) .. Len(text) : text[last] \notin {"1", "sp"}

ScanInside(text, from, n) ==
    Inside(text, from, n, Scan(text, from, n).state, Scan(text, from, n).out)

LEMMA ScanStaysInside ==
  ASSUME NEW text \in Seq(ByteKinds), Complete(text),
         NEW from \in Nat, from <= Len(text), NEW n \in Nat
  PROVE  ScanInside(text, from, n)
<1> DEFINE T == {k \in Nat : ScanInside(text, from, k)}
<1>1. Len(text) \in Nat /\ DOMAIN text = 1 .. Len(text)
  OBVIOUS
<1>2. 0 \in T
  <2>1. Scan(text, from, 0).state = "default" /\ Scan(text, from, 0).out = 0
    BY ScanStep
  <2>2. Inside(text, from, 0, "default", 0)
    BY <1>1 DEF Inside
  <2>3. ScanInside(text, from, 0)
    BY <2>1, <2>2 DEF ScanInside
  <2>4. QED
    BY <2>3
<1>3. ASSUME NEW k \in Nat, k \in T PROVE k + 1 \in T
  <2> DEFINE s == Scan(text, from, k)
             r == Scan(text, from, k + 1)
             c == At(text, from + k)
             p == from + k + 1
  <2>1. s \in Scans /\ r = Scanned(s, c, k)
    BY ScanStep
  <2>2. Inside(text, from, k, s.state, s.out)
    BY <1>3 DEF ScanInside
  <2>3. p \in Nat /\ k + 1 \in Nat /\ from + (k + 1) = p /\ from + k = p - 1
    OBVIOUS
  <2>4. /\ p <= Len(text) => c = text[p]
        /\ p = Len(text) + 1 => c = "nul"
    <3>1. ASSUME NEW at \in Nat, NEW length \in Nat
          PROVE  /\ at = length => ~(at < length)
                 /\ at + 1 <= length => at < length
                 /\ at + 1 = length + 1 => at = length
      OBVIOUS
    <3>2. from + k \in Nat
      OBVIOUS
    <3>3. QED
      BY <1>1, <3>1, <3>2, Zenon DEF At
  <2> p \in Nat
    BY <2>3
  <2> HIDE DEF s, r, c, p
  <2> DEFINE q == s.state
             o == s.out
             q2 == r.state
             o2 == r.out
  <2>5. /\ q = "default" =>
             \/ c = "nul" /\ q2 = "exit" /\ o2 = k
             \/ c = "esc" /\ q2 = "esc" /\ o2 = k
             \/ c # "nul" /\ q2 = "default" /\ o2 \in {o, k}
        /\ q = "esc" /\ c = "[" => q2 = "initial" /\ o2 = o
        /\ q \in {"initial", "intermediate"} =>
             \/ c \in {"1", "sp"} /\ o2 = o /\ q2 \in {"initial", "intermediate"}
             \/ q2 = "default" /\ o2 = k
        /\ q = "exit" => q2 = "exit" /\ o2 = o
    BY <2>1, ScannedFields
  <2>6. o \in Nat /\ q \in {"default", "esc", "initial", "intermediate", "exit"}
    BY <2>1 DEF Scans
  <2>7. /\ from + o <= Len(text)
        /\ o <= k
        /\ q = "default" => p - 1 <= Len(text) /\ from + k <= Len(text)
        /\ q = "esc" => p - 1 \in 1 .. Len(text) /\ text[p - 1] = "esc"
        /\ q \in {"initial", "intermediate"} =>
             \E last \in p .. Len(text) : text[last] \notin {"1", "sp"}
    BY <2>2, <2>3 DEF Inside, p
  <2> HIDE DEF q, o, q2, o2
  <2>8. /\ from + o2 <= Len(text)
        /\ o2 <= k + 1
        /\ q2 = "default" => p <= Len(text)
        /\ q2 = "esc" => p \in 1 .. Len(text) /\ text[p] = "esc"
        /\ q2 \in {"initial", "intermediate"} =>
             \E last \in (p + 1) .. Len(text) : text[last] \notin {"1", "sp"}
    <3>1. CASE q = "default"
      <4>1. CASE c = "nul"
        BY <1>1, <2>3, <2>5, <2>6, <2>7, <3>1, <4>1
      <4>2. CASE c # "nul"
        <5>1. p # Len(text) + 1
          BY <2>4, <4>2
        <5>2. p \in 1 .. Len(text)
          <6>1. p - 1 <= Len(text) /\ p >= 1
            BY <2>7, <3>1 DEF p
          <6>2. QED
            BY <1>1, <5>1, <6>1
        <5>3. c = text[p]
          BY <1>1, <2>4, <5>2
        <5>4. QED
          BY <1>1, <2>3, <2>5, <2>6, <2>7, <3>1, <4>2, <5>2, <5>3
      <4>3. QED
        BY <4>1, <4>2
    <3>2. CASE q = "esc"
      <4>1. p - 1 \in 1 .. Len(text) /\ text[p - 1] = "esc" /\ p - 1 + 1 = p /\ p - 1 + 2 = p + 1
        BY <2>3, <2>7, <3>2
      <4>2. /\ p - 1 < Len(text) /\ text[p] = "["
            /\ \E last \in (p + 1) .. Len(text) : text[last] \notin {"1", "sp"}
        BY <1>1, <4>1 DEF Complete
      <4>3. c = "["
        BY <2>3, <2>4, <4>2
      <4>4. QED
        BY <1>1, <2>3, <2>5, <2>6, <2>7, <3>2, <4>2, <4>3
    <3>3. CASE q \in {"initial", "intermediate"}
      <4>1. PICK last \in p .. Len(text) : text[last] \notin {"1", "sp"}
        BY <2>7, <3>3
      <4>2. p \in 1 .. Len(text) /\ p - 1 < Len(text)
        BY <1>1, <2>3, <4>1
      <4>3. c = text[p]
        BY <2>3, <2>4, <4>2
      <4>4. CASE c \in {"1", "sp"}
        <5>1. last # p
          BY <4>1, <4>3, <4>4
        <5>2. last \in (p + 1) .. Len(text)
          BY <1>1, <2>3, <4>1, <5>1
        <5>3. QED
          BY <1>1, <2>3, <2>5, <2>6, <2>7, <3>3, <4>1, <4>2, <5>2
      <4>5. CASE c \notin {"1", "sp"}
        BY <1>1, <2>3, <2>5, <2>6, <2>7, <3>3, <4>2, <4>5
      <4>6. QED
        BY <4>4, <4>5
    <3>4. CASE q = "exit"
      BY <1>1, <2>5, <2>6, <2>7, <3>4
    <3>5. QED
      BY <2>6, <3>1, <3>2, <3>3, <3>4
  <2>9. Inside(text, from, k + 1, q2, o2)
    BY <2>3, <2>8 DEF Inside
  <2>10. QED
    BY <2>3, <2>9 DEF ScanInside, q2, o2, r
<1> HIDE DEF T
<1>4. Nat \subseteq T
  BY <1>2, <1>3, AllNaturals
<1>5. QED
  BY <1>4 DEF T

\* A chunk of a complete text ends in the text.
LEMMA ChunkInside ==
  ASSUME NEW text \in Seq(ByteKinds), Complete(text),
         NEW from \in Nat, from <= Len(text), NEW max \in Nat
  PROVE  /\ wp_platform_break_str(text, from, max) \in Nat
         /\ from + wp_platform_break_str(text, from, max) <= Len(text)
<1>1. Scan(text, from, max) \in Scans
  BY ScanStep
<1>2. ScanInside(text, from, max)
  BY ScanStaysInside
<1>3. Len(text) \in Nat
  OBVIOUS
<1>4. QED
  BY <1>1, <1>2, <1>3 DEF ScanInside, Inside, Scans, wp_platform_break_str

-----------------------------------------------------------------------------
(* The mutex.                                                              *)

Labels == MtxLabels \union Printing \union {"idle", "gone"}

\* Where a thread prints it owns the mutex.
PrintingOwns == \A t \in Threads : pc[t] \in Printing => Owns(t)

Inv ==
    /\ pc \in [Threads -> Labels]
    /\ MtxTypeOK
    /\ MtxInv
    /\ PrintingOwns

\* What a step is to the mutex: a part of w_mtx_lock(), a step of a print, or
\* one that begins or ends a print.
MutexStep(t) ==
    \/ LockStep(t, "mode")
    \/ \E label \in {"chunk", "write", "exit"} :
         pc[t] \in Printing /\ CallerStep(t, label) /\ UNCHANGED mtxVars
    \/ \E label \in {"lock", "idle", "gone"} : CallerStep(t, label)
    \/ UNCHANGED <<mtxVars, pc>>

LEMMA StepIsMutexStep ==
  ASSUME NEW t \in Threads, w_print(t) \/ Step(t) \/ Leave(t)
  PROVE  MutexStep(t)
<1> USE DEF GoTo, Exit, Return, CallerStep, MutexStep, Creating, Printing
<1>1. CASE w_print(t)
  BY <1>1 DEF w_print
<1>2. CASE Lock(t)
  BY <1>2 DEF Lock, LockStep
<1>3. CASE LockFailed(t)
  BY <1>3 DEF LockFailed
<1>4. CASE Unlock(t)
  BY <1>4 DEF Unlock, ReleaseFails
<1>5. CASE Leave(t)
  BY <1>5 DEF Leave
<1>6. CASE ConsoleMode(t)
  BY <1>6 DEF ConsoleMode
<1>7. CASE NextChunk(t)
  BY <1>7 DEF NextChunk
<1>8. CASE PrintDone(t)
  BY <1>8 DEF PrintDone
<1>9. CASE Write(t)
  BY <1>9 DEF Write
<1>10. CASE WriteFails(t)
  BY <1>10 DEF WriteFails
<1>11. CASE ChunkDone(t)
  BY <1>11 DEF ChunkDone
<1>12. QED
  BY <1>1, <1>2, <1>3, <1>4, <1>5, <1>6, <1>7, <1>8, <1>9, <1>10, <1>11 DEF Step

(* No thread loses the mutex while it prints, although others create one,  *)
(* close theirs, wait, release and end.                                    *)
LEMMA MutexStepInv ==
  ASSUME Inv, NEW t \in Threads, MutexStep(t)
  PROVE  Inv'
<1>1. pc \in [Threads -> Labels] /\ MtxTypeOK /\ MtxInv /\ PrintingOwns
  BY DEF Inv
<1>2. CASE LockStep(t, "mode")
  <2>1. MtxTypeOK'
    BY <1>1, <1>2, LockStepType
  <2>2. MtxInv'
    BY <1>1, <1>2, LockStepInv DEF Creating
  <2>3. /\ pc' \in [Threads -> Labels]
        /\ pc'[t] \in MtxLabels \union {"mode"}
        /\ \A u \in Threads : u # t => pc'[u] = pc[u]
    BY <1>1, <1>2 DEF LockStep, TestHandle, Publish, CloseOwn, Wait, GoTo, Failed,
       Labels, MtxLabels, Printing
  <2>4. ASSUME NEW u \in Threads, u # t, pc'[u] \in Printing PROVE Owns(u)'
    <3>1. Owns(u)
      BY <1>1, <2>3, <2>4 DEF PrintingOwns
    <3>2. QED
      BY <1>1, <1>2, <2>4, <3>1, LockStepOwner
  <2>5. ASSUME pc'[t] \in Printing PROVE Owns(t)'
    <3>1. pc'[t] = "mode" /\ "mode" \notin MtxLabels
      BY <2>3, <2>5 DEF MtxLabels, Printing
    <3>2. QED
      BY <1>1, <1>2, <3>1, LockStepTakes
  <2>6. QED
    BY <2>1, <2>2, <2>3, <2>4, <2>5 DEF Inv, PrintingOwns
<1>3. ASSUME NEW label \in {"chunk", "write", "exit", "lock", "idle", "gone"},
             CallerStep(t, label),
             label \in Printing => pc[t] \in Printing /\ UNCHANGED mtxVars
      PROVE  Inv'
  <2>1. MtxTypeOK' /\ MtxInv'
    BY <1>1, <1>3, CallerStepInv
  <2>2. pc' = [pc EXCEPT ![t] = label]
    BY <1>3 DEF CallerStep, GoTo
  <2>3. ASSUME NEW u \in Threads, u # t, pc'[u] \in Printing PROVE Owns(u)'
    <3>1. Owns(u)
      BY <1>1, <2>2, <2>3 DEF PrintingOwns
    <3>2. QED
      BY <1>1, <1>3, <2>3, <3>1, CallerStepOwner
  <2>4. ASSUME pc'[t] \in Printing PROVE Owns(t)'
    <3>1. Owns(t) /\ UNCHANGED mtxVars
      BY <1>1, <1>3, <2>2, <2>4 DEF PrintingOwns
    <3>2. QED
      BY <3>1 DEF Owns, mtxVars
  <2>5. pc' \in [Threads -> Labels]
    BY <1>1, <2>2 DEF Labels, MtxLabels, Printing
  <2>6. QED
    BY <2>1, <2>3, <2>4, <2>5 DEF Inv, PrintingOwns
<1>4. CASE UNCHANGED <<mtxVars, pc>>
  BY <1>1, <1>4 DEF mtxVars, MtxTypeOK, MtxInv, KeptIsOpen, ClosersKnow, OwnHandles,
     NoneForgotten, OwnedIsCounted, FailureHasCause, PrintingOwns, Owns, Inv
<1>5. QED
  BY <1>2, <1>3, <1>4 DEF MutexStep, Printing

LEMMA InvAlways == Spec => []Inv
<1>1. Init => Inv
  BY MtxInitInv DEF Init, Inv, PrintingOwns, Labels, MtxLabels, Printing
<1>2. Inv /\ [Next]_vars => Inv'
  <2> SUFFICES ASSUME Inv, [Next]_vars PROVE Inv'
    OBVIOUS
  <2>1. CASE Next
    BY <2>1, StepIsMutexStep, MutexStepInv DEF Next
  <2>2. CASE UNCHANGED vars
    <3>1. UNCHANGED <<mtx, live, owner, count, handle, pc>>
      BY <2>2 DEF vars, mtxVars
    <3>2. QED
      BY <3>1 DEF MtxTypeOK, MtxInv, KeptIsOpen, ClosersKnow, OwnHandles,
         NoneForgotten, OwnedIsCounted, FailureHasCause, PrintingOwns, Owns, Inv
  <2>3. QED
    BY <2>1, <2>2
<1>3. QED
  BY <1>1, <1>2, PTL DEF Spec

(* However many threads find the mutex not created yet, the one they all   *)
(* use is never closed and the others are (platform_windows.c:289-312).    *)
THEOREM OneMutexKeptAlways == Spec => []OneMutexKept
<1>1. Inv => OneMutexKept
  BY MtxInvKeeps DEF Inv
<1>2. QED
  BY <1>1, InvAlways, PTL

(* One thread prints at a time, however many there are, also when prints   *)
(* return with the mutex, which their thread then takes again, and when    *)
(* threads end with it (platform_windows.c:377-472).                       *)
THEOREM OneThreadPrintsAlways == Spec => []OneThreadPrints
<1>1. Inv => OneThreadPrints
  BY DEF Inv, PrintingOwns, OneThreadPrints, Owns
<1>2. QED
  BY <1>1, InvAlways, PTL

-----------------------------------------------------------------------------
(* Who has the mutex.                                                      *)

\* A mutex that nobody uses is not taken, and the one that is free not counted.
CountsInv ==
    \A h \in Handles :
        /\ h # mtx => owner[h] = Free
        /\ owner[h] = Free => count[h] = 0

\* A thread that returned with the mutex has it once more while it prints; any
\* other has it once, and only while it prints.
TakenInv(t) ==
    /\ t \in kept => Owns(t) /\ (pc[t] \in Printing => count[mtx] >= 2)
    /\ Owns(t) /\ t \notin kept => pc[t] \in Printing /\ count[mtx] = 1

OwnersInv == CountsInv /\ kept \subseteq Threads /\ \A t \in Threads : TakenInv(t)

\* A step that leaves the mutex, and who keeps it, as they were.
LEMMA OwnersStay ==
  ASSUME OwnersInv, Inv, NEW t \in Threads, UNCHANGED <<mtx, owner, count, kept>>,
         \A u \in Threads : Owns(u)' <=> Owns(u),
         \A u \in Threads : u # t => pc'[u] = pc[u],
         pc'[t] \in Printing <=> pc[t] \in Printing
  PROVE  OwnersInv'
<1>1. CountsInv'
  BY DEF OwnersInv, CountsInv
<1>2. \A u \in Threads : pc'[u] \in Printing <=> pc[u] \in Printing
  OBVIOUS
<1>3. \A u \in Threads : TakenInv(u)'
  BY <1>2 DEF OwnersInv, TakenInv
<1>4. QED
  BY <1>1, <1>3 DEF OwnersInv

LEMMA OwnersStep ==
  ASSUME OwnersInv, Inv, NEW t \in Threads, w_print(t) \/ Step(t) \/ Leave(t)
  PROVE  OwnersInv'
<1>1. /\ pc \in [Threads -> Labels] /\ MtxTypeOK /\ MtxInv
      /\ pc[t] \in Printing => Owns(t)
      /\ kept \subseteq Threads
      /\ Null \notin Handles /\ Free \notin Threads
  BY WinMutexAssumption DEF Inv, PrintingOwns, OwnersInv
<1>2. /\ owner \in [Handles -> Threads \union {Free}]
      /\ count \in [Handles -> Nat] /\ live \subseteq Handles
      /\ mtx \in Handles \union {Null}
  BY <1>1 DEF MtxTypeOK
<1> USE DEF GoTo
\* The steps of a print, and those of w_mtx_lock() before the mutex is taken.
<1>3. CASE \/ NextChunk(t) \/ PrintDone(t) \/ Write(t) \/ WriteFails(t) \/ ChunkDone(t)
           \/ w_print(t) \/ LockFailed(t)
  <2>1. /\ UNCHANGED mtxVars /\ kept' = kept
        /\ \A u \in Threads : u # t => pc'[u] = pc[u]
        /\ pc'[t] \in Printing <=> pc[t] \in Printing
    BY <1>1, <1>3 DEF NextChunk, PrintDone, Write, WriteFails, ChunkDone, w_print,
       LockFailed, Return, Exit, Printing, MtxLabels
  <2>2. QED
    BY <2>1, OwnersStay DEF mtxVars, Owns
<1>4. CASE Lock(t) /\ (TestHandle(t) \/ CloseOwn(t))
  <2>1. /\ mtx' = mtx /\ owner' = owner /\ count' = count /\ kept' = kept
        /\ \A u \in Threads : u # t => pc'[u] = pc[u]
        /\ pc[t] \notin Printing /\ pc'[t] \notin Printing
    BY <1>1, <1>4 DEF Lock, TestHandle, CloseOwn, Failed, Printing, MtxLabels
  <2>2. mtx \in live' <=> mtx \in live
    BY <1>1, <1>2, <1>4 DEF TestHandle, CloseOwn, MtxInv, OwnHandles, Creating,
       ClosersKnow, KeptIsOpen
  <2>3. QED
    BY <2>1, <2>2, OwnersStay DEF Owns
<1>5. CASE Lock(t) /\ Publish(t)
  <2>1. CASE mtx' = mtx
    <3>1. /\ owner' = owner /\ count' = count /\ kept' = kept /\ live' = live
          /\ \A u \in Threads : u # t => pc'[u] = pc[u]
          /\ pc[t] \notin Printing /\ pc'[t] \notin Printing
      BY <1>1, <1>5 DEF Lock, Publish, Printing, MtxLabels
    <3>2. QED
      BY <2>1, <3>1, OwnersStay DEF Owns
  <2>2. CASE mtx' # mtx
    <3>1. /\ mtx = Null /\ mtx' = handle[t] /\ handle[t] \in live
          /\ owner' = owner /\ count' = count /\ kept' = kept /\ live' = live
          /\ \A u \in Threads : u # t => pc'[u] = pc[u]
          /\ pc[t] \notin Printing /\ pc'[t] \notin Printing
      BY <1>1, <1>5, <2>2 DEF Lock, Publish, Printing, MtxLabels, MtxInv, OwnHandles,
         Creating
    <3>2. \A h \in Handles : owner[h] = Free /\ count[h] = 0
      BY <1>1, <3>1 DEF OwnersInv, CountsInv
    <3>3. \A u \in Threads : ~Owns(u) /\ u \notin kept
      BY <1>1, <1>2, <3>1 DEF Owns, OwnersInv, TakenInv
    <3>4. \A u \in Threads : ~Owns(u)'
      BY <1>1, <1>2, <3>1, <3>2 DEF Owns
    <3>5. CountsInv'
      BY <3>1, <3>2 DEF CountsInv
    <3>6. QED
      BY <1>1, <3>1, <3>3, <3>4, <3>5 DEF OwnersInv, TakenInv
  <2>3. QED
    BY <2>1, <2>2
<1>6. CASE Lock(t) /\ Wait(t, "mode")
  <2>1. /\ mtx' = mtx /\ live' = live /\ kept' = kept
        /\ \A u \in Threads : u # t => pc'[u] = pc[u]
        /\ pc[t] \notin Printing
    BY <1>1, <1>6 DEF Lock, Wait, Printing, MtxLabels
  <2>2. CASE UNCHANGED <<owner, count>> /\ pc' = [pc EXCEPT ![t] = "lock_failed"]
    <3>1. pc'[t] \notin Printing
      BY <1>1, <2>2 DEF Printing
    <3>2. QED
      BY <2>1, <2>2, <3>1, OwnersStay DEF Owns
  <2>3. CASE /\ mtx \in live /\ owner[mtx] \in {Free, t}
             /\ owner' = [owner EXCEPT ![mtx] = t]
             /\ count' = [count EXCEPT ![mtx] = @ + 1]
             /\ pc' = [pc EXCEPT ![t] = "mode"]
    <3>1. /\ mtx \in Handles /\ owner'[mtx] = t /\ count'[mtx] = count[mtx] + 1
          /\ \A h \in Handles : h # mtx => owner'[h] = owner[h] /\ count'[h] = count[h]
          /\ pc'[t] = "mode" /\ count[mtx] \in Nat
      BY <1>1, <1>2, <2>3
    <3>2. CountsInv'
      BY <1>1, <2>1, <3>1 DEF OwnersInv, CountsInv
    <3>3. \A u \in Threads : u # t => ~Owns(u) /\ ~Owns(u)'
      BY <1>1, <2>1, <2>3, <3>1 DEF Owns
    <3>4. Owns(t)'
      BY <2>1, <2>3, <3>1 DEF Owns
    <3>5. CASE owner[mtx] = Free
      <4>1. count[mtx] = 0
        BY <3>1, <3>5 DEF OwnersInv, CountsInv
      <4>2. t \notin kept
        BY <1>1, <3>5 DEF OwnersInv, TakenInv, Owns
      <4>3. QED
        BY <2>1, <3>1, <3>2, <3>3, <3>4, <4>1, <4>2 DEF OwnersInv, TakenInv, Printing
    <3>6. CASE owner[mtx] = t
      <4>1. Owns(t) /\ owner[mtx] # Free
        BY <1>1, <2>3, <3>6 DEF Owns
      <4>2. t \in kept /\ count[mtx] # 0
        BY <1>1, <2>1, <3>1, <4>1 DEF OwnersInv, TakenInv, MtxInv, OwnedIsCounted
      <4>3. count[mtx] + 1 >= 2
        BY <3>1, <4>2
      <4>4. QED
        BY <2>1, <3>1, <3>2, <3>3, <3>4, <4>2, <4>3 DEF OwnersInv, TakenInv, Printing
    <3>7. QED
      BY <2>3, <3>5, <3>6
  <2>4. QED
    BY <1>6, <2>2, <2>3 DEF Wait
\* The ends of a print.
<1>7. ASSUME Owns(t), UNCHANGED mtxVars, pc' = [pc EXCEPT ![t] = "idle"],
             kept' = kept \union {t}
      PROVE  OwnersInv'
  <2>1. /\ pc'[t] \notin Printing
        /\ \A u \in Threads : u # t => pc'[u] = pc[u] /\ (u \in kept' <=> u \in kept)
    BY <1>1, <1>7 DEF Printing
  <2>2. \A u \in Threads : Owns(u)' <=> Owns(u)
    BY <1>7 DEF mtxVars, Owns
  <2>3. CountsInv'
    BY <1>7 DEF mtxVars, OwnersInv, CountsInv
  <2>4. ASSUME NEW u \in Threads PROVE TakenInv(u)'
    <3>1. TakenInv(u) /\ mtx' = mtx /\ count' = count
      BY <1>7 DEF OwnersInv, mtxVars
    <3>2. QED
      BY <1>7, <2>1, <2>2, <3>1 DEF TakenInv
  <2>5. QED
    BY <1>1, <1>7, <2>3, <2>4 DEF OwnersInv
<1>8. CASE ConsoleMode(t)
  <2>1. CASE pc' = [pc EXCEPT ![t] = "chunk"] /\ kept' = kept
    <3>1. /\ UNCHANGED mtxVars /\ pc[t] \in Printing /\ pc'[t] \in Printing
          /\ \A u \in Threads : u # t => pc'[u] = pc[u]
      BY <1>1, <1>8, <2>1 DEF ConsoleMode, Printing
    <3>2. QED
      BY <2>1, <3>1, OwnersStay DEF mtxVars, Owns
  <2>2. CASE Return(t, "failure") /\ kept' = kept \union {t}
    <3>1. UNCHANGED mtxVars /\ Owns(t)
      BY <1>1, <1>8 DEF ConsoleMode, Printing
    <3>2. QED
      BY <1>7, <2>2, <3>1 DEF Return
  <2>3. QED
    BY <1>8, <2>1, <2>2 DEF ConsoleMode
<1>9. CASE Unlock(t)
  <2>1. Owns(t) /\ pc[t] \in Printing
    BY <1>1, <1>9 DEF Unlock, Printing
  <2>2. CASE ReleaseFails(t) /\ Return(t, "failure") /\ kept' = kept \union {t}
    BY <1>7, <2>1, <2>2 DEF ReleaseFails, Return
  <2>3. CASE Release(t) /\ Return(t, status[t]) /\ kept' = kept
    <3>1. /\ mtx \in live /\ mtx \in Handles /\ owner[mtx] = t /\ t # Free
          /\ count[mtx] \in Nat
          /\ mtx' = mtx /\ live' = live /\ kept' = kept
      BY <1>1, <1>2, <2>1, <2>3 DEF Owns, Release
    <3>2. /\ count'[mtx] = count[mtx] - 1
          /\ owner'[mtx] = IF count[mtx] = 1 THEN Free ELSE t
          /\ \A h \in Handles : h # mtx => owner'[h] = owner[h] /\ count'[h] = count[h]
      BY <1>2, <2>3, <3>1 DEF Release
    <3>3. /\ pc'[t] = "idle" /\ "idle" \notin Printing
          /\ \A u \in Threads : u # t => pc'[u] = pc[u]
      BY <1>1, <2>3 DEF Return, Printing
    <3>4. CountsInv'
      BY <3>1, <3>2 DEF OwnersInv, CountsInv
    <3>5. ASSUME NEW u \in Threads, u # t PROVE TakenInv(u)'
      <4>1. ~Owns(u) /\ ~Owns(u)' /\ u \notin kept
        BY <1>1, <3>1, <3>2, <3>5 DEF Owns, OwnersInv, TakenInv
      <4>2. QED
        BY <3>1, <4>1 DEF TakenInv
    <3>6. CASE t \in kept
      <4>1. count[mtx] >= 2
        BY <2>1, <3>6 DEF OwnersInv, TakenInv
      <4>2. Owns(t)'
        BY <3>1, <3>2, <4>1 DEF Owns
      <4>3. TakenInv(t)'
        BY <3>1, <3>3, <3>6, <4>2 DEF TakenInv
      <4>4. QED
        BY <1>1, <3>1, <3>4, <3>5, <4>3 DEF OwnersInv
    <3>7. CASE t \notin kept
      <4>1. count[mtx] = 1
        BY <2>1, <3>7 DEF OwnersInv, TakenInv
      <4>2. ~Owns(t)'
        BY <1>1, <3>1, <3>2, <4>1 DEF Owns
      <4>3. TakenInv(t)'
        BY <3>1, <3>7, <4>2 DEF TakenInv
      <4>4. QED
        BY <1>1, <3>1, <3>4, <3>5, <4>3 DEF OwnersInv
    <3>8. QED
      BY <3>6, <3>7
  <2>4. QED
    BY <1>9, <2>2, <2>3 DEF Unlock
<1>10. CASE Leave(t)
  <2>1. /\ pc[t] = "idle" /\ pc'[t] = "gone" /\ "gone" \notin Printing
        /\ \A u \in Threads : u # t => pc'[u] = pc[u]
        /\ mtx' = mtx /\ live' = live /\ kept' = kept \ {t}
    BY <1>1, <1>10 DEF Leave, Abandon, Printing
  <2>2. \A h \in Handles : /\ owner'[h] = IF owner[h] = t THEN Free ELSE owner[h]
                           /\ count'[h] = IF owner[h] = t THEN 0 ELSE count[h]
    BY <1>10 DEF Leave, Abandon
  <2>3. CountsInv'
    BY <1>1, <2>1, <2>2 DEF OwnersInv, CountsInv
  <2>4. ~Owns(t)'
    BY <1>1, <1>2, <2>1, <2>2 DEF Owns
  <2>5. ASSUME NEW u \in Threads, u # t PROVE TakenInv(u)'
    <3>1. (Owns(u)' <=> Owns(u)) /\ (u \in kept' <=> u \in kept)
      BY <1>1, <1>2, <2>1, <2>2, <2>5 DEF Owns
    <3>2. Owns(u) => count'[mtx] = count[mtx]
      BY <1>2, <2>2, <2>5 DEF Owns
    <3>3. TakenInv(u)
      BY DEF OwnersInv
    <3>4. QED
      BY <2>1, <2>5, <3>1, <3>2, <3>3 DEF TakenInv
  <2>6. QED
    BY <1>1, <2>1, <2>3, <2>4, <2>5 DEF OwnersInv, TakenInv
<1>11. QED
  BY <1>3, <1>4, <1>5, <1>6, <1>8, <1>9, <1>10 DEF Step, Lock

\* The mutex belongs to the thread that prints, or to one that returned with it
\* and did not end since, and to nobody else.
OwnersKnown == \A t \in Threads : Owns(t) <=> pc[t] \in Printing \/ t \in kept

\* No print loses the mutex it took, nor returns with it but where it cannot set
\* the mode of the console or release the mutex: when a thread waits without
\* end, such a thread has what it waits for (platform_windows.c:377-472).
THEOREM OwnersKnownAlways == Spec => []OwnersKnown
<1>1. Init => OwnersInv
  BY WinMutexAssumption
     DEF Init, MtxInit, OwnersInv, CountsInv, TakenInv, Owns
<1>2. Inv /\ OwnersInv /\ [Next]_vars => OwnersInv'
  <2> SUFFICES ASSUME Inv, OwnersInv, [Next]_vars PROVE OwnersInv'
    OBVIOUS
  <2>1. CASE Next
    BY <2>1, OwnersStep DEF Next
  <2>2. CASE UNCHANGED vars
    <3>1. UNCHANGED <<mtx, live, owner, count, pc, kept>>
      BY <2>2 DEF vars, mtxVars
    <3>2. QED
      BY <3>1 DEF OwnersInv, CountsInv, TakenInv, Owns
  <2>3. QED
    BY <2>1, <2>2
<1>3. Inv /\ OwnersInv => OwnersKnown
  BY DEF Inv, PrintingOwns, OwnersInv, TakenInv, OwnersKnown
<1>4. QED
  BY <1>1, <1>2, <1>3, InvAlways, PTL DEF Spec

-----------------------------------------------------------------------------
(* A print.                                                                *)

\* Where a print did not begin to show its message yet.
Before == MtxLabels \union {"mode", "idle", "gone"}

\* The locals of a print that are the same everywhere in its loop: what was
\* converted is inside of the message, what was written inside of the chunk.
PlaceInv(t) ==
    /\ pc[t] \in Before =>
         i[t] = 0 /\ narrow_len[t] = 0 /\ written[t] = 0 /\ ~spoilt[t]
    /\ pc[t] = "chunk" => narrow_len[t] = 0 /\ written[t] = 0
    /\ pc[t] \in {"chunk", "write"} => i[t] <= Len(msg[t])
    /\ pc[t] = "write" => /\ i[t] + narrow_len[t] <= Len(msg[t])
                          /\ written[t] <= Len(Chunk(t))

PlacesInv == TypeOK /\ \A t \in Threads : PlaceInv(t)

\* A step of t is one to its own locals.
OthersKeep(t) ==
    \A u \in Threads : u # t =>
        /\ pc'[u] = pc[u] /\ msg'[u] = msg[u] /\ print'[u] = print[u]
        /\ i'[u] = i[u] /\ narrow_len'[u] = narrow_len[u] /\ written'[u] = written[u]
        /\ spoilt'[u] = spoilt[u] /\ status'[u] = status[u]

LEMMA StepsAreOwn ==
  ASSUME TypeOK, NEW t \in Threads, w_print(t) \/ Step(t) \/ Leave(t)
  PROVE  OthersKeep(t)
<1> USE DEF OthersKeep, TypeOK, GoTo, locals
<1>1. CASE w_print(t)
  BY <1>1 DEF w_print
<1>2. CASE Lock(t)
  BY <1>2 DEF Lock, TestHandle, Publish, CloseOwn, Wait, Failed
<1>3. CASE LockFailed(t)
  BY <1>3 DEF LockFailed, Return
<1>4. CASE Unlock(t)
  BY <1>4 DEF Unlock, Return
<1>5. CASE Leave(t)
  BY <1>5 DEF Leave
<1>6. CASE ConsoleMode(t)
  BY <1>6 DEF ConsoleMode, Return
<1>7. CASE NextChunk(t)
  BY <1>7 DEF NextChunk, Exit
<1>8. CASE PrintDone(t)
  BY <1>8 DEF PrintDone, Exit
<1>9. CASE Write(t)
  BY <1>9 DEF Write
<1>10. CASE WriteFails(t)
  BY <1>10 DEF WriteFails, Exit
<1>11. CASE ChunkDone(t)
  BY <1>11 DEF ChunkDone
<1>12. QED
  BY <1>1, <1>2, <1>3, <1>4, <1>5, <1>6, <1>7, <1>8, <1>9, <1>10, <1>11 DEF Step

\* What a message is, and what is cut from it.
LEMMA MessageParts ==
  ASSUME PlacesInv, NEW t \in Threads, pc[t] \notin {"idle", "gone"}
  PROVE  /\ msg[t] \in Messages /\ msg[t] # NoMessage
         /\ msg[t] \in Seq(ByteKinds)
         /\ Complete(msg[t])
         /\ Chunk(t) \in Seq(Nat)
         /\ i[t] <= Len(msg[t]) =>
              LET n == wp_platform_break_str(msg[t], i[t], BufLen - 1)
              IN  n \in Nat /\ i[t] + n <= Len(msg[t])
<1>1. msg[t] \in Messages /\ msg[t] # NoMessage /\ i[t] \in Nat /\ narrow_len[t] \in Nat
  BY DEF PlacesInv, TypeOK
<1>2. msg[t] \in Seq(ByteKinds) /\ Complete(msg[t]) /\ BufLen - 1 \in Nat
  BY <1>1, WinConsoleAssumption DEF ByteKinds
<1>3. Chunk(t) \in Seq(Nat)
  BY <1>1, WideStep DEF Chunk
<1>4. QED
  BY <1>1, <1>2, <1>3, ChunkInside

LEMMA PlacesStep ==
  ASSUME PlacesInv, MtxTypeOK', NEW t \in Threads, w_print(t) \/ Step(t) \/ Leave(t)
  PROVE  PlacesInv'
<1>1. OthersKeep(t)
  BY StepsAreOwn DEF PlacesInv
<1>2. TypeOK /\ \A u \in Threads : PlaceInv(u)
  BY DEF PlacesInv
<1> DEFINE Shape ==
      /\ pc' \in [Threads -> Labels]
      /\ stream' \in {"console", "file"}
      /\ initialized' \in BOOLEAN
      /\ msg' \in [Threads -> Messages \union {NoMessage}]
      /\ print' \in [Threads -> Nat]
      /\ kept' \subseteq Threads
      /\ i' \in [Threads -> Nat]
      /\ narrow_len' \in [Threads -> Nat]
      /\ written' \in [Threads -> Nat]
      /\ spoilt' \in [Threads -> BOOLEAN]
      /\ status' \in [Threads -> {"pending", "success", "failure"}]
           Own ==
      /\ status'[t] # "pending" <=> pc'[t] \in {"exit", "idle", "gone"}
      /\ msg'[t] = NoMessage <=> pc'[t] \in {"idle", "gone"}
      /\ PlaceInv(t)'
<1>3. Shape /\ Own
  <2> USE <1>2 DEF TypeOK, Labels, MtxLabels, Printing, GoTo, Exit, Return, locals,
        PlaceInv, Before
  <2>1. CASE w_print(t)
    BY <2>1, WinConsoleAssumption DEF w_print
  <2>2. CASE Lock(t)
    <3>1. UNCHANGED <<stream, initialized, kept, locals>>
          /\ pc[t] \in {"lock", "publish", "close", "wait"}
      BY <2>2 DEF Lock, TestHandle, Publish, CloseOwn, Wait
    <3>2. \E label \in {"publish", "close", "wait", "mode", "lock_failed"} :
             pc' = [pc EXCEPT ![t] = label]
      BY <2>2 DEF Lock, TestHandle, Publish, CloseOwn, Wait, Failed
    <3>3. QED
      BY <3>1, <3>2
  <2>3. CASE LockFailed(t)
    BY <2>3 DEF LockFailed
  <2>4. CASE Unlock(t)
    <3>1. status[t] \in {"success", "failure"}
      BY <2>4 DEF Unlock
    <3>2. PICK s \in {"success", "failure"} : Return(t, s)
      <4> HIDE DEF Return
      <4>1. QED
        BY <2>4, <3>1 DEF Unlock
    <3>3. kept' \subseteq Threads /\ initialized' = initialized
      <4> HIDE DEF Return
      <4>1. QED
        BY <2>4 DEF Unlock
    <3>4. QED
      BY <3>2, <3>3
  <2>5. CASE Leave(t)
    BY <2>5 DEF Leave
  <2>6. CASE ConsoleMode(t)
    <3>1. CASE initialized' = TRUE /\ GoTo(t, "chunk")
               /\ UNCHANGED <<stream, kept, locals, device>>
      <4>1. msg[t] \in Seq(ByteKinds)
        BY <2>6, MessageParts DEF ConsoleMode
      <4>2. 0 <= Len(msg[t])
        BY <4>1
      <4>3. QED
        BY <2>6, <3>1, <4>2 DEF ConsoleMode
    <3>2. CASE kept' = kept \union {t} /\ Return(t, "failure") /\ UNCHANGED initialized
      BY <2>6, <3>2 DEF ConsoleMode
    <3>3. QED
      BY <2>6, <3>1, <3>2 DEF ConsoleMode
  <2>7. CASE NextChunk(t)
    <3> DEFINE n == wp_platform_break_str(msg[t], i[t], BufLen - 1)
    <3>1. /\ pc[t] = "chunk"
          /\ narrow_len' = [narrow_len EXCEPT ![t] = n]
          /\ i' = i /\ written' = written /\ msg' = msg /\ print' = print
          /\ spoilt' = spoilt /\ kept' = kept /\ stream' = stream
          /\ initialized' = initialized
          /\ \/ GoTo(t, "write") /\ status' = status
             \/ Exit(t, "failure")
      BY <2>7 DEF NextChunk
    <3>2. i[t] <= Len(msg[t]) /\ written[t] = 0
      BY <3>1
    <3>3. n \in Nat /\ i[t] + n <= Len(msg[t])
      BY <3>1, <3>2, MessageParts
    <3> HIDE DEF n
    <3>4. Shape
      BY <3>1, <3>3
    <3>5. 0 <= Len(Chunk(t))'
      <4>1. Chunk(t)' = Wide(msg[t], i[t], i[t] + n)
        BY <3>1, <3>3 DEF Chunk
      <4>2. i[t] \in Nat
        OBVIOUS
      <4>3. Wide(msg[t], i[t], i[t] + n) \in Seq(Nat)
        BY <3>3, <4>2, WideStep
      <4>4. QED
        BY <4>1, <4>3
    <3>6. QED
      BY <3>1, <3>2, <3>3, <3>4, <3>5
  <2>8. CASE PrintDone(t)
    BY <2>8 DEF PrintDone
  <2>9. CASE Write(t)
    <3>1. /\ pc[t] = "write" /\ written[t] < Len(Chunk(t))
          /\ UNCHANGED <<pc, stream, initialized, kept, msg, print, i, narrow_len, status>>
      BY <2>9 DEF Write
    <3>2. PICK n \in 1 .. (Len(Chunk(t)) - written[t]) :
            /\ written' = [written EXCEPT ![t] = @ + n]
            /\ spoilt' = [spoilt EXCEPT ![t] = @ \/ (stream = "file" /\ written[t] > 0)]
      BY <2>9 DEF Write
    <3>3. Chunk(t) \in Seq(Nat) /\ Chunk(t)' = Chunk(t)
      BY <3>1, MessageParts DEF Chunk
    <3>4. Len(Chunk(t)) \in Nat /\ written[t] \in Nat
      BY <3>3
    <3>5. written[t] + n \in Nat /\ written[t] + n <= Len(Chunk(t))
      BY <3>2, <3>4
    <3>6. Shape
      BY <3>1, <3>2, <3>5
    <3>7. QED
      BY <3>1, <3>2, <3>3, <3>5, <3>6
  <2>10. CASE WriteFails(t)
    BY <2>10 DEF WriteFails
  <2>11. CASE ChunkDone(t)
    BY <2>11 DEF ChunkDone
  <2>12. QED
    BY <2>1, <2>2, <2>3, <2>4, <2>5, <2>6, <2>7, <2>8, <2>9, <2>10, <2>11 DEF Step
<1>4. TypeOK'
  <2>1. ASSUME NEW u \in Threads
        PROVE  /\ status'[u] # "pending" <=> pc'[u] \in {"exit", "idle", "gone"}
               /\ msg'[u] = NoMessage <=> pc'[u] \in {"idle", "gone"}
    BY <1>1, <1>2, <1>3 DEF OthersKeep, TypeOK
  <2>2. QED
    BY <1>3, <2>1 DEF TypeOK, Labels
<1>5. ASSUME NEW u \in Threads PROVE PlaceInv(u)'
  BY <1>1, <1>2, <1>3 DEF OthersKeep, PlaceInv, Chunk
<1>6. QED
  BY <1>4, <1>5 DEF PlacesInv

LEMMA PlacesInvAlways == Spec => []PlacesInv
<1>1. Init => PlacesInv
  <2>1. ASSUME Init PROVE TypeOK
    <3>1. MtxTypeOK
      BY <2>1, MtxInitInv DEF Init
    <3>2. stream \in {"console", "file"}
      BY <2>1, WinConsoleAssumption DEF Init
    <3>3. QED
      BY <2>1, <3>1, <3>2 DEF Init, TypeOK
  <2>2. ASSUME Init, NEW t \in Threads PROVE PlaceInv(t)
    BY <2>2 DEF Init, PlaceInv
  <2>3. QED
    BY <2>1, <2>2 DEF PlacesInv
<1>2. PlacesInv /\ Inv' /\ [Next]_vars => PlacesInv'
  <2> SUFFICES ASSUME PlacesInv, Inv', [Next]_vars PROVE PlacesInv'
    OBVIOUS
  <2>1. MtxTypeOK'
    BY DEF Inv
  <2>2. CASE Next
    BY <2>1, <2>2, PlacesStep DEF Next
  <2>3. CASE UNCHANGED vars
    <3>1. TypeOK'
      BY <2>1, <2>3 DEF PlacesInv, TypeOK, vars, locals
    <3>2. ASSUME NEW t \in Threads PROVE PlaceInv(t)'
      BY <2>3 DEF PlacesInv, PlaceInv, Chunk, vars, locals
    <3>3. QED
      BY <3>1, <3>2 DEF PlacesInv
  <2>4. QED
    BY <2>2, <2>3
<1>3. QED
  BY <1>1, <1>2, InvAlways, PTL DEF Spec

(* The variables keep their types in every print of complete messages,     *)
(* however long they are and whichever calls to the system fail: a chunk   *)
(* never ends behind its message (platform_windows.c:65-151, 421-469).     *)
THEOREM TypeOKAlways == Spec => []TypeOK
<1>1. PlacesInv => TypeOK
  BY DEF PlacesInv
<1>2. QED
  BY <1>1, PlacesInvAlways, PTL

-----------------------------------------------------------------------------
(* What comes out.                                                         *)

\* A character on the device, with its print.
Cells == (Threads \X Nat) \X Int

\* The message that a thread is writing is the last one on the device.
DeviceInv ==
    /\ device \in Seq(Cells)
    /\ \A t \in Threads :
         pc[t] \in {"chunk", "write"} /\ Shown(t) > 0 =>
            Len(device) > 0 /\ device[Len(device)][1] = <<t, print[t]>>

\* What a write adds.
Output(t, n) == [k \in 1 .. n |-> <<<<t, print[t]>>, InBuf(t, Place(t) + k)>>]

LEMMA OutputType ==
  ASSUME PlacesInv, NEW t \in Threads, pc[t] = "write", NEW n \in Nat
  PROVE  /\ Output(t, n) \in Seq(Cells)
         /\ Len(Output(t, n)) = n
         /\ \A k \in 1 .. n : Output(t, n)[k][1] = <<t, print[t]>>
<1>1. Chunk(t) \in Seq(Nat)
  BY MessageParts
<1>2. BufLen \in Nat /\ print[t] \in Nat
  BY WinConsoleAssumption DEF PlacesInv, TypeOK
<1>3. Place(t) \in Nat
  BY DEF PlacesInv, TypeOK, Place
<1>4. ASSUME NEW k \in 1 .. n PROVE InBuf(t, Place(t) + k) \in Int
  <2>1. Place(t) + k \in Nat /\ Place(t) + k >= 1
    BY <1>3
  <2> DEFINE p == Place(t) + k
  <2> HIDE DEF p
  <2>2. p \in Nat /\ p >= 1
    BY <2>1 DEF p
  <2>3. InBuf(t, p) \in Int
    <3>1. CASE p <= Len(Chunk(t))
      <4>1. Chunk(t)[p] \in Nat
        BY <1>1, <2>2, <3>1, ElementOfSeq
      <4>2. QED
        BY <3>1, <4>1 DEF InBuf
    <3>2. CASE ~(p <= Len(Chunk(t)))
      BY <3>2 DEF InBuf, NullChar, Outside
    <3>3. QED
      BY <3>1, <3>2
  <2>4. QED
    BY <2>3 DEF p
<1>5. Output(t, n) \in [1 .. n -> Cells]
  BY <1>2, <1>4 DEF Output, Cells
<1>6. \A k \in 1 .. n : Output(t, n)[k][1] = <<t, print[t]>>
  BY DEF Output
<1> HIDE DEF Output
<1>7. QED
  BY <1>5, <1>6

LEMMA Appended ==
  ASSUME NEW S, NEW old \in Seq(S), NEW new \in Seq(S), new # <<>>
  PROVE  /\ old \o new \in Seq(S)
         /\ Len(old \o new) > Len(old)
         /\ Len(old \o new) = Len(old) + Len(new)
         /\ SubSeq(old \o new, 1, Len(old)) = old
         /\ \A k \in (Len(old) + 1) .. Len(old \o new) :
              k - Len(old) \in 1 .. Len(new) /\ (old \o new)[k] = new[k - Len(old)]
<1>1. /\ Len(old) \in Nat /\ Len(new) \in Nat /\ Len(new) > 0
      /\ old \o new \in Seq(S)
      /\ Len(old \o new) = Len(old) + Len(new)
  BY EmptySeq, ConcatProperties
<1>2. SubSeq(old \o new, 1, Len(old)) = old
  <2>1. CASE Len(old) = 0
    <3>1. old = <<>>
      BY <2>1, EmptySeq
    <3>2. SubSeq(old \o new, 1, 0) = <<>>
      BY <1>1
    <3>3. QED
      BY <2>1, <3>1, <3>2
  <2>2. CASE Len(old) # 0
    <3>1. 1 \in 1 .. Len(old) /\ Len(old) \in 1 .. Len(old)
      BY <1>1, <2>2
    <3>2. SubSeq(old \o new, 1, Len(old)) = SubSeq(old, 1, Len(old))
      BY <3>1, SubSeqOfConcat1
    <3>3. QED
      BY <3>2, SubSeqFull
  <2>3. QED
    BY <2>1, <2>2
<1>3. ASSUME NEW k \in (Len(old) + 1) .. Len(old \o new)
      PROVE  k - Len(old) \in 1 .. Len(new) /\ (old \o new)[k] = new[k - Len(old)]
  <2>1. k \in 1 .. (Len(old) + Len(new)) /\ ~(k <= Len(old)) /\ k - Len(old) \in 1 .. Len(new)
    BY <1>1
  <2>2. (old \o new)[k] = IF k <= Len(old) THEN old[k] ELSE new[k - Len(old)]
    BY <2>1, ConcatProperties
  <2>3. QED
    BY <2>1, <2>2
<1>4. QED
  BY <1>1, <1>2, <1>3

\* What is shown of a message that has just begun, and after a chunk.
LEMMA ShownChunk ==
  ASSUME PlacesInv, NEW t \in Threads, pc[t] = "write"
  PROVE  /\ Wide(msg[t], 0, i[t]) \in Seq(Nat)
         /\ Wide(msg[t], 0, i[t] + narrow_len[t]) = Wide(msg[t], 0, i[t]) \o Chunk(t)
         /\ Len(Wide(msg[t], 0, i[t] + narrow_len[t])) =
              Len(Wide(msg[t], 0, i[t])) + Len(Chunk(t))
<1>1. i[t] \in Nat /\ narrow_len[t] \in Nat
  BY DEF PlacesInv, TypeOK
<1>2. Wide(msg[t], 0, i[t]) \in Seq(Nat)
  BY <1>1, WideTyped
<1>3. Chunk(t) \in Seq(Nat)
  BY MessageParts
<1>4. Wide(msg[t], 0, i[t] + narrow_len[t]) = Wide(msg[t], 0, i[t]) \o Chunk(t)
  BY <1>1, WideFromStart DEF Chunk
<1>5. QED
  BY <1>2, <1>3, <1>4, ConcatProperties

LEMMA ShownBefore ==
  ASSUME PlacesInv, NEW t \in Threads, pc[t] \in Before
  PROVE  Shown(t) = 0
<1>1. i[t] = 0 /\ written[t] = 0
  BY DEF PlacesInv, PlaceInv
<1>2. Wide(msg[t], 0, 0) = <<>>
  BY WideTyped, 0 \in Nat
<1>3. QED
  BY <1>1, <1>2 DEF Shown

LEMMA ShownKept ==
  ASSUME NEW u \in Threads,
         msg'[u] = msg[u], i'[u] = i[u], written'[u] = written[u]
  PROVE  Shown(u)' = Shown(u)
BY DEF Shown

\* To go on to the next chunk shows nothing.
LEMMA ShownByChunk ==
  ASSUME PlacesInv, NEW t \in Threads, ChunkDone(t)
  PROVE  Shown(t)' = Shown(t)
<1>1. /\ pc[t] = "write" /\ written[t] = Len(Chunk(t))
      /\ msg' = msg
      /\ i'[t] = i[t] + narrow_len[t] /\ written'[t] = 0
  BY DEF ChunkDone, PlacesInv, TypeOK
<1>2. msg[t] # NoMessage
  BY <1>1, MessageParts
<1>3. Shown(t)' = Len(Wide(msg[t], 0, i[t] + narrow_len[t])) + 0
  BY <1>1, <1>2 DEF Shown
<1>4. Shown(t) = Len(Wide(msg[t], 0, i[t])) + Len(Chunk(t))
  BY <1>1, <1>2 DEF Shown
<1>5. Len(Wide(msg[t], 0, i[t])) \in Nat /\ Len(Chunk(t)) \in Nat
  BY <1>1, ShownChunk, MessageParts
<1>6. QED
  BY <1>1, <1>3, <1>4, <1>5, ShownChunk

\* Only a write changes the device.
LEMMA DeviceKept ==
  ASSUME NEW t \in Threads, w_print(t) \/ Step(t) \/ Leave(t), ~Write(t)
  PROVE  device' = device
BY DEF Step, w_print, Lock, LockFailed, Unlock, Leave, ConsoleMode, NextChunk, PrintDone,
   WriteFails, ChunkDone, Return

\* The output of a write, after what was on the device.
LEMMA WriteAppends ==
  ASSUME PlacesInv, DeviceInv, NEW t \in Threads, pc[t] = "write",
         NEW n \in Nat, n > 0, device' = device \o Output(t, n)
  PROVE  /\ device' \in Seq(Cells)
         /\ Len(device') > Len(device)
         /\ Len(device) \in Nat /\ Len(device') \in Nat
         /\ Len(device') - Len(device) = n
         /\ SubSeq(device', 1, Len(device)) = device
         /\ \A k \in (Len(device) + 1) .. Len(device') : device'[k][1] = <<t, print[t]>>
<1>1. PICK cells : cells = device'
  OBVIOUS
<1>2. /\ Output(t, n) \in Seq(Cells) /\ Len(Output(t, n)) = n
      /\ \A k \in 1 .. n : Output(t, n)[k][1] = <<t, print[t]>>
  BY OutputType
<1>3. device \in Seq(Cells) /\ Output(t, n) # <<>>
  BY <1>2, EmptySeq DEF DeviceInv
<1> DEFINE new == Output(t, n)
<1> HIDE DEF new
<1>4. /\ new \in Seq(Cells) /\ Len(new) = n
      /\ \A k \in 1 .. n : new[k][1] = <<t, print[t]>>
      /\ cells = device \o new /\ device \in Seq(Cells) /\ new # <<>>
  BY <1>1, <1>2, <1>3 DEF new
<1>5. /\ cells \in Seq(Cells)
      /\ Len(cells) > Len(device)
      /\ Len(cells) = Len(device) + n
      /\ SubSeq(cells, 1, Len(device)) = device
      /\ \A k \in (Len(device) + 1) .. Len(cells) :
           k - Len(device) \in 1 .. Len(new) /\ cells[k] = new[k - Len(device)]
  BY <1>4, Appended
<1>6. Len(device) \in Nat /\ Len(cells) \in Nat /\ Len(cells) - Len(device) = n
  BY <1>4, <1>5
<1>7. \A k \in (Len(device) + 1) .. Len(cells) : cells[k][1] = <<t, print[t]>>
  BY <1>4, <1>5
<1>8. QED
  BY <1>1, <1>5, <1>6, <1>7

LEMMA WriteOutput ==
  ASSUME PlacesInv, NEW t \in Threads, Write(t)
  PROVE  /\ pc[t] = "write" /\ written[t] < Len(Chunk(t))
         /\ Len(Chunk(t)) \in Nat /\ written[t] \in Nat
         /\ UNCHANGED <<pc, stream, msg, print, i, narrow_len, status>>
         /\ \E n \in 1 .. (Len(Chunk(t)) - written[t]) :
              /\ device' = device \o Output(t, n)
              /\ written' = [written EXCEPT ![t] = @ + n]
              /\ spoilt' = [spoilt EXCEPT ![t] = @ \/ (stream = "file" /\ written[t] > 0)]
<1>1. pc[t] = "write"
  BY DEF Write
<1>2. Len(Chunk(t)) \in Nat /\ written[t] \in Nat
  BY <1>1, MessageParts DEF PlacesInv, TypeOK
<1>3. QED
  BY <1>1, <1>2 DEF Write, Output

LEMMA DeviceStep ==
  ASSUME Inv, PlacesInv, PlacesInv', DeviceInv,
         NEW t \in Threads, w_print(t) \/ Step(t) \/ Leave(t)
  PROVE  DeviceInv'
<1>1. OthersKeep(t)
  BY StepsAreOwn DEF PlacesInv
<1>2. ASSUME NEW u \in Threads, u # t PROVE Shown(u)' = Shown(u)
  BY <1>1, <1>2, ShownKept DEF OthersKeep
<1>3. CASE Write(t)
  <2>1. /\ pc[t] = "write" /\ written[t] < Len(Chunk(t))
        /\ Len(Chunk(t)) \in Nat /\ written[t] \in Nat
        /\ UNCHANGED <<pc, stream, msg, print, i, narrow_len, status>>
    BY <1>3, WriteOutput
  <2>2. PICK n \in 1 .. (Len(Chunk(t)) - written[t]) : device' = device \o Output(t, n)
    BY <1>3, WriteOutput
  <2>3. n \in Nat /\ n > 0
    BY <2>1
  <2>4. /\ device' \in Seq(Cells)
        /\ Len(device') > Len(device)
        /\ Len(device) \in Nat /\ Len(device') \in Nat
        /\ \A k \in (Len(device) + 1) .. Len(device') : device'[k][1] = <<t, print[t]>>
    BY <2>1, <2>2, <2>3, WriteAppends
  <2>5. Len(device') > 0 /\ device'[Len(device')][1] = <<t, print'[t]>>
    <3>1. PICK last : last = Len(device')
      OBVIOUS
    <3>2. last \in (Len(device) + 1) .. last /\ last > 0
      BY <2>4, <3>1
    <3>3. QED
      BY <2>1, <2>4, <3>1, <3>2
  <2>6. ASSUME NEW u \in Threads, pc'[u] \in {"chunk", "write"} PROVE u = t
    <3>1. pc[u] \in Printing /\ pc[t] \in Printing
      BY <2>1, <2>6 DEF Printing
    <3>2. QED
      BY <3>1 DEF Inv, PrintingOwns, Owns
  <2>7. QED
    BY <2>4, <2>5, <2>6 DEF DeviceInv
<1>4. CASE ~Write(t)
  <2>1. device' = device
    BY <1>4, DeviceKept
  <2>2. ASSUME NEW u \in Threads, pc'[u] \in {"chunk", "write"}, Shown(u)' > 0
        PROVE  pc[u] \in {"chunk", "write"} /\ Shown(u) > 0 /\ print'[u] = print[u]
    <3>1. CASE u # t
      BY <1>1, <1>2, <2>2, <3>1 DEF OthersKeep
    <3>2. CASE u = t
      <4>1. pc \in [Threads -> Labels]
        BY DEF Inv
      <4>2. ConsoleMode(t) \/ NextChunk(t) \/ ChunkDone(t)
        BY <1>4, <2>2, <3>2, <4>1 DEF Step, w_print, Lock, TestHandle, Publish, CloseOwn, Wait,
           Failed, LockFailed, Unlock, Leave, PrintDone, WriteFails, Return, Exit, GoTo
      <4>3. CASE ConsoleMode(t)
        <5>1. pc[t] = "mode" /\ i' = i /\ written' = written /\ msg' = msg
          BY <2>2, <3>2, <4>1, <4>3 DEF ConsoleMode, Return, GoTo, locals
        <5>2. Shown(t)' = 0
          BY <5>1, ShownBefore, ShownKept DEF Before
        <5>3. QED
          BY <2>2, <3>2, <5>2
      <4>4. CASE NextChunk(t)
        BY <2>2, <3>2, <4>4, ShownKept DEF NextChunk
      <4>5. CASE ChunkDone(t)
        BY <2>2, <3>2, <4>5, ShownByChunk DEF ChunkDone
      <4>6. QED
        BY <4>2, <4>3, <4>4, <4>5
    <3>3. QED
      BY <3>1, <3>2
  <2>3. QED
    BY <2>1, <2>2 DEF DeviceInv
<1>5. QED
  BY <1>3, <1>4

LEMMA DeviceInvAlways == Spec => []DeviceInv
<1>1. Init => DeviceInv
  BY EmptySeq DEF Init, DeviceInv
<1>2. Inv /\ PlacesInv /\ PlacesInv' /\ DeviceInv /\ [Next]_vars => DeviceInv'
  <2> SUFFICES ASSUME Inv, PlacesInv, PlacesInv', DeviceInv, [Next]_vars
               PROVE  DeviceInv'
    OBVIOUS
  <2>1. CASE Next
    BY <2>1, DeviceStep DEF Next
  <2>2. CASE UNCHANGED vars
    BY <2>2 DEF vars, locals, DeviceInv, Shown
  <2>3. QED
    BY <2>1, <2>2
<1>3. QED
  BY <1>1, <1>2, InvAlways, PlacesInvAlways, PTL DEF Spec

-----------------------------------------------------------------------------
(* The terminal.                                                           *)

ShownAll == [t \in Threads |-> Shown(t)]

AllChars == [m \in Messages |-> Wide(m, 0, Len(m))]

LEMMA ShownAllStep ==
  ASSUME NEW t \in Threads, OthersKeep(t)
  PROVE  ShownAll' = [ShownAll EXCEPT ![t] = Shown(t)']
<1>1. ASSUME NEW u \in Threads, u # t PROVE Shown(u)' = Shown(u)
  BY <1>1, ShownKept DEF OthersKeep
<1>2. QED
  BY <1>1 DEF ShownAll

\* The print of t shows nothing else.
LEMMA ShownAllKept ==
  ASSUME NEW t \in Threads, OthersKeep(t), Shown(t)' = Shown(t)
  PROVE  UNCHANGED ShownAll
BY ShownAllStep DEF ShownAll

\* The characters of a message: those shown, then the rest of the chunk.
LEMMA NextChars ==
  ASSUME PlacesInv, NEW t \in Threads, pc[t] = "write"
  PROVE  LET chars == Wide(msg[t], 0, Len(msg[t]))
             shown == Len(Wide(msg[t], 0, i[t]))
         IN  /\ Len(chars) \in Nat /\ shown \in Nat
             /\ shown + Len(Chunk(t)) <= Len(chars)
             /\ \A k \in 1 .. Len(Chunk(t)) : chars[shown + k] = Chunk(t)[k]
<1> DEFINE Former == Wide(msg[t], 0, i[t])
           middle == i[t] + narrow_len[t]
           Both == Wide(msg[t], 0, middle)
           left == Len(msg[t]) - middle
           Rest == Wide(msg[t], middle, middle + left)
           Chars == Wide(msg[t], 0, Len(msg[t]))
<1>1. Former \in Seq(Nat) /\ Both = Former \o Chunk(t) /\ Chunk(t) \in Seq(Nat)
  BY ShownChunk, MessageParts
<1>2. middle \in Nat /\ left \in Nat /\ middle + left = Len(msg[t])
  <2>1. Len(msg[t]) \in Nat
    BY MessageParts
  <2>2. i[t] \in Nat /\ narrow_len[t] \in Nat /\ middle <= Len(msg[t])
    BY DEF PlacesInv, TypeOK, PlaceInv
  <2>3. QED
    BY <2>1, <2>2
<1> HIDE DEF middle, left
<1>3. Rest \in Seq(Nat)
  BY <1>2, WideStep
<1>4. Chars = Both \o Rest
  <2>1. Wide(msg[t], 0, middle + left) = Wide(msg[t], 0, middle) \o Wide(msg[t], middle, middle + left)
    BY <1>2, WideFromStart
  <2>2. QED
    BY <1>2, <2>1
<1> DEFINE C == Chunk(t)
<1> HIDE DEF Former, Both, Rest, Chars, C
<1>5. /\ Former \in Seq(Nat) /\ C \in Seq(Nat) /\ Rest \in Seq(Nat)
      /\ Both = Former \o C /\ Chars = Both \o Rest
  BY <1>1, <1>3, <1>4 DEF C
<1>6. /\ Both \in Seq(Nat) /\ Len(Both) = Len(Former) + Len(C)
      /\ \A k \in 1 .. Len(Former) + Len(C) :
           Both[k] = IF k <= Len(Former) THEN Former[k] ELSE C[k - Len(Former)]
  BY <1>5, ConcatProperties
<1>7. /\ Chars \in Seq(Nat) /\ Len(Chars) = Len(Both) + Len(Rest)
      /\ \A k \in 1 .. Len(Both) + Len(Rest) :
           Chars[k] = IF k <= Len(Both) THEN Both[k] ELSE Rest[k - Len(Both)]
  BY <1>5, <1>6, ConcatProperties
<1>8. Len(Former) \in Nat /\ Len(C) \in Nat /\ Len(Rest) \in Nat
  BY <1>5
<1>9. Len(Chars) \in Nat /\ Len(Former) + Len(C) <= Len(Chars)
  BY <1>6, <1>7, <1>8
<1>10. ASSUME NEW k \in 1 .. Len(C) PROVE Chars[Len(Former) + k] = C[k]
  <2> DEFINE p == Len(Former) + k
  <2>1. /\ p \in 1 .. Len(Former) + Len(C) /\ p \in 1 .. Len(Both) + Len(Rest)
        /\ p <= Len(Both) /\ ~(p <= Len(Former)) /\ p - Len(Former) = k
    BY <1>6, <1>8
  <2> HIDE DEF p
  <2>2. Chars[p] = Both[p] /\ Both[p] = C[p - Len(Former)]
    BY <1>6, <1>7, <2>1
  <2>3. QED
    BY <2>1, <2>2 DEF p
<1>11. QED
  BY <1>8, <1>9, <1>10 DEF Former, Chars, C

LEMMA WriteShows ==
  ASSUME Inv, PlacesInv, DeviceInv, NEW t \in Threads, Write(t)
  PROVE  Device!Show(t) \/ Device!ShowSpoilt(t)
<1>1. /\ pc[t] = "write" /\ written[t] < Len(Chunk(t))
      /\ Len(Chunk(t)) \in Nat /\ written[t] \in Nat
      /\ UNCHANGED <<pc, stream, msg, print, i, narrow_len, status>>
  BY WriteOutput
<1>2. PICK n \in 1 .. (Len(Chunk(t)) - written[t]) :
        /\ device' = device \o Output(t, n)
        /\ written' = [written EXCEPT ![t] = @ + n]
        /\ spoilt' = [spoilt EXCEPT ![t] = @ \/ (stream = "file" /\ written[t] > 0)]
  BY WriteOutput
<1>3. n \in Nat /\ n > 0
  BY <1>1
<1>4. msg[t] \in Messages /\ msg[t] # NoMessage
  BY <1>1, MessageParts
<1>5. status[t] = "pending"
  BY <1>1 DEF PlacesInv, TypeOK
<1> DEFINE front == Len(Wide(msg[t], 0, i[t]))
           chars == Wide(msg[t], 0, Len(msg[t]))
<1>6. /\ Len(chars) \in Nat /\ front \in Nat
      /\ front + Len(Chunk(t)) <= Len(chars)
      /\ \A k \in 1 .. Len(Chunk(t)) : chars[front + k] = Chunk(t)[k]
  BY <1>1, NextChars
<1>7. Shown(t) = front + written[t] /\ ShownAll[t] = front + written[t]
  BY <1>4 DEF Shown, ShownAll
<1>8. OthersKeep(t)
  BY StepsAreOwn DEF PlacesInv, Step
<1>9. Shown(t)' = front + (written[t] + n)
  <2>1. written'[t] = written[t] + n
    BY <1>2 DEF PlacesInv, TypeOK
  <2>2. QED
    BY <1>1, <1>4, <2>1 DEF Shown
<1>10. AllChars[msg[t]] = chars
  BY <1>4 DEF AllChars
<1> HIDE DEF front, chars
<1>11. ShownAll' = [ShownAll EXCEPT ![t] = @ + n]
  <2>1. Shown(t)' = ShownAll[t] + n
    BY <1>1, <1>3, <1>6, <1>7, <1>9
  <2>2. QED
    BY <1>8, <2>1, ShownAllStep DEF ShownAll
<1>12. Device!Continues(t)
  BY <1>1, <1>7, <1>6 DEF DeviceInv, Device!Continues, ShownAll
<1>13. CASE ~spoilt[t] /\ ~(stream = "file" /\ written[t] > 0)
  <2>1. Place(t) = written[t]
    BY <1>1, <1>13 DEF Place
  <2>2. ASSUME NEW k \in 1 .. n
        PROVE  InBuf(t, Place(t) + k) = AllChars[msg[t]][ShownAll[t] + k]
    <3> DEFINE p == written[t] + k
    <3>1. /\ p \in 1 .. Len(Chunk(t)) /\ p <= Len(Chunk(t))
          /\ front + written[t] + k = front + p
      BY <1>1, <1>6
    <3> HIDE DEF p
    <3>2. InBuf(t, p) = Chunk(t)[p]
      BY <3>1 DEF InBuf
    <3>3. chars[front + p] = Chunk(t)[p]
      BY <1>6, <3>1
    <3>4. QED
      BY <1>7, <1>10, <2>1, <3>1, <3>2, <3>3 DEF p
  <2>3. Output(t, n) =
          [k \in 1 .. n |-> <<<<t, print[t]>>, AllChars[msg[t]][ShownAll[t] + k]>>]
    BY <2>2 DEF Output
  <2>4. spoilt' = spoilt
    BY <1>2, <1>13 DEF PlacesInv, TypeOK
  <2>5. n \in 1 .. (Len(AllChars[msg[t]]) - ShownAll[t])
    BY <1>1, <1>6, <1>7, <1>10
  <2>6. Device!Show(t)
    <3>1. /\ device' = device \o [k \in 1 .. n |->
                  <<<<t, print[t]>>, AllChars[msg[t]][ShownAll[t] + k]>>]
          /\ ShownAll' = [ShownAll EXCEPT ![t] = @ + n]
      BY <1>2, <1>11, <2>3
    <3>2. UNCHANGED <<msg, print, spoilt, status>>
      BY <1>1, <2>4
    <3>3. QED
      BY <1>4, <1>5, <1>12, <1>13, <2>5, <3>1, <3>2 DEF Device!Show, ShownAll, AllChars
  <2>7. QED
    BY <2>6
<1>14. CASE spoilt[t] \/ (stream = "file" /\ written[t] > 0)
  <2>1. spoilt' = [spoilt EXCEPT ![t] = TRUE]
    BY <1>2, <1>14 DEF PlacesInv, TypeOK
  <2>2. /\ Len(device') > Len(device)
        /\ Len(device') - Len(device) = n
        /\ SubSeq(device', 1, Len(device)) = device
        /\ \A k \in (Len(device) + 1) .. Len(device') : device'[k][1] = <<t, print[t]>>
    BY <1>1, <1>2, <1>3, WriteAppends
  <2>3. ShownAll' = [ShownAll EXCEPT ![t] = @ + (Len(device') - Len(device))]
    BY <1>11, <2>2
  <2>4. ShownAll'[t] <= Len(AllChars[msg[t]])
    <3>1. ShownAll'[t] = front + (written[t] + n)
      BY <1>9 DEF ShownAll
    <3>2. QED
      BY <1>1, <1>6, <1>10, <3>1
  <2>5. UNCHANGED <<msg, print, status>>
    BY <1>1
  <2>6. Device!ShowSpoilt(t)
    BY <1>4, <1>5, <1>12, <2>1, <2>2, <2>3, <2>4, <2>5
       DEF Device!ShowSpoilt, ShownAll, AllChars
  <2>7. QED
    BY <2>6
<1>15. QED
  BY <1>13, <1>14

LEMMA StepIsDeviceStep ==
  ASSUME Inv, PlacesInv, DeviceInv, NEW t \in Threads, w_print(t) \/ Step(t) \/ Leave(t)
  PROVE  Device!Next \/ UNCHANGED Device!vars
<1>1. OthersKeep(t)
  BY StepsAreOwn DEF PlacesInv
<1>2. TypeOK
  BY DEF PlacesInv
<1> DEFINE Idles == UNCHANGED <<msg, print, spoilt, status, device, ShownAll>>
<1>3. ASSUME Idles PROVE UNCHANGED Device!vars
  BY <1>3 DEF Device!vars, ShownAll
<1>4. ASSUME UNCHANGED <<stream, initialized, kept, locals, device>> \/
             UNCHANGED <<locals, device>>
      PROVE  Idles
  BY <1>4 DEF ShownAll, Shown, locals
<1>5. CASE w_print(t)
  <2>1. pc[t] = "idle" /\ msg[t] = NoMessage
    BY <1>2, <1>5 DEF w_print, TypeOK
  <2>2. PICK m \in Messages : msg' = [msg EXCEPT ![t] = m]
    BY <1>5 DEF w_print
  <2>3. i' = i /\ written' = written /\ i[t] = 0 /\ written[t] = 0
    BY <1>5, <2>1 DEF w_print, PlacesInv, PlaceInv, Before
  <2>4. Shown(t) = 0
    BY <2>1, ShownBefore DEF Before
  <2>5. Shown(t)' = 0
    <3>1. msg'[t] = m /\ m # NoMessage
      BY <1>2, <2>2, WinConsoleAssumption DEF TypeOK
    <3>2. Wide(m, 0, 0) = <<>>
      BY WideTyped, 0 \in Nat
    <3>3. Shown(t)' = Len(Wide(m, 0, 0)) + 0
      BY <2>3, <3>1 DEF Shown
    <3>4. QED
      BY <3>2, <3>3
  <2>6. UNCHANGED ShownAll
    BY <1>1, <2>4, <2>5, ShownAllKept
  <2>7. Device!Begin(t)
    BY <1>5, <2>1, <2>2, <2>6 DEF w_print, Device!Begin, ShownAll
  <2>8. QED
    BY <2>7 DEF Device!Next
<1>6. CASE Lock(t)
  BY <1>3, <1>4, <1>6 DEF Lock
<1>7. CASE Leave(t)
  BY <1>3, <1>4, <1>7 DEF Leave
\* The end of a call.
<1>8. ASSUME NEW s \in {"success", "failure"}, Return(t, s)
      PROVE  /\ ShownAll' = [ShownAll EXCEPT ![t] = 0]
             /\ msg' = [msg EXCEPT ![t] = NoMessage]
             /\ spoilt' = [spoilt EXCEPT ![t] = FALSE]
             /\ status' = [status EXCEPT ![t] = s]
             /\ UNCHANGED <<device, print>>
  <2>1. msg'[t] = NoMessage
    BY <1>2, <1>8 DEF Return, TypeOK
  <2>2. Shown(t)' = 0
    BY <2>1 DEF Shown
  <2>3. QED
    BY <1>1, <1>8, <2>2, ShownAllStep DEF Return
<1>9. ASSUME pc[t] \in {"mode", "lock_failed"}, Return(t, "failure")
      PROVE  Device!Refuse(t)
  <2>1. status[t] = "pending" /\ msg[t] # NoMessage /\ ~spoilt[t]
    BY <1>2, <1>9 DEF TypeOK, PlacesInv, PlaceInv, Before, MtxLabels
  <2>2. Shown(t) = 0
    BY <1>9, ShownBefore DEF Before, MtxLabels
  <2>3. /\ ShownAll' = [ShownAll EXCEPT ![t] = 0]
        /\ msg' = [msg EXCEPT ![t] = NoMessage]
        /\ spoilt' = [spoilt EXCEPT ![t] = FALSE]
        /\ status' = [status EXCEPT ![t] = "failure"]
        /\ UNCHANGED <<device, print>>
    BY <1>8, <1>9
  <2>4. UNCHANGED ShownAll /\ ShownAll[t] = 0
    BY <2>2, <2>3 DEF ShownAll
  <2>5. UNCHANGED spoilt
    BY <1>2, <2>1, <2>3 DEF TypeOK
  <2>6. QED
    BY <2>1, <2>3, <2>4, <2>5 DEF Device!Refuse, ShownAll
<1>10. CASE LockFailed(t)
  BY <1>9, <1>10 DEF LockFailed, Device!Next
<1>11. CASE ConsoleMode(t)
  <2>1. CASE Return(t, "failure")
    BY <1>9, <1>11, <2>1 DEF ConsoleMode, Device!Next
  <2>2. CASE UNCHANGED <<stream, kept, locals, device>>
    BY <1>3, <1>4, <2>2
  <2>3. QED
    BY <1>11, <2>1, <2>2 DEF ConsoleMode
<1>12. CASE Unlock(t)
  <2>1. pc[t] = "exit" /\ msg[t] # NoMessage /\ status[t] \in {"success", "failure"}
    BY <1>2, <1>12 DEF Unlock, TypeOK
  <2>2. PICK s \in {"success", "failure"} : Return(t, s) /\ s \in {status[t], "failure"}
    BY <1>12, <2>1 DEF Unlock
  <2>3. /\ ShownAll' = [ShownAll EXCEPT ![t] = 0]
        /\ msg' = [msg EXCEPT ![t] = NoMessage]
        /\ spoilt' = [spoilt EXCEPT ![t] = FALSE]
        /\ status' = [status EXCEPT ![t] = s]
        /\ UNCHANGED <<device, print>>
    BY <1>8, <2>2
  <2>4. UNCHANGED status \/ status' = [status EXCEPT ![t] = "failure"]
    BY <1>2, <2>2, <2>3 DEF TypeOK
  <2>5. Device!Return(t)
    BY <2>1, <2>3, <2>4 DEF Device!Return, ShownAll
  <2>6. QED
    BY <2>5 DEF Device!Next
\* The end of the loop: nothing more is shown.
<1>13. ASSUME pc[t] \in {"chunk", "write"}, NEW s \in {"success", "failure"},
              Exit(t, s), UNCHANGED <<msg, print, i, written, spoilt, device>>,
              s = "success" => ShownAll[t] = Len(AllChars[msg[t]])
       PROVE  Device!Answer(t)
  <2>1. status[t] = "pending" /\ msg[t] # NoMessage
    BY <1>2, <1>13 DEF TypeOK
  <2>2. UNCHANGED ShownAll
    BY <1>13 DEF ShownAll, Shown
  <2>3. status' = [status EXCEPT ![t] = s]
    BY <1>13 DEF Exit
  <2>4. QED
    BY <1>13, <2>1, <2>2, <2>3 DEF Device!Answer, ShownAll, AllChars
<1>14. CASE NextChunk(t)
  <2>1. CASE Exit(t, "failure")
    BY <1>13, <1>14, <2>1 DEF NextChunk, Device!Next
  <2>2. CASE UNCHANGED status
    <3>1. UNCHANGED <<msg, print, i, written, spoilt, device>>
      BY <1>14 DEF NextChunk
    <3>2. QED
      BY <1>3, <2>2, <3>1 DEF ShownAll, Shown
  <2>3. QED
    BY <1>14, <2>1, <2>2 DEF NextChunk
<1>15. CASE PrintDone(t)
  <2>1. pc[t] = "chunk" /\ At(msg[t], i[t]) = "nul"
    BY <1>15 DEF PrintDone
  <2>2. msg[t] \in Messages /\ msg[t] # NoMessage /\ msg[t] \in Seq(ByteKinds)
    BY <2>1, MessageParts
  <2>3. i[t] \in Nat /\ i[t] <= Len(msg[t]) /\ written[t] = 0
    BY <2>1 DEF PlacesInv, TypeOK, PlaceInv
  <2>4. i[t] = Len(msg[t])
    <3>1. SUFFICES ASSUME i[t] < Len(msg[t]) PROVE FALSE
      BY <2>2, <2>3
    <3>2. At(msg[t], i[t]) = msg[t][i[t] + 1]
      BY <3>1 DEF At
    <3>3. i[t] + 1 \in 1 .. Len(msg[t])
      BY <2>2, <2>3, <3>1
    <3>4. msg[t][i[t] + 1] \in ByteKinds
      BY <2>2, <3>3, ElementOfSeq
    <3>5. QED
      BY <2>1, <3>2, <3>4 DEF ByteKinds
  <2>5. ShownAll[t] = Len(AllChars[msg[t]])
    <3>1. Wide(msg[t], 0, i[t]) \in Seq(Nat)
      BY <2>3, WideTyped
    <3>2. Shown(t) = Len(Wide(msg[t], 0, i[t])) + 0
      BY <2>2, <2>3 DEF Shown
    <3>3. QED
      BY <2>2, <2>4, <3>1, <3>2 DEF ShownAll, AllChars
  <2>6. Device!Answer(t)
    BY <1>13, <1>15, <2>5 DEF PrintDone
  <2>7. QED
    BY <2>6 DEF Device!Next
<1>16. CASE Write(t)
  BY <1>16, WriteShows DEF Device!Next
<1>17. CASE WriteFails(t)
  BY <1>13, <1>17 DEF WriteFails, Device!Next
<1>18. CASE ChunkDone(t)
  <2>1. UNCHANGED ShownAll
    BY <1>1, <1>18, ShownByChunk, ShownAllKept
  <2>2. QED
    BY <1>3, <1>18, <2>1 DEF ChunkDone
<1>19. QED
  BY <1>5, <1>6, <1>7, <1>10, <1>11, <1>12, <1>14, <1>15, <1>16, <1>17, <1>18 DEF Step

(* The messages of the threads come out one after the other, whole when    *)
(* the print succeeds and cut otherwise, however many threads print what   *)
(* messages, in chunks of whatever size, and however much of a chunk the   *)
(* console or the file accepts (platform_windows.c:418-469).               *)
THEOREM ImplementsTerminalAlways == Spec => ImplementsTerminal
<1>1. Init => Device!Init
  <2> SUFFICES ASSUME Init PROVE Device!Init
    OBVIOUS
  <2>1. ShownAll = [t \in Threads |-> 0]
    BY DEF Init, ShownAll, Shown
  <2>2. QED
    BY <2>1 DEF Init, Device!Init, ShownAll
<1>2. Inv /\ PlacesInv /\ DeviceInv /\ [Next]_vars => [Device!Next]_(Device!vars)
  <2> SUFFICES ASSUME Inv, PlacesInv, DeviceInv, [Next]_vars
               PROVE  [Device!Next]_(Device!vars)
    OBVIOUS
  <2>1. CASE Next
    BY <2>1, StepIsDeviceStep DEF Next
  <2>2. CASE UNCHANGED vars
    BY <2>2 DEF vars, locals, Device!vars, Shown
  <2>3. QED
    BY <2>1, <2>2
<1>3. QED
  BY <1>1, <1>2, InvAlways, PlacesInvAlways, DeviceInvAlways, PTL
     DEF Spec, ImplementsTerminal, Device!Spec

-----------------------------------------------------------------------------
(* What such a device shows.                                               *)

\* The characters of a print are these n of those that came out, and no others.
Stretch(out, id, start, n) ==
    /\ start + n <= Len(out)
    /\ \A k \in 1 .. Len(out) : out[k][1] = id <=> start < k /\ k <= start + n

\* Every print has its own stretch of the device, one to come none yet.
Stretches ==
    \A t \in Threads, p \in Nat :
        /\ \E start, n \in Nat : Stretch(device, <<t, p>>, start, n)
        /\ p > print[t] => \A k \in 1 .. Len(device) : device[k][1] # <<t, p>>

\* What there is of the message in progress is what its thread counted.
ShownIsThere(t) ==
    msg[t] # NoMessage =>
        /\ \E start \in Nat :
             /\ Stretch(device, <<t, print[t]>>, start, ShownAll[t])
             /\ ~spoilt[t] => \A k \in 1 .. ShownAll[t] :
                                device[start + k][2] = AllChars[msg[t]][k]
        /\ status[t] = "success" => ShownAll[t] = Len(AllChars[msg[t]])

PrintsInv == Stretches /\ \A t \in Threads : ShownIsThere(t)

\* The types of what Terminal sees.
LEMMA DeviceTypes ==
  ASSUME PlacesInv, DeviceInv, NEW t \in Threads
  PROVE  /\ Len(device) \in Nat /\ print \in [Threads -> Nat]
         /\ ShownAll[t] \in Nat /\ DOMAIN ShownAll = Threads
         /\ msg \in [Threads -> Messages \union {NoMessage}]
         /\ spoilt \in [Threads -> BOOLEAN]
         /\ status \in [Threads -> {"pending", "success", "failure"}]
         /\ msg[t] # NoMessage => AllChars[msg[t]] \in Seq(Nat)
<1>1. Len(device) \in Nat
  BY DEF DeviceInv
<1>2. i[t] \in Nat /\ written[t] \in Nat
  BY DEF PlacesInv, TypeOK
<1>3. Shown(t) \in Nat
  BY <1>2, WideTyped DEF Shown
<1>4. ShownAll[t] \in Nat /\ DOMAIN ShownAll = Threads
  BY <1>3 DEF ShownAll
<1>5. ASSUME msg[t] # NoMessage PROVE AllChars[msg[t]] \in Seq(Nat)
  <2>1. msg[t] \in Messages
    BY <1>5 DEF PlacesInv, TypeOK
  <2>2. Len(msg[t]) \in Nat
    BY <2>1, WinConsoleAssumption
  <2>3. QED
    BY <2>1, <2>2, WideTyped DEF AllChars
<1>6. QED
  BY <1>1, <1>4, <1>5 DEF PlacesInv, TypeOK

\* A step that shows nothing: the message of a thread begins, or goes on with
\* as much of it shown.
LEMMA PrintsStay ==
  ASSUME PlacesInv, DeviceInv, PrintsInv, NEW t \in Threads,
         device' = device,
         \A u \in Threads : u # t => /\ msg'[u] = msg[u] /\ print'[u] = print[u]
                                     /\ spoilt'[u] = spoilt[u] /\ status'[u] = status[u]
                                     /\ ShownAll'[u] = ShownAll[u],
         \/ /\ print'[t] = print[t] + 1
            /\ ShownAll'[t] = 0 /\ status'[t] = "pending"
         \/ /\ print'[t] = print[t] /\ ShownAll'[t] = ShownAll[t]
            /\ msg'[t] = msg[t] /\ spoilt'[t] = spoilt[t]
            /\ status'[t] = "success" =>
                 status[t] = "success" \/ ShownAll[t] = Len(AllChars[msg[t]])
         \/ print'[t] = print[t] /\ msg'[t] = NoMessage
  PROVE  PrintsInv'
<1>1. /\ Len(device) \in Nat /\ \A u \in Threads : print[u] \in Nat
      /\ ShownAll[t] \in Nat
  BY DeviceTypes
<1> DEFINE all == AllChars
<1>6. AllChars' = all /\ AllChars = all
  BY DEF AllChars
<1> HIDE DEF all
<1>3. Stretches'
  <2> SUFFICES ASSUME NEW u \in Threads, NEW p \in Nat
               PROVE  /\ \E start, n \in Nat : Stretch(device', <<u, p>>, start, n)
                      /\ p > print'[u] => \A k \in 1 .. Len(device') : device'[k][1] # <<u, p>>
    BY DEF Stretches
  <2>1. p > print'[u] => p > print[u]
    BY <1>1
  <2>2. QED
    BY <2>1 DEF PrintsInv, Stretches
<1>4. ASSUME NEW u \in Threads, u # t PROVE ShownIsThere(u)'
  <2>1. ShownIsThere(u)
    BY DEF PrintsInv
  <2>2. /\ msg'[u] = msg[u] /\ print'[u] = print[u]
        /\ spoilt'[u] = spoilt[u] /\ status'[u] = status[u]
        /\ ShownAll'[u] = ShownAll[u]
    BY <1>4
  <2>3. QED
    BY <1>6, <2>1, <2>2 DEF ShownIsThere
<1>5. ShownIsThere(t)'
  <2>1. ShownIsThere(t)
    BY DEF PrintsInv
  <2>2. CASE /\ print'[t] = print[t] + 1
             /\ ShownAll'[t] = 0 /\ status'[t] = "pending"
    <3>1. print[t] + 1 \in Nat /\ print[t] + 1 > print[t]
      BY <1>1
    <3>2. \A k \in 1 .. Len(device) : device[k][1] # <<t, print[t] + 1>>
      BY <3>1 DEF PrintsInv, Stretches
    <3>3. Stretch(device, <<t, print[t] + 1>>, 0, 0)
      BY <1>1, <3>2 DEF Stretch
    <3>4. Stretch(device', <<t, print'[t]>>, 0, ShownAll'[t])
      BY <2>2, <3>3
    <3>5. QED
      BY <2>2, <3>4 DEF ShownIsThere
  <2>3. CASE /\ print'[t] = print[t] /\ ShownAll'[t] = ShownAll[t]
             /\ msg'[t] = msg[t] /\ spoilt'[t] = spoilt[t]
             /\ status'[t] = "success" =>
                  status[t] = "success" \/ ShownAll[t] = Len(AllChars[msg[t]])
    BY <1>6, <2>1, <2>3 DEF ShownIsThere
  <2>4. CASE msg'[t] = NoMessage
    BY <2>4 DEF ShownIsThere
  <2>5. QED
    BY <2>2, <2>3, <2>4
<1>8. QED
  BY <1>3, <1>4, <1>5 DEF PrintsInv

\* new is old with n more characters of one print.
Longer(new, old, len, n, own) ==
    /\ len \in Nat /\ n \in Nat /\ n > 0
    /\ Len(old) = len /\ Len(new) = len + n
    /\ \A k \in 1 .. len : new[k] = old[k]
    /\ \A k \in (len + 1) .. (len + n) : new[k][1] = own

\* The stretches of the other prints stay when characters are added to one, and
\* that one goes on when it is at the end, or begins there.
LEMMA StretchGrows ==
  ASSUME NEW new, NEW old, NEW len, NEW n, NEW own, Longer(new, old, len, n, own),
         NEW id, NEW start \in Nat, NEW m \in Nat, Stretch(old, id, start, m)
  PROVE  /\ id # own => Stretch(new, id, start, m)
         /\ id = own /\ m > 0 /\ old[len][1] = own =>
              start + m = len /\ Stretch(new, id, start, m + n)
         /\ id = own /\ m = 0 => Stretch(new, id, len, n)
<1>1. /\ start + m <= len
      /\ \A k \in 1 .. len : old[k][1] = id <=> start < k /\ k <= start + m
      /\ len \in Nat /\ n \in Nat /\ n > 0 /\ Len(new) = len + n
  BY DEF Longer, Stretch
<1>2. ASSUME NEW k \in 1 .. (len + n)
      PROVE  \/ k \in 1 .. len /\ new[k] = old[k]
             \/ k > len /\ k \in Nat /\ new[k][1] = own
  BY DEF Longer
<1>3. ASSUME id # own PROVE Stretch(new, id, start, m)
  BY <1>1, <1>2, <1>3 DEF Stretch
<1>4. ASSUME id = own, m > 0, old[len][1] = own
      PROVE  start + m = len /\ Stretch(new, id, start, m + n)
  <2>1. start + m = len
    <3>1. len \in 1 .. len
      BY <1>1, <1>4
    <3>2. QED
      BY <1>1, <1>4, <3>1
  <2>2. QED
    BY <1>1, <1>2, <1>4, <2>1 DEF Stretch
<1>5. ASSUME id = own, m = 0 PROVE Stretch(new, id, len, n)
  BY <1>1, <1>2, <1>5 DEF Stretch
<1>6. QED
  BY <1>3, <1>4, <1>5

\* A step that shows the next n characters of the message of t.
LEMMA PrintsGrow ==
  ASSUME PlacesInv, DeviceInv, PrintsInv, NEW t \in Threads,
         NEW n \in Nat, n > 0, NEW cells, device' = cells,
         Len(cells) = Len(device) + n,
         \A k \in 1 .. Len(device) : cells[k] = device[k],
         \A k \in (Len(device) + 1) .. Len(cells) : cells[k][1] = <<t, print[t]>>,
         msg[t] # NoMessage, status[t] = "pending", Device!Continues(t),
         ShownAll' = [ShownAll EXCEPT ![t] = @ + n],
         UNCHANGED <<msg, print, status>>,
         \A u \in Threads : u # t => spoilt'[u] = spoilt[u],
         ~spoilt'[t] =>
           /\ ~spoilt[t]
           /\ \A k \in 1 .. n :
                cells[Len(device) + k][2] = AllChars[msg[t]][ShownAll[t] + k]
  PROVE  PrintsInv'
<1>0. PICK len, own, all, size :
        /\ len = Len(device) /\ own = <<t, print[t]>>
        /\ all = AllChars /\ size = ShownAll[t]
  OBVIOUS
<1>1. AllChars' = all /\ AllChars = all /\ own = <<t, print'[t]>>
  BY <1>0 DEF AllChars
<1>2. /\ len \in Nat /\ size \in Nat
      /\ \A u \in Threads : print[u] \in Nat /\ ShownAll[u] \in Nat
      /\ DOMAIN ShownAll = Threads
  BY <1>0, DeviceTypes
<1>3. /\ ShownAll'[t] = size + n
      /\ \A u \in Threads : u # t => ShownAll'[u] = ShownAll[u]
  BY <1>0, <1>2
<1>4. size > 0 => device[len][1] = own
  BY <1>0 DEF Device!Continues, ShownAll
<1>5. ASSUME NEW id, NEW start \in Nat, NEW m \in Nat, Stretch(device, id, start, m)
      PROVE  /\ id # own => Stretch(cells, id, start, m)
             /\ id = own /\ m > 0 /\ device[len][1] = own =>
                  start + m = len /\ Stretch(cells, id, start, m + n)
             /\ id = own /\ m = 0 => Stretch(cells, id, len, n)
  <2>1. Longer(cells, device, len, n, own)
    BY <1>0, <1>2 DEF Longer
  <2>2. QED
    BY <1>5, <2>1, StretchGrows
<1>6. PICK start \in Nat :
        /\ Stretch(device, own, start, size)
        /\ ~spoilt[t] => \A k \in 1 .. size : device[start + k][2] = all[msg[t]][k]
  BY <1>0 DEF PrintsInv, ShownIsThere
<1>7. \E from \in Nat :
        /\ Stretch(cells, own, from, size + n)
        /\ ~spoilt'[t] => \A k \in 1 .. (size + n) :
                             cells[from + k][2] = all[msg[t]][k]
  <2>1. /\ \A k \in 1 .. len : cells[k] = device[k]
        /\ ~spoilt'[t] =>
             /\ ~spoilt[t]
             /\ \A k \in 1 .. n : cells[len + k][2] = all[msg[t]][size + k]
    BY <1>0
  <2>2. start + size <= len
    BY <1>0, <1>6 DEF Stretch
  <2>3. CASE size > 0
    <3>1. start + size = len /\ Stretch(cells, own, start, size + n)
      BY <1>2, <1>4, <1>5, <1>6, <2>3
    <3>2. ASSUME ~spoilt'[t], NEW k \in 1 .. (size + n)
          PROVE  cells[start + k][2] = all[msg[t]][k]
      <4>1. CASE k <= size
        <5>1. start + k \in 1 .. len /\ k \in 1 .. size
          BY <1>2, <3>1, <4>1
        <5>2. QED
          BY <1>6, <2>1, <3>2, <5>1
      <4>2. CASE ~(k <= size)
        <5> DEFINE d == k - size
        <5>1. d \in 1 .. n /\ start + k = len + d /\ k = size + d
          BY <1>2, <3>1, <4>2
        <5> HIDE DEF d
        <5>2. QED
          BY <2>1, <3>2, <5>1
      <4>3. QED
        BY <4>1, <4>2
    <3>3. QED
      BY <3>1, <3>2
  <2>4. CASE size = 0
    <3>1. Stretch(cells, own, len, n)
      BY <1>5, <1>6, <2>4
    <3>2. size + n = n
      BY <2>4
    <3>3. ASSUME ~spoilt'[t], NEW k \in 1 .. n
          PROVE  cells[len + k][2] = all[msg[t]][k]
      BY <2>1, <2>4, <3>3
    <3>4. QED
      BY <1>2, <3>1, <3>2, <3>3
  <2>5. QED
    BY <1>2, <2>3, <2>4
<1>8. ShownIsThere(t)'
  BY <1>1, <1>3, <1>7 DEF ShownIsThere
<1>9. ASSUME NEW u \in Threads, u # t PROVE ShownIsThere(u)'
  <2>1. /\ msg'[u] = msg[u] /\ print'[u] = print[u] /\ status'[u] = status[u]
        /\ spoilt'[u] = spoilt[u] /\ ShownAll'[u] = ShownAll[u]
    BY <1>3, <1>9
  <2>2. ShownIsThere(u)
    BY DEF PrintsInv
  <2>3. CASE msg[u] # NoMessage
    <3>0. PICK id, m : id = <<u, print[u]>> /\ m = ShownAll[u]
      OBVIOUS
    <3>1. PICK from \in Nat :
            /\ Stretch(device, id, from, m)
            /\ ~spoilt[u] => \A k \in 1 .. m : device[from + k][2] = all[msg[u]][k]
      <4>1. \E from \in Nat :
              /\ Stretch(device, <<u, print[u]>>, from, ShownAll[u])
              /\ ~spoilt[u] => \A k \in 1 .. ShownAll[u] :
                                 device[from + k][2] = AllChars[msg[u]][k]
        BY <2>2, <2>3 DEF ShownIsThere
      <4>2. QED
        BY <1>1, <3>0, <4>1
    <3>2. id # own /\ m \in Nat
      BY <1>0, <1>2, <1>9, <3>0
    <3>3. Stretch(cells, id, from, m)
      BY <1>5, <3>1, <3>2
    <3>4. ASSUME NEW k \in 1 .. m PROVE cells[from + k] = device[from + k]
      <4>1. from + m <= len
        BY <1>0, <3>1 DEF Stretch
      <4>2. from + k \in 1 .. len
        BY <1>2, <3>2, <4>1
      <4>3. QED
        BY <1>0, <4>2
    <3>5. ~spoilt'[u] => \A k \in 1 .. m : device'[from + k][2] = all[msg[u]][k]
      BY <2>1, <3>1, <3>4
    <3>6. /\ id = <<u, print'[u]>> /\ m = ShownAll'[u]
          /\ status'[u] = "success" => m = Len(AllChars'[msg'[u]])
      BY <1>1, <2>1, <2>2, <2>3, <3>0 DEF ShownIsThere
    <3>7. QED
      BY <1>1, <2>1, <3>1, <3>3, <3>5, <3>6 DEF ShownIsThere
  <2>4. CASE msg[u] = NoMessage
    BY <2>1, <2>4 DEF ShownIsThere
  <2>5. QED
    BY <2>3, <2>4
<1>10. Stretches'
  <2> SUFFICES ASSUME NEW u \in Threads, NEW p \in Nat
               PROVE  /\ \E from, m \in Nat : Stretch(cells, <<u, p>>, from, m)
                      /\ p > print'[u] => \A k \in 1 .. Len(cells) : cells[k][1] # <<u, p>>
    BY DEF Stretches
  <2>1. /\ \E from, m \in Nat : Stretch(device, <<u, p>>, from, m)
        /\ p > print[u] => \A k \in 1 .. Len(device) : device[k][1] # <<u, p>>
    BY DEF PrintsInv, Stretches
  <2>2. \E from, m \in Nat : Stretch(cells, <<u, p>>, from, m)
    <3>1. CASE <<u, p>> = own
      <4>1. size + n \in Nat
        BY <1>2
      <4>2. QED
        BY <1>7, <3>1, <4>1
    <3>2. CASE <<u, p>> # own
      BY <1>5, <2>1, <3>2
    <3>3. QED
      BY <3>1, <3>2
  <2>3. ASSUME p > print'[u], NEW k \in 1 .. Len(cells) PROVE cells[k][1] # <<u, p>>
    <3>1. <<u, p>> # own /\ p > print[u]
      BY <1>0, <1>2, <2>3
    <3>2. CASE k \in 1 .. Len(device)
      BY <2>1, <3>1, <3>2
    <3>3. CASE k \notin 1 .. Len(device)
      <4>1. k \in (Len(device) + 1) .. Len(cells)
        BY <1>0, <1>2, <3>3
      <4>2. QED
        BY <1>0, <3>1, <4>1
    <3>4. QED
      BY <3>2, <3>3
  <2>4. QED
    BY <2>2, <2>3
<1>11. QED
  BY <1>8, <1>9, <1>10 DEF PrintsInv

LEMMA PrintsStep ==
  ASSUME PlacesInv, DeviceInv, DeviceInv', PrintsInv, NEW t \in Threads,
         \/ Device!Begin(t) \/ Device!Show(t) \/ Device!ShowSpoilt(t)
         \/ Device!Answer(t) \/ Device!Return(t) \/ Device!Refuse(t)
  PROVE  PrintsInv'
<1>1. /\ Len(device) \in Nat /\ print \in [Threads -> Nat] /\ ShownAll[t] \in Nat
      /\ msg \in [Threads -> Messages \union {NoMessage}]
      /\ spoilt \in [Threads -> BOOLEAN] /\ DOMAIN ShownAll = Threads
      /\ status \in [Threads -> {"pending", "success", "failure"}]
      /\ msg[t] # NoMessage => AllChars[msg[t]] \in Seq(Nat)
  BY DeviceTypes
<1>2. CASE Device!Begin(t)
  <2>1. /\ device' = device /\ ShownAll' = ShownAll /\ spoilt' = spoilt
        /\ msg[t] = NoMessage
        /\ \E m \in Messages : msg' = [msg EXCEPT ![t] = m]
        /\ print' = [print EXCEPT ![t] = @ + 1]
        /\ status' = [status EXCEPT ![t] = "pending"]
    BY <1>2 DEF Device!Begin, ShownAll
  <2>2. ShownAll[t] = 0
    BY <2>1 DEF ShownAll, Shown
  <2>3. /\ print'[t] = print[t] + 1 /\ status'[t] = "pending"
        /\ \A u \in Threads : u # t => /\ msg'[u] = msg[u] /\ print'[u] = print[u]
                                      /\ status'[u] = status[u]
    BY <1>1, <2>1
  <2>4. QED
    BY <2>1, <2>2, <2>3, PrintsStay
<1>3. CASE Device!Answer(t)
  <2>1. /\ device' = device /\ ShownAll' = ShownAll /\ spoilt' = spoilt
        /\ msg' = msg /\ print' = print
        /\ \/ status' = [status EXCEPT ![t] = "failure"]
           \/ /\ ShownAll[t] = Len(AllChars[msg[t]])
              /\ status' = [status EXCEPT ![t] = "success"]
    BY <1>3 DEF Device!Answer, ShownAll, AllChars
  <2>2. /\ status'[t] = "success" => ShownAll[t] = Len(AllChars[msg[t]])
        /\ \A u \in Threads : u # t => status'[u] = status[u]
    BY <1>1, <2>1
  <2>3. QED
    BY <2>1, <2>2, PrintsStay
<1>4. CASE Device!Return(t) \/ Device!Refuse(t)
  <2>1. /\ device' = device /\ print' = print
        /\ msg' = [msg EXCEPT ![t] = NoMessage]
        /\ ShownAll' = [ShownAll EXCEPT ![t] = 0] \/ ShownAll' = ShownAll
        /\ spoilt' = [spoilt EXCEPT ![t] = FALSE] \/ spoilt' = spoilt
        /\ status' = [status EXCEPT ![t] = "failure"] \/ status' = status
    BY <1>4 DEF Device!Return, Device!Refuse, ShownAll
  <2>2. /\ print'[t] = print[t] /\ msg'[t] = NoMessage
        /\ \A u \in Threads : u # t => /\ msg'[u] = msg[u] /\ print'[u] = print[u]
                                      /\ spoilt'[u] = spoilt[u]
                                      /\ status'[u] = status[u]
                                      /\ ShownAll'[u] = ShownAll[u]
    BY <1>1, <2>1
  <2>3. QED
    BY <2>1, <2>2, PrintsStay
<1>5. CASE Device!Show(t)
  <2>1. /\ msg[t] # NoMessage /\ status[t] = "pending" /\ Device!Continues(t)
        /\ ~spoilt[t] /\ UNCHANGED <<msg, print, spoilt, status>>
    BY <1>5 DEF Device!Show
  <2>2. PICK chars, size : chars = AllChars[msg[t]] /\ size = ShownAll[t]
    OBVIOUS
  <2>3. PICK n \in 1 .. (Len(AllChars[msg[t]]) - ShownAll[t]) :
          /\ device' = device \o [k \in 1 .. n |->
                <<<<t, print[t]>>, AllChars[msg[t]][ShownAll[t] + k]>>]
          /\ ShownAll' = [ShownAll EXCEPT ![t] = @ + n]
    BY <1>5 DEF Device!Show, ShownAll, AllChars
  <2>4. chars \in Seq(Nat) /\ size \in Nat
    BY <1>1, <2>1, <2>2
  <2>5. /\ n \in Nat /\ n > 0 /\ n <= Len(chars) - size
        /\ device' = device \o [k \in 1 .. n |-> <<<<t, print[t]>>, chars[size + k]>>]
        /\ ShownAll' = [ShownAll EXCEPT ![t] = @ + n]
    BY <2>2, <2>3, <2>4
  <2> DEFINE more == [k \in 1 .. n |-> <<<<t, print[t]>>, chars[size + k]>>]
  <2>6. /\ more \in Seq(Cells) /\ Len(more) = n
        /\ \A k \in 1 .. n : more[k] = <<<<t, print[t]>>, chars[size + k]>>
    <3>1. ASSUME NEW k \in 1 .. n PROVE chars[size + k] \in Nat
      <4>1. size + k \in 1 .. Len(chars)
        BY <2>5, <2>4
      <4>2. QED
        BY <2>4, <4>1, ElementOfSeq
    <3>2. more \in [1 .. n -> Cells]
      BY <1>1, <3>1 DEF Cells
    <3>3. QED
      BY <2>5, <3>2
  <2> HIDE DEF more
  <2>7. PICK old, cells : old = device /\ cells = device'
    OBVIOUS
  <2>8. /\ old \in Seq(Cells) /\ more # <<>> /\ cells = old \o more
    BY <2>5, <2>6, <2>7 DEF DeviceInv, more
  <2>9. /\ Len(cells) = Len(old) + n /\ SubSeq(cells, 1, Len(old)) = old
        /\ cells \in Seq(Cells) /\ Len(old) \in Nat
        /\ \A k \in (Len(old) + 1) .. Len(cells) :
             k - Len(old) \in 1 .. n /\ cells[k] = more[k - Len(old)]
    BY <2>6, <2>8, Appended
  <2>10. \A k \in 1 .. Len(old) : cells[k] = old[k]
    BY <2>5, <2>6, <2>8, ConcatProperties
  <2>11. \A k \in (Len(old) + 1) .. Len(cells) : cells[k][1] = <<t, print[t]>>
    BY <2>6, <2>9
  <2>12. \A k \in 1 .. n : cells[Len(old) + k][2] = chars[size + k]
    <3> SUFFICES ASSUME NEW k \in 1 .. n
                 PROVE  cells[Len(old) + k][2] = chars[size + k]
      OBVIOUS
    <3>1. /\ Len(old) + k \in (Len(old) + 1) .. Len(cells)
          /\ (Len(old) + k) - Len(old) = k
      BY <2>5, <2>9
    <3>2. cells[Len(old) + k] = more[k]
      BY <2>9, <3>1
    <3>3. QED
      BY <2>6, <3>2
  <2>13. QED
    BY <2>1, <2>5, <2>2, <2>7, <2>9, <2>10, <2>11, <2>12, PrintsGrow
<1>6. CASE Device!ShowSpoilt(t)
  <2>1. /\ msg[t] # NoMessage /\ status[t] = "pending" /\ Device!Continues(t)
        /\ UNCHANGED <<msg, print, status>>
        /\ spoilt' = [spoilt EXCEPT ![t] = TRUE]
    BY <1>6 DEF Device!ShowSpoilt
  <2>2. PICK old, cells, n :
          old = device /\ cells = device' /\ n = Len(cells) - Len(old)
    OBVIOUS
  <2>3. /\ old \in Seq(Cells) /\ cells \in Seq(Cells)
        /\ Len(cells) > Len(old) /\ SubSeq(cells, 1, Len(old)) = old
        /\ \A k \in (Len(old) + 1) .. Len(cells) : cells[k][1] = <<t, print[t]>>
        /\ ShownAll' = [ShownAll EXCEPT ![t] = @ + n]
    BY <1>6, <2>2 DEF Device!ShowSpoilt, DeviceInv, ShownAll
  <2>4. n \in Nat /\ n > 0 /\ Len(cells) = Len(old) + n
    BY <2>2, <2>3
  <2>5. \A k \in 1 .. Len(old) : cells[k] = old[k]
    BY <2>3
  <2>6. spoilt'[t] = TRUE /\ \A u \in Threads : u # t => spoilt'[u] = spoilt[u]
    BY <1>1, <2>1
  <2>7. QED
    BY <2>1, <2>2, <2>3, <2>4, <2>5, <2>6, PrintsGrow
<1>7. QED
  BY <1>2, <1>3, <1>4, <1>5, <1>6

LEMMA PrintsInvAlways == Spec => []PrintsInv
<1>1. Init => PrintsInv
  <2> SUFFICES ASSUME Init PROVE PrintsInv
    OBVIOUS
  <2>1. Len(device) = 0 /\ \A t \in Threads : msg[t] = NoMessage
    BY DEF Init
  <2>2. \A id : Stretch(device, id, 0, 0)
    BY <2>1 DEF Stretch
  <2>3. QED
    BY <2>1, <2>2 DEF PrintsInv, Stretches, ShownIsThere
<1>2. Inv /\ PlacesInv /\ DeviceInv /\ DeviceInv' /\ PrintsInv /\ [Next]_vars
        => PrintsInv'
  <2> SUFFICES ASSUME Inv, PlacesInv, DeviceInv, DeviceInv', PrintsInv, [Next]_vars
               PROVE  PrintsInv'
    OBVIOUS
  <2>1. CASE Device!Next
    BY <2>1, PrintsStep DEF Device!Next
  <2>2. CASE UNCHANGED Device!vars
    <3>1. /\ device' = device /\ msg' = msg /\ print' = print /\ spoilt' = spoilt
          /\ status' = status /\ ShownAll' = ShownAll
      BY <2>2 DEF Device!vars, ShownAll
    <3>2. CASE Threads = {}
      BY <3>2 DEF PrintsInv, Stretches
    <3>3. CASE Threads # {}
      BY <3>1, <3>3, PrintsStay
    <3>4. QED
      BY <3>2, <3>3
  <2>3. CASE UNCHANGED vars
    BY <2>2, <2>3 DEF vars, locals, Device!vars, Shown
  <2>4. QED
    BY <2>1, <2>2, <2>3, StepIsDeviceStep DEF Next
<1>3. QED
  BY <1>1, <1>2, InvAlways, PlacesInvAlways, DeviceInvAlways, PTL DEF Spec

\* Between two characters of a message there are none of another one.
NotInterleaved ==
    \A j, k, l \in 1 .. Len(device) :
        j < k /\ k < l /\ device[j][1] = device[l][1] => device[k][1] = device[j][1]

\* "in which case we want to avoid interleaved output coming from multiple
\* threads" (platform_windows.c:418): what comes out is never interleaved,
\* whatever fails, a file that accepts a part of a write included.
THEOREM NotInterleavedAlways == Spec => []NotInterleaved
<1>1. PlacesInv /\ DeviceInv /\ PrintsInv => NotInterleaved
  <2> SUFFICES ASSUME PlacesInv, DeviceInv, PrintsInv,
                      NEW j \in 1 .. Len(device), NEW k \in 1 .. Len(device),
                      NEW l \in 1 .. Len(device), j < k, k < l,
                      device[j][1] = device[l][1]
               PROVE  device[k][1] = device[j][1]
    BY DEF NotInterleaved
  <2>1. PICK t \in Threads, p \in Nat : device[j][1] = <<t, p>>
    <3>1. device[j] \in Cells
      BY ElementOfSeq DEF DeviceInv
    <3>2. QED
      BY <3>1 DEF Cells
  <2>2. PICK start \in Nat, n \in Nat : Stretch(device, <<t, p>>, start, n)
    BY DEF PrintsInv, Stretches
  <2>3. start < j /\ l <= start + n
    BY <2>1, <2>2 DEF Stretch
  <2>4. start < k /\ k <= start + n
    BY <2>3
  <2>5. QED
    BY <2>1, <2>2, <2>4 DEF Stretch
<1>2. QED
  BY <1>1, PlacesInvAlways, DeviceInvAlways, PrintsInvAlways, PTL

\* A print that is about to return success has put on the device all the
\* characters of its message, in order, one after the other, and nothing else,
\* unless its file accepted only a part of a write; then as many came out.
SuccessShowsMessage ==
    \A t \in Threads : pc[t] = "exit" /\ status[t] = "success" =>
        LET chars == Wide(msg[t], 0, Len(msg[t]))
        IN  \E start \in Nat :
              /\ Stretch(device, <<t, print[t]>>, start, Len(chars))
              /\ ~spoilt[t] => \A k \in 1 .. Len(chars) :
                                 device[start + k] = <<<<t, print[t]>>, chars[k]>>

\* What success says of a print (platform_windows.c:403-461).
THEOREM SuccessShowsMessageAlways == Spec => []SuccessShowsMessage
<1>1. PlacesInv /\ DeviceInv /\ PrintsInv => SuccessShowsMessage
  <2> SUFFICES ASSUME PlacesInv, DeviceInv, PrintsInv, NEW t \in Threads,
                      pc[t] = "exit", status[t] = "success"
               PROVE  \E start \in Nat :
                        /\ Stretch(device, <<t, print[t]>>, start,
                                   Len(Wide(msg[t], 0, Len(msg[t]))))
                        /\ ~spoilt[t] =>
                             \A k \in 1 .. Len(Wide(msg[t], 0, Len(msg[t]))) :
                               device[start + k] =
                                 <<<<t, print[t]>>, Wide(msg[t], 0, Len(msg[t]))[k]>>
    BY DEF SuccessShowsMessage
  <2>1. msg[t] # NoMessage /\ msg[t] \in Messages
    BY DEF PlacesInv, TypeOK
  <2>2. PICK chars : chars = AllChars[msg[t]]
    OBVIOUS
  <2>3. chars = Wide(msg[t], 0, Len(msg[t]))
    BY <2>1, <2>2 DEF AllChars
  <2>4. Len(chars) \in Nat /\ ShownAll[t] = Len(chars)
    <3>1. chars \in Seq(Nat)
      BY <2>1, <2>2, DeviceTypes
    <3>2. ShownIsThere(t)
      BY DEF PrintsInv
    <3>3. ShownAll[t] = Len(AllChars[msg[t]])
      BY <2>1, <3>2 DEF ShownIsThere
    <3>4. QED
      BY <2>2, <3>1, <3>3
  <2>5. PICK start \in Nat :
          /\ Stretch(device, <<t, print[t]>>, start, Len(chars))
          /\ ~spoilt[t] => \A k \in 1 .. Len(chars) : device[start + k][2] = chars[k]
    <3>1. \E start \in Nat :
            /\ Stretch(device, <<t, print[t]>>, start, ShownAll[t])
            /\ ~spoilt[t] => \A k \in 1 .. ShownAll[t] :
                               device[start + k][2] = AllChars[msg[t]][k]
      BY <2>1 DEF PrintsInv, ShownIsThere
    <3>2. QED
      BY <2>2, <2>4, <3>1
  <2>6. ASSUME ~spoilt[t], NEW k \in 1 .. Len(chars)
        PROVE  device[start + k] = <<<<t, print[t]>>, chars[k]>>
    <3>1. start + k \in 1 .. Len(device) /\ start < start + k /\ start + k <= start + Len(chars)
      BY <2>4, <2>5 DEF Stretch, DeviceInv
    <3>2. device[start + k] \in Cells
      BY <3>1, ElementOfSeq DEF DeviceInv
    <3>3. device[start + k][1] = <<t, print[t]>> /\ device[start + k][2] = chars[k]
      BY <2>5, <2>6, <3>1 DEF Stretch
    <3>4. \A cell \in Cells : cell = <<cell[1], cell[2]>>
      BY DEF Cells
    <3>5. QED
      BY <3>2, <3>3, <3>4
  <2>7. QED
    BY <2>3, <2>5, <2>6
<1>2. QED
  BY <1>1, PlacesInvAlways, DeviceInvAlways, PrintsInvAlways, PTL

-----------------------------------------------------------------------------
(* Texts of several units.                                                 *)

\* The first k sequences, one after the other.
Prefix(seqs, k) == FlattenSeq(SubSeq(seqs, 1, k))

\* The values of g are the first 0, 1, 2, ... of seqs, one after the other.
AddsUp(S, seqs, g) ==
    /\ g \in [Nat -> Seq(S)]
    /\ g[0] = <<>>
    /\ \A k \in 0 .. (Len(seqs) - 1) : g[k + 1] = g[k] \o seqs[k + 1]

LEMMA FlattenIs ==
  ASSUME NEW S, NEW seqs \in Seq(Seq(S)), NEW g, AddsUp(S, seqs, g),
         NEW m \in 0 .. Len(seqs)
  PROVE  Prefix(seqs, m) = g[m]
<1> DEFINE n == Len(seqs)
           s == SubSeq(seqs, 1, m)
<1>0. /\ n \in Nat /\ m \in 0 .. n
      /\ g \in [Nat -> Seq(S)] /\ g[0] = <<>>
      /\ \A k \in 0 .. (n - 1) : g[k + 1] = g[k] \o seqs[k + 1]
      /\ \A j \in 1 .. n : seqs[j] \in Seq(S)
  <2>1. Len(seqs) \in Nat /\ \A j \in 1 .. Len(seqs) : seqs[j] \in Seq(S)
    BY LenProperties, ElementOfSeq
  <2>2. QED
    BY <2>1, Zenon DEF AddsUp
<1> HIDE DEF n
<1>1. /\ Len(s) = m
      /\ s \in Seq(Seq(S))
      /\ \A j \in 1 .. m : s[j] = seqs[j]
  <2>1. m \in Int /\ 1 \in Int /\ \A j \in 1 .. m : seqs[j] \in Seq(S)
    BY <1>0
  <2>2. /\ s \in Seq(Seq(S))
        /\ Len(s) = IF 1 <= m THEN m - 1 + 1 ELSE 0
        /\ \A j \in 1 .. (m - 1 + 1) : s[j] = seqs[1 + j - 1]
    BY <2>1, SubSeqProperties
  <2> HIDE DEF s
  <2>3. m \in Nat /\ m - 1 + 1 = m /\ (~(1 <= m) => m = 0)
        /\ \A j \in 1 .. m : 1 + j - 1 = j
    BY <1>0
  <2>4. QED
    BY <2>2, <2>3
<1> HIDE DEF s
<1>2. CASE m = 0
  <2>1. s = <<>>
    BY <1>1, <1>2, EmptySeq
  <2>2. FlattenSeq(s) = s
    BY <1>1, <1>2 DEF FlattenSeq
  <2>3. QED
    BY <1>0, <1>2, <2>1, <2>2 DEF Prefix, s
<1>3. CASE m # 0
  <2> DEFINE Body(f) == [j \in 1 .. Len(s) |-> IF j = 1 THEN s[j] ELSE f[j - 1] \o s[j]]
             W == CHOOSE f : f = Body(f)
             h == [j \in 1 .. m |-> g[j]]
  <2>1. g[1] = seqs[1] /\ s[1] = seqs[1]
    <3>1. 0 \in 0 .. (n - 1) /\ 0 + 1 = 1 /\ 1 \in 1 .. m /\ 1 \in 1 .. n
      BY <1>0, <1>3
    <3>2. g[1] = <<>> \o seqs[1]
      BY <1>0, <3>1
    <3>3. seqs[1] \in Seq(S)
      BY <1>0, <3>1
    <3>4. QED
      BY <1>1, <3>1, <3>2, <3>3, ConcatEmptySeq
  <2>2. ASSUME NEW j \in 1 .. m, j # 1
        PROVE  j - 1 \in 1 .. m /\ g[j] = g[j - 1] \o s[j]
    <3>1. j - 1 \in 0 .. (n - 1) /\ j - 1 + 1 = j /\ j - 1 \in 1 .. m
      BY <1>0, <2>2
    <3>2. g[j] = g[j - 1] \o seqs[j]
      BY <1>0, <3>1
    <3>3. QED
      BY <1>1, <3>1, <3>2
  <2>3. h = Body(h)
    <3>1. ASSUME NEW j \in 1 .. m
          PROVE  h[j] = IF j = 1 THEN s[j] ELSE h[j - 1] \o s[j]
      BY <2>1, <2>2
    <3> HIDE DEF h
    <3>2. h = [j \in 1 .. m |-> h[j]]
      BY DEF h
    <3>3. QED
      BY <1>1, <3>1, <3>2
  <2> HIDE DEF Body, h
  <2>4. W = Body(W)
    BY <2>3
  <2>5. FlattenSeq(s) = W[m]
    BY <1>0, <1>1, <1>3 DEF FlattenSeq, Body
  <2> HIDE DEF W
  <2>6. ASSUME NEW j \in 1 .. m
        PROVE  W[j] = IF j = 1 THEN s[j] ELSE W[j - 1] \o s[j]
    BY <1>1, <2>4 DEF Body
  <2> DEFINE T == {j \in Nat : j \in 1 .. m => W[j] = g[j]}
  <2>7. 0 \in T
    OBVIOUS
  <2>8. ASSUME NEW j \in Nat, j \in T PROVE j + 1 \in T
    <3>1. SUFFICES ASSUME j + 1 \in 1 .. m PROVE W[j + 1] = g[j + 1]
      OBVIOUS
    <3>2. CASE j = 0
      <4>1. j + 1 = 1
        BY <3>2
      <4>2. QED
        BY <2>1, <2>6, <3>1, <4>1
    <3>3. CASE j # 0
      <4>1. j \in 1 .. m /\ j + 1 # 1 /\ j + 1 - 1 = j
        BY <3>1, <3>3
      <4>2. W[j] = g[j]
        BY <2>8, <4>1
      <4> DEFINE next == j + 1
      <4>3. next \in 1 .. m /\ next # 1 /\ next - 1 = j
        BY <3>1, <4>1
      <4> HIDE DEF next
      <4>4. W[next] = W[j] \o s[next]
        BY <2>6, <4>3
      <4>5. g[next] = g[j] \o s[next]
        BY <2>2, <4>3
      <4>6. W[next] = g[next]
        BY <4>2, <4>4, <4>5
      <4>7. QED
        BY <4>6 DEF next
    <3>4. QED
      BY <3>2, <3>3
  <2> HIDE DEF T
  <2>9. Nat \subseteq T
    BY <2>7, <2>8, AllNaturals
  <2>10. m \in T /\ m \in 1 .. m
    BY <1>0, <1>3, <2>9
  <2>11. W[m] = g[m]
    BY <2>10 DEF T
  <2>12. QED
    BY <2>5, <2>11 DEF Prefix, s
<1>4. QED
  BY <1>2, <1>3

LEMMA PrefixStep ==
  ASSUME NEW S, NEW seqs \in Seq(Seq(S))
  PROVE  /\ Prefix(seqs, 0) = <<>>
         /\ \A k \in 0 .. Len(seqs) : Prefix(seqs, k) \in Seq(S)
         /\ \A k \in 0 .. (Len(seqs) - 1) :
              Prefix(seqs, k + 1) = Prefix(seqs, k) \o seqs[k + 1]
         /\ FlattenSeq(seqs) = Prefix(seqs, Len(seqs))
<1> DEFINE n == Len(seqs)
           step == [k \in Nat |-> [s \in Seq(S) |-> IF k < n THEN s \o seqs[k + 1] ELSE s]]
<1>1. n \in Nat /\ \A k \in Nat : k < n => k + 1 \in 1 .. n /\ seqs[k + 1] \in Seq(S)
  OBVIOUS
<1> HIDE DEF n
<1>2. PICK g \in [Nat -> Seq(S)] :
        g[0] = <<>> /\ \A k \in Nat : g[k + 1] = step[k][g[k]]
  <2>1. step \in [Nat -> [Seq(S) -> Seq(S)]]
    <3>1. ASSUME NEW k \in Nat, NEW s \in Seq(S)
          PROVE  (IF k < n THEN s \o seqs[k + 1] ELSE s) \in Seq(S)
      BY <1>1, ConcatProperties
    <3>2. QED
      BY <3>1
  <2>2. <<>> \in Seq(S)
    BY EmptySeq
  <2> DEFINE first == <<>>
  <2> HIDE DEF step, first
  <2>3. HasIterates(Seq(S), first, step)
    BY <2>1, <2>2, Iterated DEF first
  <2>4. QED
    BY <2>3 DEF HasIterates, first
<1>3. \A k \in 0 .. (n - 1) : g[k + 1] = g[k] \o seqs[k + 1]
  <2>1. ASSUME NEW k \in 0 .. (n - 1) PROVE g[k + 1] = g[k] \o seqs[k + 1]
    <3>1. k \in Nat /\ k < n
      BY <1>1
    <3>2. g[k] \in Seq(S)
      BY <3>1
    <3>3. QED
      BY <1>2, <3>1, <3>2
  <2>2. QED
    BY <2>1
<1> HIDE DEF step
<1>4. \A k \in 0 .. n : Prefix(seqs, k) = g[k]
  <2>1. AddsUp(S, seqs, g)
    BY <1>2, <1>3 DEF AddsUp, n
  <2>2. QED
    BY <2>1, FlattenIs DEF n
<1>5. FlattenSeq(seqs) = Prefix(seqs, n)
  BY SubSeqFull DEF Prefix, n
<1>6. \A k \in 0 .. (n - 1) : k \in 0 .. n /\ k + 1 \in 0 .. n
  BY <1>1
<1>7. 0 \in 0 .. n /\ \A k \in 0 .. n : k \in Nat
  BY <1>1
<1>8. QED
  BY <1>2, <1>3, <1>4, <1>5, <1>6, <1>7 DEF n

\* Where the first k sequences end.
End(seqs, k) == Len(Prefix(seqs, k))

LEMMA EndStep ==
  ASSUME NEW S, NEW seqs \in Seq(Seq(S))
  PROVE  /\ End(seqs, 0) = 0
         /\ \A k \in 0 .. Len(seqs) : End(seqs, k) \in Nat
         /\ \A k \in 0 .. (Len(seqs) - 1) :
              /\ Len(seqs[k + 1]) \in Nat
              /\ End(seqs, k + 1) = End(seqs, k) + Len(seqs[k + 1])
         /\ Len(FlattenSeq(seqs)) = End(seqs, Len(seqs))
<1>1. Len(seqs) \in Nat
  OBVIOUS
<1>2. \A k \in 0 .. Len(seqs) : End(seqs, k) \in Nat
  BY PrefixStep, LenProperties DEF End
<1>3. ASSUME NEW k \in 0 .. (Len(seqs) - 1)
      PROVE  /\ Len(seqs[k + 1]) \in Nat
             /\ End(seqs, k + 1) = End(seqs, k) + Len(seqs[k + 1])
  <2>1. k \in 0 .. Len(seqs) /\ k + 1 \in 1 .. Len(seqs)
    BY <1>1
  <2>2. Prefix(seqs, k) \in Seq(S) /\ seqs[k + 1] \in Seq(S)
    BY <2>1, PrefixStep, ElementOfSeq
  <2>3. Prefix(seqs, k + 1) = Prefix(seqs, k) \o seqs[k + 1]
    BY PrefixStep
  <2>4. QED
    BY <2>2, <2>3, ConcatProperties, LenProperties DEF End
<1>4. QED
  BY <1>2, <1>3, PrefixStep, EmptySeq DEF End

\* The text goes on where its first units end.
LEMMA PrefixStays ==
  ASSUME NEW S, NEW seqs \in Seq(Seq(S)),
         NEW k \in 0 .. Len(seqs), NEW m \in k .. Len(seqs)
  PROVE  /\ End(seqs, k) <= End(seqs, m)
         /\ \A j \in 1 .. End(seqs, k) : Prefix(seqs, m)[j] = Prefix(seqs, k)[j]
<1> DEFINE n == Len(seqs)
           Stays(l) == /\ End(seqs, k) <= End(seqs, l)
                       /\ \A j \in 1 .. End(seqs, k) :
                            Prefix(seqs, l)[j] = Prefix(seqs, k)[j]
           T == {l \in Nat : l \in k .. n => Stays(l)}
<1>1. n \in Nat /\ k \in Nat /\ k <= n /\ m \in k .. n
  OBVIOUS
<1>2. \A l \in 0 .. n : End(seqs, l) \in Nat /\ Prefix(seqs, l) \in Seq(S)
  BY EndStep, PrefixStep
<1>3. \A l \in 0 .. (n - 1) :
        /\ Len(seqs[l + 1]) \in Nat
        /\ seqs[l + 1] \in Seq(S)
        /\ End(seqs, l + 1) = End(seqs, l) + Len(seqs[l + 1])
        /\ Prefix(seqs, l + 1) = Prefix(seqs, l) \o seqs[l + 1]
  <2>1. \A l \in 0 .. (n - 1) : l + 1 \in 1 .. n
    BY <1>1
  <2>2. QED
    BY <2>1, EndStep, PrefixStep, ElementOfSeq
<1> HIDE DEF n
<1>4. 0 \in T
  <2>1. SUFFICES ASSUME 0 \in k .. n PROVE Stays(0)
    OBVIOUS
  <2>2. k = 0
    BY <1>1, <2>1
  <2>3. QED
    BY <1>1, <1>2, <2>2
<1>5. ASSUME NEW l \in Nat, l \in T PROVE l + 1 \in T
  <2>1. SUFFICES ASSUME l + 1 \in k .. n PROVE Stays(l + 1)
    OBVIOUS
  <2>2. CASE l + 1 = k
    <3>1. End(seqs, k) \in Nat
      BY <1>1, <1>2
    <3>2. QED
      BY <2>2, <3>1
  <2>3. CASE l + 1 # k
    <3>1. l \in k .. n /\ l \in 0 .. (n - 1) /\ l \in 0 .. n
      BY <1>1, <2>1, <2>3
    <3>2. Stays(l)
      BY <1>5, <3>1
    <3>3. ASSUME NEW j \in 1 .. End(seqs, k)
          PROVE  Prefix(seqs, l + 1)[j] = Prefix(seqs, k)[j]
      <4>1. Prefix(seqs, l) \in Seq(S) /\ seqs[l + 1] \in Seq(S)
            /\ Prefix(seqs, l + 1) = Prefix(seqs, l) \o seqs[l + 1]
        BY <1>2, <1>3, <3>1
      <4>2. j \in 1 .. Len(Prefix(seqs, l))
        BY <1>1, <1>2, <3>1, <3>2 DEF End
      <4>3. (Prefix(seqs, l) \o seqs[l + 1])[j] = Prefix(seqs, l)[j]
        BY <4>1, <4>2
      <4>4. QED
        BY <3>2, <4>1, <4>3
    <3>4. End(seqs, k) <= End(seqs, l + 1)
      <4>1. End(seqs, k) <= End(seqs, l)
        BY <3>2
      <4>2. /\ k \in 0 .. n /\ End(seqs, k) \in Nat /\ End(seqs, l) \in Nat
            /\ Len(seqs[l + 1]) \in Nat
            /\ End(seqs, l + 1) = End(seqs, l) + Len(seqs[l + 1])
        <5>1. k \in 0 .. n
          BY <1>1
        <5>2. QED
          BY <1>2, <1>3, <3>1, <5>1, Zenon
      <4>3. \A a, b, c \in Nat : a <= b => a <= b + c
        OBVIOUS
      <4>4. QED
        BY <4>1, <4>2, <4>3, Zenon
    <3>5. QED
      BY <3>3, <3>4
  <2>4. QED
    BY <2>2, <2>3
<1> HIDE DEF T, Stays
<1>6. Nat \subseteq T
  BY <1>4, <1>5, AllNaturals
<1>7. Stays(m)
  BY <1>1, <1>6 DEF T
<1>8. QED
  BY <1>7 DEF Stays

\* The bytes of a unit in the text.
LEMMA UnitInText ==
  ASSUME NEW S, NEW seqs \in Seq(Seq(S)), NEW k \in 0 .. (Len(seqs) - 1),
         NEW j \in 1 .. Len(seqs[k + 1])
  PROVE  FlattenSeq(seqs)[End(seqs, k) + j] = seqs[k + 1][j]
<1> DEFINE n == Len(seqs)
           u == seqs[k + 1]
           e == End(seqs, k)
<1>1. /\ n \in Nat /\ k + 1 \in 1 .. n /\ k \in 0 .. n /\ n \in (k + 1) .. n
      /\ k + 1 \in 0 .. n
  OBVIOUS
<1>2. /\ Prefix(seqs, k) \in Seq(S) /\ u \in Seq(S) /\ Len(u) \in Nat /\ e \in Nat
      /\ Len(Prefix(seqs, k)) = e
      /\ Prefix(seqs, k + 1) = Prefix(seqs, k) \o u
      /\ End(seqs, k + 1) = e + Len(u)
  BY <1>1, PrefixStep, EndStep, ElementOfSeq DEF End
<1>3. (Prefix(seqs, k) \o u)[e + j] = u[j]
  <2> HIDE DEF u, e
  <2>1. j \in 1 .. Len(u)
    BY DEF u
  <2> DEFINE p == e + j
  <2>2. p \in 1 .. (e + Len(u)) /\ ~(p <= e) /\ p - e = j
    BY <1>2, <2>1
  <2> HIDE DEF p
  <2>3. (Prefix(seqs, k) \o u)[p] = u[j]
    BY <1>2, <2>2, ConcatProperties
  <2>4. QED
    BY <2>3 DEF p
<1>4. e + j \in 1 .. End(seqs, k + 1)
  BY <1>2
<1>5. Prefix(seqs, n)[e + j] = Prefix(seqs, k + 1)[e + j]
  BY <1>1, <1>4, PrefixStays
<1>6. FlattenSeq(seqs) = Prefix(seqs, n)
  BY PrefixStep
<1>7. QED
  BY <1>2, <1>3, <1>5, <1>6

-----------------------------------------------------------------------------
(* The chunks of wp_platform_break_str() are whole units.                  *)

\* The effect of a byte, in every state.
Steps(q, o, c, n, q2, o2) ==
    /\ q = "default" =>
         /\ c = "nul" => q2 = "exit" /\ o2 = n
         /\ c = "esc" => q2 = "esc" /\ o2 = n
         /\ c = "cont" => q2 = "default" /\ o2 = o
         /\ c \notin {"nul", "esc", "cont"} => q2 = "default" /\ o2 = n
    /\ q = "esc" /\ c = "[" => q2 = "initial" /\ o2 = o
    /\ q = "initial" /\ c = "1" => q2 = "initial" /\ o2 = o
    /\ q \in {"initial", "intermediate"} =>
         /\ c = "sp" => q2 = "intermediate" /\ o2 = o
         /\ c \notin {"1", "sp"} => q2 = "default" /\ o2 = n
    /\ q = "exit" => q2 = "exit" /\ o2 = o

LEMMA ScannedSteps ==
  ASSUME NEW s \in Scans, NEW c, NEW n \in Nat
  PROVE  Steps(s.state, s.out, c, n, Scanned(s, c, n).state, Scanned(s, c, n).out)
<1> DEFINE r == Scanned(s, c, n)
<1>1. CASE s.state = "default"
  <2>1. r = ScannedOutside(s, c, n)
    BY <1>1 DEF Scanned
  <2> HIDE DEF r
  <2>2. /\ c = "nul" => r = [s EXCEPT !.out = n, !.state = "exit"]
        /\ c = "esc" => r = [s EXCEPT !.out = n, !.state = "esc"]
        /\ c = "cont" => r = s
        /\ c \notin {"nul", "esc", "cont"} => r = [s EXCEPT !.out = n]
    BY <2>1 DEF ScannedOutside
  <2>3. Steps(s.state, s.out, c, n, r.state, r.out)
    BY <1>1, <2>2 DEF Scans, Steps
  <2>4. QED
    BY <2>3 DEF r
<1>2. CASE s.state = "esc"
  BY <1>2 DEF Scanned, Scans, Steps
<1>3. CASE s.state \in {"initial", "intermediate"}
  BY <1>3 DEF Scanned, Scans, Steps
<1>4. CASE s.state = "exit"
  BY <1>4 DEF Scanned, Scans, Steps
<1>5. QED
  BY <1>1, <1>2, <1>3, <1>4 DEF Scans

\* A unit is scanned from its first byte to its last: in between the scan knows
\* where the unit began.
LEMMA UnitScanned ==
  ASSUME NEW text, NEW from, from = 0, NEW e \in Nat, NEW u \in Units,
         Scan(text, from, e).state = "default",
         \A j \in 1 .. Len(u) : At(text, e + j - 1) = u[j]
  PROVE  /\ u[1] # "cont" /\ Len(u) \in 1 .. 4
         /\ Scan(text, from, e + Len(u)).state = "default"
         /\ \A j \in 1 .. (Len(u) - 1) :
              /\ Scan(text, from, e + j).out = e
              /\ Scan(text, from, e + j).state # "default" \/ u[j + 1] = "cont"
<1> DEFINE Q(m) == Scan(text, from, m).state
           O(m) == Scan(text, from, m).out
           p1 == e + 1
           p2 == e + 2
           p3 == e + 3
           p4 == e + 4
<1>1. ASSUME NEW m \in Nat
      PROVE  Steps(Q(m), O(m), At(text, m), m, Q(m + 1), O(m + 1))
  <2>1. from \in Nat /\ from + m = m
    OBVIOUS
  <2>2. /\ Scan(text, from, m) \in Scans
        /\ Scan(text, from, m + 1) = Scanned(Scan(text, from, m), At(text, from + m), m)
    BY <2>1, ScanStep
  <2>3. QED
    BY <2>1, <2>2, ScannedSteps
<1>2. /\ p1 \in Nat /\ p2 \in Nat /\ p3 \in Nat
      /\ e + 1 = p1 /\ p1 + 1 = p2 /\ p2 + 1 = p3 /\ p3 + 1 = p4
      /\ e + 1 - 1 = e /\ e + 2 - 1 = p1 /\ e + 3 - 1 = p2 /\ e + 4 - 1 = p3
  OBVIOUS
<1> HIDE DEF Q, O
<1>3. /\ Steps(Q(e), O(e), At(text, e), e, Q(p1), O(p1))
      /\ Steps(Q(p1), O(p1), At(text, p1), p1, Q(p2), O(p2))
      /\ Steps(Q(p2), O(p2), At(text, p2), p2, Q(p3), O(p3))
      /\ Steps(Q(p3), O(p3), At(text, p3), p3, Q(p4), O(p4))
  <2> HIDE DEF p1, p2, p3, p4
  <2>1. QED
    BY <1>1, <1>2
<1>4. /\ 1 \in 1 .. Len(u) => At(text, e) = u[1]
      /\ 2 \in 1 .. Len(u) => At(text, p1) = u[2]
      /\ 3 \in 1 .. Len(u) => At(text, p2) = u[3]
      /\ 4 \in 1 .. Len(u) => At(text, p3) = u[4]
  <2> HIDE DEF p1, p2, p3, p4
  <2>1. QED
    BY <1>2
<1>5. Q(e) = "default"
  BY DEF Q
<1> HIDE DEF p1, p2, p3, p4
<1> DEFINE Begins(p, j) == O(p) = e /\ (Q(p) # "default" \/ u[j] = "cont")
<1>6. /\ u[1] # "cont" /\ Len(u) \in 1 .. 4
      /\ Len(u) = 1 => Q(p1) = "default"
      /\ Len(u) = 2 => Q(p2) = "default" /\ Begins(p1, 2)
      /\ Len(u) = 3 => Q(p3) = "default" /\ Begins(p1, 2) /\ Begins(p2, 3)
      /\ Len(u) = 4 =>
           Q(p4) = "default" /\ Begins(p1, 2) /\ Begins(p2, 3) /\ Begins(p3, 4)
  <2>1. CASE u \in {<<"a">>, <<"sp">>, <<"1">>}
    <3>1. Len(u) = 1 /\ u[1] \notin {"nul", "esc", "cont"}
      BY <2>1
    <3>2. At(text, e) = u[1]
      BY <1>4, <3>1
    <3>3. Q(p1) = "default"
      BY <1>3, <1>5, <3>1, <3>2 DEF Steps
    <3>4. QED
      BY <3>1, <3>3
  <2>2. CASE u \in {<<"lead", "cont">>, <<"lead", "cont", "cont">>}
    <3>1. /\ u[1] = "lead" /\ u[2] = "cont"
          /\ Len(u) = 2 \/ (Len(u) = 3 /\ u[3] = "cont")
      BY <2>2
    <3>2. /\ At(text, e) = "lead" /\ At(text, p1) = "cont"
          /\ Len(u) = 3 => At(text, p2) = "cont"
      BY <1>4, <3>1
    <3>3. Q(p1) = "default" /\ O(p1) = e
      BY <1>3, <1>5, <3>2 DEF Steps
    <3>4. Q(p2) = "default" /\ O(p2) = e
      BY <1>3, <3>2, <3>3 DEF Steps
    <3>5. Len(u) = 3 => Q(p3) = "default"
      BY <1>3, <3>2, <3>4 DEF Steps
    <3>6. CASE Len(u) = 2
      BY <3>1, <3>3, <3>4, <3>6
    <3>7. CASE Len(u) = 3
      BY <3>1, <3>3, <3>4, <3>5, <3>7
    <3>8. QED
      BY <3>1, <3>6, <3>7
  <2>3. CASE u \in {<<"esc", "[", "a">>, <<"esc", "[", "1", "a">>, <<"esc", "[", "sp", "a">>}
    <3>1. /\ u[1] = "esc" /\ u[2] = "["
          /\ \/ Len(u) = 3 /\ u[3] = "a"
             \/ Len(u) = 4 /\ u[3] = "1" /\ u[4] = "a"
             \/ Len(u) = 4 /\ u[3] = "sp" /\ u[4] = "a"
      BY <2>3
    <3>2. /\ At(text, e) = "esc" /\ At(text, p1) = "[" /\ At(text, p2) = u[3]
          /\ Len(u) = 4 => At(text, p3) = "a"
      BY <1>4, <3>1
    <3>3. Q(p1) = "esc" /\ O(p1) = e
      BY <1>3, <1>5, <3>2 DEF Steps
    <3>4. Q(p2) = "initial" /\ O(p2) = e
      BY <1>3, <3>2, <3>3 DEF Steps
    <3>5. /\ u[3] = "a" => Q(p3) = "default"
          /\ u[3] = "1" => Q(p3) = "initial" /\ O(p3) = e
          /\ u[3] = "sp" => Q(p3) = "intermediate" /\ O(p3) = e
      BY <1>3, <3>2, <3>4 DEF Steps
    <3>6. Len(u) = 4 => Q(p4) = "default"
      BY <1>3, <3>1, <3>2, <3>5 DEF Steps
    <3>7. QED
      BY <3>1, <3>3, <3>4, <3>5, <3>6
  <2>4. QED
    BY <2>1, <2>2, <2>3 DEF Units
<1>7. Q(e + Len(u)) = "default"
  <2>1. \/ Len(u) = 1 /\ e + Len(u) = p1
        \/ Len(u) = 2 /\ e + Len(u) = p2
        \/ Len(u) = 3 /\ e + Len(u) = p3
        \/ Len(u) = 4 /\ e + Len(u) = p4
    <3>1. Len(u) \in {1, 2, 3, 4}
      BY <1>6
    <3>2. QED
      BY <3>1 DEF p1, p2, p3, p4
  <2>2. QED
    BY <1>6, <2>1
<1>8. ASSUME NEW j \in 1 .. (Len(u) - 1) PROVE Begins(e + j, j + 1)
  <2>1. \/ j = 1 /\ e + j = p1 /\ j + 1 = 2
        \/ j = 2 /\ e + j = p2 /\ j + 1 = 3
        \/ j = 3 /\ e + j = p3 /\ j + 1 = 4
    <3>1. \A len \in 1 .. 4 : \A l \in 1 .. (len - 1) : l \in {1, 2, 3}
      OBVIOUS
    <3>2. Len(u) \in 1 .. 4
      BY <1>6
    <3>3. j \in {1, 2, 3}
      BY <3>1, <3>2, Zenon
    <3>4. QED
      BY <3>3 DEF p1, p2, p3
  <2>2. /\ j = 1 => Len(u) \in {2, 3, 4}
        /\ j = 2 => Len(u) \in {3, 4}
        /\ j = 3 => Len(u) = 4
    BY <1>6
  <2>3. CASE j = 1
    <3>1. Begins(p1, 2)
      BY <1>6, <2>2, <2>3
    <3>2. e + j = p1 /\ j + 1 = 2
      BY <2>1, <2>3
    <3>3. QED
      BY <3>1, <3>2
  <2>4. CASE j = 2
    <3>1. Begins(p2, 3)
      BY <1>6, <2>2, <2>4
    <3>2. e + j = p2 /\ j + 1 = 3
      BY <2>1, <2>4
    <3>3. QED
      BY <3>1, <3>2
  <2>5. CASE j = 3
    <3>1. Begins(p3, 4)
      BY <1>6, <2>2, <2>5
    <3>2. e + j = p3 /\ j + 1 = 4
      BY <2>1, <2>5
    <3>3. QED
      BY <3>1, <3>2
  <2>6. QED
    BY <2>1, <2>3, <2>4, <2>5
<1>9. QED
  BY <1>6, <1>7, <1>8 DEF Q, O

\* Units are sequences of bytes.
LEMMA UnitsOfBytes ==
  ASSUME NEW units \in Seq(Units)
  PROVE  /\ units \in Seq(Seq(ByteKinds))
         /\ \A k \in 0 .. (Len(units) - 1) : units[k + 1] \in Units
<1>1. ASSUME NEW u \in Units PROVE u \in Seq(ByteKinds)
  <2>1. \A a, b, c, d \in ByteKinds :
          /\ <<a>> \in Seq(ByteKinds) /\ <<a, b>> \in Seq(ByteKinds)
          /\ <<a, b, c>> \in Seq(ByteKinds) /\ <<a, b, c, d>> \in Seq(ByteKinds)
    OBVIOUS
  <2>2. /\ "a" \in ByteKinds /\ "sp" \in ByteKinds /\ "1" \in ByteKinds
        /\ "lead" \in ByteKinds /\ "cont" \in ByteKinds /\ "esc" \in ByteKinds
        /\ "[" \in ByteKinds
    BY DEF ByteKinds
  <2>3. /\ <<"a">> \in Seq(ByteKinds) /\ <<"sp">> \in Seq(ByteKinds)
        /\ <<"1">> \in Seq(ByteKinds) /\ <<"lead", "cont">> \in Seq(ByteKinds)
        /\ <<"lead", "cont", "cont">> \in Seq(ByteKinds)
        /\ <<"esc", "[", "a">> \in Seq(ByteKinds)
        /\ <<"esc", "[", "1", "a">> \in Seq(ByteKinds)
        /\ <<"esc", "[", "sp", "a">> \in Seq(ByteKinds)
    BY <2>1, <2>2
  <2> DEFINE B == Seq(ByteKinds)
  <2> HIDE DEF B
  <2>4. u \in B
    BY <1>1, <2>3 DEF Units, B
  <2>5. QED
    BY <2>4 DEF B
<1>2. Len(units) \in Nat /\ units \in [1 .. Len(units) -> Units]
  BY LenProperties
<1>3. \A k \in 0 .. (Len(units) - 1) : k + 1 \in 1 .. Len(units)
  BY <1>2
<1>4. units \in [1 .. Len(units) -> Seq(ByteKinds)]
  BY <1>1, <1>2
<1>5. QED
  BY <1>2, <1>3, <1>4

\* At the end of a unit the scan is ready for the next one, and a chunk that may
\* be no longer than to a place inside of a unit ends where the unit begins.
Broken(text, units, k) ==
    /\ Scan(text, 0, End(units, k)).state = "default"
    /\ \A m \in 0 .. (End(units, k) - 1) : \E j \in 0 .. (k - 1) :
         /\ wp_platform_break_str(text, 0, m) = End(units, j)
         /\ End(units, j) <= m /\ m < End(units, j + 1)

LEMMA BrokenStep ==
  ASSUME NEW units \in Seq(Units), NEW k \in 0 .. (Len(units) - 1),
         Broken(FlattenSeq(units), units, k)
  PROVE  Broken(FlattenSeq(units), units, k + 1)
<1> DEFINE text == FlattenSeq(units)
           n == Len(units)
           e == End(units, k)
           u == units[k + 1]
           len == Len(u)
           from == 0
<1>1. units \in Seq(Seq(ByteKinds)) /\ u \in Units /\ n \in Nat
  BY UnitsOfBytes
<1>2. /\ e \in Nat /\ len \in Nat /\ End(units, k + 1) = e + len
      /\ End(units, k + 1) <= Len(text) /\ Len(text) \in Nat
  <2>1. k \in 0 .. n /\ k + 1 \in 0 .. n /\ n \in (k + 1) .. n /\ n \in 0 .. n
    BY <1>1
  <2>2. /\ e \in Nat /\ len \in Nat /\ End(units, k + 1) = e + len
        /\ Len(text) = End(units, n) /\ Len(text) \in Nat
    BY <1>1, <2>1, EndStep
  <2>3. End(units, k + 1) <= End(units, n)
    BY <1>1, <2>1, PrefixStays
  <2>4. QED
    BY <2>2, <2>3
<1>3. ASSUME NEW j \in 1 .. len PROVE At(text, e + j - 1) = u[j]
  <2>1. text[e + j] = u[j]
    BY <1>1, <1>3, UnitInText
  <2> HIDE DEF text, e, u, len
  <2>2. e + j - 1 < Len(text) /\ e + j - 1 + 1 = e + j
    BY <1>2
  <2>3. QED
    BY <2>1, <2>2 DEF At
<1>4. /\ Scan(text, from, e).state = "default"
      /\ \A m \in 0 .. (e - 1) : \E j \in 0 .. (k - 1) :
           /\ wp_platform_break_str(text, from, m) = End(units, j)
           /\ End(units, j) <= m /\ m < End(units, j + 1)
  BY DEF Broken
<1>5. from = 0 /\ \A m \in Nat : from + m = m
  OBVIOUS
<1> HIDE DEF text, e, u, len, n
<1> SUFFICES /\ Scan(text, from, e + len).state = "default"
             /\ \A m \in 0 .. (e + len - 1) : \E j \in 0 .. k :
                  /\ wp_platform_break_str(text, from, m) = End(units, j)
                  /\ End(units, j) <= m /\ m < End(units, j + 1)
  BY <1>2 DEF Broken, text
<1> HIDE DEF from
<1>6. /\ u[1] # "cont" /\ len \in 1 .. 4
      /\ Scan(text, from, e + len).state = "default"
      /\ \A j \in 1 .. (len - 1) :
           /\ Scan(text, from, e + j).out = e
           /\ Scan(text, from, e + j).state # "default" \/ u[j + 1] = "cont"
  BY <1>1, <1>2, <1>3, <1>4, <1>5, UnitScanned DEF len
<1>7. ASSUME NEW m \in 0 .. (e + len - 1)
      PROVE  \E j \in 0 .. k : /\ wp_platform_break_str(text, from, m) = End(units, j)
                               /\ End(units, j) <= m /\ m < End(units, j + 1)
  <2>1. CASE m < e
    <3>1. m \in 0 .. (e - 1)
      BY <1>2, <2>1
    <3>2. QED
      BY <1>4, <3>1
  <2>2. CASE m = e
    <3>1. At(text, m) = u[1]
      <4>1. 1 \in 1 .. len /\ e + 1 - 1 = e
        BY <1>2, <1>6
      <4>2. QED
        BY <1>3, <2>2, <4>1
    <3>2. wp_platform_break_str(text, from, m) = m
      BY <1>2, <1>4, <1>5, <1>6, <2>2, <3>1 DEF wp_platform_break_str
    <3>3. k \in 0 .. k /\ End(units, k) = e /\ e <= m /\ m < End(units, k + 1)
      BY <1>2, <1>6, <2>2 DEF e
    <3>4. QED
      BY <2>2, <3>2, <3>3
  <2>3. CASE m > e
    <3>1. PICK j \in 1 .. (len - 1) : m = e + j
      <4>1. m - e \in 1 .. (len - 1) /\ m = e + (m - e)
        BY <1>2, <2>3
      <4>2. QED
        BY <4>1
    <3>2. At(text, m) = u[j + 1]
      <4>1. j + 1 \in 1 .. len /\ e + (j + 1) - 1 = m
        BY <1>2, <3>1
      <4>2. QED
        BY <1>3, <4>1
    <3>3. /\ Scan(text, from, m).out = e
          /\ Scan(text, from, m).state # "default" \/ At(text, m) = "cont"
      BY <1>6, <3>1, <3>2
    <3>4. from + m = m
      BY <1>2, <1>5
    <3>5. wp_platform_break_str(text, from, m) = e
      BY <3>3, <3>4 DEF wp_platform_break_str
    <3>6. k \in 0 .. k /\ End(units, k) = e /\ e <= m /\ m < End(units, k + 1)
      BY <1>2, <2>3 DEF e
    <3>7. QED
      BY <3>5, <3>6
  <2>4. QED
    BY <1>2, <2>1, <2>2, <2>3
<1>8. QED
  BY <1>6, <1>7

LEMMA BrokenAtUnits ==
  ASSUME NEW units \in Seq(Units)
  PROVE  Broken(FlattenSeq(units), units, Len(units))
<1> DEFINE n == Len(units)
           T == {k \in Nat : k \in 0 .. n => Broken(FlattenSeq(units), units, k)}
<1>1. n \in Nat /\ units \in Seq(Seq(ByteKinds))
  BY UnitsOfBytes
<1>2. 0 \in T
  <2> DEFINE from == 0
  <2>1. from \in Nat /\ End(units, from) = from
    BY <1>1, EndStep
  <2>2. ~ \E m \in Int : m \in 0 .. (from - 1)
    OBVIOUS
  <2> HIDE DEF from
  <2>3. Scan(FlattenSeq(units), from, 0).state = "default"
    BY <2>1, ScanStep
  <2>4. Scan(FlattenSeq(units), 0, End(units, 0)).state = "default"
    BY <2>1, <2>3 DEF from
  <2>5. 0 .. (End(units, 0) - 1) = {}
    BY <2>1 DEF from
  <2>6. QED
    BY <2>4, <2>5 DEF Broken
<1>3. ASSUME NEW k \in Nat, k \in T PROVE k + 1 \in T
  <2>1. SUFFICES ASSUME k + 1 \in 0 .. n
                 PROVE  Broken(FlattenSeq(units), units, k + 1)
    OBVIOUS
  <2>2. k \in 0 .. (n - 1) /\ k \in 0 .. n
    BY <1>1, <2>1
  <2>3. Broken(FlattenSeq(units), units, k)
    BY <1>3, <2>2
  <2>4. QED
    BY <2>2, <2>3, BrokenStep
<1> HIDE DEF T
<1>4. Nat \subseteq T
  BY <1>2, <1>3, AllNaturals
<1>5. n \in T /\ n \in 0 .. n
  BY <1>1, <1>4
<1>6. QED
  BY <1>5 DEF T

\* Behind the null byte the scan stands still.
LEMMA ScanEnds ==
  ASSUME NEW text, NEW from, from = 0, NEW e \in Nat,
         Scan(text, from, e).state = "default", At(text, e) = "nul",
         NEW m \in Nat, m > e
  PROVE  Scan(text, from, m).state = "exit" /\ Scan(text, from, m).out = e
<1> DEFINE Q(p) == Scan(text, from, p).state
           O(p) == Scan(text, from, p).out
           T == {p \in Nat : p > e => Q(p) = "exit" /\ O(p) = e}
<1>1. ASSUME NEW p \in Nat
      PROVE  Steps(Q(p), O(p), At(text, p), p, Q(p + 1), O(p + 1))
  <2>1. from \in Nat /\ from + p = p
    OBVIOUS
  <2>2. /\ Scan(text, from, p) \in Scans
        /\ Scan(text, from, p + 1) = Scanned(Scan(text, from, p), At(text, from + p), p)
    BY <2>1, ScanStep
  <2>3. QED
    BY <2>1, <2>2, ScannedSteps
<1>2. Q(e) = "default"
  OBVIOUS
<1> HIDE DEF Q, O
<1>3. 0 \in T
  OBVIOUS
<1>4. ASSUME NEW p \in Nat, p \in T PROVE p + 1 \in T
  <2>1. SUFFICES ASSUME p + 1 > e PROVE Q(p + 1) = "exit" /\ O(p + 1) = e
    OBVIOUS
  <2>2. CASE p = e
    <3>1. At(text, p) = "nul" /\ Q(p) = "default"
      BY <1>2, <2>2
    <3>2. QED
      BY <1>1, <2>2, <3>1 DEF Steps
  <2>3. CASE p # e
    <3>1. p > e
      BY <2>1, <2>3
    <3>2. Q(p) = "exit" /\ O(p) = e
      BY <1>4, <3>1
    <3>3. QED
      BY <1>1, <3>2 DEF Steps
  <2>4. QED
    BY <2>2, <2>3
<1> HIDE DEF T
<1>5. Nat \subseteq T
  BY <1>3, <1>4, AllNaturals
<1>6. Q(m) = "exit" /\ O(m) = e
  BY <1>5 DEF T
<1>7. QED
  BY <1>6 DEF Q, O

\* A text of complete units is broken between two of them, at the last place
\* that max allows.
LEMMA BrokenAtLastUnit ==
  ASSUME NEW units \in Seq(Units), NEW max \in Nat
  PROVE  \E k \in 0 .. Len(units) :
           /\ wp_platform_break_str(FlattenSeq(units), 0, max) = End(units, k)
           /\ End(units, k) <= max
           /\ k = Len(units) \/ max < End(units, k + 1)
<1> DEFINE text == FlattenSeq(units)
           n == Len(units)
           e == End(units, n)
           from == 0
<1>1. n \in Nat /\ e \in Nat /\ Len(text) = e
  <2>1. n \in Nat /\ n \in 0 .. n /\ units \in Seq(Seq(ByteKinds))
    BY UnitsOfBytes
  <2>2. QED
    BY <2>1, EndStep
<1>2. Broken(text, units, n)
  BY BrokenAtUnits
<1>3. At(text, e) = "nul"
  BY <1>1 DEF At
<1> HIDE DEF text, n
<1>4. CASE max < e
  <2>1. PICK j \in 0 .. (n - 1) :
          /\ wp_platform_break_str(text, 0, max) = End(units, j)
          /\ End(units, j) <= max /\ max < End(units, j + 1)
    <3>1. max \in 0 .. (e - 1)
      BY <1>1, <1>4
    <3>2. QED
      BY <1>2, <3>1 DEF Broken
  <2>2. j \in 0 .. n
    BY <1>1
  <2>3. QED
    BY <2>1, <2>2 DEF text, n
<1>5. CASE max >= e
  <2>1. Scan(text, from, e).state = "default"
    BY <1>2 DEF Broken
  <2>2. from = 0 /\ from + max = max
    OBVIOUS
  <2> HIDE DEF from, e
  <2>3. wp_platform_break_str(text, from, max) = e
    <3>1. CASE max = e
      BY <1>3, <2>1, <2>2, <3>1 DEF wp_platform_break_str
    <3>2. CASE max > e
      <4>1. Scan(text, from, max).state = "exit" /\ Scan(text, from, max).out = e
        BY <1>1, <1>3, <2>1, <2>2, <3>2, ScanEnds
      <4>2. QED
        BY <4>1 DEF wp_platform_break_str
    <3>3. QED
      BY <1>1, <1>5, <3>1, <3>2
  <2>4. n \in 0 .. n
    BY <1>1
  <2>5. QED
    BY <1>5, <2>2, <2>3, <2>4 DEF text, n, e
<1>6. QED
  BY <1>1, <1>4, <1>5

-----------------------------------------------------------------------------
(* A message that is cut keeps its first words.                            *)

\* Every byte is in a unit.
LEMMA ByteInUnit ==
  ASSUME NEW S, NEW seqs \in Seq(Seq(S)), NEW p \in 1 .. Len(FlattenSeq(seqs))
  PROVE  \E k \in 0 .. (Len(seqs) - 1) : \E j \in 1 .. Len(seqs[k + 1]) :
           p = End(seqs, k) + j
<1> DEFINE n == Len(seqs)
           Placed(k, q) == \E l \in 0 .. (k - 1) : \E j \in 1 .. Len(seqs[l + 1]) :
                             q = End(seqs, l) + j
           T == {k \in Nat : k \in 0 .. n =>
                  \A q \in Nat \ {0} : q <= End(seqs, k) => Placed(k, q)}
<1>1. n \in Nat /\ Len(FlattenSeq(seqs)) = End(seqs, n) /\ End(seqs, n) \in Nat
  <2>1. n \in Nat /\ n \in 0 .. n
    OBVIOUS
  <2>2. QED
    BY <2>1, EndStep
<1>2. 0 \in T
  <2>1. End(seqs, 0) = 0
    BY EndStep
  <2>2. \A q \in Nat \ {0} : ~(q <= 0)
    OBVIOUS
  <2>3. QED
    BY <2>1, <2>2
<1>3. ASSUME NEW k \in Nat, k \in T PROVE k + 1 \in T
  <2>1. SUFFICES ASSUME k + 1 \in 0 .. n, NEW q \in Nat \ {0},
                        q <= End(seqs, k + 1)
                 PROVE  Placed(k + 1, q)
    OBVIOUS
  <2>2. k \in 0 .. (n - 1) /\ k \in 0 .. n /\ k + 1 - 1 = k /\ k \in 0 .. k
    BY <1>1, <2>1
  <2> DEFINE e == End(seqs, k)
             len == Len(seqs[k + 1])
  <2>3. e \in Nat /\ len \in Nat /\ End(seqs, k + 1) = e + len
    BY <2>2, EndStep
  <2>4. CASE q <= e
    <3>1. Placed(k, q)
      BY <1>3, <2>2, <2>4
    <3>2. PICK l \in 0 .. (k - 1) : \E j \in 1 .. Len(seqs[l + 1]) :
                                      q = End(seqs, l) + j
      BY <3>1
    <3>3. l \in 0 .. (k + 1 - 1)
      OBVIOUS
    <3>4. QED
      BY <3>2, <3>3
  <2>5. CASE q > e
    <3> HIDE DEF e, len
    <3>1. q - e \in 1 .. len /\ q = e + (q - e)
      BY <2>1, <2>3, <2>5
    <3>2. PICK j \in 1 .. len : q = e + j
      BY <3>1
    <3>3. QED
      BY <2>2, <3>2 DEF e, len
  <2>6. QED
    BY <2>3, <2>4, <2>5
<1> HIDE DEF T
<1>4. Nat \subseteq T
  BY <1>2, <1>3, AllNaturals
<1>5. n \in T /\ n \in 0 .. n /\ p \in Nat \ {0} /\ p <= End(seqs, n)
  BY <1>1, <1>4
<1>6. Placed(n, p)
  BY <1>5 DEF T
<1>7. QED
  BY <1>6

\* The spaces of a text without escape sequences are units.
LEMMA SpacesAreUnits ==
  ASSUME NEW units \in Seq(Characters), NEW p \in 1 .. Len(FlattenSeq(units))
  PROVE  FlattenSeq(units)[p] = "sp" <=>
           \E k \in DOMAIN units : units[k] = <<"sp">> /\ End(units, k) = p
<1> DEFINE text == FlattenSeq(units)
           n == Len(units)
<1>1. /\ n \in Nat /\ DOMAIN units = 1 .. n /\ units \in Seq(Seq(ByteKinds))
      /\ \A k \in 0 .. (n - 1) : k + 1 \in 1 .. n /\ units[k + 1] \in Characters
  <2>1. Characters \subseteq Units
    BY DEF Characters, Units
  <2>2. n \in Nat /\ DOMAIN units = 1 .. n /\ units \in [1 .. n -> Characters]
    BY LenProperties
  <2>3. \A k \in 0 .. (n - 1) : k + 1 \in 1 .. n
    BY <2>2
  <2>4. units \in Seq(Units)
    <3>1. units \in [1 .. n -> Units]
      BY <2>1, <2>2
    <3>2. QED
      BY <2>2, <3>1
  <2>5. QED
    BY <2>2, <2>3, <2>4, UnitsOfBytes
<1>2. \A k \in 0 .. (n - 1) : \A j \in 1 .. Len(units[k + 1]) :
        text[End(units, k) + j] = units[k + 1][j]
  BY <1>1, UnitInText
<1>3. \A k \in 0 .. (n - 1) :
        End(units, k) \in Nat /\ End(units, k + 1) = End(units, k) + Len(units[k + 1])
  <2>1. \A k \in 0 .. (n - 1) : k \in 0 .. n
    BY <1>1
  <2>2. QED
    BY <1>1, <2>1, EndStep
<1> HIDE DEF n, text
<1>4. ASSUME text[p] = "sp"
      PROVE  \E k \in 1 .. n : units[k] = <<"sp">> /\ End(units, k) = p
  <2>0. PICK k \in 0 .. (n - 1) : \E j \in 1 .. Len(units[k + 1]) : p = End(units, k) + j
    BY <1>1, ByteInUnit DEF n
  <2>1. PICK j \in 1 .. Len(units[k + 1]) : p = End(units, k) + j
    BY <2>0
  <2>2. units[k + 1][j] = "sp" /\ units[k + 1] \in Characters /\ k + 1 \in 1 .. n
    BY <1>1, <1>2, <1>4, <2>1
  <2> DEFINE u == units[k + 1]
  <2> HIDE DEF u
  <2>3. u \in Characters /\ j \in 1 .. Len(u) /\ u[j] = "sp"
    BY <2>2 DEF u
  <2>4. u = <<"sp">> /\ j = 1
    <3>1. CASE u = <<"a">>
      BY <2>3, <3>1
    <3>2. CASE u = <<"sp">>
      BY <2>3, <3>2
    <3>3. CASE u = <<"lead", "cont">>
      BY <2>3, <3>3
    <3>4. QED
      BY <2>3, <3>1, <3>2, <3>3 DEF Characters
  <2>5. Len(u) = 1
    BY <2>4
  <2>6. End(units, k + 1) = p
    BY <1>3, <2>1, <2>4, <2>5 DEF u
  <2>7. QED
    BY <2>2, <2>4, <2>6 DEF u
<1>5. ASSUME NEW k \in 1 .. n, units[k] = <<"sp">>, End(units, k) = p
      PROVE  text[p] = "sp"
  <2>1. PICK l \in 0 .. (n - 1) : l + 1 = k
    <3>1. k - 1 \in 0 .. (n - 1) /\ k - 1 + 1 = k
      BY <1>1
    <3>2. QED
      BY <3>1
  <2>2. Len(<<"sp">>) = 1 /\ 1 \in 1 .. 1 /\ <<"sp">>[1] = "sp"
    OBVIOUS
  <2>3. Len(units[l + 1]) = 1 /\ 1 \in 1 .. Len(units[l + 1]) /\ units[l + 1][1] = "sp"
    BY <1>5, <2>1, <2>2
  <2>4. text[End(units, l) + 1] = "sp"
    BY <1>2, <2>3
  <2>5. End(units, l) + 1 = p
    BY <1>3, <1>5, <2>1, <2>3
  <2>6. QED
    BY <2>4, <2>5
<1>6. QED
  BY <1>1, <1>4, <1>5 DEF text

\* The start of the last word.
LEMMA WordStartIs ==
  ASSUME NEW text, NEW pos \in Nat
  PROVE  /\ WordStart(text, pos) \in 0 .. pos
         /\ WordStart(text, pos) = 0 \/ text[WordStart(text, pos)] = "sp"
         /\ \A q \in (WordStart(text, pos) + 1) .. pos : text[q] # "sp"
<1> DEFINE IsLast(p, q) == text[q] = "sp" /\ \A r \in (q + 1) .. p : text[r] # "sp"
           T == {p \in Nat : (\E q \in 1 .. p : text[q] = "sp")
                               => \E q \in 1 .. p : IsLast(p, q)}
<1>1. 0 \in T
  OBVIOUS
<1>2. ASSUME NEW p \in Nat, p \in T PROVE p + 1 \in T
  <2>1. SUFFICES ASSUME NEW q \in 1 .. (p + 1), text[q] = "sp"
                 PROVE  \E r \in 1 .. (p + 1) : IsLast(p + 1, r)
    OBVIOUS
  <2>2. CASE text[p + 1] = "sp"
    <3>1. p + 1 \in 1 .. (p + 1) /\ (p + 1 + 1) .. (p + 1) = {}
      OBVIOUS
    <3>2. QED
      BY <2>2, <3>1
  <2>3. CASE text[p + 1] # "sp"
    <3>1. q \in 1 .. p
      BY <2>1, <2>3
    <3>2. PICK r \in 1 .. p : IsLast(p, r)
      BY <1>2, <2>1, <3>1
    <3>3. r \in 1 .. (p + 1)
          /\ \A s \in (r + 1) .. (p + 1) : s \in (r + 1) .. p \/ s = p + 1
      OBVIOUS
    <3>4. IsLast(p + 1, r)
      BY <2>3, <3>2, <3>3, Zenon
    <3> HIDE DEF IsLast
    <3>5. QED
      BY <3>3, <3>4
  <2>4. QED
    BY <2>2, <2>3
<1> HIDE DEF T
<1>3. Nat \subseteq T
  BY <1>1, <1>2, AllNaturals
<1>4. CASE \E q \in 1 .. pos : text[q] = "sp"
  <2>1. \E q \in 1 .. pos : text[q] = "sp" /\ \A r \in (q + 1) .. pos : text[r] # "sp"
    BY <1>3, <1>4 DEF T
  <2>2. WordStart(text, pos) =
          CHOOSE q \in 1 .. pos : text[q] = "sp" /\ \A r \in (q + 1) .. pos : text[r] # "sp"
    BY <1>4 DEF WordStart
  <2>3. WordStart(text, pos) \in 1 .. pos /\ IsLast(pos, WordStart(text, pos))
    BY <2>1, <2>2
  <2>4. QED
    BY <2>3
<1>5. CASE ~ \E q \in 1 .. pos : text[q] = "sp"
  <2>1. WordStart(text, pos) = 0
    BY <1>5 DEF WordStart
  <2>2. 0 \in 0 .. pos /\ 0 + 1 = 1
    OBVIOUS
  <2>3. QED
    BY <1>5, <2>1, <2>2
<1>6. QED
  BY <1>4, <1>5

-----------------------------------------------------------------------------
(* Every text of TextCuts, however many units it has.                      *)

LEMMA UpToIsSeq ==
  ASSUME NEW S, NEW n \in Nat, NEW s \in UpTo(S, n)
  PROVE  s \in Seq(S)
<1>1. PICK k \in 0 .. n : s \in [1 .. k -> S]
  BY DEF UpTo
<1>2. k \in Nat
  OBVIOUS
<1>3. QED
  BY <1>1, <1>2

\* What may be asked.
JobOK ==
    /\ job.max \in Nat \ {0}
    /\ job.units \in Seq(Units)
    /\ job.op = "format" => job.units \in Seq(Characters) /\ job.stub = <<>>

LEMMA JobsAreOK ==
  job \in Jobs => JobOK
<1>1. SUFFICES ASSUME job \in Jobs PROVE JobOK
  OBVIOUS
<1>2. MaxUnits \in Nat /\ MaxWords \in Nat /\ \A m \in 1 .. MaxBytes : m \in Nat \ {0}
  BY TextCutsAssumption
<1>3. \A s \in Seq(Characters) : s \in Seq(Units)
  <2>1. Characters \subseteq Units
    BY DEF Characters, Units
  <2> HIDE DEF Characters, Units
  <2>2. ASSUME NEW s \in Seq(Characters) PROVE s \in Seq(Units)
    BY <2>1
  <2>3. QED
    BY <2>2
<1>4. \/ /\ job.op = "break" /\ job.units \in UpTo(Units, MaxUnits)
         /\ job.max \in 1 .. MaxBytes
      \/ /\ job.op = "format" /\ job.units \in UpTo(Characters, MaxWords)
         /\ job.stub = <<>> /\ job.max \in 1 .. MaxBytes
  BY <1>1 DEF Jobs
<1>5. CASE job.op = "break"
  BY <1>2, <1>4, <1>5, UpToIsSeq DEF JobOK
<1>6. CASE job.op = "format"
  BY <1>2, <1>3, <1>4, <1>6, UpToIsSeq DEF JobOK
<1>7. QED
  BY <1>4, <1>5, <1>6

\* The result is that of the function.
CutInv ==
    /\ job \in Jobs
    /\ Done("break") => Out = wp_platform_break_str(Bytes, 0, job.max)
    /\ Done("format") => Out = w_format_msg_va(Bytes, job.max)

LEMMA CutInvAlways == CutSpec => []CutInv
<1>1. CutInit => CutInv
  BY DEF CutInit, CutInv, Done
<1>2. CutInv /\ [CutNext]_<<job, result>> => CutInv'
  <2>1. SUFFICES ASSUME CutInv, [CutNext]_<<job, result>> PROVE CutInv'
    OBVIOUS
  <2>2. CASE Break
    BY <2>1, <2>2 DEF Break, CutInv, Done, Out, Bytes
  <2>3. CASE Format
    BY <2>1, <2>3 DEF Format, CutInv, Done, Out, Bytes
  <2>4. CASE UNCHANGED <<job, result>>
    BY <2>1, <2>4 DEF CutInv, Done, Out, Bytes
  <2>5. QED
    BY <2>1, <2>2, <2>3, <2>4 DEF CutNext
<1>3. QED
  BY <1>1, <1>2, PTL DEF CutSpec

LEMMA BoundaryIsEnd ==
  \A k : Boundary(k) = End(job.units, k)
BY DEF Boundary, End, Prefix

LEMMA BreakIsRight ==
  CutInv => ChunkIsWholeUnits
<1>1. SUFFICES ASSUME CutInv, Done("break"), job.stub = <<>>
               PROVE  /\ ~(Out > Len(Bytes))
                      /\ Out \in Boundaries
                      /\ Out <= job.max
                      /\ \A b \in Boundaries : b <= job.max => b <= Out
  BY DEF ChunkIsWholeUnits
<1> DEFINE units == job.units
           n == Len(units)
           max == job.max
<1>2. units \in Seq(Units) /\ max \in Nat
  BY <1>1, JobsAreOK DEF CutInv, JobOK
<1>3. units \in Seq(Seq(ByteKinds)) /\ n \in Nat
  BY <1>2, UnitsOfBytes
<1>4. Bytes = FlattenSeq(units) /\ Len(Bytes) = End(units, n)
  <2>1. n \in 0 .. n
    BY <1>3
  <2>2. FlattenSeq(units) \in Seq(ByteKinds)
    BY <1>3, <2>1, PrefixStep
  <2>3. FlattenSeq(units) \o <<>> = FlattenSeq(units)
    BY <2>2, ConcatEmptySeq
  <2>4. QED
    BY <1>1, <1>3, <2>3, EndStep DEF Bytes
<1>5. Out = wp_platform_break_str(FlattenSeq(units), 0, max)
  BY <1>1, <1>4 DEF CutInv
<1>6. Boundaries = {End(units, k) : k \in 0 .. n}
  BY BoundaryIsEnd DEF Boundaries
<1> HIDE DEF units, n, max
<1>7. PICK k \in 0 .. n : /\ Out = End(units, k)
                          /\ End(units, k) <= max
                          /\ k = n \/ max < End(units, k + 1)
  BY <1>2, <1>5, BrokenAtLastUnit DEF n
<1>8. \A j \in 0 .. n : End(units, j) \in Nat
  BY <1>3, EndStep DEF n
<1>9. \A a \in 0 .. n : \A b \in a .. n : End(units, a) <= End(units, b)
  BY <1>3, PrefixStays DEF n
<1>10. ASSUME NEW j \in 0 .. n, End(units, j) <= max PROVE End(units, j) <= Out
  <2>1. CASE j <= k
    <3>1. k \in j .. n
      BY <1>3, <2>1
    <3>2. QED
      BY <1>7, <1>9, <3>1
  <2>2. CASE j > k
    <3>1. k + 1 \in 0 .. n /\ j \in (k + 1) .. n /\ k # n
      BY <1>3, <2>2
    <3>2. End(units, k + 1) <= End(units, j) /\ max < End(units, k + 1)
      BY <1>7, <1>9, <3>1
    <3>3. End(units, k + 1) \in Nat /\ End(units, j) \in Nat
      BY <1>8, <3>1
    <3>4. QED
      BY <1>2, <1>10, <3>2, <3>3
  <2>3. QED
    BY <1>3, <2>1, <2>2
<1>11. Out <= End(units, n) /\ Out \in Nat /\ End(units, n) \in Nat
  <2>1. n \in k .. n /\ n \in 0 .. n
    BY <1>3
  <2>2. QED
    BY <1>7, <1>8, <1>9, <2>1
<1>12. ~(Out > Len(Bytes))
  BY <1>4, <1>11 DEF units, n
<1>13. QED
  BY <1>6, <1>7, <1>10, <1>12 DEF max

\* No chunk of wp_platform_break_str() splits a character or an escape sequence
\* of a text of complete units, and each takes as many units as it may.
THEOREM ChunkIsWholeUnitsAlways == CutSpec => []ChunkIsWholeUnits
BY CutInvAlways, BreakIsRight, PTL

LEMMA FormatIsRight ==
  CutInv => FormattedAtWord
<1>1. SUFFICES ASSUME CutInv, Done("format") PROVE FormattedAtWord
  BY DEF FormattedAtWord
<1> DEFINE text == Bytes
           max == job.max
           starts == {0} \union
             {Boundary(k) : k \in {j \in DOMAIN job.units : job.units[j] = <<"sp">>}}
<1>2. job.units \in Seq(Characters) /\ max \in Nat \ {0}
  BY <1>1, JobsAreOK DEF CutInv, JobOK, Done
<1>3. text = FlattenSeq(job.units) /\ text \in Seq(ByteKinds)
  <2>1. job.units \in Seq(Seq(ByteKinds)) /\ Len(job.units) \in Nat /\ job.stub = <<>>
    BY <1>1, JobsAreOK, UnitsOfBytes DEF CutInv, JobOK, Done
  <2>2. Len(job.units) \in 0 .. Len(job.units)
    BY <2>1
  <2>3. FlattenSeq(job.units) \in Seq(ByteKinds)
    BY <2>1, <2>2, PrefixStep
  <2>4. FlattenSeq(job.units) \o <<>> = FlattenSeq(job.units)
    BY <2>3, ConcatEmptySeq
  <2>5. QED
    BY <2>1, <2>3, <2>4 DEF Bytes
<1>4. \A p \in 1 .. Len(text) : text[p] = "sp" <=> p \in starts
  <2>1. ASSUME NEW p \in 1 .. Len(text) PROVE text[p] = "sp" <=> p \in starts
    <3>1. p # 0
      BY <1>3
    <3>2. text[p] = "sp" <=>
            \E k \in DOMAIN job.units : job.units[k] = <<"sp">> /\ End(job.units, k) = p
      BY <1>2, <1>3, SpacesAreUnits
    <3>3. p \in starts <=>
            \E k \in DOMAIN job.units : job.units[k] = <<"sp">> /\ End(job.units, k) = p
      BY <3>1, BoundaryIsEnd
    <3>4. QED
      BY <3>2, <3>3
  <2>2. QED
    BY <2>1
<1>5. \A r \in starts : r = 0 \/ r \in 1 .. Len(text)
  <2>1. ASSUME NEW k \in DOMAIN job.units, job.units[k] = <<"sp">>
        PROVE  End(job.units, k) \in 1 .. Len(text)
    <3>1. /\ job.units \in Seq(Seq(ByteKinds)) /\ Len(job.units) \in Nat
          /\ k \in 1 .. Len(job.units)
      BY <1>1, JobsAreOK, UnitsOfBytes, LenProperties DEF CutInv, JobOK, Done
    <3>2. PICK l \in 0 .. (Len(job.units) - 1) : l + 1 = k
      <4>1. k - 1 \in 0 .. (Len(job.units) - 1) /\ k - 1 + 1 = k
        BY <3>1
      <4>2. QED
        BY <4>1
    <3>3. l \in 0 .. Len(job.units) /\ Len(job.units) \in k .. Len(job.units)
          /\ k \in 0 .. Len(job.units)
      BY <3>1
    <3>4. Len(<<"sp">>) = 1
      OBVIOUS
    <3>5. End(job.units, l) \in Nat /\ End(job.units, k) = End(job.units, l) + 1
      BY <2>1, <3>1, <3>2, <3>3, <3>4, EndStep
    <3>6. /\ End(job.units, k) <= End(job.units, Len(job.units))
          /\ Len(text) = End(job.units, Len(job.units)) /\ Len(text) \in Nat
      BY <1>3, <3>1, <3>3, PrefixStays, EndStep
    <3>7. QED
      BY <3>5, <3>6
  <2>2. QED
    BY <2>1, BoundaryIsEnd
<1>6. Out = w_format_msg_va(text, max)
  BY <1>1 DEF CutInv
<1>7. Mark \in Seq(ByteKinds) /\ Len(Mark) = 6 /\ MarkSize = 7
  <2>1. \A a, b, c, d \in ByteKinds : <<a, b, c, d, d>> \in Seq(ByteKinds)
                                      /\ <<a, b, c, c, d, d>> \in Seq(ByteKinds)
    OBVIOUS
  <2>2. /\ "a" \in ByteKinds /\ "lead" \in ByteKinds /\ "cont" \in ByteKinds
        /\ "[" \in ByteKinds
    BY DEF ByteKinds
  <2>3. QED
    BY <2>1, <2>2 DEF Mark, MarkSize
<1>8. Len(text) \in Nat
  BY <1>3
<1> HIDE DEF text, starts, max
<1>9. CASE Len(text) < max
  <2>1. Out = text
    BY <1>2, <1>6, <1>8, <1>9 DEF w_format_msg_va
  <2>2. QED
    BY <1>2, <1>8, <1>9, <2>1 DEF FormattedAtWord, text, max
<1>10. CASE Len(text) >= max
  <2>1. Out = wp_platform_truncate(text, max)
    BY <1>6, <1>10 DEF w_format_msg_va
  <2>2. \A m \in 0 .. Len(text) : SubSeq(text, 1, m) \in Seq(ByteKinds)
                                  /\ Len(SubSeq(text, 1, m)) = m
    <3>1. ASSUME NEW m \in 0 .. Len(text)
          PROVE  SubSeq(text, 1, m) \in Seq(ByteKinds) /\ Len(SubSeq(text, 1, m)) = m
      BY <1>3, <1>8
    <3>2. QED
      BY <3>1
  <2>3. CASE max < 7
    <3>1. Out = SubSeq(text, 1, max - 1)
      BY <1>7, <2>1, <2>3 DEF wp_platform_truncate
    <3>2. max - 1 \in 0 .. Len(text) /\ max - 1 < max /\ ~(Len(text) < max) /\ ~(max >= 7)
      BY <1>2, <1>8, <1>10, <2>3
    <3>3. Len(Out) < max
      BY <2>2, <3>1, <3>2
    <3>4. QED
      BY <1>7, <3>2, <3>3 DEF FormattedAtWord, text, max
  <2>4. CASE max >= 7
    <3> DEFINE pos == max - 7
               s == WordStart(text, pos)
    <3>1. Out = SubSeq(text, 1, s) \o Mark
      <4>1. ~(max < MarkSize)
        BY <1>2, <1>7, <2>4
      <4>2. QED
        BY <1>7, <2>1, <4>1 DEF wp_platform_truncate
    <3>2. pos \in Nat /\ pos <= Len(text) /\ pos + 7 = max
      BY <1>2, <1>8, <1>10, <2>4
    <3> HIDE DEF pos
    <3>3. /\ s \in 0 .. pos
          /\ s = 0 \/ text[s] = "sp"
          /\ \A q \in (s + 1) .. pos : text[q] # "sp"
      BY <3>2, WordStartIs
    <3> HIDE DEF s
    <3>4. s \in 0 .. Len(text)
      BY <1>8, <3>2, <3>3
    <3>5. Len(Out) < max
      <4> DEFINE words == SubSeq(text, 1, s)
      <4>1. words \in Seq(ByteKinds) /\ Len(words) = s
        BY <2>2, <3>4
      <4>2. Out = words \o Mark
        BY <3>1
      <4> HIDE DEF words
      <4>3. Len(words \o Mark) = Len(words) + Len(Mark)
        BY <1>7, <4>1, ConcatProperties
      <4>4. Len(Out) = s + 6
        BY <1>7, <4>1, <4>2, <4>3
      <4>5. QED
        BY <3>2, <3>3, <4>4
    <3>6. s \in starts
      <4>1. CASE s = 0
        BY <4>1 DEF starts
      <4>2. CASE s # 0
        <5>1. s \in 1 .. Len(text) /\ text[s] = "sp"
          BY <3>3, <3>4, <4>2
        <5>2. QED
          BY <1>4, <5>1
      <4>3. QED
        BY <4>1, <4>2
    <3>7. ASSUME NEW r \in starts, r > s PROVE r + 7 > max
      <4>1. r \in 1 .. Len(text) /\ text[r] = "sp"
        <5>1. r # 0
          BY <3>3, <3>7
        <5>2. QED
          BY <1>4, <1>5, <5>1
      <4>2. ~(r \in (s + 1) .. pos)
        BY <3>3, <4>1
      <4>3. QED
        BY <1>8, <3>2, <3>3, <3>7, <4>1, <4>2
    <3>8. ~(Len(text) < max)
      BY <1>2, <1>8, <1>10
    <3>9. \E w \in starts : /\ Out = SubSeq(text, 1, w) \o Mark
                            /\ \A r \in starts : r > w => r + 7 > max
      BY <3>1, <3>6, <3>7
    <3>10. QED
      BY <1>7, <3>5, <3>8, <3>9 DEF FormattedAtWord, text, max, starts
  <2>5. QED
    BY <1>2, <2>3, <2>4
<1>11. QED
  BY <1>2, <1>8, <1>9, <1>10

\* A message that does not fit its buffer is cut by wp_platform_truncate() behind
\* the last word that leaves room for the mark.
THEOREM FormattedAtWordAlways == CutSpec => []FormattedAtWord
BY CutInvAlways, FormatIsRight, PTL

=============================================================================
