---------------------------- MODULE DwordProofs ----------------------------
(* Lemmas that the proofs about the programs cite: about division, about the *)
(* machine words, and about the positions of a table and of its text.        *)
EXTENDS Dword, SequenceTheorems, TLAPS

\* Division by a positive number: quotient and remainder exist and
LEMMA Division ==
  ASSUME NEW a \in Int, NEW b \in Nat \ {0}
  PROVE  /\ a \div b \in Int
         /\ a % b \in 0..b - 1
         /\ a = b * (a \div b) + (a % b)
<1> DEFINE q == a \div b
           r == a % b
<1>1. q \in Int /\ r \in 0..b - 1
  OBVIOUS
<1>2. r = a - b * q
  BY SMTT(20)
<1> HIDE DEF q, r
<1>3. a = b * q + r
  BY <1>1, <1>2
<1> QED
  BY <1>1, <1>3 DEF q, r

\* ... are the only ones.
LEMMA DivisionUnica ==
  ASSUME NEW a \in Int, NEW b \in Nat \ {0},
         NEW q \in Int, NEW r \in 0..b - 1, a = b * q + r
  PROVE  a \div b = q /\ a % b = r
<1> DEFINE p == a \div b
           s == a % b
<1>1. p \in Int /\ s \in 0..b - 1 /\ a = b * p + s
  BY Division
<1> HIDE DEF p, s
<1>2. b * (q - p) = s - r
  BY <1>1
<1>3. ~(q - p >= 1)
  <2> SUFFICES ASSUME q - p >= 1 PROVE FALSE
      OBVIOUS
  <2>1. b * (q - p) >= b
    BY <1>1
  <2> QED
    BY <1>1, <1>2, <2>1
<1>4. ~(q - p <= -1)
  <2> SUFFICES ASSUME q - p <= -1 PROVE FALSE
      OBVIOUS
  <2>1. b * (q - p) <= -b
    BY <1>1
  <2> QED
    BY <1>1, <1>2, <2>1
<1>5. q = p
  BY <1>1, <1>3, <1>4
<1>6. r = s
  BY <1>1, <1>5
<1> QED
  BY <1>5, <1>6 DEF p, s

\* A division of a number that is not negative makes it no greater.
LEMMA CocienteMenor ==
  ASSUME NEW a \in Nat, NEW b \in Nat \ {0}
  PROVE  a \div b \in 0..a
<1> DEFINE q == a \div b
           r == a % b
<1>1. q \in Int /\ r \in 0..b - 1 /\ a = b * q + r
  BY Division
<1> HIDE DEF q, r
<1>2. q >= 0
  <2> SUFFICES ASSUME q <= -1 PROVE FALSE
      BY <1>1
  <2>1. b * q <= -b
    BY <1>1
  <2> QED
    BY <1>1, <2>1
<1>3. b * q >= q
  BY <1>1, <1>2
<1> QED
  BY <1>1, <1>2, <1>3 DEF q

\* The division of ten times a number, done one digit at a time.
LEMMA DivisionConDecimal ==
  ASSUME NEW s \in Nat, NEW n \in Nat \ {0}
  PROVE  10 * (s \div n) + (10 * (s % n)) \div n = (10 * s) \div n
<1> DEFINE q == s \div n
           r == s % n
           d == (10 * r) \div n
           t == (10 * r) % n
<1>1. q \in Int /\ r \in 0..n - 1 /\ s = n * q + r
  BY Division
<1>2. d \in Int /\ t \in 0..n - 1 /\ 10 * r = n * d + t
  <2>1. 10 * r \in Int
    BY <1>1
  <2> HIDE DEF r
  <2> QED
    BY <2>1, Division
<1> HIDE DEF q, r, d, t
<1> DEFINE e == 10 * q + d
           f == 10 * s
<1>3. e \in Int /\ f \in Int /\ f = n * e + t
  BY <1>1, <1>2
<1> HIDE DEF e, f
<1>4. f \div n = e
  BY <1>2, <1>3, DivisionUnica
<1> QED
  BY <1>4 DEF q, r, d, e, f

\* Replacing the remainder of a number changes nothing else of it.
LEMMA RestoReemplazado ==
  ASSUME NEW v \in Nat, NEW m \in Nat \ {0}, NEW b \in 0..m - 1
  PROVE  /\ v - (v % m) \in Nat
         /\ (v - (v % m) + b) % m = b
         /\ v - (v % m) + b - ((v - (v % m) + b) % m) = v - (v % m)
<1> DEFINE q == v \div m
           r == v % m
           e == m * q
           w == e + b
<1>1. q \in Int /\ r \in 0..m - 1 /\ v = m * q + r
  BY Division
<1>2. q \in Nat
  BY CocienteMenor
<1> HIDE DEF q, r
<1>3. e \in Nat /\ v = e + r /\ v - r = e
  <2>1. \A x, y \in Nat : x * y \in Nat
    OBVIOUS
  <2> QED
    BY <1>1, <1>2, <2>1
<1>4. w = m * q + b /\ w \in Int
  BY <1>3
<1> HIDE DEF e
<1>5. v - r + b = w /\ w - b = e
  BY <1>3
<1> HIDE DEF w
<1>6. w % m = b
  BY <1>1, <1>4, DivisionUnica
<1> QED
  BY <1>3, <1>5, <1>6 DEF r

\* The positions of a table of m columns, row by row.
LEMMA Casillero ==
  ASSUME NEW f \in Nat, NEW m \in Nat \ {0}, NEW c \in 0..m - 1
  PROVE  /\ f * m + c \in Nat
         /\ (f * m + c) \div m = f
         /\ (f * m + c) % m = c
<1> DEFINE a == f * m + c
<1>1. a \in Nat /\ a = m * f + c
  <2>1. \A x, y \in Nat : x * y \in Nat /\ x * y = y * x
    OBVIOUS
  <2> QED
    BY <2>1
<1> HIDE DEF a
<1>2. a \div m = f /\ a % m = c
  BY <1>1, DivisionUnica
<1> QED
  BY <1>1, <1>2 DEF a

\* In a table of n rows they are less than n * m.
LEMMA CasilleroAdentro ==
  ASSUME NEW n \in Nat, NEW f \in 0..n - 1, NEW m \in Nat \ {0},
         NEW c \in 0..m - 1
  PROVE  f * m + c \in 0..n * m - 1
<1> DEFINE d == n - 1 - f
<1>1. d \in Nat
  OBVIOUS
<1>2. n * m = f * m + d * m + m
  <2>1. \A x, y, z \in Int : (x + y + 1) * z = x * z + y * z + z
    OBVIOUS
  <2>2. n = f + d + 1
    OBVIOUS
  <2> HIDE DEF d
  <2> QED
    BY <1>1, <2>1, <2>2
<1> HIDE DEF d
<1> DEFINE x == f * m
           y == d * m
           t == n * m
<1>3. x \in Nat /\ y \in Nat /\ t = x + y + m
  <2>1. \A i, j \in Nat : i * j \in Nat
    OBVIOUS
  <2> QED
    BY <1>1, <1>2, <2>1
<1> HIDE DEF x, y, t
<1>4. x + c \in 0..t - 1
  BY <1>3
<1> QED
  BY <1>4 DEF x, t

\* Going on to the next position of a table of n columns, and to the next
\* text, when the text has a line feed after every row.
LEMMA Avance ==
  ASSUME NEW n \in Nat \ {0}, NEW f \in Nat, NEW c \in 0..n - 1
  PROVE  /\ f * n + (c + 1) = f * n + c + 1
         /\ f * (n + 1) + (c + 1) = f * (n + 1) + c + 1
         /\ c = n - 1 => /\ (f + 1) * n + 0 = f * n + c + 1
                         /\ (f + 1) * (n + 1) + 0 = f * (n + 1) + c + 2
<1> DEFINE m == n + 1
           x == f * n
           y == f * m
<1>1. /\ x \in Int /\ (f + 1) * n = x + n
      /\ y \in Int /\ (f + 1) * m = y + m
  <2>1. \A i, j \in Int : i * j \in Int /\ (i + 1) * j = i * j + j
    OBVIOUS
  <2>2. f \in Int /\ n \in Int /\ m \in Int
    OBVIOUS
  <2> QED
    BY <2>1, <2>2, Zenon
<1>2. m = n + 1 /\ c \in Int /\ n \in Int
  OBVIOUS
<1> HIDE DEF m, x, y
<1>3. /\ x + (c + 1) = x + c + 1
      /\ y + (c + 1) = y + c + 1
      /\ c = n - 1 => x + n + 0 = x + c + 1 /\ y + m + 0 = y + c + 2
  BY <1>1, <1>2
<1> QED
  BY <1>1, <1>3 DEF m, x, y

\* One or two more texts are printed.
LEMMA TextosNuevos ==
  ASSUME NEW S, NEW s \in Seq(S), NEW a \in S, NEW b \in S
  PROVE  /\ s \o <<a>> \in Seq(S) /\ Len(s \o <<a>>) = Len(s) + 1
         /\ s \o <<a, b>> \in Seq(S) /\ Len(s \o <<a, b>>) = Len(s) + 2
         /\ \A i \in 1..Len(s) : /\ (s \o <<a>>)[i] = s[i]
                                 /\ (s \o <<a, b>>)[i] = s[i]
         /\ (s \o <<a>>)[Len(s) + 1] = a
         /\ (s \o <<a, b>>)[Len(s) + 1] = a
         /\ (s \o <<a, b>>)[Len(s) + 2] = b
<1>1. /\ <<a>> \in Seq(S) /\ Len(<<a>>) = 1 /\ <<a>>[1] = a
      /\ <<a, b>> \in Seq(S) /\ Len(<<a, b>>) = 2
      /\ <<a, b>>[1] = a /\ <<a, b>>[2] = b
  OBVIOUS
<1> DEFINE t == <<a>>
           u == <<a, b>>
           n == Len(s)
<1>2. n \in Nat
  OBVIOUS
<1>3. /\ s \o t \in Seq(S) /\ Len(s \o t) = n + Len(t)
      /\ \A i \in 1..n + Len(t) :
           (s \o t)[i] = IF i <= n THEN s[i] ELSE t[i - n]
  BY <1>1, ConcatProperties, Zenon
<1>4. /\ s \o u \in Seq(S) /\ Len(s \o u) = n + Len(u)
      /\ \A i \in 1..n + Len(u) :
           (s \o u)[i] = IF i <= n THEN s[i] ELSE u[i - n]
  BY <1>1, ConcatProperties, Zenon
<1>5. Len(t) = 1 /\ t[1] = a /\ Len(u) = 2 /\ u[1] = a /\ u[2] = b
  BY <1>1
<1> DEFINE x == s \o t
           y == s \o u
<1>8. /\ \A i \in 1..n + 1 : x[i] = IF i <= n THEN s[i] ELSE t[i - n]
      /\ \A i \in 1..n + 2 : y[i] = IF i <= n THEN s[i] ELSE u[i - n]
      /\ x \in Seq(S) /\ Len(x) = n + 1 /\ y \in Seq(S) /\ Len(y) = n + 2
  BY <1>3, <1>4, <1>5, Zenon
<1> HIDE DEF t, u, n, x, y
<1>6. /\ \A i \in 1..n : x[i] = s[i]
      /\ x[n + 1] = a
  <2>1. /\ (n + 1) - n = 1 /\ n + 1 \in 1..n + 1 /\ ~(n + 1 <= n)
        /\ \A i \in 1..n : i \in 1..n + 1 /\ i <= n
    BY <1>2
  <2> QED
    BY <1>5, <1>8, <2>1
<1>7. /\ \A i \in 1..n : y[i] = s[i]
      /\ y[n + 1] = a /\ y[n + 2] = b
  <2>1. /\ (n + 1) - n = 1 /\ n + 1 \in 1..n + 2 /\ ~(n + 1 <= n)
        /\ (n + 2) - n = 2 /\ n + 2 \in 1..n + 2 /\ ~(n + 2 <= n)
        /\ \A i \in 1..n : i \in 1..n + 2 /\ i <= n
    BY <1>2
  <2> QED
    BY <1>5, <1>8, <2>1
<1> QED
  BY <1>6, <1>7, <1>8 DEF t, u, n, x, y

\* Which texts the position of the showing loop stands for.
LEMMA Lugares ==
  ASSUME NEW n \in Nat \ {0}, NEW f \in Nat, NEW c \in 0..n - 1
  PROVE  /\ f * (n + 1) + c \in Nat
         /\ (f * (n + 1) + c) \div (n + 1) = f
         /\ (f * (n + 1) + c) % (n + 1) = c
         /\ ((f * (n + 1) + c) + 1) % (n + 1) = c + 1
         /\ c = n - 1 => ((f * (n + 1) + c) + 2) % (n + 1) = 0
<1> DEFINE m == n + 1
           l == f * m + c
<1>1. m \in Nat \ {0} /\ c \in 0..m - 1 /\ c + 1 \in 0..m - 1 /\ 0 \in 0..m - 1
  OBVIOUS
<1>2. f + 1 \in Nat
  OBVIOUS
<1> HIDE DEF m
<1>3. f * m + c \in Nat /\ (f * m + c) \div m = f /\ (f * m + c) % m = c
  BY <1>1, Casillero, Zenon
<1>4. (f * m + (c + 1)) % m = c + 1
  BY <1>1, Casillero, Zenon
<1>5. ((f + 1) * m + 0) % m = 0
  BY <1>1, <1>2, Casillero, Zenon
<1>6. f * m \in Int /\ (f + 1) * m = f * m + m
  <2>1. \A x, y \in Int : x * y \in Int /\ (x + 1) * y = x * y + y
    OBVIOUS
  <2> QED
    BY <1>1, <2>1
<1>8. l + 1 = f * m + (c + 1)
  BY <1>6
<1>9. c = n - 1 => l + 2 = (f + 1) * m + 0
  BY <1>6 DEF m
<1> QED
  BY <1>3, <1>4, <1>5, <1>8, <1>9, Zenon DEF m

\* In a text of h lines every text that is not a line feed has its place in a
\* table of h rows and n columns.
LEMMA LugarDeTexto ==
  ASSUME NEW h \in Nat \ {0}, NEW n \in Nat \ {0},
         NEW i \in 1..h * (n + 1), i % (n + 1) # 0
  PROVE  /\ (i - 1) \div (n + 1) \in 0..h - 1
         /\ (i - 1) % (n + 1) \in 0..n - 1
<1> DEFINE m == n + 1
           r == (i - 1) \div m
           s == (i - 1) % m
           t == h * m
<1>1. m \in Nat \ {0} /\ t \in Nat /\ i \in 1..t /\ i - 1 \in Nat /\ i - 1 \in Int
  <2>1. \A x, y \in Nat : x * y \in Nat
    OBVIOUS
  <2>2. h \in Nat /\ n + 1 \in Nat \ {0}
    OBVIOUS
  <2>3. t \in Nat
    BY <2>1, <2>2
  <2> HIDE DEF t
  <2>4. i \in 1..t
    BY DEF t
  <2> QED
    BY <2>2, <2>3, <2>4
<1>2. r \in Int /\ s \in 0..m - 1 /\ i - 1 = m * r + s
  <2> HIDE DEF m
  <2> QED
    BY <1>1, Division, Zenon
<1>3. r \in 0..i - 1
  <2> HIDE DEF m
  <2> QED
    BY <1>1, CocienteMenor, Zenon
<1>4. i % m # 0
  OBVIOUS
<1> HIDE DEF r, s
<1>5. s # n
  <2> SUFFICES ASSUME s = n PROVE FALSE
      OBVIOUS
  <2>1. m * (r + 1) = m * r + m /\ m * r \in Int
    <3>1. \A x, y \in Int : x * (y + 1) = x * y + x /\ x * y \in Int
      OBVIOUS
    <3> QED
      BY <1>1, <1>2, <3>1
  <2>2. i = m * (r + 1) + 0 /\ r + 1 \in Int /\ 0 \in 0..m - 1 /\ i \in Int
    <3> DEFINE x == m * r
               y == m * (r + 1)
    <3> HIDE DEF x, y
    <3>1. y = x + m /\ x \in Int /\ i - 1 = x + n
      BY <1>2, <2>1 DEF x, y
    <3>2. i = y + 0
      BY <1>1, <3>1
    <3> QED
      BY <1>1, <1>2, <3>2 DEF y
  <2> HIDE DEF m
  <2>3. i % m = 0
    BY <1>1, <2>2, DivisionUnica, Zenon
  <2> QED
    BY <1>4, <2>3
<1>6. r <= h - 1
  <2> SUFFICES ASSUME r >= h PROVE FALSE
      BY <1>2
  <2>1. \A x, y, z \in Nat : y >= x => z * y >= x * z
    <3>1. ASSUME NEW x \in Nat, NEW y \in Nat, NEW z \in Nat, y >= x
          PROVE  z * y >= x * z
      <4>1. z * y >= z * x
        BY <3>1
      <4>2. z * x = x * z
        OBVIOUS
      <4> QED
        BY <4>1, <4>2
    <3> QED
      BY <3>1
  <2>2. r \in Nat
    BY <1>3
  <2> HIDE DEF m
  <2>3. m * r >= t
    BY <1>1, <2>1, <2>2
  <2> DEFINE x == m * r
  <2>4. x \in Int /\ i - 1 = x + s /\ x >= t
    BY <1>1, <1>2, <2>3
  <2> HIDE DEF x, t
  <2> QED
    BY <1>1, <1>2, <2>4
<1>7. r \in 0..h - 1 /\ s \in 0..n - 1
  BY <1>2, <1>3, <1>5, <1>6
<1> QED
  BY <1>7 DEF r, s

-----------------------------------------------------------------------------

LEMMA ToWordTipo ==
  ASSUME NEW n \in Int
  PROVE  ToWord(n) \in Words
<1>1. WordSize \in Nat \ {0}
  BY WordSizeAssumption
<1> QED
  BY <1>1, Division DEF ToWord, Words

\* A word is its own remainder.
LEMMA ToWordDeWord ==
  ASSUME NEW w \in Words
  PROVE  ToWord(w) = w
  BY WordSizeAssumption DEF ToWord, Words

\* Whole turns of the word do not show in it.
LEMMA ToWordVueltas ==
  ASSUME NEW n \in Int, NEW k \in Int
  PROVE  ToWord(n + WordSize * k) = ToWord(n)
<1>1. WordSize \in Nat \ {0}
  BY WordSizeAssumption
<1>2. /\ n \div WordSize \in Int
      /\ n % WordSize \in 0..WordSize - 1
      /\ n = WordSize * (n \div WordSize) + (n % WordSize)
  BY <1>1, Division
<1> DEFINE q == n \div WordSize
           r == n % WordSize
<1> HIDE DEF q, r
<1>3. n + WordSize * k = WordSize * (q + k) + r
  BY <1>1, <1>2 DEF q, r
<1>4. q + k \in Int /\ r \in 0..WordSize - 1 /\ n + WordSize * k \in Int
  BY <1>1, <1>2 DEF q, r
<1>5. (n + WordSize * k) % WordSize = r
  BY <1>1, <1>3, <1>4, DivisionUnica
<1> QED
  BY <1>5 DEF ToWord, r

\* A sum may be reduced at every step or once at the end.
LEMMA ToWordSuma ==
  ASSUME NEW a \in Int, NEW b \in Int
  PROVE  ToWord(ToWord(a) + b) = ToWord(a + b)
<1> DEFINE q == a \div WordSize
<1>1. WordSize \in Nat \ {0}
  BY WordSizeAssumption
<1>2. q \in Int /\ ToWord(a) \in Int /\ a = WordSize * q + ToWord(a)
  BY <1>1, Division DEF ToWord
<1> HIDE DEF q
<1>3. ToWord(a) + b = a + b + WordSize * (-q)
  BY <1>1, <1>2
<1> QED
  BY <1>2, <1>3, ToWordVueltas

\* The size of a dword is even, and so a reduction keeps the parity.
LEMMA ParidadDeToWord ==
  ASSUME NEW n \in Int
  PROVE  ToWord(n) % 2 = n % 2
<1> DEFINE q == n \div WordSize
           h == WordSize \div 2
<1>1. WordSize \in Nat \ {0} /\ h \in Int /\ WordSize = 2 * h
  BY WordSizeAssumption
<1>2. q \in Int /\ ToWord(n) \in Int /\ n = WordSize * q + ToWord(n)
  BY <1>1, Division DEF ToWord
<1> HIDE DEF q, h
<1> DEFINE p == h * q
<1>3. p \in Int /\ n = 2 * p + ToWord(n)
  BY <1>1, <1>2
<1> HIDE DEF p
<1> QED
  BY <1>2, <1>3

LEMMA SignedTipo ==
  ASSUME NEW w \in Words
  PROVE  Signed(w) \in -(WordSize \div 2)..(WordSize \div 2) - 1
  BY WordSizeAssumption DEF Signed, Words

\* Read as signed, a word is worth the same modulo WordSize.
LEMMA ToWordSigned ==
  ASSUME NEW a \in Int, NEW w \in Words
  PROVE  ToWord(a + Signed(w)) = ToWord(a + w)
<1>1. CASE Signed(w) = w
  BY <1>1
<1>2. CASE Signed(w) = w - WordSize
  <2>1. a + Signed(w) = a + w + WordSize * (-1) /\ a + w \in Int
    BY <1>2, WordSizeAssumption DEF Words
  <2> QED
    BY <2>1, ToWordVueltas
<1> QED
  BY <1>1, <1>2 DEF Signed

\* A number in the range of a signed word is the word's signed value.
LEMMA SignedToWord ==
  ASSUME NEW n \in -(WordSize \div 2)..(WordSize \div 2) - 1
  PROVE  Signed(ToWord(n)) = n
<1>1. CASE n >= 0
  <2>1. n \in Words /\ n < WordSize \div 2
    BY <1>1, WordSizeAssumption DEF Words
  <2> QED
    BY <2>1, ToWordDeWord DEF Signed
<1>2. CASE n < 0
  <2>1. n + WordSize \in Words /\ n + WordSize * 1 = n + WordSize
    BY <1>2, WordSizeAssumption DEF Words
  <2>2. ToWord(n) = n + WordSize
    BY <2>1, ToWordVueltas, ToWordDeWord
  <2> QED
    BY <1>2, <2>2, WordSizeAssumption DEF Signed
<1> QED
  BY <1>1, <1>2

\* A word and its signed value have the same parity.
LEMMA ParidadDeSigned ==
  ASSUME NEW w \in Words
  PROVE  Signed(w) % 2 = w % 2
  BY WordSizeAssumption DEF Signed, Words
=============================================================================
