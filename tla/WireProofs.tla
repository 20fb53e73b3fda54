----------------------------- MODULE WireProofs -----------------------------
(***************************************************************************)
(* What the framing promises on a line that changes nothing: every packet  *)
(* is taken, in order and unaltered, whatever the payloads hold and however*)
(* the bytes are cut into chunks, and the receiver never drops a byte.     *)
(***************************************************************************)
EXTENDS Wire, SequenceTheorems, WellFoundedInduction, TLAPS

----------------------------------------------------------------------------
(* Induction and functions defined from the value one place before.        *)

LessThan == {p \in Nat \X Nat : p[1] < p[2]}

LEMMA LessThanWellFounded == IsWellFoundedOn(LessThan, Nat)
  <1>1. OpToRel(<, Nat) = LessThan
    BY DEF OpToRel, LessThan
  <1> QED
    BY <1>1, NatLessThanWellFounded, Zenon

\* What holds of zero and passes from each number to the next holds of all.
LEMMA Induction ==
    ASSUME NEW S, 0 \in S, \A n \in Nat : n \in S => n + 1 \in S
    PROVE  Nat \subseteq S
  <1> SUFFICES ASSUME Nat \ S # {} PROVE FALSE
    OBVIOUS
  <1>1. PICK n \in Nat \ S : \A k \in Nat \ S : ~(<<k, n>> \in LessThan)
    <2> DEFINE T == Nat \ S
    <2>1. T \subseteq Nat /\ T # {}
      OBVIOUS
    <2> HIDE DEF T
    <2>2. \E n \in T : \A k \in T : ~(<<k, n>> \in LessThan)
      BY <2>1, LessThanWellFounded, WFMin
    <2> QED
      BY <2>2 DEF T
  <1>2. n # 0 /\ n - 1 \in Nat
    OBVIOUS
  <1>3. <<n - 1, n>> \in LessThan
    BY <1>2 DEF LessThan
  <1>4. n - 1 \in S
    BY <1>1, <1>2, <1>3
  <1> QED
    BY <1>2, <1>4

\* Each value of v is made by F from the one before it.
Follows(v, n, b, F) == v[0] = b /\ \A i \in 1..n : v[i] = F[i][v[i - 1]]

\* A function defined from its value one place before exists, and its values
\* stay where one step keeps them.
LEMMA Recursion ==
    ASSUME NEW n \in Nat, NEW R, NEW b \in R, NEW F \in [1..n -> [R -> R]]
    PROVE  \E v \in [0..n -> R] : Follows(v, n, b, F)
  <1> DEFINE Upto(v, k) == Follows(v, k, b, F)
             S == {k \in Nat : k <= n => \E v \in [0..k -> R] : Upto(v, k)}
  <1>1. 0 \in S
    <2> DEFINE z == [i \in 0..0 |-> b]
    <2>1. z \in [0..0 -> R] /\ Upto(z, 0)
      BY DEF Follows
    <2> QED
      BY <2>1
  <1>2. ASSUME NEW k \in Nat, k \in S PROVE k + 1 \in S
    <2> SUFFICES ASSUME k + 1 <= n
                 PROVE  \E v \in [0..(k + 1) -> R] : Upto(v, k + 1)
      OBVIOUS
    <2>1. PICK v \in [0..k -> R] : Upto(v, k)
      BY <1>2
    <2>2. v[0] = b /\ \A i \in 1..k : v[i] = F[i][v[i - 1]]
      BY <2>1 DEF Follows
    <2> DEFINE w == [i \in 0..(k + 1) |-> IF i = k + 1 THEN F[k + 1][v[k]] ELSE v[i]]
    <2>3. F[k + 1][v[k]] \in R
      OBVIOUS
    <2>4. w \in [0..(k + 1) -> R]
      BY <2>3
    <2>5. /\ \A i \in 0..k : w[i] = v[i]
          /\ w[k + 1] = F[k + 1][v[k]]
      OBVIOUS
    <2> HIDE DEF w, S
    <2>6. w[0] = b
      BY <2>2, <2>5
    <2>7. ASSUME NEW i \in 1..(k + 1) PROVE w[i] = F[i][w[i - 1]]
      <3>1. i - 1 \in 0..k
        OBVIOUS
      <3>2. w[i - 1] = v[i - 1]
        BY <2>5, <3>1
      <3>3. CASE i = k + 1
        <4>1. i - 1 = k
          BY <3>3
        <4> QED
          BY <2>5, <3>2, <3>3, <4>1
      <3>4. CASE i # k + 1
        <4>1. i \in 1..k
          BY <3>4
        <4> QED
          BY <2>2, <2>5, <3>2, <4>1
      <3> QED
        BY <3>3, <3>4
    <2>8. Upto(w, k + 1)
      BY <2>6, <2>7 DEF Follows
    <2> HIDE DEF Upto
    <2> QED
      BY <2>4, <2>8
  <1>3. Nat \subseteq S
    <2> HIDE DEF S
    <2> QED
      BY <1>1, <1>2, Induction
  <1> QED
    BY <1>3

----------------------------------------------------------------------------
(* Bytes and words.                                                        *)

Base == 65536
Word == 0..(Base - 1)

LEMMA BaseIs == Base \in Nat \ {0}
  BY DEF Base

LEMMA BaseSquare == Base = 256 * 256
  BY DEF Base

LEMMA InWord == \A v : v \in Word <=> v \in Int /\ 0 <= v /\ v < Base
  BY BaseIs DEF Word

LEMMA InByte == \A v : v \in Byte <=> v \in Int /\ 0 <= v /\ v < 256
  BY DEF Byte

LEMMA NumberOfTwo ==
    ASSUME NEW b1 \in Int, NEW b2 \in Int
    PROVE  Number(<<b1, b2>>) = b1 * 256 + b2
  <1> DEFINE top(i) == IF i = 1 /\ Len(<<b1, b2>>) = 4 /\ <<b1, b2>>[1] > 127
                       THEN <<b1, b2>>[1] - 256 ELSE <<b1, b2>>[i]
             Value(v) == v = [i \in 0..Len(<<b1, b2>>) |->
                                IF i = 0 THEN 0 ELSE (v[i - 1] * 256) + top(i)]
             w == [i \in 0..2 |-> IF i = 0 THEN 0 ELSE IF i = 1 THEN b1 ELSE b1 * 256 + b2]
             chosen == CHOOSE v : Value(v)
  <1>1. Len(<<b1, b2>>) = 2 /\ top(1) = b1 /\ top(2) = b2
    OBVIOUS
  <1>2. Value(w)
    BY <1>1
  <1>3. Value(chosen)
    BY <1>2
  <1>4. Number(<<b1, b2>>) = chosen[2]
    BY <1>1 DEF Number
  <1>5. ASSUME NEW v, v = [i \in 0..2 |-> IF i = 0 THEN 0 ELSE (v[i - 1] * 256) + top(i)]
        PROVE  v[2] = b1 * 256 + b2
    <2> HIDE DEF top
    <2>1. v[0] = 0
      BY <1>5
    <2>2. v[1] = v[0] * 256 + top(1)
      BY <1>5
    <2>3. v[2] = v[1] * 256 + top(2)
      BY <1>5
    <2> QED
      BY <1>1, <2>1, <2>2, <2>3
  <1>6. chosen = [i \in 0..2 |-> IF i = 0 THEN 0 ELSE (chosen[i - 1] * 256) + top(i)]
    <2> HIDE DEF top, chosen
    <2> QED
      BY <1>1, <1>3
  <1> HIDE DEF chosen
  <1> QED
    BY <1>4, <1>5, <1>6

\* One byte, and two, as they are written.
LEMMA OneByte ==
    ASSUME NEW v \in Byte
    PROVE  U8(v) = <<v>>
  <1>1. 256^0 = 1 /\ v \div 1 = v /\ v % 256 = v
    BY InByte
  <1>2. Bytes(1, v) = [i \in 1..1 |-> v]
    BY <1>1 DEF Bytes
  <1> QED
    BY <1>2 DEF U8

LEMMA TwoBytes ==
    ASSUME NEW v \in Word
    PROVE  /\ U16(v) = <<v \div 256, v % 256>>
           /\ v \div 256 \in Byte
           /\ v % 256 \in Byte
           /\ ((v \div 256) * 256) + (v % 256) = v
  <1>1. v \in Nat /\ v < 256 * 256
    BY InWord, BaseSquare
  <1>2. 256^1 = 256 /\ 256^0 = 1 /\ v \div 1 = v
    BY <1>1
  <1>3. v \div 256 \in Nat /\ v \div 256 < 256 /\ v % 256 \in Nat /\ v % 256 < 256
    BY <1>1
  <1>4. (v \div 256) % 256 = v \div 256
    BY <1>3
  <1>5. Bytes(2, v) = [i \in 1..2 |-> IF i = 1 THEN v \div 256 ELSE v % 256]
    BY <1>2, <1>4 DEF Bytes
  <1>6. U16(v) = <<v \div 256, v % 256>>
    BY <1>5 DEF U16
  <1>7. ((v \div 256) * 256) + (v % 256) = v
    BY <1>1
  <1> QED
    BY <1>3, <1>6, <1>7, InByte

LEMMA SumStep ==
    ASSUME NEW r \in Word, NEW i \in Int, NEW e \in Int
    PROVE  (r + ((2 * i + 1) * e)) % Base \in Word
  <1>1. (2 * i + 1) * e \in Int
    OBVIOUS
  <1> QED
    BY <1>1, BaseIs DEF Word

\* The checksum of bytes fits the two bytes it is written in.
LEMMA ChecksumRange ==
    ASSUME NEW s \in Seq(Byte)
    PROVE  Checksum(s) \in Word
  <1> DEFINE n == Len(s)
             F == [i \in 1..n |-> [r \in Word |-> (r + ((2 * i + 1) * s[i])) % Base]]
             All(v) == v = [i \in 0..n |->
                              IF i = 0 THEN 9 ELSE (v[i - 1] + ((2 * i + 1) * s[i])) % Base]
             chosen == CHOOSE v : All(v)
  <1>1. F \in [1..n -> [Word -> Word]]
    <2>1. \A i \in 1..n : s[i] \in Byte
      OBVIOUS
    <2>2. \A i \in 1..n : s[i] \in Int
      BY <2>1, InByte
    <2>3. \A i \in 1..n, r \in Word : (r + ((2 * i + 1) * s[i])) % Base \in Word
      <3> SUFFICES ASSUME NEW i \in 1..n, NEW r \in Word
                   PROVE  (r + ((2 * i + 1) * s[i])) % Base \in Word
        OBVIOUS
      <3>1. s[i] \in Int /\ i \in Int
        BY <2>2
      <3> QED
        BY <3>1, SumStep
    <2> DEFINE step(i) == [r \in Word |-> (r + ((2 * i + 1) * s[i])) % Base]
    <2>4. \A i \in 1..n : step(i) \in [Word -> Word]
      BY <2>3
    <2> HIDE DEF step
    <2>5. [i \in 1..n |-> step(i)] \in [1..n -> [Word -> Word]]
      BY <2>4
    <2>6. F = [i \in 1..n |-> step(i)]
      BY DEF step
    <2> HIDE DEF F
    <2> QED
      BY <2>5, <2>6
  <1>2. \A r \in Word, i \in 1..n : F[i][r] = (r + ((2 * i + 1) * s[i])) % Base
    OBVIOUS
  <1>3. n \in Nat /\ 9 \in Word
    BY InWord, BaseSquare
  <1> HIDE DEF F, n
  <1>4. \E v : All(v)
    <2>1. PICK v \in [0..n -> Word] : Follows(v, n, 9, F)
      BY <1>1, <1>3, Recursion
    <2>2. \A i \in 1..n : F[i][v[i - 1]] = (v[i - 1] + ((2 * i + 1) * s[i])) % Base
      <3> SUFFICES ASSUME NEW i \in 1..n
                   PROVE  F[i][v[i - 1]] = (v[i - 1] + ((2 * i + 1) * s[i])) % Base
        OBVIOUS
      <3>1. i - 1 \in 0..n
        BY <1>3
      <3>2. v[i - 1] \in Word
        BY <3>1
      <3> QED
        BY <3>2, <1>2
    <2>3. \A i \in 0..n : v[i] = IF i = 0 THEN 9 ELSE (v[i - 1] + ((2 * i + 1) * s[i])) % Base
      <3> SUFFICES ASSUME NEW i \in 0..n
                   PROVE  v[i] = IF i = 0 THEN 9 ELSE (v[i - 1] + ((2 * i + 1) * s[i])) % Base
        OBVIOUS
      <3>1. v[i] = IF i = 0 THEN 9 ELSE F[i][v[i - 1]]
        BY <2>1 DEF Follows
      <3>2. CASE i = 0
        BY <3>1, <3>2
      <3>3. CASE i # 0
        <4>1. i \in 1..n
          BY <3>3, <1>3
        <4> QED
          BY <3>1, <3>3, <4>1, <2>2
      <3> QED
        BY <3>2, <3>3
    <2>4. v = [i \in 0..n |-> v[i]]
      BY <2>1
    <2>5. All(v)
      BY <2>3, <2>4
    <2> QED
      BY <2>5
  <1>5. All(chosen)
    <2> HIDE DEF All
    <2> QED
      BY <1>4
  <1>6. Checksum(s) = chosen[n]
    BY DEF Checksum, n, Base
  <1>7. \A i \in 0..n : chosen[i] = IF i = 0 THEN 9
                                    ELSE (chosen[i - 1] + ((2 * i + 1) * s[i])) % Base
    <2> HIDE DEF chosen
    <2> QED
      BY <1>5
  <1>8. chosen[n] \in Word
    <2> DEFINE S == {k \in Nat : k <= n => chosen[k] \in Word}
    <2> HIDE DEF chosen, All
    <2>1. 0 \in S
      BY <1>7, <1>3
    <2>2. ASSUME NEW k \in Nat, k \in S PROVE k + 1 \in S
      <3> SUFFICES ASSUME k + 1 <= n PROVE chosen[k + 1] \in Word
        OBVIOUS
      <3>1. chosen[k] \in Word /\ k + 1 \in 1..n /\ (k + 1) - 1 = k
        BY <2>2, <1>3
      <3>2. chosen[k + 1] = (chosen[k] + ((2 * (k + 1) + 1) * s[k + 1])) % Base
        BY <3>1, <1>7, <1>3
      <3>3. F[k + 1][chosen[k]] \in Word
        BY <3>1, <1>1
      <3> QED
        BY <3>1, <3>2, <3>3, <1>2
    <2>3. Nat \subseteq S
      <3> HIDE DEF S
      <3> QED
        BY <2>1, <2>2, Induction
    <2> QED
      BY <2>3, <1>3
  <1> HIDE DEF chosen
  <1> QED
    BY <1>6, <1>8

----------------------------------------------------------------------------
(* Commands.                                                               *)

\* What one table writes as a byte, the other reads as the same name.
Undoes(code, from) ==
    \A c \in DOMAIN code :
       code[c] \in Byte /\ code[c] \in DOMAIN from /\ from[code[c]] = c

LEMMA ListUndoes ==
    ASSUME NEW first \in 1..255, NEW last \in first..255,
           NEW names, DOMAIN names = 1..(last - first + 1),
           Len(names) = last - first + 1
    PROVE  Undoes(Coded(first, names), Named(first, names))
  <1> DEFINE n == last - first + 1
  <1> DEFINE listed == {names[j] : j \in DOMAIN names}
             place(c) == CHOOSE j \in DOMAIN names : names[j] = c
  <1>1. Coded(first, names) = [c \in listed |-> first - 1 + place(c)]
    BY DEF Coded
  <1>2. \A c \in listed : \E j \in 1..n : names[j] = c
    OBVIOUS
  <1>3. \A c \in listed : place(c) \in 1..n /\ names[place(c)] = c
    BY <1>2
  <1> HIDE DEF place, listed
  <1> SUFFICES ASSUME NEW c \in listed
               PROVE  LET b == Coded(first, names)[c]
                      IN  /\ b \in Byte
                          /\ b \in DOMAIN Named(first, names)
                          /\ Named(first, names)[b] = c
    BY <1>1 DEF Undoes
  <1> DEFINE i == place(c)
  <1>4. i \in 1..n /\ names[i] = c
    BY <1>3
  <1>5. Coded(first, names)[c] = first - 1 + i
    BY <1>1
  <1> HIDE DEF i
  <1>6. first - 1 + i \in first..(first + Len(names) - 1)
    BY <1>4
  <1>7. Named(first, names)[first - 1 + i] = names[(first - 1 + i) - first + 1]
    BY <1>6 DEF Named
  <1>8. (first - 1 + i) - first + 1 = i
    BY <1>4
  <1>9. first - 1 + i \in Byte
    BY <1>4, InByte
  <1>10. first - 1 + i \in DOMAIN Named(first, names)
    BY <1>6 DEF Named
  <1> QED
    BY <1>4, <1>5, <1>7, <1>8, <1>9, <1>10

\* Tables put side by side still undo each other when their bytes are apart.
UndoesWithin(code, from, low, high) ==
    Undoes(code, from) /\ DOMAIN from \subseteq low..high

LEMMA TogetherUndo ==
    ASSUME NEW code1, NEW from1, NEW code2, NEW from2,
           NEW a \in Int, NEW b \in Int, NEW c \in Int, NEW d \in Int,
           UndoesWithin(code1, from1, a, b), UndoesWithin(code2, from2, c, d),
           a <= b, b < c, c <= d
    PROVE  UndoesWithin(code1 ++ code2, from1 ++ from2, a, d)
  <1>1. DOMAIN from1 \cap DOMAIN from2 = {}
    BY DEF UndoesWithin
  <1>2. Undoes(code1 ++ code2, from1 ++ from2)
    <2> SUFFICES ASSUME NEW x \in DOMAIN (code1 ++ code2)
                 PROVE  LET byte == (code1 ++ code2)[x]
                        IN  /\ byte \in Byte
                            /\ byte \in DOMAIN (from1 ++ from2)
                            /\ (from1 ++ from2)[byte] = x
      BY DEF Undoes
    <2>1. CASE x \in DOMAIN code1
      <3>1. (code1 ++ code2)[x] = code1[x]
        BY <2>1 DEF ++
      <3> QED
        BY <2>1, <3>1 DEF Undoes, UndoesWithin, ++
    <2>2. CASE x \notin DOMAIN code1
      <3>1. x \in DOMAIN code2 /\ (code1 ++ code2)[x] = code2[x]
        BY <2>2 DEF ++
      <3> QED
        BY <1>1, <3>1 DEF Undoes, UndoesWithin, ++
    <2> QED
      BY <2>1, <2>2
  <1>3. DOMAIN (from1 ++ from2) \subseteq a..d
    BY DEF UndoesWithin, ++
  <1> QED
    BY <1>2, <1>3 DEF UndoesWithin

LEMMA ListUndoesWithin ==
    ASSUME NEW first \in 1..255, NEW last \in first..255
    PROVE  \A names : /\ DOMAIN names = 1..(last - first + 1)
                      /\ Len(names) = last - first + 1
                      => UndoesWithin(Coded(first, names), Named(first, names), first, last)
  <1> SUFFICES ASSUME NEW names, DOMAIN names = 1..(last - first + 1),
                      Len(names) = last - first + 1
               PROVE  UndoesWithin(Coded(first, names), Named(first, names), first, last)
    OBVIOUS
  <1>1. Undoes(Coded(first, names), Named(first, names))
    BY ListUndoes
  <1>2. first + (last - first + 1) - 1 = last
    OBVIOUS
  <1>3. DOMAIN Named(first, names) = first..last
    BY <1>2 DEF Named
  <1> QED
    BY <1>1, <1>3 DEF UndoesWithin

\* The two tables of commands, written separately, agree.
LEMMA CommandsUndo == Undoes(Cmd_code, Cmd_from)
  <1>1. UndoesWithin(session_code, session_from, 1, 8)
    <2>1. 8 - 1 + 1 = 8
      OBVIOUS
    <2>2. 1 \in 1..255 /\ 8 \in 1..255
      OBVIOUS
    <2>3. \A names : DOMAIN names = 1..(8 - 1 + 1) /\ Len(names) = 8 - 1 + 1
                     => UndoesWithin(Coded(1, names), Named(1, names), 1, 8)
      BY <2>2, ListUndoesWithin
    <2>4. \A names : DOMAIN names = 1..8 /\ Len(names) = 8
                     => UndoesWithin(Coded(1, names), Named(1, names), 1, 8)
      BY <2>1, <2>3
    <2> QED
      BY <2>4 DEF session_code, session_from
  <1>2. UndoesWithin(page_code, page_from, 32, 54)
    <2>1. 54 - 32 + 1 = 23
      OBVIOUS
    <2>2. 32 \in 1..255 /\ 54 \in 32..255
      OBVIOUS
    <2>3. \A names : DOMAIN names = 1..(54 - 32 + 1) /\ Len(names) = 54 - 32 + 1
                     => UndoesWithin(Coded(32, names), Named(32, names), 32, 54)
      BY <2>2, ListUndoesWithin
    <2>4. \A names : DOMAIN names = 1..23 /\ Len(names) = 23
                     => UndoesWithin(Coded(32, names), Named(32, names), 32, 54)
      BY <2>1, <2>3
    <2> QED
      BY <2>4 DEF page_code, page_from
  <1>3. UndoesWithin(service_code, service_from, 64, 88)
    <2>1. 88 - 64 + 1 = 25
      OBVIOUS
    <2>2. 64 \in 1..255 /\ 88 \in 64..255
      OBVIOUS
    <2>3. \A names : DOMAIN names = 1..(88 - 64 + 1) /\ Len(names) = 88 - 64 + 1
                     => UndoesWithin(Coded(64, names), Named(64, names), 64, 88)
      BY <2>2, ListUndoesWithin
    <2>4. \A names : DOMAIN names = 1..25 /\ Len(names) = 25
                     => UndoesWithin(Coded(64, names), Named(64, names), 64, 88)
      BY <2>1, <2>3
    <2> QED
      BY <2>4 DEF service_code, service_from
  <1>4. UndoesWithin(log_code, log_from, 96, 108)
    <2>1. 108 - 96 + 1 = 13
      OBVIOUS
    <2>2. 96 \in 1..255 /\ 108 \in 96..255
      OBVIOUS
    <2>3. \A names : DOMAIN names = 1..(108 - 96 + 1) /\ Len(names) = 108 - 96 + 1
                     => UndoesWithin(Coded(96, names), Named(96, names), 96, 108)
      BY <2>2, ListUndoesWithin
    <2>4. \A names : DOMAIN names = 1..13 /\ Len(names) = 13
                     => UndoesWithin(Coded(96, names), Named(96, names), 96, 108)
      BY <2>1, <2>3
    <2> QED
      BY <2>4 DEF log_code, log_from
  <1>5. UndoesWithin(trigger_code, trigger_from, 112, 117)
    <2>1. 117 - 112 + 1 = 6
      OBVIOUS
    <2>2. 112 \in 1..255 /\ 117 \in 112..255
      OBVIOUS
    <2>3. \A names : DOMAIN names = 1..(117 - 112 + 1) /\ Len(names) = 117 - 112 + 1
                     => UndoesWithin(Coded(112, names), Named(112, names), 112, 117)
      BY <2>2, ListUndoesWithin
    <2>4. \A names : DOMAIN names = 1..6 /\ Len(names) = 6
                     => UndoesWithin(Coded(112, names), Named(112, names), 112, 117)
      BY <2>1, <2>3
    <2> QED
      BY <2>4 DEF trigger_code, trigger_from
  <1>6. UndoesWithin(reply_code, reply_from, 160, 161)
    <2>1. 161 - 160 + 1 = 2
      OBVIOUS
    <2>2. 160 \in 1..255 /\ 161 \in 160..255
      OBVIOUS
    <2>3. \A names : DOMAIN names = 1..(161 - 160 + 1) /\ Len(names) = 161 - 160 + 1
                     => UndoesWithin(Coded(160, names), Named(160, names), 160, 161)
      BY <2>2, ListUndoesWithin
    <2>4. \A names : DOMAIN names = 1..2 /\ Len(names) = 2
                     => UndoesWithin(Coded(160, names), Named(160, names), 160, 161)
      BY <2>1, <2>3
    <2> QED
      BY <2>4 DEF reply_code, reply_from
  <1>7. UndoesWithin(error_code, error_from, 255, 255)
    <2>1. 255 - 255 + 1 = 1
      OBVIOUS
    <2>2. 255 \in 1..255 /\ 255 \in 255..255
      OBVIOUS
    <2>3. \A names : DOMAIN names = 1..(255 - 255 + 1) /\ Len(names) = 255 - 255 + 1
                     => UndoesWithin(Coded(255, names), Named(255, names), 255, 255)
      BY <2>2, ListUndoesWithin
    <2>4. \A names : DOMAIN names = 1..1 /\ Len(names) = 1
                     => UndoesWithin(Coded(255, names), Named(255, names), 255, 255)
      BY <2>1, <2>3
    <2> QED
      BY <2>4 DEF error_code, error_from
  <1>8. UndoesWithin(session_code ++ page_code,
                       session_from ++ page_from, 1, 54)
    BY <1>1, <1>2, TogetherUndo
  <1>9. UndoesWithin(session_code ++ page_code ++ service_code,
                       session_from ++ page_from ++ service_from, 1, 88)
    BY <1>8, <1>3, TogetherUndo
  <1>10. UndoesWithin(session_code ++ page_code ++ service_code ++ log_code,
                       session_from ++ page_from ++ service_from ++ log_from, 1, 108)
    BY <1>9, <1>4, TogetherUndo
  <1>11. UndoesWithin(session_code ++ page_code ++ service_code ++ log_code ++ trigger_code,
                       session_from ++ page_from ++ service_from ++ log_from ++ trigger_from, 1, 117)
    BY <1>10, <1>5, TogetherUndo
  <1>12. UndoesWithin(session_code ++ page_code ++ service_code ++ log_code ++ trigger_code ++ reply_code,
                       session_from ++ page_from ++ service_from ++ log_from ++ trigger_from ++ reply_from, 1, 161)
    BY <1>11, <1>6, TogetherUndo
  <1>13. UndoesWithin(session_code ++ page_code ++ service_code ++ log_code ++ trigger_code ++ reply_code ++ error_code,
                       session_from ++ page_from ++ service_from ++ log_from ++ trigger_from ++ reply_from ++ error_from, 1, 255)
    BY <1>12, <1>7, TogetherUndo
  <1> QED
    BY <1>13 DEF UndoesWithin, Cmd_code, Cmd_from

----------------------------------------------------------------------------
(* Parts of sequences.                                                     *)

LEMMA Joined ==
    ASSUME NEW S, NEW s \in Seq(S), NEW t \in Seq(S), NEW u, u = s \o t
    PROVE  /\ u \in Seq(S)
           /\ Len(u) = Len(s) + Len(t)
           /\ \A i \in 1..Len(s) : u[i] = s[i]
           /\ \A i \in 1..Len(t) : u[Len(s) + i] = t[i]
  OBVIOUS

LEMMA TwoOf ==
    ASSUME NEW S, NEW s \in Seq(S), NEW i \in 1..(Len(s) - 1)
    PROVE  SubSeq(s, i, i + 1) = <<s[i], s[i + 1]>>
  <1> DEFINE cut == SubSeq(s, i, i + 1)
             pair == <<s[i], s[i + 1]>>
  <1>1. s[i] \in S /\ s[i + 1] \in S /\ i \in Int /\ i + 1 \in Int
    OBVIOUS
  <1>2. \A j \in i..(i + 1) : s[j] \in S
    OBVIOUS
  <1>3. /\ cut \in Seq(S) /\ Len(cut) = (i + 1) - i + 1
        /\ \A j \in 1..((i + 1) - i + 1) : cut[j] = s[i + j - 1]
    BY <1>1, <1>2, SubSeqProperties
  <1>4. pair \in Seq(S) /\ Len(pair) = 2 /\ pair[1] = s[i] /\ pair[2] = s[i + 1]
    BY <1>1
  <1>5. (i + 1) - i + 1 = 2 /\ i + 1 - 1 = i /\ i + 2 - 1 = i + 1
    OBVIOUS
  <1> HIDE DEF cut, pair
  <1>6. Len(cut) = Len(pair) /\ \A j \in 1..Len(cut) : cut[j] = pair[j]
    <2>1. cut[1] = pair[1] /\ cut[2] = pair[2]
      BY <1>3, <1>4, <1>5
    <2> QED
      BY <1>3, <1>4, <1>5, <2>1
  <1>7. cut = pair
    BY <1>3, <1>4, <1>6, SeqEqual
  <1> QED
    BY <1>7 DEF cut, pair

----------------------------------------------------------------------------
(* Frames.                                                                 *)

\* What a receiver relies on: the frame of a command and a payload.
IsFrame(f, cmd, p) ==
    /\ f \in Seq(Byte)
    /\ Len(f) = Len(p) + 7
    /\ f[1] = 83
    /\ f[2] = 84
    /\ (f[3] * 256) + f[4] = Len(p)
    /\ f[5] = Cmd_code[cmd]
    /\ \A i \in 1..Len(p) : f[5 + i] = p[i]
    /\ \E covered \in Seq(Byte) :
         /\ Len(covered) = Len(p) + 3
         /\ \A i \in 1..Len(covered) : covered[i] = f[2 + i]
         /\ (f[Len(p) + 6] * 256) + f[Len(p) + 7] = Checksum(covered)

LEMMA Frame ==
    ASSUME NEW cmd \in DOMAIN Cmd_code, NEW p \in Seq(Byte), Len(p) <= MAX_PAYLOAD
    PROVE  IsFrame(to_bytes(cmd, p), cmd, p)
  <1> DEFINE n == Len(p)
             code == Cmd_code[cmd]
             head == U16(n) \o U8(code)
             covered == head \o p
             sum == Checksum(covered)
             f == (MAGIC \o covered) \o U16(sum)
  <1>1. n \in Nat /\ n \in Word
    BY InWord, BaseSquare DEF MAX_PAYLOAD
  <1>2. code \in Byte
    BY CommandsUndo DEF Undoes
  <1>3. U16(n) = <<n \div 256, n % 256>> /\ U8(code) = <<code>>
    BY <1>1, <1>2, OneByte, TwoBytes
  <1>4. n \div 256 \in Byte /\ n % 256 \in Byte /\ ((n \div 256) * 256) + (n % 256) = n
    BY <1>1, TwoBytes
  <1>5. /\ head \in Seq(Byte) /\ Len(head) = 3
        /\ head[1] = n \div 256 /\ head[2] = n % 256 /\ head[3] = code
    <2> DEFINE high == n \div 256
               low == n % 256
    <2>1. head = <<high, low>> \o <<code>> /\ high \in Byte /\ low \in Byte
      BY <1>3, <1>4
    <2> HIDE DEF high, low, code, head
    <2>2. /\ head \in Seq(Byte) /\ Len(head) = 3
          /\ head[1] = high /\ head[2] = low /\ head[3] = code
      BY <2>1, <1>2
    <2> QED
      BY <2>2 DEF high, low
  <1> HIDE DEF n, code, head
  <1>6. /\ covered \in Seq(Byte) /\ Len(covered) = n + 3
        /\ covered[1] = n \div 256 /\ covered[2] = n % 256 /\ covered[3] = code
        /\ \A i \in 1..n : covered[3 + i] = p[i]
    <2>1. p \in Seq(Byte) /\ Len(p) = n
      BY DEF n
    <2>2. /\ covered \in Seq(Byte) /\ Len(covered) = Len(head) + Len(p)
          /\ \A i \in 1..Len(head) : covered[i] = head[i]
          /\ \A i \in 1..Len(p) : covered[Len(head) + i] = p[i]
      <3>1. covered = head \o p
        OBVIOUS
      <3>2. head \in Seq(Byte)
        BY <1>5
      <3> HIDE DEF covered
      <3> QED
        BY <3>1, <3>2, Joined
    <2> HIDE DEF covered
    <2>3. covered[1] = head[1] /\ covered[2] = head[2] /\ covered[3] = head[3]
      BY <1>5, <2>2
    <2> QED
      BY <1>1, <1>5, <2>1, <2>2, <2>3
  <1>7. sum \in Word
    BY <1>6, ChecksumRange
  <1>8. /\ U16(sum) = <<sum \div 256, sum % 256>>
        /\ sum \div 256 \in Byte /\ sum % 256 \in Byte
        /\ ((sum \div 256) * 256) + (sum % 256) = sum
    BY <1>7, TwoBytes
  <1> DEFINE high == sum \div 256
             low == sum % 256
  <1>9. f = (MAGIC \o covered) \o <<high, low>> /\ high \in Byte /\ low \in Byte
        /\ (high * 256) + low = sum
    BY <1>8
  <1> HIDE DEF covered, sum, high, low
  <1>10. MAGIC \in Seq(Byte) /\ Len(MAGIC) = 2 /\ MAGIC[1] = 83 /\ MAGIC[2] = 84
    BY InByte DEF MAGIC
  <1> DEFINE front == MAGIC \o covered
  <1>11. /\ front \in Seq(Byte) /\ Len(front) = n + 5
         /\ front[1] = 83 /\ front[2] = 84
         /\ \A i \in 1..(n + 3) : front[2 + i] = covered[i]
    <2>1. /\ front \in Seq(Byte) /\ Len(front) = Len(MAGIC) + Len(covered)
          /\ \A i \in 1..Len(MAGIC) : front[i] = MAGIC[i]
          /\ \A i \in 1..Len(covered) : front[Len(MAGIC) + i] = covered[i]
      <3>1. front = MAGIC \o covered
        OBVIOUS
      <3>2. MAGIC \in Seq(Byte) /\ covered \in Seq(Byte)
        BY <1>6, <1>10
      <3> HIDE DEF front
      <3> QED
        BY <3>1, <3>2, Joined
    <2> HIDE DEF front
    <2>2. front[1] = MAGIC[1] /\ front[2] = MAGIC[2]
      BY <1>10, <2>1
    <2> QED
      BY <1>1, <1>6, <1>10, <2>1, <2>2
  <1>12. f = front \o <<high, low>>
    BY <1>9
  <1> HIDE DEF front, f
  <1>13. /\ f \in Seq(Byte) /\ Len(f) = n + 7
         /\ \A i \in 1..(n + 5) : f[i] = front[i]
         /\ f[n + 6] = high /\ f[n + 7] = low
    <2> DEFINE last == <<high, low>>
    <2>1. last \in Seq(Byte) /\ Len(last) = 2 /\ last[1] = high /\ last[2] = low
      BY <1>9
    <2> HIDE DEF last
    <2>2. f = front \o last
      BY <1>12 DEF last
    <2>3. /\ f \in Seq(Byte) /\ Len(f) = Len(front) + Len(last)
          /\ \A i \in 1..Len(front) : f[i] = front[i]
          /\ \A i \in 1..Len(last) : f[Len(front) + i] = last[i]
      <3>1. front \in Seq(Byte) /\ last \in Seq(Byte)
        BY <1>11, <2>1
      <3> QED
        BY <2>2, <3>1, Joined
    <2>4. f[Len(front) + 1] = last[1] /\ f[Len(front) + 2] = last[2]
      BY <2>1, <2>3
    <2>5. Len(front) + 1 = n + 6 /\ Len(front) + 2 = n + 7
      BY <1>1, <1>11
    <2> QED
      BY <1>1, <1>11, <2>1, <2>3, <2>4, <2>5
  <1>14. f[1] = 83 /\ f[2] = 84 /\ \A i \in 1..(n + 3) : f[2 + i] = covered[i]
    BY <1>1, <1>11, <1>13
  <1>15. f[3] = n \div 256 /\ f[4] = n % 256 /\ f[5] = code
    <2>1. f[2 + 1] = covered[1] /\ f[2 + 2] = covered[2] /\ f[2 + 3] = covered[3]
      BY <1>1, <1>14
    <2> QED
      BY <1>6, <2>1
  <1>16. \A i \in 1..n : f[5 + i] = p[i]
    <2> SUFFICES ASSUME NEW i \in 1..n PROVE f[5 + i] = p[i]
      OBVIOUS
    <2>1. f[2 + (3 + i)] = covered[3 + i]
      BY <1>1, <1>14
    <2>2. 2 + (3 + i) = 5 + i
      BY <1>1
    <2> QED
      BY <1>6, <2>1, <2>2
  <1>17. (f[3] * 256) + f[4] = n
    BY <1>4, <1>15 DEF n
  <1>18. (f[n + 6] * 256) + f[n + 7] = Checksum(covered)
    BY <1>9, <1>13 DEF sum
  <1>19. to_bytes(cmd, p) = f
    BY DEF to_bytes, f, front, sum, covered, head, n, code
  <1> QED
    BY <1>6, <1>13, <1>14, <1>15, <1>16, <1>17, <1>18, <1>19 DEF IsFrame, n, code

----------------------------------------------------------------------------
(* What the receiver makes of the frame at the front of its bytes.         *)

\* Bytes that agree with a frame as far as both go.
StartsAs(data, f) == \A i \in 1..Len(data) : i <= Len(f) => data[i] = f[i]

\* Before its end the receiver waits; from there on it finds the packet.
LEMMA FrameFound ==
    ASSUME NEW cmd \in DOMAIN Cmd_code, NEW p \in Seq(Byte), Len(p) <= MAX_PAYLOAD,
           NEW f, IsFrame(f, cmd, p),
           NEW data \in Seq(Byte), StartsAs(data, f)
    PROVE  from_bytes(data) =
             IF Len(data) < Len(f) THEN Failed("more")
             ELSE [result |-> "packet", cmd |-> cmd, payload |-> p, total |-> Len(f)]
  <1> DEFINE n == Len(p)
             len == Number(SubSeq(data, 3, 4))
             total == 5 + len + 2
  <1>1. /\ f \in Seq(Byte) /\ Len(f) = n + 7 /\ n \in Nat /\ Len(data) \in Nat
        /\ f[1] = 83 /\ f[2] = 84 /\ (f[3] * 256) + f[4] = n /\ f[5] = Cmd_code[cmd]
        /\ \A i \in 1..n : f[5 + i] = p[i]
    BY DEF IsFrame
  <1>2. \A i \in 1..Len(data) : i <= n + 7 => data[i] = f[i]
    BY <1>1 DEF StartsAs
  <1>3. CASE Len(data) < 7
    <2>1. from_bytes(data) = Failed("more")
      BY <1>3 DEF from_bytes
    <2> QED
      BY <1>1, <1>3, <2>1
  <1>4. CASE Len(data) >= 7
    <2>1. data[1] = 83 /\ data[2] = 84 /\ data[3] = f[3] /\ data[4] = f[4] /\ data[5] = f[5]
      BY <1>1, <1>2, <1>4
    <2>2. f[3] \in Int /\ f[4] \in Int
      <3>1. f[3] \in Byte /\ f[4] \in Byte
        BY <1>1
      <3> QED
        BY <3>1, InByte
    <2>3. SubSeq(data, 1, 2) = MAGIC
      <3>1. SubSeq(data, 1, 1 + 1) = <<data[1], data[1 + 1]>>
        BY <1>1, <1>4, TwoOf
      <3> QED
        BY <2>1, <3>1 DEF MAGIC
    <2>4. len = n
      <3>1. SubSeq(data, 3, 3 + 1) = <<data[3], data[3 + 1]>>
        BY <1>1, <1>4, TwoOf
      <3>2. len = Number(<<f[3], f[4]>>)
        <4>1. SubSeq(data, 3, 4) = <<data[3], data[4]>>
          BY <3>1
        <4> QED
          BY <2>1, <4>1
      <3>3. Number(<<f[3], f[4]>>) = (f[3] * 256) + f[4]
        BY <2>2, NumberOfTwo
      <3> HIDE DEF len
      <3> QED
        BY <1>1, <3>2, <3>3
    <2>5. total = n + 7
      BY <1>1, <2>4
    <2>6. ~(len > MAX_PAYLOAD)
      BY <1>1, <2>4 DEF MAX_PAYLOAD
    <2> DEFINE rest == IF Len(data) < total THEN Failed("more")
                       ELSE IF Number(SubSeq(data, total - 1, total))
                                 # Checksum(SubSeq(data, 3, total - 2)) THEN Failed("crc")
                       ELSE IF data[5] \notin DOMAIN Cmd_from THEN Failed("unknown_cmd")
                       ELSE [result |-> "packet", cmd |-> Cmd_from[data[5]],
                             payload |-> SubSeq(data, 6, total - 2), total |-> total]
    <2>7. from_bytes(data) = rest
      <3>1. ~(Len(data) < 7)
        BY <1>4
      <3> HIDE DEF len
      <3> QED
        BY <2>3, <2>6, <3>1 DEF from_bytes, len
    <2>8. CASE Len(data) < n + 7
      BY <1>1, <2>5, <2>7, <2>8
    <2>9. CASE Len(data) >= n + 7
      <3>1. PICK covered \in Seq(Byte) :
              /\ Len(covered) = n + 3
              /\ \A i \in 1..Len(covered) : covered[i] = f[2 + i]
              /\ (f[n + 6] * 256) + f[n + 7] = Checksum(covered)
        BY DEF IsFrame
      <3>2. SubSeq(data, 3, n + 5) = covered
        <4> DEFINE cut == SubSeq(data, 3, n + 5)
        <4>1. cut \in Seq(Byte) /\ Len(cut) = n + 3
              /\ \A i \in 1..(n + 3) : cut[i] = data[2 + i]
          BY <1>1, <2>9
        <4>2. \A i \in 1..(n + 3) : data[2 + i] = f[2 + i]
          BY <1>1, <1>2, <2>9
        <4> HIDE DEF cut
        <4>3. \A i \in 1..(n + 3) : cut[i] = covered[i]
          BY <3>1, <4>1, <4>2
        <4>4. cut = covered
          BY <1>1, <3>1, <4>1, <4>3, SeqEqual
        <4> QED
          BY <4>4 DEF cut
      <3>3. SubSeq(data, 6, n + 5) = p
        <4> DEFINE cut == SubSeq(data, 6, n + 5)
        <4>1. cut \in Seq(Byte) /\ Len(cut) = n
              /\ \A i \in 1..n : cut[i] = data[5 + i]
          BY <1>1, <2>9
        <4>2. \A i \in 1..n : data[5 + i] = p[i]
          BY <1>1, <1>2, <2>9
        <4> HIDE DEF cut
        <4>3. \A i \in 1..n : cut[i] = p[i]
          BY <4>1, <4>2
        <4>4. cut = p
          BY <1>1, <4>1, <4>3, SeqEqual
        <4> QED
          BY <4>4 DEF cut
      <3>4. Number(SubSeq(data, n + 6, n + 7)) = Checksum(covered)
        <4> DEFINE i == n + 6
        <4>1. SubSeq(data, n + 6, n + 7) = <<data[n + 6], data[n + 7]>>
          <5>1. i \in 1..(Len(data) - 1) /\ i + 1 = n + 7 /\ i = n + 6
            BY <1>1, <2>9
          <5> HIDE DEF i
          <5>2. SubSeq(data, i, i + 1) = <<data[i], data[i + 1]>>
            BY <5>1, TwoOf
          <5> QED
            BY <5>1, <5>2
        <4>2. data[n + 6] = f[n + 6] /\ data[n + 7] = f[n + 7]
          <5>1. n + 6 \in 1..Len(data) /\ n + 7 \in 1..Len(data)
            BY <1>1, <2>9
          <5> HIDE DEF n
          <5> QED
            BY <1>1, <1>2, <5>1
        <4>3. f[n + 6] \in Byte /\ f[n + 7] \in Byte
          BY <1>1
        <4>4. f[n + 6] \in Int /\ f[n + 7] \in Int
          BY <4>3, InByte
        <4>5. Number(<<f[n + 6], f[n + 7]>>) = (f[n + 6] * 256) + f[n + 7]
          BY <4>4, NumberOfTwo
        <4> QED
          BY <3>1, <4>1, <4>2, <4>5
      <3>5. data[5] \in DOMAIN Cmd_from /\ Cmd_from[data[5]] = cmd
        BY <1>1, <2>1, CommandsUndo DEF Undoes
      <3>6. total - 1 = n + 6 /\ total - 2 = n + 5 /\ total = n + 7 /\ total = Len(f)
        BY <1>1, <2>5
      <3> HIDE DEF total
      <3>7. rest = [result |-> "packet", cmd |-> Cmd_from[data[5]],
                    payload |-> SubSeq(data, 6, total - 2), total |-> total]
        <4>1. ~(Len(data) < total)
          BY <1>1, <2>9, <3>6
        <4>2. Number(SubSeq(data, total - 1, total)) = Checksum(SubSeq(data, 3, total - 2))
          BY <3>2, <3>4, <3>6
        <4> QED
          BY <3>5, <4>1, <4>2, Zenon
      <3>8. rest = [result |-> "packet", cmd |-> cmd, payload |-> p, total |-> Len(f)]
        BY <3>3, <3>5, <3>6, <3>7
      <3>9. ~(Len(data) < Len(f))
        BY <1>1, <2>9
      <3> HIDE DEF rest
      <3> QED
        BY <2>7, <3>8, <3>9
    <2> QED
      BY <1>1, <2>8, <2>9
  <1> QED
    BY <1>1, <1>3, <1>4

----------------------------------------------------------------------------
(* The inductive invariant: while no byte has changed, what the receiver   *)
(* holds and what is on the line are, end to end, the frames of the        *)
(* messages sent and not yet taken, in their order.                        *)

frame_of(m) == to_bytes(m.cmd, payload_of(m))

\* `cut` says where the frame of each message ends among all bytes ever sent;
\* `stream` are the bytes after the frames of the first r messages.
Laid(cut, messages, r, stream) ==
    /\ cut \in [0..Len(messages) -> Nat]
    /\ \A j, k \in 0..Len(messages) : j <= k => cut[j] <= cut[k]
    /\ \A j \in 1..Len(messages) : cut[j] = cut[j - 1] + Len(frame_of(messages[j]))
    /\ Len(stream) = cut[Len(messages)] - cut[r]
    /\ \A j \in 1..Len(messages) : r < j =>
         \A i \in 1..Len(frame_of(messages[j])) :
           stream[(cut[j - 1] - cut[r]) + i] = frame_of(messages[j])[i]

Packets == [cmd : DOMAIN Cmd_code, payload : Seq(Byte)]

TypesHold ==
    /\ script \in Seq(Messages)
    /\ sent \in Seq(Messages)
    /\ line \in Seq(Byte)
    /\ held \in Seq(Byte)
    /\ received \in Seq(Packets)

FramesInOrder ==
    /\ Len(received) <= Len(sent)
    /\ \A i \in 1..Len(received) : IsOf(received[i], sent[i])
    /\ \E cut : Laid(cut, sent, Len(received), held \o line)

WireInv == damage \in Nat /\ (damage = 0 => TypesHold /\ FramesInOrder)

LEMMA MessageFrame ==
    ASSUME NEW m \in Messages
    PROVE  /\ m.cmd \in DOMAIN Cmd_code
           /\ payload_of(m) \in Seq(Byte)
           /\ Len(payload_of(m)) <= MAX_PAYLOAD
           /\ IsFrame(frame_of(m), m.cmd, payload_of(m))
           /\ frame_of(m) \in Seq(Byte)
           /\ Len(frame_of(m)) \in Nat
           /\ Len(frame_of(m)) >= 7
  <1>1. /\ m.cmd \in DOMAIN Cmd_code
        /\ payload_of(m) \in Seq(Byte)
        /\ Len(payload_of(m)) <= MAX_PAYLOAD
    BY WireAssumption
  <1>2. IsFrame(frame_of(m), m.cmd, payload_of(m))
    BY <1>1, Frame DEF frame_of
  <1>3. frame_of(m) \in Seq(Byte) /\ Len(frame_of(m)) = Len(payload_of(m)) + 7
    BY <1>2 DEF IsFrame
  <1>4. Len(payload_of(m)) \in Nat
    BY <1>1
  <1> QED
    BY <1>1, <1>2, <1>3, <1>4

\* At the front of what is held, the receiver finds the next message sent as
\* soon as all of its frame is there; when all are taken, nothing is left.
LEMMA NextFrame ==
    ASSUME TypesHold, FramesInOrder
    PROVE  \/ /\ Len(received) = Len(sent)
              /\ Len(held \o line) = 0
              /\ from_bytes(held) = Failed("more")
           \/ LET m == sent[Len(received) + 1]
              IN  /\ Len(received) < Len(sent)
                  /\ Len(held \o line) >= Len(frame_of(m))
                  /\ from_bytes(held) =
                       IF Len(held) < Len(frame_of(m)) THEN Failed("more")
                       ELSE [result |-> "packet", cmd |-> m.cmd,
                             payload |-> payload_of(m), total |-> Len(frame_of(m))]
  <1> DEFINE r == Len(received)
             n == Len(sent)
             stream == held \o line
  <1>1. PICK cut : Laid(cut, sent, r, stream)
    BY DEF FramesInOrder
  <1>2. r \in Nat /\ n \in Nat /\ r <= n
    BY DEF TypesHold, FramesInOrder
  <1>3. /\ held \in Seq(Byte) /\ line \in Seq(Byte) /\ Len(held) \in Nat /\ Len(line) \in Nat
        /\ sent \in Seq(Messages)
    BY DEF TypesHold
  <1>4. /\ Len(stream) = Len(held) + Len(line)
        /\ \A i \in 1..Len(held) : stream[i] = held[i]
    <2>1. stream = held \o line
      OBVIOUS
    <2> HIDE DEF stream
    <2> QED
      BY <1>3, <2>1, Joined
  <1>5. /\ cut \in [0..n -> Nat]
        /\ \A j, k \in 0..n : j <= k => cut[j] <= cut[k]
        /\ \A j \in 1..n : cut[j] = cut[j - 1] + Len(frame_of(sent[j]))
        /\ Len(stream) = cut[n] - cut[r]
        /\ \A j \in 1..n : r < j =>
             \A i \in 1..Len(frame_of(sent[j])) :
               stream[(cut[j - 1] - cut[r]) + i] = frame_of(sent[j])[i]
    <2> HIDE DEF stream
    <2> QED
      BY <1>1 DEF Laid
  <1> HIDE DEF r, n, stream
  <1>6. CASE r = n
    <2>1. Len(stream) = 0
      <3>1. cut[n] \in Nat
        BY <1>2, <1>5
      <3> QED
        BY <1>5, <1>6, <3>1
    <2>2. Len(held) < 7
      BY <1>3, <1>4, <2>1
    <2>3. from_bytes(held) = Failed("more")
      BY <2>2 DEF from_bytes
    <2> QED
      BY <1>6, <2>1, <2>3 DEF r, n, stream
  <1>7. CASE r < n
    <2> DEFINE m == sent[r + 1]
               f == frame_of(m)
    <2>1. r + 1 \in 1..n /\ (r + 1) - 1 = r /\ r < r + 1
      BY <1>2, <1>7
    <2>2. m \in Messages
      BY <1>3, <2>1 DEF n
    <2>3. /\ m.cmd \in DOMAIN Cmd_code
          /\ payload_of(m) \in Seq(Byte)
          /\ Len(payload_of(m)) <= MAX_PAYLOAD
          /\ IsFrame(f, m.cmd, payload_of(m))
          /\ Len(f) \in Nat
      BY <2>2, MessageFrame
    <2>4. cut[r + 1] = cut[r] + Len(f)
      BY <1>5, <2>1
    <2>5. cut[r] \in Nat /\ cut[r + 1] \in Nat /\ cut[n] \in Nat
      BY <1>2, <1>5, <2>1
    <2>6. cut[r + 1] <= cut[n]
      <3>1. r + 1 \in 0..n /\ n \in 0..n /\ r + 1 <= n
        BY <1>2, <2>1
      <3> QED
        BY <1>5, <3>1
    <2> HIDE DEF f
    <2>7. Len(stream) >= Len(f)
      BY <1>5, <2>3, <2>4, <2>5, <2>6
    <2>8. \A i \in 1..Len(f) : stream[i] = f[i]
      <3>1. \A i \in 1..Len(f) : stream[(cut[(r + 1) - 1] - cut[r]) + i] = f[i]
        BY <1>5, <2>1 DEF f
      <3> QED
        BY <2>1, <2>3, <2>5, <3>1
    <2>9. StartsAs(held, f)
      <3> SUFFICES ASSUME NEW i \in 1..Len(held), i <= Len(f)
                   PROVE  held[i] = f[i]
        BY DEF StartsAs
      <3>1. i \in 1..Len(f)
        BY <1>3, <2>3
      <3> QED
        BY <1>4, <2>8, <3>1
    <2>10. from_bytes(held) =
             IF Len(held) < Len(f) THEN Failed("more")
             ELSE [result |-> "packet", cmd |-> m.cmd, payload |-> payload_of(m),
                   total |-> Len(f)]
      <3> HIDE DEF m
      <3> QED
        BY <1>3, <2>3, <2>9, FrameFound
    <2> QED
      BY <1>7, <2>7, <2>10 DEF r, n, stream, f
  <1> QED
    BY <1>2, <1>6, <1>7

----------------------------------------------------------------------------
(* Initially, and by each action.                                          *)

LEMMA WireInit == Init => WireInv
  <1> SUFFICES ASSUME Init PROVE WireInv
    OBVIOUS
  <1>1. script \in Seq(Messages)
    BY WireAssumption DEF Init
  <1>2. sent = << >> /\ line = << >> /\ held = << >> /\ received = << >> /\ damage = 0
    BY DEF Init
  <1>3. TypesHold
    BY <1>1, <1>2 DEF TypesHold
  <1> DEFINE cut == [j \in 0..0 |-> 0]
             stream == held \o line
  <1>4. Len(sent) = 0 /\ Len(received) = 0
    BY <1>2
  <1>5. Len(stream) = 0
    BY <1>2
  <1>6. cut \in [0..0 -> Nat] /\ cut[0] = 0
    OBVIOUS
  <1> HIDE DEF cut, stream
  <1>7. Laid(cut, sent, Len(received), stream)
    BY <1>4, <1>5, <1>6 DEF Laid
  <1>8. FramesInOrder
    BY <1>4, <1>7 DEF FramesInOrder, stream
  <1> QED
    BY <1>2, <1>3, <1>8 DEF WireInv

\* A place within a piece of a whole, counted from further down.
LEMMA PlaceWithin ==
    ASSUME NEW low \in Nat, NEW before \in Nat, NEW end \in Nat, NEW whole \in Nat,
           NEW size \in Nat, NEW i \in 1..size,
           low <= before, end = before + size, end <= whole
    PROVE  (before - low) + i \in 1..(whole - low)
  OBVIOUS

\* One more frame behind the others.
LEMMA LaidSend ==
    ASSUME NEW cut, NEW messages \in Seq(Messages), NEW r \in Nat, r <= Len(messages),
           NEW stream \in Seq(Byte), Laid(cut, messages, r, stream),
           NEW m \in Messages
    PROVE  \E longer : Laid(longer, Append(messages, m), r, stream \o frame_of(m))
  <1> DEFINE n == Len(messages)
             f == frame_of(m)
             all == Append(messages, m)
             bytes == stream \o f
             longer == [j \in 0..(n + 1) |-> IF j = n + 1 THEN cut[n] + Len(f) ELSE cut[j]]
  <1>1. n \in Nat /\ r <= n
    OBVIOUS
  <1>2. f \in Seq(Byte) /\ Len(f) \in Nat
    BY MessageFrame
  <1>3. Len(all) = n + 1 /\ all[n + 1] = m /\ \A j \in 1..n : all[j] = messages[j]
    BY AppendProperties
  <1>4. /\ Len(bytes) = Len(stream) + Len(f) /\ Len(stream) \in Nat
        /\ \A i \in 1..Len(stream) : bytes[i] = stream[i]
        /\ \A i \in 1..Len(f) : bytes[Len(stream) + i] = f[i]
    <2>1. bytes = stream \o f
      OBVIOUS
    <2> HIDE DEF bytes, f
    <2> QED
      BY <1>2, <2>1, Joined
  <1>5. /\ cut \in [0..n -> Nat]
        /\ \A j, k \in 0..n : j <= k => cut[j] <= cut[k]
        /\ \A j \in 1..n : cut[j] = cut[j - 1] + Len(frame_of(messages[j]))
        /\ Len(stream) = cut[n] - cut[r]
        /\ \A j \in 1..n : r < j =>
             \A i \in 1..Len(frame_of(messages[j])) :
               stream[(cut[j - 1] - cut[r]) + i] = frame_of(messages[j])[i]
    BY DEF Laid
  <1> HIDE DEF f, all, bytes, n
  <1>6. \A j \in 0..n : cut[j] \in Nat
    BY <1>5
  <1>7. /\ longer \in [0..(n + 1) -> Nat]
        /\ longer[n + 1] = cut[n] + Len(f)
        /\ \A j \in 0..n : longer[j] = cut[j]
    BY <1>1, <1>2, <1>6
  <1> HIDE DEF longer
  <1>8. ASSUME NEW j \in 0..(n + 1), NEW k \in 0..(n + 1), j <= k
        PROVE  longer[j] <= longer[k]
    <2>1. CASE k = n + 1 /\ j = n + 1
      BY <1>1, <1>7, <2>1
    <2>2. CASE k = n + 1 /\ j # n + 1
      <3>1. j \in 0..n /\ n \in 0..n /\ j <= n
        BY <1>1, <2>2
      <3>2. cut[j] <= cut[n] /\ cut[j] \in Nat /\ cut[n] \in Nat
        BY <1>5, <1>6, <3>1
      <3> QED
        BY <1>2, <1>7, <2>2, <3>1, <3>2
    <2>3. CASE k # n + 1
      <3>1. j \in 0..n /\ k \in 0..n
        BY <1>1, <1>8, <2>3
      <3> QED
        BY <1>5, <1>7, <1>8, <3>1
    <2> QED
      BY <2>1, <2>2, <2>3
  <1>9. ASSUME NEW j \in 1..(n + 1)
        PROVE  longer[j] = longer[j - 1] + Len(frame_of(all[j]))
    <2>1. CASE j = n + 1
      <3>1. j - 1 = n /\ n \in 0..n
        BY <1>1, <2>1
      <3> QED
        BY <1>3, <1>7, <2>1, <3>1 DEF f
    <2>2. CASE j # n + 1
      <3>1. j \in 1..n /\ j \in 0..n /\ j - 1 \in 0..n
        BY <1>1, <2>2
      <3> QED
        BY <1>3, <1>5, <1>7, <3>1
    <2> QED
      BY <2>1, <2>2
  <1>10. longer[r] = cut[r] /\ cut[r] \in Nat /\ cut[n] \in Nat
    BY <1>1, <1>6, <1>7
  <1>11. Len(bytes) = longer[n + 1] - longer[r]
    BY <1>2, <1>4, <1>5, <1>7, <1>10
  <1>12. ASSUME NEW j \in 1..(n + 1), r < j, NEW i \in 1..Len(frame_of(all[j]))
         PROVE  bytes[(longer[j - 1] - longer[r]) + i] = frame_of(all[j])[i]
    <2>1. CASE j = n + 1
      <3>1. j - 1 = n /\ n \in 0..n /\ longer[n] = cut[n]
        BY <1>1, <1>7, <2>1
      <3>2. frame_of(all[j]) = f
        BY <1>3, <2>1 DEF f
      <3>3. longer[j - 1] - longer[r] = Len(stream)
        BY <1>5, <1>10, <3>1
      <3> QED
        BY <1>4, <1>12, <3>2, <3>3
    <2>2. CASE j # n + 1
      <3>1. j \in 1..n /\ j \in 0..n /\ n \in 0..n /\ j <= n /\ j - 1 \in 0..n /\ r \in 0..n /\ r <= j - 1
        BY <1>1, <1>12, <2>2
      <3>2. frame_of(all[j]) = frame_of(messages[j]) /\ longer[j - 1] = cut[j - 1]
        BY <1>3, <1>7, <3>1
      <3> DEFINE at == (cut[j - 1] - cut[r]) + i
                 size == Len(frame_of(messages[j]))
      <3>3. cut[r] <= cut[j - 1] /\ cut[j] <= cut[n] /\ cut[j] = cut[j - 1] + size
        BY <1>5, <3>1
      <3>4. cut[j - 1] \in Nat /\ cut[j] \in Nat
        BY <1>6, <3>1
      <3>5. i \in 1..size
        BY <1>12, <3>2
      <3>6. size \in Nat
        <4>1. messages[j] \in Messages
          BY <3>1 DEF n
        <4> QED
          BY <4>1, MessageFrame
      <3>7. at \in 1..Len(stream)
        <4>1. Len(stream) = cut[n] - cut[r]
          BY <1>5
        <4>2. (cut[j - 1] - cut[r]) + i \in 1..(cut[n] - cut[r])
          <5> HIDE DEF size
          <5> QED
            BY <1>10, <3>3, <3>4, <3>5, <3>6, PlaceWithin
        <4> QED
          BY <4>1, <4>2
      <3>8. stream[at] = frame_of(messages[j])[i]
        BY <1>5, <1>12, <3>1, <3>5
      <3>9. bytes[at] = stream[at]
        <4> HIDE DEF at
        <4> QED
          BY <1>4, <3>7
      <3> QED
        BY <1>10, <3>2, <3>8, <3>9
    <2> QED
      BY <2>1, <2>2
  <1>13. Laid(longer, all, r, bytes)
    BY <1>3, <1>7, <1>8, <1>9, <1>11, <1>12 DEF Laid
  <1> QED
    BY <1>13 DEF all, bytes, f

\* The frame at the front taken.
LEMMA LaidTake ==
    ASSUME NEW cut, NEW messages \in Seq(Messages), NEW r \in Nat, r < Len(messages),
           NEW stream \in Seq(Byte), Laid(cut, messages, r, stream),
           NEW rest \in Seq(Byte),
           Len(rest) = Len(stream) - Len(frame_of(messages[r + 1])),
           \A i \in 1..Len(rest) : rest[i] = stream[Len(frame_of(messages[r + 1])) + i]
    PROVE  Laid(cut, messages, r + 1, rest)
  <1> DEFINE n == Len(messages)
             size == Len(frame_of(messages[r + 1]))
  <1>1. n \in Nat /\ r + 1 \in 1..n /\ r + 1 \in 0..n /\ r \in 0..n /\ n \in 0..n /\ (r + 1) - 1 = r
    OBVIOUS
  <1>2. /\ cut \in [0..n -> Nat]
        /\ \A j, k \in 0..n : j <= k => cut[j] <= cut[k]
        /\ \A j \in 1..n : cut[j] = cut[j - 1] + Len(frame_of(messages[j]))
        /\ Len(stream) = cut[n] - cut[r]
        /\ \A j \in 1..n : r < j =>
             \A i \in 1..Len(frame_of(messages[j])) :
               stream[(cut[j - 1] - cut[r]) + i] = frame_of(messages[j])[i]
    BY DEF Laid
  <1>3. /\ Len(rest) = Len(stream) - size
        /\ \A i \in 1..Len(rest) : rest[i] = stream[size + i]
    OBVIOUS
  <1>4. \A j \in 1..n : Len(frame_of(messages[j])) \in Nat
    BY MessageFrame
  <1>5. size \in Nat
    BY <1>1, <1>4
  <1>6. cut[r + 1] = cut[r] + size
    BY <1>1, <1>2
  <1>7. \A j \in 0..n : cut[j] \in Nat
    BY <1>2
  <1> HIDE DEF n, size
  <1>8. Len(rest) = cut[n] - cut[r + 1]
    BY <1>1, <1>2, <1>3, <1>5, <1>6, <1>7
  <1>9. ASSUME NEW j \in 1..n, r + 1 < j, NEW i \in 1..Len(frame_of(messages[j]))
        PROVE  rest[(cut[j - 1] - cut[r + 1]) + i] = frame_of(messages[j])[i]
    <2> DEFINE at == (cut[j - 1] - cut[r + 1]) + i
               long == Len(frame_of(messages[j]))
    <2>1. r < j /\ j \in 0..n /\ j - 1 \in 0..n /\ r + 1 <= j - 1 /\ j <= n
      BY <1>1, <1>9
    <2>2. cut[r + 1] <= cut[j - 1] /\ cut[j] <= cut[n] /\ cut[j] = cut[j - 1] + long
      BY <1>1, <1>2, <2>1
    <2>3. /\ cut[r] \in Nat /\ cut[r + 1] \in Nat /\ cut[j - 1] \in Nat
          /\ cut[j] \in Nat /\ cut[n] \in Nat
      BY <1>1, <1>7, <2>1
    <2>4. long \in Nat /\ i \in 1..long
      BY <1>4
    <2>5. stream[(cut[j - 1] - cut[r]) + i] = frame_of(messages[j])[i]
      BY <1>2, <2>1
    <2> HIDE DEF long
    <2>6. at \in 1..Len(rest)
      <3>1. (cut[j - 1] - cut[r + 1]) + i \in 1..(cut[n] - cut[r + 1])
        BY <2>2, <2>3, <2>4, PlaceWithin
      <3> QED
        BY <1>8, <3>1
    <2>7. size + at = (cut[j - 1] - cut[r]) + i
      <3> DEFINE low == cut[r]
                 before == cut[j - 1]
                 up == cut[r + 1]
      <3>1. at = (before - up) + i /\ up = low + size
        BY <1>6
      <3>2. low \in Nat /\ before \in Nat /\ i \in Nat /\ size \in Nat
        BY <1>5, <2>3, <2>4
      <3> HIDE DEF at, low, before, up
      <3>3. size + at = (before - low) + i
        BY <3>1, <3>2
      <3> QED
        BY <3>3 DEF before, low
    <2> HIDE DEF at
    <2>8. rest[at] = stream[size + at]
      BY <1>3, <2>6
    <2> QED
      BY <2>5, <2>7, <2>8 DEF at
  <1> QED
    BY <1>2, <1>8, <1>9 DEF Laid, n

\* Bytes that only move from the line to the receiver change nothing.
LEMMA KeepsOrder ==
    ASSUME FramesInOrder, UNCHANGED <<sent, received>>, held' \o line' = held \o line
    PROVE  FramesInOrder'
  <1>1. PICK cut : Laid(cut, sent, Len(received), held \o line)
    BY DEF FramesInOrder
  <1>2. Laid(cut, sent', Len(received'), held' \o line')
    BY <1>1
  <1>3. Len(received') <= Len(sent') /\ \A i \in 1..Len(received') : IsOf(received'[i], sent'[i])
    BY DEF FramesInOrder
  <1> QED
    BY <1>2, <1>3 DEF FramesInOrder

LEMMA SendKeeps ==
    ASSUME TypesHold, FramesInOrder, Send
    PROVE  TypesHold' /\ FramesInOrder'
  <1> DEFINE m == Head(script)
             f == frame_of(m)
             stream == held \o line
             r == Len(received)
  <1>1. /\ script \in Seq(Messages) /\ sent \in Seq(Messages) /\ received \in Seq(Packets)
        /\ line \in Seq(Byte) /\ held \in Seq(Byte)
    BY DEF TypesHold
  <1>2. script # << >>
    BY DEF Send
  <1>3. m \in Messages /\ Tail(script) \in Seq(Messages)
    BY <1>1, <1>2, HeadTailProperties
  <1>4. f \in Seq(Byte)
    BY <1>3, MessageFrame
  <1>5. /\ line' = line \o f /\ sent' = Append(sent, m) /\ script' = Tail(script)
        /\ held' = held /\ received' = received
    BY DEF Send, frame_of
  <1> HIDE DEF m, f
  <1>6. line \o f \in Seq(Byte) /\ Append(sent, m) \in Seq(Messages)
    BY <1>1, <1>3, <1>4
  <1>7. TypesHold'
    BY <1>1, <1>3, <1>5, <1>6 DEF TypesHold
  <1>8. held' \o line' = stream \o f
    <2>1. held' \o line' = held \o (line \o f)
      BY <1>5
    <2>2. (held \o line) \o f = held \o (line \o f)
      BY <1>1, <1>4, ConcatAssociative
    <2> QED
      BY <2>1, <2>2
  <1>9. stream \in Seq(Byte) /\ r \in Nat /\ r <= Len(sent)
    BY <1>1 DEF FramesInOrder
  <1>10. PICK cut : Laid(cut, sent, r, stream)
    BY DEF FramesInOrder
  <1> HIDE DEF stream
  <1>11. \E longer : Laid(longer, Append(sent, m), r, stream \o frame_of(m))
    BY <1>1, <1>3, <1>9, <1>10, LaidSend
  <1>12. \E longer : Laid(longer, sent', Len(received'), held' \o line')
    BY <1>5, <1>8, <1>11 DEF f
  <1>13. /\ Len(sent') = Len(sent) + 1
         /\ \A i \in 1..Len(sent) : sent'[i] = sent[i]
    BY <1>1, <1>3, <1>5, AppendProperties
  <1>14. \A i \in 1..r : IsOf(received'[i], sent'[i])
    <2> SUFFICES ASSUME NEW i \in 1..r PROVE IsOf(received'[i], sent'[i])
      OBVIOUS
    <2>1. IsOf(received[i], sent[i])
      BY DEF FramesInOrder
    <2>2. i \in 1..Len(sent)
      BY <1>1, <1>9
    <2> QED
      BY <1>5, <1>13, <2>1, <2>2
  <1>15. Len(received') <= Len(sent')
    BY <1>1, <1>5, <1>9, <1>13
  <1> QED
    BY <1>5, <1>7, <1>12, <1>14, <1>15 DEF FramesInOrder

LEMMA ArriveKeeps ==
    ASSUME TypesHold, FramesInOrder, NEW n \in Chunks, Arrive(n)
    PROVE  TypesHold' /\ FramesInOrder'
  <1> DEFINE now == SubSeq(line, 1, n)
             later == SubSeq(line, n + 1, Len(line))
  <1>1. line \in Seq(Byte) /\ held \in Seq(Byte) /\ Len(line) \in Nat
    BY DEF TypesHold
  <1>2. n \in Nat /\ n # 0 /\ n <= Len(line)
    BY WireAssumption DEF Arrive
  <1>3. now \o later = line
    <2>1. 1 \in 1..(Len(line) + 1) /\ n \in (1 - 1)..Len(line) /\ Len(line) \in n..Len(line)
      BY <1>1, <1>2
    <2>2. now \o later = SubSeq(line, 1, Len(line))
      BY <1>1, <2>1, ConcatAdjacentSubSeq
    <2> QED
      BY <1>1, <2>2, SubSeqFull
  <1>4. now \in Seq(Byte) /\ later \in Seq(Byte)
    BY <1>1, <1>2
  <1>5. /\ held' = held \o now /\ line' = later
        /\ UNCHANGED <<script, sent, received>>
    BY DEF Arrive
  <1> HIDE DEF now, later
  <1>6. held \o now \in Seq(Byte)
    BY <1>1, <1>4
  <1>7. TypesHold'
    BY <1>4, <1>5, <1>6 DEF TypesHold
  <1>8. (held \o now) \o later = held \o (now \o later)
    BY <1>1, <1>4, ConcatAssociative
  <1>9. held' \o line' = held \o line
    BY <1>3, <1>5, <1>8
  <1> QED
    BY <1>5, <1>7, <1>9, KeepsOrder

LEMMA ArriveRestKeeps ==
    ASSUME TypesHold, FramesInOrder, ArriveRest
    PROVE  TypesHold' /\ FramesInOrder'
  <1>1. line \in Seq(Byte) /\ held \in Seq(Byte)
    BY DEF TypesHold
  <1>2. held' = held \o line /\ line' = << >> /\ UNCHANGED <<script, sent, received>>
    BY DEF ArriveRest
  <1>3. held \o line \in Seq(Byte)
    BY <1>1
  <1>4. TypesHold'
    BY <1>2, <1>3 DEF TypesHold
  <1>5. held' \o line' = held \o line
    BY <1>2, <1>3, ConcatEmptySeq
  <1> QED
    BY <1>2, <1>4, <1>5, KeepsOrder

LEMMA TakeKeeps ==
    ASSUME TypesHold, FramesInOrder, Take
    PROVE  TypesHold' /\ FramesInOrder'
  <1> DEFINE found == from_bytes(held)
             packet == [cmd |-> found.cmd, payload |-> found.payload]
             r == Len(received)
             m == sent[r + 1]
             f == frame_of(m)
             stream == held \o line
             rest == SubSeq(held, Len(f) + 1, Len(held))
  <1>1. /\ sent \in Seq(Messages) /\ received \in Seq(Packets)
        /\ line \in Seq(Byte) /\ held \in Seq(Byte) /\ Len(held) \in Nat /\ Len(line) \in Nat
        /\ r \in Nat /\ Len(sent) \in Nat
    BY DEF TypesHold
  <1>2. /\ found.result = "packet" /\ received' = Append(received, packet)
        /\ held' = SubSeq(held, found.total + 1, Len(held))
        /\ UNCHANGED <<script, sent, line>>
    BY DEF Take
  <1>3. /\ r < Len(sent)
        /\ found = IF Len(held) < Len(f) THEN Failed("more")
                   ELSE [result |-> "packet", cmd |-> m.cmd,
                         payload |-> payload_of(m), total |-> Len(f)]
    <2>1. found # Failed("more")
      BY <1>2 DEF Failed
    <2> QED
      BY <2>1, NextFrame
  <1>4. /\ ~(Len(held) < Len(f))
        /\ found = [result |-> "packet", cmd |-> m.cmd,
                    payload |-> payload_of(m), total |-> Len(f)]
    <2>1. found # Failed("more")
      BY <1>2 DEF Failed
    <2> HIDE DEF found
    <2> QED
      BY <1>3, <2>1
  <1>5. m \in Messages
    <2>1. r + 1 \in 1..Len(sent)
      BY <1>1, <1>3
    <2> QED
      BY <1>1, <2>1, ElementOfSeq
  <1>6. /\ m.cmd \in DOMAIN Cmd_code /\ payload_of(m) \in Seq(Byte)
        /\ f \in Seq(Byte) /\ Len(f) \in Nat
    BY <1>5, MessageFrame
  <1>7. packet = [cmd |-> m.cmd, payload |-> payload_of(m)] /\ held' = rest
    BY <1>2, <1>4
  <1>8. IsOf(packet, m) /\ packet \in Packets
    <2> HIDE DEF packet
    <2> QED
      BY <1>6, <1>7 DEF IsOf, Packets
  <1>9. Len(held) >= Len(f)
    BY <1>1, <1>4, <1>6
  <1> HIDE DEF found, packet, m, f, stream
  <1>10. /\ rest \in Seq(Byte) /\ Len(rest) = Len(held) - Len(f)
         /\ \A i \in 1..(Len(held) - Len(f)) : rest[i] = held[Len(f) + i]
    <2>1. Len(f) + 1 \in Int /\ Len(held) \in Int
          /\ \A i \in (Len(f) + 1)..Len(held) : held[i] \in Byte
      BY <1>1, <1>6
    <2>2. /\ rest \in Seq(Byte)
          /\ Len(rest) = IF Len(f) + 1 <= Len(held) THEN Len(held) - (Len(f) + 1) + 1 ELSE 0
          /\ \A i \in 1..(Len(held) - (Len(f) + 1) + 1) : rest[i] = held[(Len(f) + 1) + i - 1]
      BY <2>1, SubSeqProperties
    <2>3. Len(held) - (Len(f) + 1) + 1 = Len(held) - Len(f)
      BY <1>1, <1>6
    <2>4. \A i \in 1..(Len(held) - Len(f)) : (Len(f) + 1) + i - 1 = Len(f) + i
      BY <1>1, <1>6
    <2> HIDE DEF rest
    <2>5. Len(rest) = Len(held) - Len(f)
      <3> DEFINE a == Len(f)
                 b == Len(held)
      <3>1. a \in Nat /\ b \in Nat /\ b >= a
        BY <1>1, <1>6, <1>9
      <3>2. Len(rest) = IF a + 1 <= b THEN b - (a + 1) + 1 ELSE 0
        BY <2>2
      <3> HIDE DEF a, b
      <3>3. Len(rest) = b - a
        BY <3>1, <3>2
      <3> QED
        BY <3>3 DEF a, b
    <2> QED
      BY <2>2, <2>3, <2>4, <2>5
  <1> HIDE DEF rest
  <1>11. /\ sent' = sent /\ line' = line /\ held' = rest /\ script' = script
         /\ received' = Append(received, packet)
    BY <1>2, <1>7
  <1>12. /\ Append(received, packet) \in Seq(Packets)
         /\ Len(received') = r + 1 /\ received'[r + 1] = packet
         /\ \A i \in 1..r : received'[i] = received[i]
    BY <1>1, <1>8, <1>11, AppendProperties
  <1>13. TypesHold'
    BY <1>10, <1>11, <1>12 DEF TypesHold
  <1>14. ASSUME NEW i \in 1..(r + 1) PROVE IsOf(received'[i], sent'[i])
    <2>1. CASE i = r + 1
      BY <1>8, <1>11, <1>12, <2>1 DEF m
    <2>2. CASE i # r + 1
      <3>1. i \in 1..r
        BY <1>1, <2>2
      <3>2. IsOf(received[i], sent[i])
        BY <3>1 DEF FramesInOrder
      <3> QED
        BY <1>11, <1>12, <3>1, <3>2
    <2> QED
      BY <2>1, <2>2
  <1> DEFINE after == rest \o line
  <1>15. /\ after \in Seq(Byte) /\ Len(after) = Len(rest) + Len(line)
         /\ \A i \in 1..Len(rest) : after[i] = rest[i]
         /\ \A i \in 1..Len(line) : after[Len(rest) + i] = line[i]
    <2>1. after = rest \o line /\ rest \in Seq(Byte) /\ line \in Seq(Byte)
      BY <1>1, <1>10
    <2> HIDE DEF after
    <2> QED
      BY <2>1, Joined
  <1>16. /\ stream \in Seq(Byte) /\ Len(stream) = Len(held) + Len(line)
         /\ \A i \in 1..Len(held) : stream[i] = held[i]
         /\ \A i \in 1..Len(line) : stream[Len(held) + i] = line[i]
    <2>1. stream = held \o line /\ held \in Seq(Byte) /\ line \in Seq(Byte)
      BY <1>1 DEF stream
    <2> QED
      BY <2>1, Joined
  <1> HIDE DEF after
  <1>17. Len(after) = Len(stream) - Len(f)
    BY <1>1, <1>6, <1>10, <1>15, <1>16
  <1>18. ASSUME NEW i \in 1..Len(after) PROVE after[i] = stream[Len(f) + i]
    <2>1. CASE i <= Len(rest)
      <3>1. i \in 1..Len(rest) /\ i \in 1..(Len(held) - Len(f)) /\ Len(f) + i \in 1..Len(held)
        BY <1>1, <1>6, <1>9, <1>10, <2>1
      <3> QED
        BY <1>10, <1>15, <1>16, <3>1
    <2>2. CASE ~(i <= Len(rest))
      <3> DEFINE k == i - Len(rest)
      <3>1. k \in 1..Len(line) /\ i = Len(rest) + k /\ Len(f) + i = Len(held) + k
        BY <1>1, <1>6, <1>9, <1>10, <1>15, <2>2
      <3> HIDE DEF k
      <3> QED
        BY <1>15, <1>16, <3>1
    <2> QED
      BY <2>1, <2>2
  <1>19. PICK cut : Laid(cut, sent, r, stream)
    BY DEF FramesInOrder, stream
  <1>20. Laid(cut, sent, r + 1, after)
    BY <1>1, <1>3, <1>15, <1>16, <1>17, <1>18, <1>19, LaidTake DEF f, m
  <1>21. Laid(cut, sent', Len(received'), held' \o line')
    BY <1>11, <1>12, <1>20 DEF after
  <1>22. Len(received') <= Len(sent')
    BY <1>1, <1>3, <1>11, <1>12
  <1> QED
    BY <1>12, <1>13, <1>14, <1>21, <1>22 DEF FramesInOrder

\* The receiver never drops a byte of what was sent.
LEMMA NothingToDrop ==
    ASSUME TypesHold, FramesInOrder
    PROVE  from_bytes(held).result \in {"packet", "more"} /\ ~Drop
  <1>1. from_bytes(held).result \in {"packet", "more"}
    BY NextFrame DEF Failed
  <1> QED
    BY <1>1 DEF Drop

LEMMA WireStep == WireInv /\ [Next]_wire => WireInv'
  <1> SUFFICES ASSUME WireInv, [Next]_wire PROVE WireInv'
    OBVIOUS
  <1>1. damage \in Nat /\ (damage = 0 => TypesHold /\ FramesInOrder)
    BY DEF WireInv
  <1>2. ASSUME damage' = damage, damage = 0 => TypesHold' /\ FramesInOrder'
        PROVE  WireInv'
    BY <1>1, <1>2 DEF WireInv
  <1>3. CASE Send
    <2>1. damage' = damage
      BY <1>3 DEF Send
    <2> QED
      BY <1>1, <1>2, <1>3, <2>1, SendKeeps
  <1>4. ASSUME NEW n \in Chunks, Arrive(n) PROVE WireInv'
    <2>1. damage' = damage
      BY <1>4 DEF Arrive
    <2> QED
      BY <1>1, <1>2, <1>4, <2>1, ArriveKeeps
  <1>5. CASE ArriveRest
    <2>1. damage' = damage
      BY <1>5 DEF ArriveRest
    <2> QED
      BY <1>1, <1>2, <1>5, <2>1, ArriveRestKeeps
  <1>6. CASE Take
    <2>1. damage' = damage
      BY <1>6 DEF Take
    <2> QED
      BY <1>1, <1>2, <1>6, <2>1, TakeKeeps
  <1>7. CASE Drop
    <2>1. damage' = damage
      BY <1>7 DEF Drop
    <2>2. damage # 0
      BY <1>1, <1>7, NothingToDrop
    <2> QED
      BY <1>1, <2>1, <2>2 DEF WireInv
  <1>8. ASSUME NEW i \in DamagePlaces, Damage(i) PROVE WireInv'
    <2>1. damage' = damage + 1
      BY <1>8 DEF Damage
    <2>2. damage' \in Nat /\ damage' # 0
      BY <1>1, <2>1
    <2> QED
      BY <2>2 DEF WireInv
  <1>9. CASE UNCHANGED wire
    <2>1. UNCHANGED <<script, sent, line, held, received, damage>>
      BY <1>9 DEF wire
    <2>2. damage = 0 => TypesHold' /\ FramesInOrder'
      <3>1. TypesHold => TypesHold'
        BY <2>1 DEF TypesHold
      <3>2. held' \o line' = held \o line
        BY <2>1
      <3> QED
        BY <1>1, <2>1, <3>1, <3>2, KeepsOrder
    <2> QED
      BY <1>2, <2>1, <2>2
  <1> QED
    BY <1>3, <1>4, <1>5, <1>6, <1>7, <1>8, <1>9 DEF Next

\* On an undamaged line the invariant gives all of PacketsAsSent.
LEMMA WireInvGives == WireInv => (damage = 0 => PacketsAsSent)
  <1> SUFFICES ASSUME WireInv, damage = 0 PROVE PacketsAsSent
    OBVIOUS
  <1> DEFINE r == Len(received)
             n == Len(sent)
             same == [i \in DOMAIN received |-> i]
  <1>1. TypesHold /\ FramesInOrder
    BY DEF WireInv
  <1>2. r \in Nat /\ n \in Nat /\ r <= n /\ DOMAIN received = 1..r /\ DOMAIN sent = 1..n
    BY <1>1 DEF TypesHold, FramesInOrder
  <1>3. same \in [DOMAIN received -> DOMAIN sent]
    BY <1>2
  <1>4. Increasing(same)
    BY DEF Increasing
  <1>5. \A i \in DOMAIN received : IsOf(received[i], sent[same[i]])
    BY <1>1, <1>2 DEF FramesInOrder
  <1>6. ASSUME line = << >>, from_bytes(held).result = "more"
        PROVE  held = << >> /\ r = n
    <2>1. held \in Seq(Byte)
      BY <1>1 DEF TypesHold
    <2>2. held \o line = held
      BY <1>6, <2>1, ConcatEmptySeq
    <2>3. r = n /\ Len(held) = 0
      <3>1. CASE r = n /\ Len(held \o line) = 0
        BY <2>2, <3>1
      <3>2. CASE LET m == sent[r + 1]
                 IN  /\ Len(held \o line) >= Len(frame_of(m))
                     /\ r < n
                     /\ from_bytes(held) =
                          IF Len(held) < Len(frame_of(m)) THEN Failed("more")
                          ELSE [result |-> "packet", cmd |-> m.cmd,
                                payload |-> payload_of(m), total |-> Len(frame_of(m))]
        <4> DEFINE m == sent[r + 1]
        <4>1. m \in Messages
          <5>1. r + 1 \in 1..n /\ sent \in Seq(Messages)
            BY <1>1, <1>2, <3>2 DEF TypesHold
          <5> QED
            BY <5>1, ElementOfSeq
        <4>2. Len(frame_of(m)) \in Nat /\ Len(held) \in Nat
          BY <2>1, <4>1, MessageFrame
        <4>3. ~(Len(held) < Len(frame_of(m)))
          BY <2>2, <3>2, <4>2
        <4>4. from_bytes(held).result = "packet"
          BY <3>2, <4>3
        <4> QED
          BY <1>6, <4>4
      <3> QED
        BY <1>1, <3>1, <3>2, NextFrame
    <2> QED
      BY <2>1, <2>3
  <1>7. from_bytes(held).result \in {"packet", "more"}
    BY <1>1, NothingToDrop
  <1> HIDE DEF same
  <1> QED
    BY <1>3, <1>4, <1>5, <1>6, <1>7 DEF PacketsAsSent

----------------------------------------------------------------------------
(* Theorems *)

LEMMA WireInvariant == Spec => []WireInv
  <1> QED
    BY WireInit, WireStep, PTL DEF Spec

\* Packet::to_bytes and Packet::from_bytes: while no byte has changed, the
\* packets taken are packets that were sent, in order and unaltered, none of
\* what is held is refused, and when nothing is under way all have been taken:
\* for every script, whatever bytes the payloads hold (the magic among them),
\* and for every way of cutting the line into chunks.
THEOREM UndamagedArrives == Spec => [](damage = 0 => PacketsAsSent)
  <1>1. WireInv => (damage = 0 => PacketsAsSent)
    BY WireInvGives
  <1> QED
    BY <1>1, WireInvariant, PTL

=============================================================================
