------------------------ MODULE ProtocolReaderProofs ------------------------
(***************************************************************************)
(* Proofs about ProtocolReader, for any packets that the words of a header *)
(* can describe, any number of them, any sizes of the read and of the      *)
(* windows, and all channels.                                              *)
(*                                                                         *)
(* In this order: loops as recursive functions; sequences; where packets   *)
(* lie in what was written (LaidOut); each parser on a buffer that begins  *)
(* with a packet (ParseOne); the loop of the read handler (LoopSettles);   *)
(* the inductive invariant Inv and its steps; the theorems.                *)
(***************************************************************************)
EXTENDS ProtocolReader, SequenceTheorems, WellFoundedInduction, TLAPS

-----------------------------------------------------------------------------
(* Loops *)

(* A set with 0 and every successor: induction from well-foundedness. *)
LEMMA Least ==
  ASSUME NEW S \in SUBSET Nat, 0 \in S, \A n \in S : n + 1 \in S
  PROVE  S = Nat
<1>1. SUFFICES ASSUME Nat \ S # {} PROVE FALSE
  OBVIOUS
<1>2. PICK x \in Nat \ S : \A y \in Nat \ S : <<y, x>> \notin OpToRel(<, Nat)
  BY <1>1, WFMin, NatLessThanWellFounded
<1>3. x # 0 /\ x - 1 \in Nat /\ x - 1 < x /\ (x - 1) + 1 = x
  <2>1. x # 0
    BY <1>2
  <2>2. \A z \in Nat : z # 0 => z - 1 \in Nat /\ z - 1 < z /\ (z - 1) + 1 = z
    OBVIOUS
  <2> QED BY <1>2, <2>1, <2>2
<1>4. <<x - 1, x>> \in OpToRel(<, Nat)
  BY <1>2, <1>3 DEF OpToRel
<1>5. x - 1 \in S
  BY <1>2, <1>3, <1>4
<1> QED BY <1>2, <1>3, <1>5

(* The same up to n. *)
LEMMA UpTo ==
  ASSUME NEW n \in Nat, NEW S, 0 \in S, \A m \in 0 .. (n - 1) : m \in S => m + 1 \in S
  PROVE  \A m \in 0 .. n : m \in S
<1> DEFINE M == {m \in Nat : m <= n => m \in S}
<1>1. 0 \in M
  OBVIOUS
<1>2. ASSUME NEW m \in M PROVE m + 1 \in M
  <2>1. m \in Nat /\ (m + 1 <= n => m \in 0 .. (n - 1) /\ m <= n)
    BY <1>2
  <2> QED BY <1>2, <2>1
<1>3. M = Nat
  <2>1. M \in SUBSET Nat
    OBVIOUS
  <2> HIDE DEF M
  <2> QED BY <1>1, <1>2, <2>1, Least
<1>4. \A m \in 0 .. n : m \in M /\ m <= n
  <2> HIDE DEF M
  <2> QED BY <1>3
<1> QED BY <1>4

(* The turns of the three loops. *)
SomeTurn(loop, before, x) == CASE loop = "window" -> JsonWindow(x)
                               [] loop = "string" -> ReadString(x)
                               [] OTHER -> ReadTurn(x, before)

Turns(f, n, loop, before, x) ==
  f = [k \in 0 .. n |-> IF k = 0 THEN x ELSE SomeTurn(loop, before, f[k - 1])]

(* A turn can be repeated n times: the recursive function exists. *)
LEMMA CanRepeat ==
  ASSUME NEW n \in Nat, NEW loop, NEW before, NEW x
  PROVE  \E f : Turns(f, n, loop, before, x)
<1> DEFINE Good(m, f) == f = [k \in 0 .. m |-> IF k = 0 THEN x ELSE SomeTurn(loop, before, f[k - 1])]
           M == {m \in Nat : \E f : Good(m, f)}
<1>1. 0 \in M
  <2>1. Good(0, [k \in 0 .. 0 |-> x])
    OBVIOUS
  <2> HIDE DEF Good
  <2> QED BY <2>1
<1>2. ASSUME NEW m \in 0 .. (n - 1), m \in M PROVE m + 1 \in M
  <2>1. m \in Nat /\ m + 1 \in Nat /\ m + 1 # 0 /\ (m + 1) - 1 = m /\ m \in 0 .. m /\ m # m + 1
    OBVIOUS
  <2>2. PICK f : Good(m, f)
    <3> HIDE DEF Good
    <3> QED BY <1>2
  <2> DEFINE e == [k \in 0 .. (m + 1) |-> IF k = m + 1 THEN SomeTurn(loop, before, f[m]) ELSE f[k]]
  <2>3. /\ \A k \in 0 .. (m + 1) : k # m + 1 => k \in 0 .. m
        /\ \A k \in 0 .. m : k # 0 => k - 1 \in 0 .. (m + 1) /\ k - 1 # m + 1
        /\ m \in 0 .. (m + 1)
    BY <2>1
  <2>4. ASSUME NEW k \in 0 .. (m + 1)
        PROVE  e[k] = IF k = 0 THEN x ELSE SomeTurn(loop, before, e[k - 1])
    <3>1. CASE k = m + 1
      <4>1. e[k] = SomeTurn(loop, before, f[m]) /\ e[k - 1] = f[m] /\ k # 0
        BY <2>1, <2>3, <3>1
      <4> HIDE DEF e
      <4> QED BY <4>1
    <3>2. CASE k # m + 1
      <4>1. k \in 0 .. m /\ e[k] = f[k] /\ (k # 0 => e[k - 1] = f[k - 1])
        BY <2>3, <3>2
      <4>2. f[k] = IF k = 0 THEN x ELSE SomeTurn(loop, before, f[k - 1])
        <5> HIDE DEF e
        <5> QED BY <2>2, <4>1
      <4> HIDE DEF e, Good
      <4> QED BY <4>1, <4>2
    <3> QED BY <3>1, <3>2
  <2>5. Good(m + 1, e)
    <3>1. e = [k \in 0 .. (m + 1) |-> e[k]]
      OBVIOUS
    <3> HIDE DEF e
    <3> QED BY <2>4, <3>1
  <2> HIDE DEF Good
  <2> QED BY <2>1, <2>5
<1>3. n \in M
  <2>1. n \in 0 .. n
    OBVIOUS
  <2> HIDE DEF M
  <2>2. \A m \in 0 .. n : m \in M
    BY <1>1, <1>2, UpTo
  <2> QED BY <2>1, <2>2
<1>4. PICK f : Good(n, f)
  <2> HIDE DEF Good
  <2> QED BY <1>3
<1>5. Turns(f, n, loop, before, x)
  BY <1>4 DEF Turns
<1> QED BY <1>5

(* The loop of JSONProtocol, turn by turn. *)
WindowLoop(h, x, n) ==
  /\ h[0] = x /\ h[n] = Repeat(JsonWindow, x, n)
  /\ \A k \in 0 .. (n - 1) : h[k + 1] = JsonWindow(h[k])

(* Repeat(JsonWindow, x, n) is n turns of the window loop. *)
LEMMA RepeatWindows ==
  ASSUME NEW x, NEW n \in Nat
  PROVE  \E h : WindowLoop(h, x, n)
<1> DEFINE Is(f) == f = [k \in 0 .. n |-> IF k = 0 THEN x ELSE JsonWindow(f[k - 1])]
           h == CHOOSE f : Is(f)
<1>1. PICK f : Turns(f, n, "window", 0, x)
  BY CanRepeat
<1>2. Is(f)
  <2>1. ASSUME NEW k PROVE SomeTurn("window", 0, f[k - 1]) = JsonWindow(f[k - 1])
    BY DEF SomeTurn
  <2>2. f = [k \in 0 .. n |-> IF k = 0 THEN x ELSE SomeTurn("window", 0, f[k - 1])]
    BY <1>1 DEF Turns
  <2> QED BY <2>1, <2>2
<1>3. Is(h)
  BY <1>2
<1>4. Repeat(JsonWindow, x, n) = h[n]
  BY DEF Repeat
<1> HIDE DEF h
<1>5. h[0] = x /\ \A k \in 0 .. (n - 1) : h[k + 1] = JsonWindow(h[k])
  <2>1. 0 \in 0 .. n /\ \A k \in 0 .. (n - 1) : k + 1 \in 0 .. n /\ k + 1 # 0 /\ (k + 1) - 1 = k
    OBVIOUS
  <2> QED BY <1>3, <2>1
<1> HIDE DEF Is
<1> QED BY <1>4, <1>5 DEF WindowLoop

(* The loop of StringListProtocol, turn by turn. *)
StringLoop(h, x, n) ==
  /\ h[0] = x /\ h[n] = Repeat(ReadString, x, n)
  /\ \A k \in 0 .. (n - 1) : h[k + 1] = ReadString(h[k])

(* Repeat(ReadString, x, n) is n turns of the string loop. *)
LEMMA RepeatStrings ==
  ASSUME NEW x, NEW n \in Nat
  PROVE  \E h : StringLoop(h, x, n)
<1> DEFINE Is(f) == f = [k \in 0 .. n |-> IF k = 0 THEN x ELSE ReadString(f[k - 1])]
           h == CHOOSE f : Is(f)
<1>1. PICK f : Turns(f, n, "string", 0, x)
  BY CanRepeat
<1>2. Is(f)
  <2>1. ASSUME NEW k PROVE SomeTurn("string", 0, f[k - 1]) = ReadString(f[k - 1])
    BY DEF SomeTurn
  <2>2. f = [k \in 0 .. n |-> IF k = 0 THEN x ELSE SomeTurn("string", 0, f[k - 1])]
    BY <1>1 DEF Turns
  <2> QED BY <2>1, <2>2
<1>3. Is(h)
  BY <1>2
<1>4. Repeat(ReadString, x, n) = h[n]
  BY DEF Repeat
<1> HIDE DEF h
<1>5. h[0] = x /\ \A k \in 0 .. (n - 1) : h[k + 1] = ReadString(h[k])
  <2>1. 0 \in 0 .. n /\ \A k \in 0 .. (n - 1) : k + 1 \in 0 .. n /\ k + 1 # 0 /\ (k + 1) - 1 = k
    OBVIOUS
  <2> QED BY <1>3, <2>1
<1> HIDE DEF Is
<1> QED BY <1>4, <1>5 DEF StringLoop

(* The loop of onSocket_ReadEvent, turn by turn. *)
TurnLoop(h, x, n, before) ==
  /\ h[0] = x /\ h[n] = Repeat(LAMBDA r : ReadTurn(r, before), x, n)
  /\ \A k \in 0 .. (n - 1) : h[k + 1] = ReadTurn(h[k], before)

(* Repeat with ReadTurn is n turns of the read loop. *)
LEMMA RepeatReads ==
  ASSUME NEW x, NEW n \in Nat, NEW before
  PROVE  \E h : TurnLoop(h, x, n, before)
<1> DEFINE Is(f) == f = [k \in 0 .. n |-> IF k = 0 THEN x ELSE ReadTurn(f[k - 1], before)]
           h == CHOOSE f : Is(f)
<1>1. PICK f : Turns(f, n, "read", before, x)
  BY CanRepeat
<1>2. Is(f)
  <2>1. ASSUME NEW k PROVE SomeTurn("read", before, f[k - 1]) = ReadTurn(f[k - 1], before)
    BY DEF SomeTurn
  <2>2. f = [k \in 0 .. n |-> IF k = 0 THEN x ELSE SomeTurn("read", before, f[k - 1])]
    BY <1>1 DEF Turns
  <2> QED BY <2>1, <2>2
<1>3. Is(h)
  BY <1>2
<1>4. Repeat(LAMBDA r : ReadTurn(r, before), x, n) = h[n]
  BY DEF Repeat
<1> HIDE DEF h
<1>5. h[0] = x /\ \A k \in 0 .. (n - 1) : h[k + 1] = ReadTurn(h[k], before)
  <2>1. 0 \in 0 .. n /\ \A k \in 0 .. (n - 1) : k + 1 \in 0 .. n /\ k + 1 # 0 /\ (k + 1) - 1 = k
    OBVIOUS
  <2> QED BY <1>3, <2>1
<1> HIDE DEF Is
<1> QED BY <1>4, <1>5 DEF TurnLoop


-----------------------------------------------------------------------------
(* Sequences *)

(* The parts of a concatenation, by position. *)
Joined(s, t, T) ==
  /\ s \o t \in Seq(T) /\ Len(s \o t) = Len(s) + Len(t) /\ Len(s) \in Nat /\ Len(t) \in Nat
  /\ \A i \in 1 .. Len(s) : (s \o t)[i] = s[i]
  /\ \A i \in 1 .. Len(t) : (s \o t)[Len(s) + i] = t[i]

(* A concatenation has its two parts. *)
LEMMA Parts ==
  ASSUME NEW T, NEW s \in Seq(T), NEW t \in Seq(T)
  PROVE  Joined(s, t, T)
<1>1. Len(s) \in Nat /\ Len(t) \in Nat
  BY LenProperties
<1>2. /\ s \o t \in Seq(T) /\ Len(s \o t) = Len(s) + Len(t)
      /\ \A i \in 1 .. Len(s) + Len(t) : (s \o t)[i] = IF i <= Len(s) THEN s[i] ELSE t[i - Len(s)]
  BY ConcatProperties
<1>3. \A i \in 1 .. Len(s) : i \in 1 .. Len(s) + Len(t) /\ i <= Len(s)
  BY <1>1
<1>4. \A i \in 1 .. Len(t) : /\ Len(s) + i \in 1 .. Len(s) + Len(t) /\ ~ (Len(s) + i <= Len(s))
                             /\ (Len(s) + i) - Len(s) = i
  BY <1>1
<1> QED BY <1>1, <1>2, <1>3, <1>4 DEF Joined

(* What SubSeq takes out, by position. *)
Taken(s, a, b, T) ==
  /\ SubSeq(s, a + 1, b) \in Seq(T) /\ Len(SubSeq(s, a + 1, b)) = b - a
  /\ \A i \in 1 .. (b - a) : SubSeq(s, a + 1, b)[i] = s[a + i]

(* What SubSeq takes out of the middle. *)
LEMMA Piece ==
  ASSUME NEW T, NEW s \in Seq(T), NEW a \in Nat, NEW b \in Nat, a <= b, b <= Len(s)
  PROVE  Taken(s, a, b, T)
<1>1. Len(s) \in Nat /\ \A i \in 1 .. Len(s) : s[i] \in T
  BY LenProperties, ElementOfSeq
<1>2. \A i \in (a + 1) .. b : s[i] \in T
  BY <1>1
<1>3. /\ SubSeq(s, a + 1, b) \in Seq(T)
      /\ Len(SubSeq(s, a + 1, b)) = (IF a + 1 <= b THEN b - (a + 1) + 1 ELSE 0)
      /\ \A i \in 1 .. b - (a + 1) + 1 : SubSeq(s, a + 1, b)[i] = s[a + 1 + i - 1]
  BY <1>2, SubSeqProperties
<1>4. /\ b - (a + 1) + 1 = b - a /\ (~ (a + 1 <= b) => b - a = 0)
      /\ \A i \in 1 .. (b - a) : a + 1 + i - 1 = a + i
  OBVIOUS
<1>5. Len(SubSeq(s, a + 1, b)) = b - a
  BY <1>3, <1>4
<1> QED BY <1>3, <1>4, <1>5 DEF Taken

(* The prefix of a sequence, by position. *)
Fronted(s, b, T) ==
  /\ SubSeq(s, 1, b) \in Seq(T) /\ Len(SubSeq(s, 1, b)) = b
  /\ \A i \in 1 .. b : SubSeq(s, 1, b)[i] = s[i]

(* What SubSeq takes from the front. *)
LEMMA FrontPiece ==
  ASSUME NEW T, NEW s \in Seq(T), NEW b \in 0 .. Len(s)
  PROVE  Fronted(s, b, T)
<1>1. Len(s) \in Nat
  BY LenProperties
<1>2. /\ 0 \in Nat /\ b \in Nat /\ 0 <= b /\ b <= Len(s)
      /\ 0 + 1 = 1 /\ b - 0 = b /\ \A i \in 1 .. b : 0 + i = i
  BY <1>1
<1> DEFINE a == 0
<1>3. a \in Nat /\ a <= b /\ a + 1 = 1 /\ b - a = b /\ \A i \in 1 .. b : a + i = i
  BY <1>2
<1> HIDE DEF a
<1>4. Taken(s, a, b, T)
  BY <1>2, <1>3, Piece
<1>5. /\ SubSeq(s, a + 1, b) \in Seq(T) /\ Len(SubSeq(s, a + 1, b)) = b - a
      /\ \A i \in 1 .. (b - a) : SubSeq(s, a + 1, b)[i] = s[a + i]
  BY <1>4 DEF Taken
<1>6. /\ SubSeq(s, 1, b) \in Seq(T) /\ Len(SubSeq(s, 1, b)) = b
      /\ \A i \in 1 .. b : SubSeq(s, 1, b)[i] = s[i]
  BY <1>3, <1>5
<1> QED BY <1>6 DEF Fronted

(* One element further. *)
LEMMA OneFurther ==
  ASSUME NEW T, NEW s \in Seq(T), NEW k \in 1 .. Len(s)
  PROVE  Append(SubSeq(s, 1, k - 1), s[k]) = SubSeq(s, 1, k)
<1>1. Len(s) \in Nat /\ s[k] \in T
  BY LenProperties, ElementOfSeq
<1>2. k \in 0 .. Len(s) /\ k - 1 \in 0 .. Len(s) /\ (k - 1) + 1 = k /\ k - 1 \in Nat
  BY <1>1
<1> DEFINE a == SubSeq(s, 1, k - 1)
           c == SubSeq(s, 1, k)
           d == Append(a, s[k])
<1>3. Fronted(s, k, T)
  BY <1>2, FrontPiece
<1>4. Fronted(s, k - 1, T)
  BY <1>2, FrontPiece
<1>5. c \in Seq(T) /\ Len(c) = k /\ \A i \in 1 .. k : c[i] = s[i]
  BY <1>3 DEF Fronted
<1>6. a \in Seq(T) /\ Len(a) = k - 1 /\ \A i \in 1 .. (k - 1) : a[i] = s[i]
  BY <1>4 DEF Fronted
<1> HIDE DEF a, c
<1>7. /\ d \in Seq(T) /\ Len(d) = Len(a) + 1 /\ d[Len(a) + 1] = s[k]
      /\ \A i \in 1 .. Len(a) : d[i] = a[i]
  BY <1>1, <1>6, AppendProperties
<1> HIDE DEF d
<1>8. \A i \in 1 .. k : i \in 1 .. (k - 1) \/ i = k
  BY <1>2
<1>9. \A i \in 1 .. Len(d) : d[i] = c[i]
  BY <1>2, <1>5, <1>6, <1>7, <1>8
<1>10. Len(d) = Len(c)
  BY <1>2, <1>5, <1>6, <1>7
<1>11. d = c
  BY <1>5, <1>7, <1>9, <1>10, SeqEqual
<1> QED BY <1>11 DEF a, c, d

(* f[k] is the concatenation of the first k parts of s. *)
Joins(f, s, T) ==
  f \in [0 .. Len(s) -> Seq(T)] /\ f[0] = <<>> /\ \A k \in 1 .. Len(s) : f[k] = f[k - 1] \o s[k]

(* Every sequence of parts can be joined. *)
LEMMA CanJoin ==
  ASSUME NEW T, NEW s \in Seq(Seq(T))
  PROVE  \E f : Joins(f, s, T)
<1> DEFINE Good(m, f) == /\ f \in [0 .. m -> Seq(T)] /\ f[0] = <<>>
                         /\ \A k \in 1 .. m : f[k] = f[k - 1] \o s[k]
<1>1. Len(s) \in Nat /\ \A i \in 1 .. Len(s) : s[i] \in Seq(T)
  BY LenProperties, ElementOfSeq
<1>2. \E f : Good(0, f)
  <2> DEFINE e == [k \in 0 .. 0 |-> <<>>]
  <2>1. <<>> \in Seq(T) /\ 0 \in 0 .. 0 /\ \A k \in 1 .. 0 : FALSE
    OBVIOUS
  <2>2. e \in [0 .. 0 -> Seq(T)] /\ e[0] = <<>>
    BY <2>1
  <2> HIDE DEF e
  <2>3. Good(0, e)
    BY <2>1, <2>2
  <2> HIDE DEF Good
  <2> QED BY <2>3
<1>3. ASSUME NEW m \in 0 .. (Len(s) - 1), \E f : Good(m, f) PROVE \E f : Good(m + 1, f)
  <2>2. m \in Nat /\ m <= Len(s) /\ m + 1 \in 1 .. Len(s)
    BY <1>1
  <2>3. PICK f : Good(m, f)
    BY <1>3
  <2> DEFINE e == [k \in 0 .. (m + 1) |-> IF k = m + 1 THEN f[m] \o s[m + 1] ELSE f[k]]
  <2>4. /\ 0 \in 0 .. m /\ m \in 0 .. m /\ 0 \in 0 .. (m + 1) /\ 0 # m + 1
        /\ m + 1 \in 0 .. (m + 1) /\ (m + 1) - 1 = m /\ m \in 0 .. (m + 1) /\ m # m + 1
        /\ \A k \in 0 .. (m + 1) : k # m + 1 => k \in 0 .. m
        /\ \A k \in 1 .. (m + 1) : k # m + 1 => k \in 1 .. m
        /\ \A k \in 1 .. m : k \in 0 .. (m + 1) /\ k # m + 1 /\ k - 1 \in 0 .. (m + 1) /\ k - 1 # m + 1
    BY <2>2
  <2>5. f[m] \o s[m + 1] \in Seq(T)
    <3>1. f[m] \in Seq(T) /\ s[m + 1] \in Seq(T)
      BY <1>1, <2>2, <2>3, <2>4
    <3>2. Joined(f[m], s[m + 1], T)
      BY <3>1, Parts
    <3> QED BY <3>2 DEF Joined
  <2>6. e \in [0 .. (m + 1) -> Seq(T)]
    BY <2>3, <2>4, <2>5
  <2>7. e[0] = <<>> /\ e[m + 1] = e[m] \o s[m + 1]
    BY <2>3, <2>4
  <2>8. \A k \in 1 .. m : e[k] = e[k - 1] \o s[k]
    BY <2>3, <2>4
  <2> HIDE DEF e
  <2>9. \A k \in 1 .. (m + 1) : e[k] = e[k - 1] \o s[k]
    BY <2>4, <2>7, <2>8
  <2>10. Good(m + 1, e)
    BY <2>6, <2>7, <2>9
  <2> HIDE DEF Good
  <2> QED BY <2>10
<1>4. \E f : Good(Len(s), f)
  <2> HIDE DEF Good
  <2> DEFINE M == {m \in Nat : \E f : Good(m, f)}
  <2>1. 0 \in M
    BY <1>2
  <2>2. ASSUME NEW m \in 0 .. (Len(s) - 1), m \in M PROVE m + 1 \in M
    BY <1>3, <2>2
  <2>3. Len(s) \in 0 .. Len(s)
    BY <1>1
  <2>4. Len(s) \in M
    <3> HIDE DEF M
    <3>1. \A m \in 0 .. Len(s) : m \in M
      BY <1>1, <2>1, <2>2, UpTo
    <3> QED BY <2>3, <3>1
  <2> QED BY <2>4
<1>5. PICK f : Good(Len(s), f)
  <2> HIDE DEF Good
  <2> QED BY <1>4
<1>6. Joins(f, s, T)
  BY <1>5 DEF Joins
<1> QED BY <1>6

(* FlattenSeq joins the parts, and so it does with the first k of them. *)
LEMMA FlattenJoins ==
  ASSUME NEW T, NEW s \in Seq(Seq(T)), NEW f, Joins(f, s, T), NEW k \in 0 .. Len(s),
         NEW u, Len(u) = k, \A i \in 1 .. k : u[i] = s[i], k = 0 => u = <<>>
  PROVE  FlattenSeq(u) = f[k]
<1>1. Len(s) \in Nat /\ \A i \in 1 .. Len(s) : s[i] \in Seq(T)
  BY LenProperties, ElementOfSeq
<1>2. CASE k = 0
  BY <1>2 DEF FlattenSeq, Joins
<1>3. CASE k # 0
  <2> DEFINE Is(g) == g = [i \in 1 .. k |-> IF i = 1 THEN u[i] ELSE g[i - 1] \o u[i]]
             h == CHOOSE g : Is(g)
             g0 == [i \in 1 .. k |-> f[i]]
  <2>1. f[1] = s[1]
    <3>1. 1 \in 1 .. Len(s) /\ 1 - 1 = 0
      BY <1>1, <1>3
    <3>2. f[1] = f[0] \o s[1] /\ s[1] \in Seq(T) /\ f[0] = <<>>
      BY <1>1, <3>1 DEF Joins
    <3> QED BY <3>2, ConcatEmptySeq
  <2>2. Is(g0)
    <3>1. ASSUME NEW i \in 1 .. k PROVE g0[i] = IF i = 1 THEN u[i] ELSE g0[i - 1] \o u[i]
      <4>1. CASE i = 1
        BY <2>1, <4>1
      <4>2. CASE i # 1
        <5>1. i - 1 \in 1 .. k /\ i \in 1 .. Len(s)
          BY <1>1, <4>2
        <5>2. f[i] = f[i - 1] \o s[i]
          BY <5>1 DEF Joins
        <5> QED BY <4>2, <5>1, <5>2
      <4> QED BY <4>1, <4>2
    <3> QED BY <3>1
  <2>3. Is(h)
    BY <2>2
  <2>4. FlattenSeq(u) = h[k]
    BY <1>3 DEF FlattenSeq
  <2> HIDE DEF h
  <2>5. 1 \in 1 .. k /\ h[1] = f[1]
    <3>1. 1 \in 1 .. k
      BY <1>3
    <3>2. h[1] = u[1]
      BY <2>3, <3>1
    <3> QED BY <2>1, <3>1, <3>2
  <2>6. ASSUME NEW m \in 0 .. ((k - 1) - 1), h[m + 1] = f[m + 1]
        PROVE  h[(m + 1) + 1] = f[(m + 1) + 1]
    <3>2. /\ m + 1 <= k /\ (m + 1) + 1 \in 1 .. k /\ (m + 1) + 1 \in 1 .. Len(s)
          /\ (m + 1) + 1 # 1 /\ ((m + 1) + 1) - 1 = m + 1
      BY <1>1
    <3> DEFINE j == (m + 1) + 1
    <3>3. h[j] = h[j - 1] \o u[j]
      <4> HIDE DEF g0
      <4> QED BY <2>3, <3>2
    <3>4. f[j] = f[j - 1] \o s[j]
      BY <3>2 DEF Joins
    <3>5. u[j] = s[j]
      BY <3>2
    <3> HIDE DEF Is
    <3> QED BY <2>6, <3>2, <3>3, <3>4, <3>5
  <2>7. k - 1 \in Nat /\ (k - 1) + 1 = k /\ k - 1 \in 0 .. (k - 1)
    BY <1>3
  <2>9. h[k] = f[k]
    <3> DEFINE M == {m \in Nat : h[m + 1] = f[m + 1]}
    <3> HIDE DEF Is, g0
    <3>1. 0 \in M
      BY <2>5
    <3>2. ASSUME NEW m \in 0 .. ((k - 1) - 1), m \in M PROVE m + 1 \in M
      BY <2>6, <3>2
    <3>3. k - 1 \in M
      <4> HIDE DEF M
      <4>1. \A m \in 0 .. (k - 1) : m \in M
        BY <2>7, <3>1, <3>2, UpTo
      <4> QED BY <2>7, <4>1
    <3> QED BY <2>7, <3>3
  <2> QED BY <2>4, <2>9
<1> QED BY <1>2, <1>3

(* Where the parts are. *)
Placed(f, s) ==
  /\ \A k \in 1 .. Len(s) : Len(f[k]) = Len(f[k - 1]) + Len(s[k])
  /\ \A m \in 0 .. Len(s) : \A k \in 1 .. m :
       /\ Len(f[k]) <= Len(f[m])
       /\ \A i \in 1 .. Len(s[k]) : f[m][Len(f[k - 1]) + i] = s[k][i]

(* Every part lies in the whole where its predecessors end. *)
LEMMA JoinedParts ==
  ASSUME NEW T, NEW s \in Seq(Seq(T)), NEW f, Joins(f, s, T)
  PROVE  Placed(f, s)
<1>1. Len(s) \in Nat /\ \A i \in 1 .. Len(s) : s[i] \in Seq(T)
  BY LenProperties, ElementOfSeq
<1>2. \A m \in 0 .. Len(s) : f[m] \in Seq(T) /\ Len(f[m]) \in Nat
  <2>1. \A m \in 0 .. Len(s) : f[m] \in Seq(T)
    BY DEF Joins
  <2> QED BY <2>1, LenProperties
<1>3. ASSUME NEW k \in 1 .. Len(s)
      PROVE  /\ Len(f[k]) = Len(f[k - 1]) + Len(s[k]) /\ Len(s[k]) \in Nat /\ Len(f[k - 1]) \in Nat
             /\ \A i \in 1 .. Len(f[k - 1]) : f[k][i] = f[k - 1][i]
             /\ \A i \in 1 .. Len(s[k]) : f[k][Len(f[k - 1]) + i] = s[k][i]
  <2>1. k - 1 \in 0 .. Len(s)
    BY <1>1
  <2> DEFINE a == f[k - 1]
             b == s[k]
  <2>2. a \in Seq(T) /\ b \in Seq(T) /\ f[k] = a \o b
    BY <1>1, <1>2, <2>1 DEF Joins
  <2>3. SUFFICES /\ Len(f[k]) = Len(a) + Len(b) /\ Len(b) \in Nat /\ Len(a) \in Nat
                 /\ \A i \in 1 .. Len(a) : f[k][i] = a[i]
                 /\ \A i \in 1 .. Len(b) : f[k][Len(a) + i] = b[i]
    OBVIOUS
  <2> HIDE DEF a, b
  <2>4. Joined(a, b, T)
    BY <2>2, Parts
  <2> QED BY <2>2, <2>4 DEF Joined
<1> DEFINE Has(m, k) == /\ Len(f[k]) <= Len(f[m])
                        /\ \A i \in 1 .. Len(s[k]) : f[m][Len(f[k - 1]) + i] = s[k][i]
           Old(m) == \A k \in 1 .. m : Has(m, k)
<1>5. ASSUME NEW m \in 0 .. (Len(s) - 1), Old(m) PROVE Old(m + 1)
  <2>2. m \in Nat /\ m \in 0 .. Len(s) /\ m + 1 \in 1 .. Len(s) /\ (m + 1) - 1 = m /\ m <= Len(s)
    BY <1>1
  <2>4. /\ Len(f[m + 1]) = Len(f[m]) + Len(s[m + 1]) /\ Len(s[m + 1]) \in Nat /\ Len(f[m]) \in Nat
        /\ \A i \in 1 .. Len(f[m]) : f[m + 1][i] = f[m][i]
        /\ \A i \in 1 .. Len(s[m + 1]) : f[m + 1][Len(f[m]) + i] = s[m + 1][i]
    <3> DEFINE n == m + 1
    <3>1. n \in 1 .. Len(s) /\ n - 1 = m
      BY <2>2
    <3> HIDE DEF n
    <3>2. /\ Len(f[n]) = Len(f[n - 1]) + Len(s[n]) /\ Len(s[n]) \in Nat /\ Len(f[n - 1]) \in Nat
          /\ \A i \in 1 .. Len(f[n - 1]) : f[n][i] = f[n - 1][i]
          /\ \A i \in 1 .. Len(s[n]) : f[n][Len(f[n - 1]) + i] = s[n][i]
      BY <1>3, <3>1
    <3> QED BY <3>1, <3>2 DEF n
  <2>5. ASSUME NEW k \in 1 .. (m + 1) PROVE Has(m + 1, k)
    <3>1. CASE k = m + 1
      <4>1. k - 1 = m /\ Len(f[k]) \in Nat
        BY <2>2, <2>4, <3>1
      <4>2. Len(f[k]) <= Len(f[m + 1])
        BY <3>1, <4>1
      <4>3. \A i \in 1 .. Len(s[k]) : f[m + 1][Len(f[k - 1]) + i] = s[k][i]
        BY <2>4, <3>1, <4>1
      <4> QED BY <4>2, <4>3
    <3>2. CASE k # m + 1
      <4>1. k \in 1 .. m /\ k \in 1 .. Len(s)
        BY <1>1, <2>2, <3>2
      <4>2. /\ Len(f[k]) <= Len(f[m])
            /\ \A i \in 1 .. Len(s[k]) : f[m][Len(f[k - 1]) + i] = s[k][i]
        BY <1>5, <4>1
      <4>3. Len(f[k]) = Len(f[k - 1]) + Len(s[k]) /\ Len(s[k]) \in Nat /\ Len(f[k - 1]) \in Nat
        BY <1>3, <4>1
      <4> DEFINE a == Len(f[k - 1])
                 b == Len(s[k])
                 c == Len(f[m])
                 d == Len(f[m + 1])
                 e == Len(f[k])
      <4>7. /\ e = a + b /\ a \in Nat /\ b \in Nat /\ c \in Nat /\ e <= c
            /\ d = c + Len(s[m + 1]) /\ Len(s[m + 1]) \in Nat
        BY <2>4, <4>2, <4>3
      <4>6. /\ \A i \in 1 .. c : f[m + 1][i] = f[m][i]
            /\ \A i \in 1 .. b : f[m][a + i] = s[k][i]
        BY <2>4, <4>2
      <4>8. SUFFICES e <= d /\ \A i \in 1 .. b : f[m + 1][a + i] = s[k][i]
        OBVIOUS
      <4> HIDE DEF a, b, c, d, e
      <4>4. e <= d /\ \A i \in 1 .. b : a + i \in 1 .. c
        BY <4>7
      <4> QED BY <4>4, <4>6
    <3> QED BY <3>1, <3>2
  <2> QED BY <2>5
<1>6. \A m \in 0 .. Len(s) : Old(m)
  <2>1. Old(0)
    OBVIOUS
  <2> HIDE DEF Old
  <2> DEFINE M == {m \in Nat : Old(m)}
  <2>2. 0 \in M
    BY <2>1
  <2>3. ASSUME NEW m \in 0 .. (Len(s) - 1), m \in M PROVE m + 1 \in M
    BY <1>5, <2>3
  <2>4. \A m \in 0 .. Len(s) : m \in M
    <3> HIDE DEF M
    <3> QED BY <1>1, <2>2, <2>3, UpTo
  <2> QED BY <2>4
<1> QED BY <1>3, <1>6 DEF Placed

-----------------------------------------------------------------------------
(* What is written *)

(* writeInt32. *)
LEMMA WordBytes ==
  ASSUME NEW v \in 0 .. MaxWord
  PROVE  /\ Int32(v) \in Seq(Byte) /\ Len(Int32(v)) = 2
         /\ Int32(v)[1] \in Byte /\ Int32(v)[2] \in Byte /\ 8 * Int32(v)[1] + Int32(v)[2] = v
<1>1. v \div 8 \in Byte /\ v % 8 \in Byte /\ 8 * (v \div 8) + (v % 8) = v
  BY DEF Byte, MaxWord
<1> DEFINE a == v \div 8
           b == v % 8
<1>2. Int32(v) = <<a, b>>
  BY DEF Int32
<1>3. a \in Byte /\ b \in Byte /\ 8 * a + b = v
  BY <1>1
<1> HIDE DEF a, b
<1> QED BY <1>2, <1>3

(* writeString32. *)
LEMMA StringBytes ==
  ASSUME NEW s \in Seq(Byte), Len(s) <= MaxWord
  PROVE  /\ String32(s) \in Seq(Byte) /\ Len(String32(s)) = 2 + Len(s) /\ Len(s) \in Nat
         /\ 8 * String32(s)[1] + String32(s)[2] = Len(s)
         /\ \A i \in 1 .. Len(s) : String32(s)[2 + i] = s[i]
<1>1. Len(s) \in Nat /\ Len(s) \in 0 .. MaxWord
  BY LenProperties
<1> DEFINE w == Int32(Len(s))
<1>2. w \in Seq(Byte) /\ Len(w) = 2 /\ 8 * w[1] + w[2] = Len(s)
  BY <1>1, WordBytes
<1>3. String32(s) = w \o s
  BY DEF String32
<1> HIDE DEF w
<1>4. /\ w \o s \in Seq(Byte) /\ Len(w \o s) = Len(w) + Len(s)
      /\ \A i \in 1 .. Len(w) : (w \o s)[i] = w[i]
      /\ \A i \in 1 .. Len(s) : (w \o s)[Len(w) + i] = s[i]
  <2>1. Joined(w, s, Byte)
    BY <1>2, Parts
  <2> QED BY <2>1 DEF Joined
<1>5. 1 \in 1 .. Len(w) /\ 2 \in 1 .. Len(w)
  BY <1>2
<1> QED BY <1>1, <1>2, <1>3, <1>4, <1>5

(* FrameHeader::serialize: four words, then the payload. *)
LEMMA FrameBytes ==
  ASSUME NEW cmd \in 0 .. MaxWord, NEW payload \in Seq(Byte), 8 + Len(payload) <= MaxWord,
         NEW e, e = Frame(cmd, payload)
  PROVE  /\ e \in Seq(Byte) /\ Len(e) = 8 + Len(payload) /\ Len(payload) \in Nat
         /\ 8 * e[1] + e[2] = cmd /\ 8 * e[7] + e[8] = 8 + Len(payload)
         /\ \A i \in 1 .. Len(payload) : e[8 + i] = payload[i]
<1>1. Len(payload) \in Nat
  BY LenProperties
<1> DEFINE a == Int32(cmd)
           b == Int32(0)
           c == Int32(1)
           d == Int32(8 + Len(payload))
<1>2. a \in Seq(Byte) /\ Len(a) = 2 /\ 8 * a[1] + a[2] = cmd
  BY WordBytes
<1>3. b \in Seq(Byte) /\ Len(b) = 2
  <2>1. 0 \in 0 .. MaxWord
    BY DEF MaxWord
  <2> QED BY <2>1, WordBytes
<1>4. c \in Seq(Byte) /\ Len(c) = 2
  <2>1. 1 \in 0 .. MaxWord
    BY DEF MaxWord
  <2> QED BY <2>1, WordBytes
<1>5. d \in Seq(Byte) /\ Len(d) = 2 /\ 8 * d[1] + d[2] = 8 + Len(payload)
  <2>1. 8 + Len(payload) \in 0 .. MaxWord
    BY <1>1
  <2> QED BY <2>1, WordBytes
<1>6. e = (((a \o b) \o c) \o d) \o payload
  BY DEF Frame, HeaderWords, WordSize
<1> HIDE DEF a, b, c, d
<1> DEFINE ab == a \o b
           abc == ab \o c
           abcd == abc \o d
<1>7. /\ ab \in Seq(Byte) /\ Len(ab) = 4
      /\ ab[1] = a[1] /\ ab[2] = a[2]
  <2>1. /\ a \o b \in Seq(Byte) /\ Len(a \o b) = Len(a) + Len(b)
        /\ \A i \in 1 .. Len(a) : (a \o b)[i] = a[i]
    <3>1. Joined(a, b, Byte)
      BY <1>2, <1>3, Parts
    <3> QED BY <3>1 DEF Joined
  <2>2. 1 \in 1 .. Len(a) /\ 2 \in 1 .. Len(a)
    BY <1>2
  <2> QED BY <1>2, <1>3, <2>1, <2>2
<1> HIDE DEF ab
<1>8. /\ abc \in Seq(Byte) /\ Len(abc) = 6
      /\ abc[1] = a[1] /\ abc[2] = a[2]
  <2>1. /\ ab \o c \in Seq(Byte) /\ Len(ab \o c) = Len(ab) + Len(c)
        /\ \A i \in 1 .. Len(ab) : (ab \o c)[i] = ab[i]
    <3>1. Joined(ab, c, Byte)
      BY <1>4, <1>7, Parts
    <3> QED BY <3>1 DEF Joined
  <2>2. 1 \in 1 .. Len(ab) /\ 2 \in 1 .. Len(ab)
    BY <1>7
  <2> QED BY <1>4, <1>7, <2>1, <2>2
<1> HIDE DEF abc
<1>9. /\ abcd \in Seq(Byte) /\ Len(abcd) = 8
      /\ abcd[1] = a[1] /\ abcd[2] = a[2] /\ abcd[7] = d[1] /\ abcd[8] = d[2]
  <2>1. /\ abc \o d \in Seq(Byte) /\ Len(abc \o d) = Len(abc) + Len(d)
        /\ \A i \in 1 .. Len(abc) : (abc \o d)[i] = abc[i]
        /\ \A i \in 1 .. Len(d) : (abc \o d)[Len(abc) + i] = d[i]
    <3>1. Joined(abc, d, Byte)
      BY <1>5, <1>8, Parts
    <3> QED BY <3>1 DEF Joined
  <2>2. 1 \in 1 .. Len(abc) /\ 2 \in 1 .. Len(abc) /\ 1 \in 1 .. Len(d) /\ 2 \in 1 .. Len(d)
    BY <1>5, <1>8
  <2>3. Len(abc) + 1 = 7 /\ Len(abc) + 2 = 8 /\ Len(abc) + Len(d) = 8
    BY <1>5, <1>8
  <2> QED BY <1>8, <2>1, <2>2, <2>3
<1> HIDE DEF abcd
<1>10. e = abcd \o payload
  BY <1>6 DEF ab, abc, abcd
<1>11. /\ abcd \o payload \in Seq(Byte) /\ Len(abcd \o payload) = Len(abcd) + Len(payload)
       /\ \A i \in 1 .. Len(abcd) : (abcd \o payload)[i] = abcd[i]
       /\ \A i \in 1 .. Len(payload) : (abcd \o payload)[Len(abcd) + i] = payload[i]
  <2>1. Joined(abcd, payload, Byte)
    BY <1>9, Parts
  <2> QED BY <2>1 DEF Joined
<1>12. 1 \in 1 .. Len(abcd) /\ 2 \in 1 .. Len(abcd) /\ 7 \in 1 .. Len(abcd) /\ 8 \in 1 .. Len(abcd)
  BY <1>9
<1>13. e[1] = a[1] /\ e[2] = a[2] /\ e[7] = d[1] /\ e[8] = d[2]
  BY <1>9, <1>10, <1>11, <1>12
<1> QED BY <1>1, <1>2, <1>5, <1>9, <1>10, <1>11, <1>13

(* writeString32List: f[j] holds the first j strings. *)
LEMMA ListBytes ==
  ASSUME NEW list \in Seq(Seq(Byte)), Len(list) <= MaxWord,
         \A i \in 1 .. Len(list) : Len(list[i]) <= MaxWord
  PROVE  \E f : /\ Joins(f, [i \in 1 .. Len(list) |-> String32(list[i])], Byte)
                /\ String32List(list) \in Seq(Byte) /\ Len(list) \in Nat
                /\ Len(String32List(list)) = 2 + Len(f[Len(list)])
                /\ 8 * String32List(list)[1] + String32List(list)[2] = Len(list)
                /\ \A i \in 1 .. Len(f[Len(list)]) : String32List(list)[2 + i] = f[Len(list)][i]
<1> DEFINE s == [i \in 1 .. Len(list) |-> String32(list[i])]
<1>1. Len(list) \in Nat /\ \A i \in 1 .. Len(list) : list[i] \in Seq(Byte)
  BY LenProperties, ElementOfSeq
<1>2. \A i \in 1 .. Len(list) : String32(list[i]) \in Seq(Byte)
  BY <1>1, StringBytes
<1>3. s \in Seq(Seq(Byte)) /\ Len(s) = Len(list) /\ DOMAIN list = 1 .. Len(list)
  BY <1>1, <1>2, LenProperties
<1>4. String32List(list) = Int32(Len(list)) \o FlattenSeq(s)
  BY <1>3 DEF String32List
<1>5. \A i \in 1 .. Len(list) : s[i] = s[i]
  OBVIOUS
<1>6. Len(list) = 0 => s = <<>>
  BY <1>3
<1> HIDE DEF s
<1>7. PICK f : Joins(f, s, Byte)
  BY <1>3, CanJoin
<1>8. FlattenSeq(s) = f[Len(list)]
  <2>1. Len(s) \in 0 .. Len(s)
    BY <1>1, <1>3
  <2> QED BY <1>3, <1>5, <1>6, <1>7, <2>1, FlattenJoins
<1> DEFINE g == f[Len(list)]
           w == Int32(Len(list))
<1>9. g \in Seq(Byte)
  <2>1. Len(list) \in 0 .. Len(s)
    BY <1>1, <1>3
  <2> QED BY <1>7, <2>1 DEF Joins
<1>10. w \in Seq(Byte) /\ Len(w) = 2 /\ 8 * w[1] + w[2] = Len(list)
  <2>1. Len(list) \in 0 .. MaxWord
    BY <1>1
  <2> QED BY <2>1, WordBytes
<1>11. String32List(list) = w \o g
  BY <1>4, <1>8
<1>12. SUFFICES /\ String32List(list) \in Seq(Byte)
                /\ Len(String32List(list)) = 2 + Len(g)
                /\ 8 * String32List(list)[1] + String32List(list)[2] = Len(list)
                /\ \A i \in 1 .. Len(g) : String32List(list)[2 + i] = g[i]
  BY <1>1, <1>7 DEF s
<1> HIDE DEF g, w
<1>13. /\ w \o g \in Seq(Byte) /\ Len(w \o g) = Len(w) + Len(g)
       /\ \A i \in 1 .. Len(w) : (w \o g)[i] = w[i]
       /\ \A i \in 1 .. Len(g) : (w \o g)[Len(w) + i] = g[i]
  <2>1. Joined(w, g, Byte)
    BY <1>9, <1>10, Parts
  <2> QED BY <2>1 DEF Joined
<1>14. 1 \in 1 .. Len(w) /\ 2 \in 1 .. Len(w)
  BY <1>10
<1> QED BY <1>10, <1>11, <1>13, <1>14

-----------------------------------------------------------------------------
(* Where the packets are in what is written *)

Kinds == {"frame", "list", "line", "json"}

PacketsOf(kd) == CASE kd = "frame" -> Frames
                   [] kd = "list"  -> Lists
                   [] kd = "line"  -> Lines
                   [] kd = "json"  -> Documents

Enc(kd, pkt) == CASE kd = "frame" -> Frame(pkt[1], pkt[2])
                  [] kd = "list"  -> Frame(5, String32List(pkt))
                  [] kd = "line"  -> Line(pkt)
                  [] kd = "json"  -> pkt

(* The first k packets of d, and how long they are. *)
Upto(kd, d, k) == FlattenSeq([i \in 1 .. k |-> Enc(kd, d[i])])
Offset(kd, d, k) == Len(Upto(kd, d, k))

(* The lists that fit into a frame. *)
LEMMA ListFits ==
  ASSUME NEW l \in Lists
  PROVE  /\ l \in Seq(Seq(Byte)) /\ Len(l) <= MaxWord /\ \A i \in 1 .. Len(l) : Len(l[i]) <= MaxWord
         /\ String32List(l) \in Seq(Byte) /\ 8 + Len(String32List(l)) <= MaxWord
<1>1. /\ l \in Seq(Seq(Byte)) /\ Len(l) <= MaxWord
      /\ 8 + Len(String32List(l)) <= MaxWord
      /\ \A i \in DOMAIN l : Len(l[i]) <= MaxWord
  BY PacketsAssumption DEF HeaderWords, WordSize
<1>2. DOMAIN l = 1 .. Len(l)
  BY <1>1, LenProperties
<1>3. String32List(l) \in Seq(Byte)
  BY <1>1, <1>2, ListBytes
<1> QED BY <1>1, <1>2, <1>3

(* A line and its delimiter. *)
LEMMA LineBytes ==
  ASSUME NEW l \in Lines, NEW e, e = Line(l)
  PROVE  /\ l \in Seq(Byte) /\ Len(l) \in Nat /\ e \in Seq(Byte) /\ Len(e) = Len(l) + 2
         /\ \A i \in 1 .. Len(l) : e[i] = l[i] /\ l[i] # CR /\ l[i] # LF
         /\ e[Len(l) + 1] = CR /\ e[Len(l) + 2] = LF
<1> DEFINE t == <<CR, LF>>
<1>1. l \in Seq(Byte \ {CR, LF})
  BY PacketsAssumption
<1>2. Len(l) \in Nat /\ \A i \in 1 .. Len(l) : l[i] \in Byte \ {CR, LF}
  BY <1>1, LenProperties, ElementOfSeq
<1>3. l \in Seq(Byte)
  BY <1>1, <1>2
<1>4. t \in Seq(Byte) /\ Len(t) = 2 /\ t[1] = CR /\ t[2] = LF
  BY DEF Byte, CR, LF
<1>5. e = l \o t
  BY DEF Line
<1> HIDE DEF t
<1>6. Joined(l, t, Byte)
  BY <1>3, <1>4, Parts
<1>7. /\ l \o t \in Seq(Byte) /\ Len(l \o t) = Len(l) + Len(t)
      /\ \A i \in 1 .. Len(l) : (l \o t)[i] = l[i]
      /\ \A i \in 1 .. Len(t) : (l \o t)[Len(l) + i] = t[i]
  BY <1>6 DEF Joined
<1>8. 1 \in 1 .. Len(t) /\ 2 \in 1 .. Len(t)
  BY <1>4
<1> QED BY <1>2, <1>3, <1>4, <1>5, <1>7, <1>8

(* A document. *)
LEMMA DocumentBytes ==
  ASSUME NEW d \in Documents
  PROVE  /\ d \in Seq(Byte) /\ Len(d) \in Nat /\ Len(d) > 1 /\ d[1] = Open /\ d[Len(d)] = Close
         /\ \A i \in 1 .. (Len(d) - 1) : d[i] # Close
<1>1. /\ d \in Seq(Byte) /\ Len(d) > 1 /\ d[1] = Open /\ d[Len(d)] = Close
      /\ \A i \in 2 .. Len(d) - 1 : d[i] # Close
  BY PacketsAssumption
<1>2. Len(d) \in Nat
  BY <1>1, LenProperties
<1>3. ASSUME NEW i \in 1 .. (Len(d) - 1) PROVE d[i] # Close
  <2>1. CASE i = 1
    BY <1>1, <2>1 DEF Open, Close, CR, LF
  <2>2. CASE i # 1
    <3>1. i \in 2 .. Len(d) - 1
      BY <1>2, <2>2
    <3> QED BY <1>1, <3>1
  <2> QED BY <2>1, <2>2
<1> QED BY <1>1, <1>2, <1>3

(* Every packet has bytes. *)
LEMMA EncBytes ==
  ASSUME NEW kd \in Kinds, NEW pkt \in PacketsOf(kd)
  PROVE  Enc(kd, pkt) \in Seq(Byte) /\ Len(Enc(kd, pkt)) \in Nat /\ Len(Enc(kd, pkt)) > 0
<1>1. CASE kd = "frame"
  <2>1. Enc(kd, pkt) = Frame(pkt[1], pkt[2]) /\ pkt \in Frames
    BY <1>1 DEF Enc, PacketsOf
  <2>2. pkt[1] \in 0 .. MaxWord /\ pkt[2] \in Seq(Byte) /\ 8 + Len(pkt[2]) <= MaxWord
    BY <2>1, PacketsAssumption DEF HeaderWords, WordSize
  <2>3. /\ Frame(pkt[1], pkt[2]) \in Seq(Byte) /\ Len(Frame(pkt[1], pkt[2])) = 8 + Len(pkt[2])
        /\ Len(pkt[2]) \in Nat
    BY <2>2, FrameBytes
  <2> QED BY <2>1, <2>3
<1>2. CASE kd = "list"
  <2> DEFINE s == String32List(pkt)
  <2>1. Enc(kd, pkt) = Frame(5, s) /\ pkt \in Lists
    BY <1>2 DEF Enc, PacketsOf
  <2>2. 5 \in 0 .. MaxWord /\ s \in Seq(Byte) /\ 8 + Len(s) <= MaxWord
    BY <2>1, ListFits DEF MaxWord
  <2> HIDE DEF s
  <2>3. Frame(5, s) \in Seq(Byte) /\ Len(Frame(5, s)) = 8 + Len(s) /\ Len(s) \in Nat
    BY <2>2, FrameBytes
  <2> QED BY <2>1, <2>3
<1>3. CASE kd = "line"
  <2>1. Enc(kd, pkt) = Line(pkt) /\ pkt \in Lines
    BY <1>3 DEF Enc, PacketsOf
  <2>2. Line(pkt) \in Seq(Byte) /\ Len(Line(pkt)) = Len(pkt) + 2 /\ Len(pkt) \in Nat
    BY <2>1, LineBytes
  <2> QED BY <2>1, <2>2
<1>4. CASE kd = "json"
  <2>1. Enc(kd, pkt) = pkt /\ pkt \in Documents
    BY <1>4 DEF Enc, PacketsOf
  <2>2. pkt \in Seq(Byte) /\ Len(pkt) \in Nat /\ Len(pkt) > 1
    BY <2>1, DocumentBytes
  <2> QED BY <2>1, <2>2
<1> QED BY <1>1, <1>2, <1>3, <1>4 DEF Kinds

(* The packets follow each other. *)
Layout(kd, d) ==
  /\ Len(d) \in Nat /\ Offset(kd, d, 0) = 0
  /\ \A k \in 0 .. Len(d) : /\ Upto(kd, d, k) \in Seq(Byte) /\ Offset(kd, d, k) \in Nat
                            /\ Offset(kd, d, k) <= Offset(kd, d, Len(d))
  /\ \A k \in 1 .. Len(d) :
       /\ d[k] \in PacketsOf(kd)
       /\ Offset(kd, d, k) = Offset(kd, d, k - 1) + Len(Enc(kd, d[k]))
       /\ \A i \in 1 .. Len(Enc(kd, d[k])) :
            Upto(kd, d, Len(d))[Offset(kd, d, k - 1) + i] = Enc(kd, d[k])[i]

(* What is written is the packets joined one after the other. *)
LEMMA Joining ==
  ASSUME NEW kd \in Kinds, NEW d \in Seq(PacketsOf(kd))
  PROVE  \E f : /\ Joins(f, [i \in 1 .. Len(d) |-> Enc(kd, d[i])], Byte)
                /\ \A k \in 0 .. Len(d) : Upto(kd, d, k) = f[k]
<1> DEFINE s == [i \in 1 .. Len(d) |-> Enc(kd, d[i])]
<1>1. Len(d) \in Nat /\ \A i \in 1 .. Len(d) : d[i] \in PacketsOf(kd)
  BY LenProperties, ElementOfSeq
<1>2. \A i \in 1 .. Len(d) : Enc(kd, d[i]) \in Seq(Byte)
  BY <1>1, EncBytes
<1>3. s \in Seq(Seq(Byte)) /\ Len(s) = Len(d) /\ \A i \in 1 .. Len(d) : s[i] = Enc(kd, d[i])
  BY <1>1, <1>2
<1> HIDE DEF s
<1>4. PICK f : Joins(f, s, Byte)
  BY <1>3, CanJoin
<1>5. ASSUME NEW k \in 0 .. Len(d) PROVE Upto(kd, d, k) = f[k]
  <2> DEFINE u == [i \in 1 .. k |-> Enc(kd, d[i])]
  <2>1. Upto(kd, d, k) = FlattenSeq(u)
    BY DEF Upto
  <2>2. Len(u) = k /\ (k = 0 => u = <<>>)
    BY <1>1
  <2>3. \A i \in 1 .. k : i \in 1 .. Len(d)
    BY <1>1
  <2>4. \A i \in 1 .. k : u[i] = s[i]
    BY <1>3, <2>3
  <2> HIDE DEF u
  <2>5. k \in 0 .. Len(s)
    BY <1>3
  <2>6. FlattenSeq(u) = f[k]
    BY <1>3, <1>4, <2>2, <2>4, <2>5, FlattenJoins
  <2> QED BY <2>1, <2>6
<1> QED BY <1>4, <1>5 DEF s

(* Every packet written lies where its predecessors end. *)
LEMMA LaidOut ==
  ASSUME NEW kd \in Kinds, NEW d \in Seq(PacketsOf(kd))
  PROVE  Layout(kd, d)
<1> DEFINE s == [i \in 1 .. Len(d) |-> Enc(kd, d[i])]
<1>1. Len(d) \in Nat /\ \A i \in 1 .. Len(d) : d[i] \in PacketsOf(kd)
  BY LenProperties, ElementOfSeq
<1>2. \A i \in 1 .. Len(d) : Enc(kd, d[i]) \in Seq(Byte)
  BY <1>1, EncBytes
<1>3. s \in Seq(Seq(Byte)) /\ Len(s) = Len(d) /\ \A i \in 1 .. Len(d) : s[i] = Enc(kd, d[i])
  BY <1>1, <1>2
<1>4. PICK f : Joins(f, s, Byte) /\ \A k \in 0 .. Len(d) : Upto(kd, d, k) = f[k]
  BY Joining
<1> HIDE DEF s
<1>5. /\ \A k \in 1 .. Len(s) : Len(f[k]) = Len(f[k - 1]) + Len(s[k])
      /\ \A m \in 0 .. Len(s) : \A k \in 1 .. m :
           /\ Len(f[k]) <= Len(f[m])
           /\ \A i \in 1 .. Len(s[k]) : f[m][Len(f[k - 1]) + i] = s[k][i]
  <2>1. Placed(f, s)
    BY <1>3, <1>4, JoinedParts
  <2> QED BY <2>1 DEF Placed
<1> DEFINE n == Len(d)
<1>6. f \in [0 .. n -> Seq(Byte)] /\ f[0] = <<>>
  BY <1>3, <1>4 DEF Joins
<1>7. n \in Nat /\ n \in 0 .. n /\ 0 \in 0 .. n /\ \A k \in 1 .. n : k - 1 \in 0 .. n /\ k \in 0 .. n
  BY <1>1
<1>8. \A k \in 0 .. n : Offset(kd, d, k) = Len(f[k])
  BY <1>4 DEF Offset
<1>9. \A k \in 0 .. n : f[k] \in Seq(Byte) /\ Len(f[k]) \in Nat
  <2>1. \A k \in 0 .. n : f[k] \in Seq(Byte)
    BY <1>6
  <2> QED BY <2>1, LenProperties
<1>10. Offset(kd, d, 0) = 0
  BY <1>6, <1>7, <1>8
<1>11. ASSUME NEW k \in 0 .. n
       PROVE  /\ Upto(kd, d, k) \in Seq(Byte) /\ Offset(kd, d, k) \in Nat
              /\ Offset(kd, d, k) <= Offset(kd, d, n)
  <2>1. Upto(kd, d, k) \in Seq(Byte) /\ Offset(kd, d, k) \in Nat
    BY <1>4, <1>8, <1>9
  <2>2. Offset(kd, d, k) <= Offset(kd, d, n)
    <3>1. CASE k = 0
      <4>1. Offset(kd, d, n) \in Nat
        BY <1>7, <1>8, <1>9
      <4> QED BY <1>10, <3>1, <4>1
    <3>2. CASE k # 0
      <4>1. k \in 1 .. n
        BY <1>7, <3>2
      <4>2. Len(f[k]) <= Len(f[n])
        BY <1>3, <1>5, <1>7, <4>1
      <4> QED BY <1>7, <1>8, <4>2
    <3> QED BY <3>1, <3>2
  <2> QED BY <2>1, <2>2
<1>12. ASSUME NEW k \in 1 .. n
       PROVE  /\ d[k] \in PacketsOf(kd)
              /\ Offset(kd, d, k) = Offset(kd, d, k - 1) + Len(Enc(kd, d[k]))
              /\ \A i \in 1 .. Len(Enc(kd, d[k])) :
                   Upto(kd, d, n)[Offset(kd, d, k - 1) + i] = Enc(kd, d[k])[i]
  <2>1. Enc(kd, d[k]) = s[k] /\ k \in 1 .. Len(s) /\ n \in 0 .. Len(s)
    BY <1>3, <1>7
  <2>2. Offset(kd, d, k) = Len(f[k]) /\ Offset(kd, d, k - 1) = Len(f[k - 1]) /\ Upto(kd, d, n) = f[n]
    BY <1>4, <1>7, <1>8
  <2>3. Len(f[k]) = Len(f[k - 1]) + Len(s[k])
    BY <1>5, <2>1
  <2>4. \A i \in 1 .. Len(s[k]) : f[n][Len(f[k - 1]) + i] = s[k][i]
    BY <1>5, <2>1
  <2> QED BY <1>1, <2>1, <2>2, <2>3, <2>4
<1> QED BY <1>1, <1>10, <1>11, <1>12 DEF Layout

(* One more packet. *)
Longer(kd, d, d2, pkt) ==
  /\ d2 \in Seq(PacketsOf(kd)) /\ Len(d2) = Len(d) + 1
  /\ \A i \in 1 .. Len(d) : d2[i] = d[i]
  /\ d2[Len(d) + 1] = pkt
  /\ \A k \in 0 .. Len(d) : Upto(kd, d2, k) = Upto(kd, d, k)
  /\ Upto(kd, d2, Len(d) + 1) = Upto(kd, d, Len(d)) \o Enc(kd, pkt)

(* A packet more leaves the others where they are. *)
LEMMA OneMore ==
  ASSUME NEW kd \in Kinds, NEW d \in Seq(PacketsOf(kd)), NEW pkt \in PacketsOf(kd),
         NEW d2, d2 = Append(d, pkt)
  PROVE  Longer(kd, d, d2, pkt)
<1>1. Len(d) \in Nat
  BY LenProperties
<1>2. /\ d2 \in Seq(PacketsOf(kd)) /\ Len(d2) = Len(d) + 1
      /\ \A i \in 1 .. Len(d) : d2[i] = d[i]
      /\ d2[Len(d) + 1] = pkt
  BY AppendProperties
<1>3. ASSUME NEW k \in 0 .. Len(d) PROVE Upto(kd, d2, k) = Upto(kd, d, k)
  <2>1. \A i \in 1 .. k : d2[i] = d[i]
    BY <1>1, <1>2
  <2>2. [i \in 1 .. k |-> Enc(kd, d2[i])] = [i \in 1 .. k |-> Enc(kd, d[i])]
    BY <2>1
  <2> QED BY <2>2 DEF Upto
<1> DEFINE n == Len(d) + 1
           s == [i \in 1 .. Len(d2) |-> Enc(kd, d2[i])]
<1>4. PICK f : Joins(f, s, Byte) /\ \A k \in 0 .. Len(d2) : Upto(kd, d2, k) = f[k]
  BY <1>2, Joining
<1>5. /\ n \in 1 .. Len(d2) /\ Len(s) = Len(d2) /\ n - 1 = Len(d)
      /\ n \in 0 .. Len(d2) /\ Len(d) \in 0 .. Len(d2) /\ Len(d) \in 0 .. Len(d)
  BY <1>1, <1>2
<1>6. s[n] = Enc(kd, pkt)
  BY <1>2, <1>5
<1> HIDE DEF s
<1>7. f[n] = f[n - 1] \o s[n]
  BY <1>4, <1>5 DEF Joins
<1>8. Upto(kd, d2, n) = f[n] /\ f[n - 1] = Upto(kd, d, Len(d))
  BY <1>3, <1>4, <1>5
<1> QED BY <1>2, <1>3, <1>6, <1>7, <1>8 DEF Longer

-----------------------------------------------------------------------------
(* Protocol objects *)

No == FALSE
Yes == TRUE

(* A protocol object, field by field. *)
Obj(b, x, w, it, t, r, pp, d, th) ==
  [buf |-> b, pos |-> x, words |-> w, items |-> it, text |-> t, rest |-> r,
   payloadPos |-> pp, done |-> d, threw |-> th]

(* The fields of a protocol object. *)
LEMMA Fields ==
  ASSUME NEW b, NEW x, NEW w, NEW it, NEW t, NEW r, NEW pp, NEW d, NEW th,
         NEW q, q = Obj(b, x, w, it, t, r, pp, d, th)
  PROVE  /\ q.buf = b /\ q.pos = x /\ q.words = w /\ q.items = it /\ q.text = t /\ q.rest = r
         /\ q.payloadPos = pp /\ q.done = d /\ q.threw = th
BY DEF Obj

(* Assignments to one of the fields. *)
LEMMA SetBuf ==
  ASSUME NEW b, NEW x, NEW w, NEW it, NEW t, NEW r, NEW pp, NEW d, NEW th,
         NEW q, q = Obj(b, x, w, it, t, r, pp, d, th), NEW v
  PROVE  [q EXCEPT !.buf = v] = Obj(v, x, w, it, t, r, pp, d, th)
BY DEF Obj

(* The same for pos, *)
LEMMA SetPos ==
  ASSUME NEW b, NEW x, NEW w, NEW it, NEW t, NEW r, NEW pp, NEW d, NEW th,
         NEW q, q = Obj(b, x, w, it, t, r, pp, d, th), NEW v
  PROVE  [q EXCEPT !.pos = v] = Obj(b, v, w, it, t, r, pp, d, th)
BY DEF Obj

(* for words, *)
LEMMA SetWords ==
  ASSUME NEW b, NEW x, NEW w, NEW it, NEW t, NEW r, NEW pp, NEW d, NEW th,
         NEW q, q = Obj(b, x, w, it, t, r, pp, d, th), NEW v
  PROVE  [q EXCEPT !.words = v] = Obj(b, x, v, it, t, r, pp, d, th)
BY DEF Obj

(* for items, *)
LEMMA SetItems ==
  ASSUME NEW b, NEW x, NEW w, NEW it, NEW t, NEW r, NEW pp, NEW d, NEW th,
         NEW q, q = Obj(b, x, w, it, t, r, pp, d, th), NEW v
  PROVE  [q EXCEPT !.items = v] = Obj(b, x, w, v, t, r, pp, d, th)
BY DEF Obj

(* for text, *)
LEMMA SetText ==
  ASSUME NEW b, NEW x, NEW w, NEW it, NEW t, NEW r, NEW pp, NEW d, NEW th,
         NEW q, q = Obj(b, x, w, it, t, r, pp, d, th), NEW v
  PROVE  [q EXCEPT !.text = v] = Obj(b, x, w, it, v, r, pp, d, th)
BY DEF Obj

(* for rest, *)
LEMMA SetRest ==
  ASSUME NEW b, NEW x, NEW w, NEW it, NEW t, NEW r, NEW pp, NEW d, NEW th,
         NEW q, q = Obj(b, x, w, it, t, r, pp, d, th), NEW v
  PROVE  [q EXCEPT !.rest = v] = Obj(b, x, w, it, t, v, pp, d, th)
BY DEF Obj

(* for payloadPos, *)
LEMMA SetPayloadPos ==
  ASSUME NEW b, NEW x, NEW w, NEW it, NEW t, NEW r, NEW pp, NEW d, NEW th,
         NEW q, q = Obj(b, x, w, it, t, r, pp, d, th), NEW v
  PROVE  [q EXCEPT !.payloadPos = v] = Obj(b, x, w, it, t, r, v, d, th)
BY DEF Obj

(* and for done. *)
LEMMA SetDone ==
  ASSUME NEW b, NEW x, NEW w, NEW it, NEW t, NEW r, NEW pp, NEW d, NEW th,
         NEW q, q = Obj(b, x, w, it, t, r, pp, d, th), NEW v
  PROVE  [q EXCEPT !.done = v] = Obj(b, x, w, it, t, r, pp, v, th)
BY DEF Obj

(* The object that the factory makes. *)
LEMMA NewObject == NewProtocol = Obj(<<>>, 0, <<>>, <<>>, <<>>, 0, 0, No, No)
BY DEF NewProtocol, Obj, No

-----------------------------------------------------------------------------
(* FrameProtocol *)

(* The header words in b, and a FrameProtocol that has read m of them. *)
WordOf(b, j) == 8 * b[2 * j - 1] + b[2 * j]
WordsOf(b, m) == [j \in 1 .. m |-> WordOf(b, j)]
FrameAt(b, m) == Obj(b, 2 * m, WordsOf(b, m), <<>>, <<>>, 0, 0, No, No)

(* read and peek, when there is enough and when there is nothing. *)
Reads(p, n) ==
  /\ Clip(p, n) = n /\ Peek(p, n) = SubSeq(p.buf, p.pos + 1, p.pos + n)
  /\ AfterRead(p, n) = [p EXCEPT !.pos = p.pos + n]
  /\ Taken(p.buf, p.pos, p.pos + n, Byte)

(* A read of bytes that are there takes just them. *)
LEMMA Reading ==
  ASSUME NEW p, NEW n \in Nat, p.buf \in Seq(Byte), p.pos \in Nat, p.pos + n <= Len(p.buf)
  PROVE  Reads(p, n)
<1>1. Len(p.buf) \in Nat
  BY LenProperties
<1>2. Clip(p, n) = n
  BY <1>1 DEF Clip, RemainingSize
<1>3. Taken(p.buf, p.pos, p.pos + n, Byte)
  BY <1>1, Piece
<1> QED BY <1>2, <1>3 DEF Reads, Peek, AfterRead, Fastforward

(* No header word is torn. *)
Untorn(b) == Len(b) <= 8 => Len(b) % 2 = 0

(* One case of FrameProtocol: a word more, if it is there. *)
LEMMA ReadWordAt ==
  ASSUME NEW b \in Seq(Byte), NEW m \in 0 .. 4, 2 * m <= Len(b), Untorn(b)
  PROVE  ReadWord(FrameAt(b, m)) = FrameAt(b, IF m < 4 /\ 2 * m + 2 <= Len(b) THEN m + 1 ELSE m)
<1> DEFINE p == FrameAt(b, m)
<1>1. Len(b) \in Nat
  BY LenProperties
<1>2. p.buf = b /\ p.pos = 2 * m /\ p.words = WordsOf(b, m) /\ Len(p.words) = m /\ 2 * m \in Nat
  <2>1. p.buf = b /\ p.pos = 2 * m /\ p.words = WordsOf(b, m)
    BY Fields DEF FrameAt
  <2>2. Len(WordsOf(b, m)) = m
    BY DEF WordsOf
  <2> QED BY <2>1, <2>2
<1>3. CASE m = 4
  BY <1>2, <1>3 DEF ReadWord, HeaderWords
<1>4. CASE m < 4 /\ 2 * m + 2 <= Len(b)
  <2> DEFINE q == [p EXCEPT !.pos = 2 * m + 2]
             s == SubSeq(b, 2 * m + 1, 2 * m + 2)
  <2> HIDE DEF p
  <2>1. Peek(p, 2) = s /\ AfterRead(p, 2) = q /\ Taken(b, 2 * m, 2 * m + 2, Byte)
    <3>1. Reads(p, 2)
      BY <1>2, <1>4, Reading
    <3> QED BY <1>2, <3>1 DEF Reads
  <2>2. Len(s) = 2 /\ \A i \in 1 .. 2 : s[i] = b[2 * m + i]
    <3>1. (2 * m + 2) - 2 * m = 2
      OBVIOUS
    <3>2. Len(s) = (2 * m + 2) - 2 * m /\ \A i \in 1 .. ((2 * m + 2) - 2 * m) : s[i] = b[2 * m + i]
      BY <2>1 DEF Taken
    <3> HIDE DEF s
    <3> QED BY <3>1, <3>2
  <2>3. HasInt32(p) /\ ReadInt32(p) = 8 * s[1] + s[2]
    <3> HIDE DEF s
    <3> QED BY <2>1, <2>2 DEF HasInt32, ReadInt32, WordSize
  <2>4. 8 * s[1] + s[2] = WordOf(b, m + 1)
    <3>1. s[1] = b[2 * m + 1] /\ s[2] = b[2 * m + 2]
      <4> HIDE DEF s
      <4> QED BY <2>2
    <3>2. 2 * (m + 1) - 1 = 2 * m + 1 /\ 2 * (m + 1) = 2 * m + 2
      OBVIOUS
    <3> HIDE DEF s
    <3> QED BY <3>1, <3>2 DEF WordOf
  <2>5. ReadWord(p) = [q EXCEPT !.words = Append(@, WordOf(b, m + 1))]
    <3> HIDE DEF q, s
    <3>1. Len(p.words) # HeaderWords
      BY <1>2, <1>4 DEF HeaderWords
    <3> QED BY <2>1, <2>3, <2>4, <3>1 DEF ReadWord, WordSize
  <2>6. Append(WordsOf(b, m), WordOf(b, m + 1)) = WordsOf(b, m + 1)
    BY DEF WordsOf
  <2>7. 2 * (m + 1) = 2 * m + 2
    OBVIOUS
  <2>8. [q EXCEPT !.words = Append(@, WordOf(b, m + 1))] = FrameAt(b, m + 1)
    <3> DEFINE v == WordOf(b, m + 1)
               w == WordsOf(b, m)
               w2 == WordsOf(b, m + 1)
               x == 2 * m
               x2 == 2 * m + 2
    <3>1. Append(w, v) = w2 /\ q = [p EXCEPT !.pos = x2]
      BY <2>6
    <3>2. p = Obj(b, x, w, <<>>, <<>>, 0, 0, No, No)
      BY DEF p, FrameAt
    <3>3. FrameAt(b, m + 1) = Obj(b, x2, w2, <<>>, <<>>, 0, 0, No, No)
      BY <2>7 DEF FrameAt
    <3>4. SUFFICES [q EXCEPT !.words = Append(@, v)] = FrameAt(b, m + 1)
      OBVIOUS
    <3> HIDE DEF v, w, w2, x, x2, q
    <3>5. q = Obj(b, x2, w, <<>>, <<>>, 0, 0, No, No)
      BY <3>1, <3>2, SetPos
    <3>6. q.words = w
      BY <3>5, Fields
    <3>7. [q EXCEPT !.words = w2] = Obj(b, x2, w2, <<>>, <<>>, 0, 0, No, No)
      BY <3>5, SetWords
    <3> QED BY <3>1, <3>3, <3>6, <3>7
  <2> QED BY <1>4, <2>5, <2>8 DEF p
<1>5. CASE m # 4 /\ ~ (m < 4 /\ 2 * m + 2 <= Len(b))
  <2>1. Len(b) = 2 * m /\ m < 4
    <3>1. m < 4 /\ 2 * m + 2 > Len(b) /\ Len(b) % 2 = 0
      BY <1>1, <1>5 DEF Untorn
    <3> QED BY <1>1, <3>1
  <2>2. 2 * m + 0 = 2 * m /\ 0 \in Nat
    OBVIOUS
  <2>3. RemainingSize(p) = 0
    <3> HIDE DEF p
    <3> QED BY <1>2, <2>1 DEF RemainingSize
  <2>4. Clip(p, 2) = 0
    <3> HIDE DEF p
    <3> QED BY <2>3 DEF Clip
  <2>5. Len(Peek(p, 2)) = 0
    <3>1. Peek(p, 2) = SubSeq(b, 2 * m + 1, 2 * m)
      <4> HIDE DEF p
      <4> QED BY <1>2, <2>2, <2>4 DEF Peek
    <3>2. Taken(b, 2 * m, 2 * m, Byte)
      BY <1>1, <1>2, <2>1, Piece
    <3> HIDE DEF p
    <3> QED BY <1>2, <3>1, <3>2 DEF Taken
  <2>6. AfterRead(p, 2) = p
    <3>1. AfterRead(p, 2) = [p EXCEPT !.pos = @ + 0]
      <4> HIDE DEF p
      <4> QED BY <2>4 DEF AfterRead, Fastforward
    <3>2. [p EXCEPT !.pos = @ + 0] = p
      <4> DEFINE w == WordsOf(b, m)
                 x == 2 * m
      <4>1. x + 0 = x
        OBVIOUS
      <4>2. p = Obj(b, x, w, <<>>, <<>>, 0, 0, No, No)
        BY DEF FrameAt
      <4> HIDE DEF p, w, x
      <4>3. p.pos = x
        BY <4>2, Fields
      <4>4. [p EXCEPT !.pos = x] = p
        BY <4>2, SetPos
      <4> QED BY <4>1, <4>3, <4>4
    <3> HIDE DEF p
    <3> QED BY <3>1, <3>2
  <2>7. ReadWord(p) = p
    <3> HIDE DEF p
    <3>1. Len(p.words) # HeaderWords /\ ~ HasInt32(p)
      <4>1. Len(p.words) # 4
        BY <1>2, <2>1
      <4>2. Len(Peek(p, 2)) # 2
        <5> DEFINE n == Len(Peek(p, 2))
        <5>1. n = 0
          BY <2>5
        <5>2. SUFFICES n # 2
          OBVIOUS
        <5> HIDE DEF n
        <5> QED BY <5>1
      <4> QED BY <4>1, <4>2 DEF HeaderWords, HasInt32, WordSize
    <3> QED BY <2>6, <3>1 DEF ReadWord, WordSize
  <2> QED BY <1>5, <2>7
<1> QED BY <1>3, <1>4, <1>5

(* b begins as e does, as far as both go. *)
Agrees(b, e) == \A i \in 1 .. Len(b) : i <= Len(e) => b[i] = e[i]

(* All four cases: the header is complete exactly when its bytes are there. *)
LEMMA ReadHeaderAt ==
  ASSUME NEW b \in Seq(Byte), NEW m \in 0 .. 4, 2 * m <= Len(b), Untorn(b)
  PROVE  \E n \in 0 .. 4 : /\ 2 * n <= Len(b) /\ (n = 4 <=> Len(b) >= 8)
                           /\ ReadHeader(FrameAt(b, m)) = FrameAt(b, n)
<1> DEFINE Then(k) == IF k < 4 /\ 2 * k + 2 <= Len(b) THEN k + 1 ELSE k
           m1 == Then(m)
           m2 == Then(m1)
           m3 == Then(m2)
           m4 == Then(m3)
<1>1. Len(b) \in Nat
  BY LenProperties
<1>2. ASSUME NEW k \in 0 .. 4, 2 * k <= Len(b)
      PROVE  /\ Then(k) \in 0 .. 4 /\ 2 * Then(k) <= Len(b)
             /\ ReadWord(FrameAt(b, k)) = FrameAt(b, Then(k))
  BY <1>1, <1>2, ReadWordAt
<1>3. /\ m1 \in 0 .. 4 /\ 2 * m1 <= Len(b)
      /\ ReadWord(FrameAt(b, m)) = FrameAt(b, m1)
  <2> HIDE DEF Then
  <2> QED BY <1>2
<1>4. /\ m2 \in 0 .. 4 /\ 2 * m2 <= Len(b)
      /\ ReadWord(FrameAt(b, m1)) = FrameAt(b, m2)
  <2> HIDE DEF Then, m1
  <2> QED BY <1>2, <1>3
<1>5. /\ m3 \in 0 .. 4 /\ 2 * m3 <= Len(b)
      /\ ReadWord(FrameAt(b, m2)) = FrameAt(b, m3)
  <2> HIDE DEF Then, m1, m2
  <2> QED BY <1>2, <1>4
<1>6. /\ m4 \in 0 .. 4 /\ 2 * m4 <= Len(b)
      /\ ReadWord(FrameAt(b, m3)) = FrameAt(b, m4)
  <2> HIDE DEF Then, m1, m2, m3
  <2> QED BY <1>2, <1>5
<1>7. m4 = 4 <=> Len(b) >= 8
  <2>1. /\ m1 = (IF m < 4 /\ 2 * m + 2 <= Len(b) THEN m + 1 ELSE m)
        /\ m2 = (IF m1 < 4 /\ 2 * m1 + 2 <= Len(b) THEN m1 + 1 ELSE m1)
        /\ m3 = (IF m2 < 4 /\ 2 * m2 + 2 <= Len(b) THEN m2 + 1 ELSE m2)
        /\ m4 = (IF m3 < 4 /\ 2 * m3 + 2 <= Len(b) THEN m3 + 1 ELSE m3)
    OBVIOUS
  <2> HIDE DEF Then, m1, m2, m3, m4
  <2>2. ASSUME Len(b) >= 8 PROVE m4 = 4
    <3>1. m1 = (IF m < 4 THEN m + 1 ELSE m) /\ m2 = (IF m1 < 4 THEN m1 + 1 ELSE m1)
      BY <1>1, <1>3, <2>1, <2>2
    <3>2. m3 = (IF m2 < 4 THEN m2 + 1 ELSE m2) /\ m4 = (IF m3 < 4 THEN m3 + 1 ELSE m3)
      BY <1>1, <1>4, <1>5, <2>1, <2>2
    <3> QED BY <3>1, <3>2
  <2>3. ASSUME m4 = 4 PROVE Len(b) >= 8
    BY <1>1, <1>6, <2>3
  <2> QED BY <2>2, <2>3
<1> HIDE DEF Then, m1, m2, m3, m4
<1>8. ReadHeader(FrameAt(b, m)) = FrameAt(b, m4)
  BY <1>3, <1>4, <1>5, <1>6 DEF ReadHeader
<1> QED BY <1>6, <1>7, <1>8

(* A FrameProtocol whose frame is complete. *)
FrameDone(b) == Obj(b, 8, WordsOf(b, 4), <<>>, <<>>, 0, 8, Yes, No)

(* processRead finds a frame exactly when all of it is in the buffer. *)
LEMMA FrameParse ==
  ASSUME NEW cmd \in 0 .. MaxWord, NEW payload \in Seq(Byte), 8 + Len(payload) <= MaxWord,
         NEW e, e = Frame(cmd, payload),
         NEW b \in Seq(Byte), Agrees(b, e), NEW m \in 0 .. 4, 2 * m <= Len(b), Untorn(b),
         NEW q, q = FrameProcessRead(FrameAt(b, m))
  PROVE  /\ Len(b) < Len(e) => \E n \in 0 .. 4 : 2 * n <= Len(b) /\ q = FrameAt(b, n)
         /\ Len(b) >= Len(e) => q = FrameDone(b) /\ WordOf(b, 1) = cmd /\ WordOf(b, 4) = Len(e)
<1>1. Len(b) \in Nat
  BY LenProperties
<1>2. /\ e \in Seq(Byte) /\ Len(e) = 8 + Len(payload) /\ Len(payload) \in Nat
      /\ 8 * e[1] + e[2] = cmd /\ 8 * e[7] + e[8] = 8 + Len(payload)
  BY FrameBytes
<1>3. PICK n \in 0 .. 4 : /\ 2 * n <= Len(b) /\ (n = 4 <=> Len(b) >= 8)
                          /\ ReadHeader(FrameAt(b, m)) = FrameAt(b, n)
  BY ReadHeaderAt
<1> DEFINE h == FrameAt(b, n)
<1>4. h.buf = b /\ h.words = WordsOf(b, n) /\ h.pos = 2 * n
  BY Fields DEF FrameAt
<1>5. Len(WordsOf(b, n)) = n
  BY DEF WordsOf
<1>6. q = IF Len(h.words) < 4 \/ FrameLength(h) > Len(h.buf) THEN h
          ELSE [h EXCEPT !.done = TRUE, !.payloadPos = h.pos]
  <2> HIDE DEF h
  <2>1. ReadHeader(FrameAt(b, m)) = h
    BY <1>3 DEF h
  <2> QED BY <2>1 DEF FrameProcessRead, HeaderWords
<1>7. CASE Len(b) < 8
  <2>1. n < 4 /\ Len(b) < Len(e)
    BY <1>1, <1>2, <1>3, <1>7
  <2>2. Len(h.words) < 4
    BY <1>4, <1>5, <2>1
  <2>3. q = FrameAt(b, n)
    BY <1>6, <2>2
  <2> QED BY <1>1, <1>2, <1>3, <2>1, <2>3
<1>8. CASE Len(b) >= 8
  <2>1. n = 4
    BY <1>3, <1>8
  <2>2. FrameLength(h) = WordOf(b, 4)
    <3>1. WordsOf(b, 4)[4] = WordOf(b, 4)
      BY DEF WordsOf
    <3> HIDE DEF h
    <3> QED BY <1>4, <2>1, <3>1 DEF FrameLength, HeaderWords
  <2>3. b[1] = e[1] /\ b[2] = e[2] /\ b[7] = e[7] /\ b[8] = e[8]
    <3>1. 1 \in 1 .. Len(b) /\ 2 \in 1 .. Len(b) /\ 7 \in 1 .. Len(b) /\ 8 \in 1 .. Len(b)
      BY <1>1, <1>8
    <3>2. 1 <= Len(e) /\ 2 <= Len(e) /\ 7 <= Len(e) /\ 8 <= Len(e)
      BY <1>2
    <3> QED BY <3>1, <3>2 DEF Agrees
  <2>4. WordOf(b, 4) = Len(e) /\ WordOf(b, 1) = cmd
    <3>1. 2 * 4 - 1 = 7 /\ 2 * 4 = 8 /\ 2 * 1 - 1 = 1 /\ 2 * 1 = 2
      OBVIOUS
    <3> QED BY <1>2, <2>3, <3>1 DEF WordOf
  <2>5. Len(h.words) = 4 /\ FrameLength(h) = Len(e) /\ h.pos = 8
    BY <1>4, <1>5, <2>1, <2>2, <2>4
  <2>6. CASE Len(b) < Len(e)
    <3>1. q = h
      <4> HIDE DEF h
      <4> QED BY <1>4, <1>6, <2>5, <2>6
    <3> QED BY <1>1, <1>2, <1>3, <2>6, <3>1
  <2>7. CASE Len(b) >= Len(e)
    <3>1. q = [h EXCEPT !.done = TRUE, !.payloadPos = h.pos]
      <4> HIDE DEF h
      <4>1. ~ (Len(h.words) < 4) /\ ~ (FrameLength(h) > Len(h.buf))
        BY <1>1, <1>2, <1>4, <2>5, <2>7
      <4> QED BY <1>6, <4>1
    <3>2. h = Obj(b, 8, WordsOf(b, 4), <<>>, <<>>, 0, 0, No, No)
      BY <2>1 DEF FrameAt
    <3> DEFINE h2 == [h EXCEPT !.done = Yes]
    <3>3. q = [h2 EXCEPT !.payloadPos = 8]
      <4> HIDE DEF h
      <4> QED BY <2>5, <3>1 DEF Yes
    <3>4. h2 = Obj(b, 8, WordsOf(b, 4), <<>>, <<>>, 0, 0, Yes, No)
      <4> HIDE DEF h
      <4> QED BY <3>2, SetDone
    <3>5. q = FrameDone(b)
      <4> HIDE DEF h, h2
      <4> QED BY <3>3, <3>4, SetPayloadPos DEF FrameDone
    <3> QED BY <1>1, <1>2, <2>4, <2>7, <3>5
  <2> QED BY <1>1, <1>2, <2>6, <2>7
<1> QED BY <1>1, <1>7, <1>8

(* The bytes of a buffer from a to c are those of the whole that it begins with. *)
LEMMA SamePiece ==
  ASSUME NEW b \in Seq(Byte), NEW a \in Nat, NEW s \in Seq(Byte), a + Len(s) <= Len(b),
         \A i \in 1 .. Len(s) : b[a + i] = s[i]
  PROVE  SubSeq(b, a + 1, a + Len(s)) = s
<1>1. Len(b) \in Nat /\ Len(s) \in Nat
  BY LenProperties
<1> DEFINE c == a + Len(s)
<1>2. c \in Nat /\ a <= c /\ c - a = Len(s) /\ c <= Len(b)
  BY <1>1
<1> HIDE DEF c
<1>3. Taken(b, a, c, Byte)
  BY <1>2, Piece
<1> DEFINE t == SubSeq(b, a + 1, c)
<1>4. t \in Seq(Byte) /\ Len(t) = c - a /\ \A i \in 1 .. (c - a) : t[i] = b[a + i]
  BY <1>3 DEF Taken
<1> HIDE DEF t
<1>5. t \in Seq(Byte) /\ Len(t) = Len(s) /\ \A i \in 1 .. Len(t) : t[i] = s[i]
  BY <1>2, <1>4
<1>6. t = s
  BY <1>5, SeqEqual
<1> QED BY <1>6 DEF t, c

(* The command, the payload and the rest of a frame that was found. *)
LEMMA FrameParts ==
  ASSUME NEW cmd \in 0 .. MaxWord, NEW payload \in Seq(Byte), 8 + Len(payload) <= MaxWord,
         NEW e, e = Frame(cmd, payload), NEW b \in Seq(Byte), Agrees(b, e), Len(b) >= Len(e),
         WordOf(b, 1) = cmd, WordOf(b, 4) = Len(e), NEW q, q = FrameDone(b)
  PROVE  /\ q.words[1] = cmd /\ FramePayload(q) = payload
         /\ FrameRemaining(q) = SubSeq(b, Len(e) + 1, Len(b))
<1>1. Len(b) \in Nat
  BY LenProperties
<1>2. /\ e \in Seq(Byte) /\ Len(e) = 8 + Len(payload) /\ Len(payload) \in Nat
      /\ \A i \in 1 .. Len(payload) : e[8 + i] = payload[i]
  BY FrameBytes
<1>3. q.buf = b /\ q.pos = 8 /\ q.words = WordsOf(b, 4) /\ q.payloadPos = 8
  BY Fields DEF FrameDone
<1>4. WordsOf(b, 4)[1] = WordOf(b, 1) /\ WordsOf(b, 4)[4] = WordOf(b, 4)
  BY DEF WordsOf
<1>5. q.words[1] = cmd /\ FrameLength(q) = Len(e)
  BY <1>3, <1>4 DEF FrameLength, HeaderWords
<1>6. FramePayload(q) = payload
  <2>1. ASSUME NEW i \in 1 .. Len(payload) PROVE b[8 + i] = payload[i]
    <3>1. 8 + i \in 1 .. Len(b) /\ 8 + i <= Len(e)
      BY <1>1, <1>2
    <3> QED BY <1>2, <3>1 DEF Agrees
  <2>2. SubSeq(b, 8 + 1, 8 + Len(payload)) = payload
    BY <1>1, <1>2, <2>1, SamePiece
  <2> QED BY <1>2, <1>3, <1>5, <2>2 DEF FramePayload
<1>7. FrameRemaining(q) = SubSeq(b, Len(e) + 1, Len(b))
  <2>1. q.pos + FrameUnread(q) = Len(e)
    BY <1>2, <1>3, <1>5 DEF FrameUnread
  <2> QED BY <1>3, <2>1 DEF FrameRemaining
<1> QED BY <1>5, <1>6, <1>7

-----------------------------------------------------------------------------
(* StringListProtocol *)

(* readInt32 where there is a word. *)
Word32(p, b, x) ==
  /\ HasInt32(p) /\ ReadInt32(p) = 8 * b[x + 1] + b[x + 2]
  /\ AfterRead(p, WordSize) = [p EXCEPT !.pos = x + 2]

(* readInt32 of a word that is there. *)
LEMMA ReadInt32At ==
  ASSUME NEW p, NEW b \in Seq(Byte), NEW x \in Nat, p.buf = b, p.pos = x, x + 2 <= Len(b)
  PROVE  Word32(p, b, x)
<1>1. Reads(p, 2)
  BY Reading
<1> DEFINE s == SubSeq(b, x + 1, x + 2)
<1>2. Peek(p, 2) = s /\ AfterRead(p, 2) = [p EXCEPT !.pos = x + 2] /\ Taken(b, x, x + 2, Byte)
  BY <1>1 DEF Reads
<1>3. Len(s) = (x + 2) - x /\ \A i \in 1 .. ((x + 2) - x) : s[i] = b[x + i]
  BY <1>2 DEF Taken
<1> HIDE DEF s
<1>4. (x + 2) - x = 2
  OBVIOUS
<1>5. Len(s) = 2 /\ s[1] = b[x + 1] /\ s[2] = b[x + 2]
  BY <1>3, <1>4
<1> QED BY <1>2, <1>5 DEF Word32, HasInt32, ReadInt32, WordSize

(* A turn of the loop that finds a string. *)
LEMMA ReadStringAt ==
  ASSUME NEW b \in Seq(Byte), NEW x \in Nat, NEW w, NEW it, NEW n \in Nat, Len(it) < n, Len(it) \in Nat,
         NEW p, p = Obj(b, x, w, it, <<>>, n, 8, Yes, No),
         NEW s \in Seq(Byte), Len(s) <= MaxWord, x + 2 + Len(s) <= Len(b),
         \A i \in 1 .. (2 + Len(s)) : b[x + i] = String32(s)[i]
  PROVE  ReadString(p) = Obj(b, x + 2 + Len(s), w, Append(it, s), <<>>, n, 8, Yes, No)
<1> DEFINE k == Len(s)
<1>1. Len(b) \in Nat /\ k \in Nat
  BY LenProperties
<1>2. /\ 8 * String32(s)[1] + String32(s)[2] = k
      /\ \A i \in 1 .. k : String32(s)[2 + i] = s[i]
  BY StringBytes
<1>3. 8 * b[x + 1] + b[x + 2] = k
  <2>1. 1 \in 1 .. (2 + k) /\ 2 \in 1 .. (2 + k)
    BY <1>1
  <2> QED BY <1>2, <2>1
<1>4. ASSUME NEW i \in 1 .. k PROVE b[(x + 2) + i] = s[i]
  <2>1. 2 + i \in 1 .. (2 + k) /\ x + (2 + i) = (x + 2) + i
    BY <1>1
  <2> QED BY <1>2, <2>1
<1> HIDE DEF k
<1>5. p.buf = b /\ p.pos = x /\ p.items = it /\ p.rest = n
  BY Fields
<1>6. Word32(p, b, x)
  BY <1>1, <1>5, ReadInt32At DEF k
<1> DEFINE q == AfterRead(p, WordSize)
           y == x + 2
<1>7. HasInt32(p) /\ ReadInt32(p) = k /\ q = [p EXCEPT !.pos = y]
  BY <1>3, <1>6 DEF Word32
<1>8. q = Obj(b, y, w, it, <<>>, n, 8, Yes, No)
  <2> HIDE DEF q, y
  <2> QED BY <1>7, SetPos
<1>9. y \in Nat /\ y + k <= Len(b) /\ y + k = x + 2 + k
  BY <1>1 DEF k
<1> HIDE DEF q, y
<1>10. q.buf = b /\ q.pos = y /\ q.items = it
  BY <1>8, Fields
<1>11. Reads(q, k)
  BY <1>1, <1>9, <1>10, Reading
<1>12. /\ Clip(q, k) = k /\ Peek(q, k) = SubSeq(b, y + 1, y + k)
       /\ AfterRead(q, k) = [q EXCEPT !.pos = y + k]
  BY <1>10, <1>11 DEF Reads
<1>13. Peek(q, k) = s
  <2>1. \A i \in 1 .. k : b[y + i] = s[i]
    BY <1>4 DEF y
  <2>2. SubSeq(b, y + 1, y + Len(s)) = s
    BY <1>9, <2>1, SamePiece DEF k
  <2> QED BY <1>12, <2>2 DEF k
<1> DEFINE r == AfterRead(q, k)
<1>14. r = Obj(b, y + k, w, it, <<>>, n, 8, Yes, No)
  <2> HIDE DEF r
  <2> QED BY <1>8, <1>12, SetPos DEF r
<1>15. ReadString(p) = [r EXCEPT !.items = Append(@, s)]
  <2>1. ~ (Len(p.items) >= p.rest) /\ ~ (Clip(q, k) < k)
    BY <1>1, <1>5, <1>12
  <2> QED BY <1>7, <1>13, <2>1 DEF ReadString, q
<1> HIDE DEF r
<1>16. r.items = it
  BY <1>14, Fields
<1>17. [r EXCEPT !.items = Append(it, s)] = Obj(b, y + k, w, Append(it, s), <<>>, n, 8, Yes, No)
  <2> DEFINE v == Append(it, s)
             z == y + k
  <2>1. r = Obj(b, z, w, it, <<>>, n, 8, Yes, No)
    BY <1>14
  <2> HIDE DEF v, z
  <2>2. [r EXCEPT !.items = v] = Obj(b, z, w, v, <<>>, n, 8, Yes, No)
    BY <2>1, SetItems
  <2> QED BY <2>2 DEF v, z
<1> QED BY <1>9, <1>15, <1>16, <1>17 DEF k

(* StringListProtocol finds the strings, and the rest is behind the frame. *)
LEMMA ListParse ==
  ASSUME NEW l \in Lists, NEW e, e = Frame(5, String32List(l)),
         NEW b \in Seq(Byte), Agrees(b, e), Len(b) >= Len(e), WordOf(b, 4) = Len(e),
         NEW h, h = ListProcessRead(FrameDone(b))
  PROVE  /\ h = Obj(b, Len(e), WordsOf(b, 4), l, <<>>, Len(l), 8, Yes, No)
         /\ FrameRemaining(h) = SubSeq(b, Len(e) + 1, Len(b))
<1> DEFINE s == String32List(l)
           N == Len(l)
           w == WordsOf(b, 4)
           strings == [i \in 1 .. Len(l) |-> String32(l[i])]
<1>1. /\ l \in Seq(Seq(Byte)) /\ Len(l) <= MaxWord /\ \A i \in 1 .. Len(l) : Len(l[i]) <= MaxWord
      /\ s \in Seq(Byte) /\ 8 + Len(s) <= MaxWord
  BY ListFits
<1>2. Len(b) \in Nat /\ N \in Nat /\ \A i \in 1 .. N : l[i] \in Seq(Byte) /\ Len(l[i]) \in Nat
  <2>1. Len(b) \in Nat /\ N \in Nat
    BY <1>1, LenProperties
  <2>2. \A i \in 1 .. N : l[i] \in Seq(Byte)
    BY <1>1, ElementOfSeq
  <2> QED BY <2>1, <2>2, LenProperties
<1>3. PICK f : /\ Joins(f, strings, Byte)
               /\ Len(s) = 2 + Len(f[N])
               /\ 8 * s[1] + s[2] = N
               /\ \A i \in 1 .. Len(f[N]) : s[2 + i] = f[N][i]
  BY <1>1, ListBytes
<1>4. /\ Len(e) = 8 + Len(s) /\ Len(s) \in Nat
      /\ \A i \in 1 .. Len(s) : e[8 + i] = s[i]
  <2>1. 5 \in 0 .. MaxWord
    BY DEF MaxWord
  <2> HIDE DEF s
  <2>2. e = Frame(5, s)
    BY DEF s
  <2> QED BY <1>1, <2>1, <2>2, FrameBytes
<1>5. strings \in Seq(Seq(Byte)) /\ Len(strings) = N /\ \A i \in 1 .. N : strings[i] = String32(l[i])
  <2>1. \A i \in 1 .. N : String32(l[i]) \in Seq(Byte)
    BY <1>1, <1>2, StringBytes
  <2> QED BY <1>2, <2>1
<1> HIDE DEF s, N, w, strings
<1>6. Placed(f, strings)
  BY <1>3, <1>5, JoinedParts
<1>7. /\ f \in [0 .. N -> Seq(Byte)] /\ f[0] = <<>>
      /\ \A k \in 0 .. N : f[k] \in Seq(Byte) /\ Len(f[k]) \in Nat
  <2>1. f \in [0 .. N -> Seq(Byte)] /\ f[0] = <<>>
    BY <1>3, <1>5 DEF Joins
  <2>2. \A k \in 0 .. N : f[k] \in Seq(Byte)
    BY <2>1
  <2> QED BY <2>1, <2>2, LenProperties
<1>8. N \in 0 .. N
  BY <1>2
<1>9. ASSUME NEW i \in 1 .. Len(s) PROVE b[8 + i] = s[i]
  <2>1. 8 + i \in 1 .. Len(b) /\ 8 + i <= Len(e)
    BY <1>2, <1>4
  <2> QED BY <1>4, <2>1 DEF Agrees
<1>10. ASSUME NEW i \in 1 .. Len(f[N]) PROVE b[10 + i] = f[N][i]
  <2>1. 2 + i \in 1 .. Len(s) /\ 8 + (2 + i) = 10 + i
    BY <1>3, <1>7, <1>8
  <2> QED BY <1>3, <1>9, <2>1
<1> DEFINE x(j) == 10 + Len(f[j])
           At(j) == Obj(b, x(j), w, SubSeq(l, 1, j), <<>>, N, 8, Yes, No)
           q == FrameDone(b)
<1>11. q = Obj(b, 8, w, <<>>, <<>>, 0, 8, Yes, No)
  BY DEF FrameDone, w
<1> HIDE DEF q
<1>12. q.buf = b /\ q.pos = 8
  BY <1>11, Fields
<1>13. Len(e) = 10 + Len(f[N]) /\ 8 + 2 <= Len(b)
  BY <1>2, <1>3, <1>4, <1>7, <1>8
<1>14. Word32(q, b, 8)
  BY <1>12, <1>13, ReadInt32At
<1>15. HasInt32(q) /\ ReadInt32(q) = N /\ AfterRead(q, WordSize) = [q EXCEPT !.pos = 10]
  <2>1. 1 \in 1 .. Len(s) /\ 2 \in 1 .. Len(s)
    BY <1>3, <1>7, <1>8
  <2>2. b[8 + 1] = s[1] /\ b[8 + 2] = s[2] /\ 8 + 2 = 10
    BY <1>9, <2>1
  <2>3. 8 * b[8 + 1] + b[8 + 2] = N
    BY <1>3, <2>2
  <2> QED BY <1>14, <2>2, <2>3 DEF Word32
<1> DEFINE p1 == [q EXCEPT !.pos = 10]
           p0 == [p1 EXCEPT !.rest = N]
<1>16. h = Repeat(ReadString, p0, p0.rest)
  BY <1>15 DEF ListProcessRead, ReadStrings, q
<1>17. p1 = Obj(b, 10, w, <<>>, <<>>, 0, 8, Yes, No)
  <2> HIDE DEF p1
  <2> QED BY <1>11, SetPos DEF p1
<1>18. p0 = Obj(b, 10, w, <<>>, <<>>, N, 8, Yes, No)
  <2> HIDE DEF p1
  <2> QED BY <1>17, SetRest
<1> HIDE DEF p0, p1
<1>19. p0.rest = N
  BY <1>18, Fields
<1>20. p0 = At(0)
  <2>1. x(0) = 10 /\ SubSeq(l, 1, 0) = <<>>
    BY <1>1, <1>7
  <2> QED BY <1>18, <2>1
<1>21. ASSUME NEW j \in 0 .. (N - 1) PROVE ReadString(At(j)) = At(j + 1)
  <2> DEFINE k == j + 1
             str == l[k]
  <2>1. /\ k \in 1 .. N /\ k - 1 = j /\ j \in 0 .. N /\ k \in 0 .. N
        /\ k \in 1 .. Len(strings) /\ N \in 0 .. Len(strings) /\ j \in Nat
    BY <1>2, <1>5
  <2>2. str \in Seq(Byte) /\ Len(str) \in Nat /\ Len(str) <= MaxWord /\ strings[k] = String32(str)
    BY <1>1, <1>2, <1>5, <2>1 DEF N
  <2>3. Len(String32(str)) = 2 + Len(str)
    <3> HIDE DEF str
    <3> QED BY <2>2, StringBytes
  <2> HIDE DEF k, str
  <2>4. Len(f[k]) = Len(f[j]) + (2 + Len(str))
    <3>1. Len(f[k]) = Len(f[k - 1]) + Len(strings[k])
      BY <1>6, <2>1 DEF Placed
    <3> QED BY <2>1, <2>2, <2>3, <3>1
  <2>5. /\ Len(f[k]) <= Len(f[N])
        /\ \A i \in 1 .. (2 + Len(str)) : f[N][Len(f[j]) + i] = String32(str)[i]
    <3>1. /\ Len(f[k]) <= Len(f[N])
          /\ \A i \in 1 .. Len(strings[k]) : f[N][Len(f[k - 1]) + i] = strings[k][i]
      BY <1>6, <2>1 DEF Placed
    <3> QED BY <2>1, <2>2, <2>3, <3>1
  <2>6. /\ Len(f[j]) \in Nat /\ Len(f[N]) \in Nat /\ x(j) \in Nat
        /\ x(j) + 2 + Len(str) <= Len(b) /\ x(j) + 2 + Len(str) = x(k)
    <3> DEFINE a == Len(f[j])
               c == Len(f[k])
               d == Len(f[N])
               t == Len(str)
    <3>1. a \in Nat /\ d \in Nat /\ c = a + (2 + t) /\ c <= d /\ t \in Nat
      BY <1>7, <1>8, <2>1, <2>2, <2>4, <2>5
    <3>2. Len(b) \in Nat /\ Len(b) >= Len(e) /\ Len(e) = 10 + d
      BY <1>2, <1>13
    <3>3. SUFFICES /\ a \in Nat /\ d \in Nat /\ 10 + a \in Nat
                   /\ 10 + a + 2 + t <= Len(b) /\ 10 + a + 2 + t = 10 + c
      OBVIOUS
    <3> HIDE DEF a, c, d, t
    <3> QED BY <3>1, <3>2
  <2>7. ASSUME NEW i \in 1 .. (2 + Len(str)) PROVE b[x(j) + i] = String32(str)[i]
    <3>1. Len(f[j]) + i \in 1 .. Len(f[N]) /\ 10 + (Len(f[j]) + i) = x(j) + i
      <4> DEFINE a == Len(f[j])
                 c == Len(f[k])
                 d == Len(f[N])
                 t == Len(str)
      <4>1. a \in Nat /\ d \in Nat /\ c = a + (2 + t) /\ c <= d /\ t \in Nat /\ i \in 1 .. (2 + t)
        BY <2>2, <2>4, <2>5, <2>6
      <4>2. SUFFICES a + i \in 1 .. d /\ 10 + (a + i) = 10 + a + i
        OBVIOUS
      <4> HIDE DEF a, c, d, t
      <4> QED BY <4>1
    <3> QED BY <1>10, <2>5, <3>1
  <2> DEFINE it == SubSeq(l, 1, j)
  <2>8. Len(it) = j /\ Append(it, str) = SubSeq(l, 1, k)
    <3>1. Len(it) = j
      <4>1. Fronted(l, j, Seq(Byte))
        BY <1>1, <2>1, FrontPiece DEF N
      <4> QED BY <4>1 DEF Fronted
    <3>2. Append(it, l[k]) = SubSeq(l, 1, k)
      <4>1. k \in 1 .. Len(l)
        BY <1>2, <2>1 DEF N
      <4> QED BY <1>1, <2>1, <4>1, OneFurther
    <3> QED BY <3>1, <3>2 DEF str
  <2> HIDE DEF it
  <2>9. Len(it) < N /\ Len(it) \in Nat
    BY <1>2, <2>8
  <2> DEFINE y == x(j)
  <2>10. /\ y \in Nat /\ y + 2 + Len(str) <= Len(b)
         /\ \A i \in 1 .. (2 + Len(str)) : b[y + i] = String32(str)[i]
    BY <2>6, <2>7
  <2> HIDE DEF y, x
  <2>11. ReadString(Obj(b, y, w, it, <<>>, N, 8, Yes, No))
           = Obj(b, y + 2 + Len(str), w, Append(it, str), <<>>, N, 8, Yes, No)
    BY <1>2, <2>2, <2>9, <2>10, ReadStringAt, SMTT(40)
  <2>12. ReadString(At(j)) = At(k)
    BY <2>6, <2>8, <2>11 DEF it, y
  <2> QED BY <2>12 DEF k
<1> HIDE DEF x
<1>22. h = At(N)
  <2>0. PICK g : StringLoop(g, p0, N)
    BY <1>2, RepeatStrings
  <2>1. /\ g[0] = p0 /\ g[N] = Repeat(ReadString, p0, N)
        /\ \A k \in 0 .. (N - 1) : g[k + 1] = ReadString(g[k])
    BY <2>0 DEF StringLoop
  <2> HIDE DEF At
  <2> DEFINE M == {m \in Nat : g[m] = At(m)}
  <2>2. 0 \in M
    BY <1>20, <2>1
  <2>3. ASSUME NEW m \in 0 .. (N - 1), m \in M PROVE m + 1 \in M
    <3>1. m \in Nat /\ m + 1 \in Nat /\ g[m] = At(m)
      BY <2>3
    <3>2. g[m + 1] = ReadString(g[m]) /\ ReadString(At(m)) = At(m + 1)
      BY <1>21, <2>1
    <3> QED BY <3>1, <3>2
  <2>4. N \in M
    <3> HIDE DEF M
    <3>1. \A m \in 0 .. N : m \in M
      BY <1>2, <2>2, <2>3, UpTo
    <3> QED BY <1>8, <3>1
  <2> QED BY <1>16, <1>19, <2>1, <2>4
<1>23. h = Obj(b, Len(e), w, l, <<>>, N, 8, Yes, No)
  <2>1. SubSeq(l, 1, N) = l
    BY <1>1, SubSeqFull DEF N
  <2>2. x(N) = Len(e)
    BY <1>13 DEF x
  <2> QED BY <1>22, <2>1, <2>2
<1>24. FrameRemaining(h) = SubSeq(b, Len(e) + 1, Len(b))
  <2>1. h.buf = b /\ h.pos = Len(e) /\ h.words = w /\ h.payloadPos = 8
    BY <1>23, Fields
  <2>2. w[4] = WordOf(b, 4)
    BY DEF w, WordsOf
  <2>3. FrameLength(h) = Len(e)
    BY <2>1, <2>2 DEF FrameLength, HeaderWords
  <2>4. h.pos + FrameUnread(h) = Len(e) /\ Len(e) \in Nat
    BY <1>4, <2>1, <2>3 DEF FrameUnread
  <2> QED BY <2>1, <2>4 DEF FrameRemaining
<1> QED BY <1>23, <1>24 DEF w, N

-----------------------------------------------------------------------------
(* LineProtocol *)

(* A LineProtocol or a JSONProtocol that has read m bytes and found no end. *)
TextAt(b, m) == Obj(b, m, <<>>, <<>>, SubSeq(b, 1, m), 0, 0, No, No)

(* The first byte with a value. *)
LEMMA Smallest ==
  ASSUME NEW I \in SUBSET Nat, NEW j \in I, \A i \in I : j <= i
  PROVE  Min(I) = j
<1> DEFINE P(x) == x \in I /\ \A y \in I : x <= y
<1>1. P(j)
  OBVIOUS
<1>2. P(CHOOSE x : P(x))
  BY <1>1
<1>3. Min(I) = CHOOSE x : P(x)
  BY DEF Min
<1>4. P(Min(I))
  BY <1>2, <1>3
<1>5. Min(I) \in Nat /\ j \in Nat /\ Min(I) <= j /\ j <= Min(I)
  BY <1>4
<1> QED BY <1>5

(* Where the first newline is. *)
LEMMA FirstLFIs ==
  ASSUME NEW data, Len(data) \in Nat
  PROVE  /\ (\A i \in 1 .. Len(data) : data[i] # LF) => FirstLF(data) = 0
         /\ \A j \in 1 .. Len(data) :
              data[j] = LF /\ (\A i \in 1 .. (j - 1) : data[i] # LF) => FirstLF(data) = j
<1> DEFINE I == {i \in 1 .. Len(data) : data[i] = LF}
<1>1. FirstLF(data) = IF I # {} THEN Min(I) ELSE 0
  BY DEF FirstLF, SelectInSeq
<1>2. (\A i \in 1 .. Len(data) : data[i] # LF) => FirstLF(data) = 0
  BY <1>1
<1>3. ASSUME NEW j \in 1 .. Len(data), data[j] = LF, \A i \in 1 .. (j - 1) : data[i] # LF
      PROVE  FirstLF(data) = j
  <2>1. j \in I /\ I \in SUBSET Nat
    BY <1>3
  <2>2. ASSUME NEW i \in I PROVE j <= i
    <3>1. i \in Nat /\ i >= 1 /\ i \notin 1 .. (j - 1)
      BY <1>3, <2>2
    <3> HIDE DEF I
    <3> QED BY <3>1
  <2> HIDE DEF I
  <2> QED BY <1>1, <2>1, <2>2, Smallest
<1> QED BY <1>2, <1>3

(* The beginning of what follows. *)
LEMMA FrontOfPiece ==
  ASSUME NEW b \in Seq(Byte), NEW m \in 0 .. Len(b), NEW data, data = SubSeq(b, m + 1, Len(b)),
         NEW k \in 0 .. (Len(b) - m)
  PROVE  SubSeq(b, 1, m) \o SubSeq(data, 1, k) = SubSeq(b, 1, m + k)
<1>1. Len(b) \in Nat
  BY LenProperties
<1>2. /\ m \in Nat /\ m <= Len(b) /\ Len(b) \in 0 .. Len(b)
      /\ k \in Nat /\ m + k \in Nat /\ m + k <= Len(b)
      /\ m <= m + k /\ (m + k) - m = k /\ Len(b) <= Len(b)
  BY <1>1
<1>3. Taken(b, m, Len(b), Byte)
  BY <1>1, <1>2, Piece
<1>4. data \in Seq(Byte) /\ Len(data) = Len(b) - m /\ \A i \in 1 .. (Len(b) - m) : data[i] = b[m + i]
  BY <1>3 DEF Taken
<1>5. Fronted(data, k, Byte)
  BY <1>4, FrontPiece
<1> DEFINE d == SubSeq(data, 1, k)
           c == SubSeq(b, m + 1, m + k)
<1>6. d \in Seq(Byte) /\ Len(d) = k /\ \A i \in 1 .. k : d[i] = data[i]
  BY <1>5 DEF Fronted
<1>7. Taken(b, m, m + k, Byte)
  BY <1>2, Piece
<1>8. c \in Seq(Byte) /\ Len(c) = k /\ \A i \in 1 .. k : c[i] = b[m + i]
  BY <1>2, <1>7 DEF Taken
<1>9. \A i \in 1 .. k : i \in 1 .. (Len(b) - m)
  BY <1>1
<1> HIDE DEF c, d
<1>10. \A i \in 1 .. Len(d) : d[i] = c[i]
  BY <1>4, <1>6, <1>8, <1>9
<1>11. d = c
  BY <1>6, <1>8, <1>10, SeqEqual
<1>12. SubSeq(b, 1, m) \o SubSeq(b, m + 1, m + k) = SubSeq(b, 1, m + k)
  <2>1. 1 \in 1 .. Len(b) + 1 /\ m \in 1 - 1 .. Len(b) /\ m + k \in m .. Len(b)
    BY <1>1
  <2> QED BY <2>1, ConcatAdjacentSubSeq
<1> QED BY <1>11, <1>12 DEF c, d

(* What is read when the window takes all that remains. *)
LEMMA ReadRest ==
  ASSUME NEW b \in Seq(Byte), NEW m \in 0 .. Len(b), NEW size \in Nat, Len(b) - m <= size,
         NEW p, p.buf = b, p.pos = m
  PROVE  /\ Peek(p, size) = SubSeq(b, m + 1, Len(b))
         /\ AfterRead(p, size) = [p EXCEPT !.pos = Len(b)]
<1>1. Len(b) \in Nat
  BY LenProperties
<1>2. Clip(p, size) = Len(b) - m
  BY <1>1 DEF Clip, RemainingSize
<1>3. m + (Len(b) - m) = Len(b)
  BY <1>1
<1> QED BY <1>2, <1>3 DEF Peek, AfterRead, Fastforward

(* The whole buffer begins with the packet. *)
LEMMA FrontSame ==
  ASSUME NEW b \in Seq(Byte), NEW s \in Seq(Byte), Len(s) <= Len(b), \A i \in 1 .. Len(s) : b[i] = s[i]
  PROVE  SubSeq(b, 1, Len(s)) = s
<1>1. Len(b) \in Nat /\ Len(s) \in Nat
  BY LenProperties
<1> DEFINE k == Len(s)
           c == SubSeq(b, 1, k)
<1>2. k \in 0 .. Len(b)
  BY <1>1
<1> HIDE DEF k
<1>3. Fronted(b, k, Byte)
  BY <1>2, FrontPiece
<1>4. c \in Seq(Byte) /\ Len(c) = k /\ \A i \in 1 .. k : c[i] = b[i]
  BY <1>3 DEF Fronted
<1> HIDE DEF c
<1>5. \A i \in 1 .. Len(c) : c[i] = s[i]
  BY <1>4 DEF k
<1>6. c = s
  BY <1>4, <1>5, SeqEqual DEF k
<1> QED BY <1>6 DEF c, k

(* The first m bytes of b do not end a line, nor tear its delimiter. *)
NoLine(b, m) == (m = 0 \/ b[m] # CR) /\ \A i \in 1 .. m : b[i] # LF

(* processRead finds a line exactly when its delimiter is in the buffer. *)
LEMMA LineParse ==
  ASSUME NEW l \in Lines, NEW e, e = Line(l), NEW b \in Seq(Byte), Agrees(b, e),
         NEW m \in 0 .. Len(b), NoLine(b, m),
         Len(b) > 0, b[Len(b)] # CR, Len(b) - m <= LineBuffer,
         NEW before, NEW q, q = LineProcessRead(TextAt(b, m), before)
  PROVE  /\ Len(b) < Len(e) => q = TextAt(b, Len(b)) /\ NoLine(b, Len(b))
         /\ Len(b) >= Len(e) => /\ m <= Len(e)
                                /\ q = Obj(b, Len(b), <<>>, <<>>, l, Len(b) - Len(e), 0, Yes, No)
<1> DEFINE p == TextAt(b, m)
           data == SubSeq(b, m + 1, Len(b))
           r == [p EXCEPT !.pos = Len(b)]
           i == FirstLF(data)
           t == SubSeq(b, 1, m)
           k == Len(b)
           c == k - m
<1>1. k \in Nat /\ m \in Nat /\ c \in Nat /\ m <= k /\ k <= k /\ LineBuffer \in Nat
  BY LenProperties, WindowsAssumption
<1>2. /\ l \in Seq(Byte) /\ Len(l) \in Nat /\ e \in Seq(Byte) /\ Len(e) = Len(l) + 2
      /\ \A j \in 1 .. Len(l) : e[j] = l[j] /\ l[j] # CR /\ l[j] # LF
      /\ e[Len(l) + 1] = CR /\ e[Len(l) + 2] = LF
  BY LineBytes
<1>3. p.buf = b /\ p.pos = m
  BY Fields DEF TextAt
<1>4. Peek(p, LineBuffer) = data /\ AfterRead(p, LineBuffer) = r
  <2> HIDE DEF p
  <2> QED BY <1>1, <1>3, ReadRest
<1>5. data \in Seq(Byte) /\ Len(data) = c /\ \A j \in 1 .. c : data[j] = b[m + j]
  <2>1. Taken(b, m, k, Byte)
    BY <1>1, Piece
  <2> QED BY <2>1 DEF Taken
<1>6. r = Obj(b, k, <<>>, <<>>, t, 0, 0, No, No) /\ r.text = t
  <2>1. r = Obj(b, k, <<>>, <<>>, t, 0, 0, No, No)
    <3>1. p = Obj(b, m, <<>>, <<>>, t, 0, 0, No, No)
      BY DEF TextAt
    <3> HIDE DEF p, t, k
    <3> QED BY <3>1, SetPos DEF k
  <2> HIDE DEF r, t, k
  <2> QED BY <2>1, Fields
<1>7. q = LET tail == IF DelimAfter(data, i, before) THEN 1 ELSE 0
              two  == DelimBefore(data, i, before) \/ DelimAfter(data, i, before)
          IN  IF i = 0 THEN [r EXCEPT !.text = @ \o data]
              ELSE IF i = 1 /\ two /\ tail = 0 THEN [r EXCEPT !.threw = TRUE]
              ELSE [r EXCEPT !.text = @ \o SubSeq(data, 1, i - 1 - (IF two THEN 1 ELSE 0)),
                             !.rest = Len(data) - i - tail,
                             !.done = TRUE]
  <2> HIDE DEF p, data, r
  <2>1. q = LineProcessRead(p, before)
    BY DEF p
  <2> QED BY <1>4, <2>1 DEF LineProcessRead
<1> HIDE DEF data, r, i, t
<1>8. \A j \in 1 .. k : j <= Len(e) => b[j] = e[j]
  BY DEF Agrees
<1>9. CASE k < Len(e)
  <2>1. k <= Len(l)
    <3>1. CASE k = Len(l) + 1
      <4>1. k \in 1 .. k /\ k <= Len(e) /\ e[k] = CR
        BY <1>1, <1>2, <3>1
      <4>2. b[k] = CR
        BY <1>8, <4>1
      <4> QED BY <4>2
    <3> QED BY <1>1, <1>2, <1>9, <3>1
  <2>2. ASSUME NEW j \in 1 .. k PROVE b[j] # LF
    <3>1. j \in 1 .. Len(l) /\ j <= Len(e)
      BY <1>1, <1>2, <2>1
    <3> QED BY <1>2, <1>8, <3>1
  <2>3. \A j \in 1 .. c : m + j \in 1 .. k
    BY <1>1
  <2>4. i = 0
    <3>1. \A j \in 1 .. Len(data) : data[j] # LF
      BY <1>5, <2>2, <2>3
    <3> QED BY <1>1, <1>5, <3>1, FirstLFIs DEF i
  <2>5. t \o data = b /\ SubSeq(b, 1, k) = b
    <3>1. SubSeq(b, 1, k) = b
      BY SubSeqFull
    <3>2. 1 \in 1 .. Len(b) + 1 /\ m \in 1 - 1 .. Len(b) /\ k \in m .. Len(b)
      BY <1>1
    <3>3. SubSeq(b, 1, m) \o SubSeq(b, m + 1, k) = SubSeq(b, 1, k)
      BY <3>2, ConcatAdjacentSubSeq
    <3> QED BY <3>1, <3>3 DEF t, data
  <2>6. q = [r EXCEPT !.text = b]
    BY <1>6, <1>7, <2>4, <2>5
  <2>7. [r EXCEPT !.text = b] = Obj(b, k, <<>>, <<>>, b, 0, 0, No, No)
    <3> HIDE DEF k
    <3> QED BY <1>6, SetText
  <2>8. q = TextAt(b, k)
    BY <2>5, <2>6, <2>7 DEF TextAt
  <2>9. NoLine(b, k)
    BY <2>2 DEF NoLine
  <2> QED BY <1>1, <1>2, <1>9, <2>8, <2>9
<1>10. CASE k >= Len(e)
  <2> DEFINE j == Len(e) - m
             n == Len(l) - m
  <2>1. m <= Len(l)
    <3>1. CASE m = Len(l) + 1
      <4>1. m \in 1 .. k /\ m <= Len(e) /\ e[m] = CR /\ m # 0
        BY <1>1, <1>2, <1>10, <3>1
      <4>2. b[m] = CR
        BY <1>8, <4>1
      <4> QED BY <4>1, <4>2 DEF NoLine
    <3>2. CASE m >= Len(l) + 2
      <4> DEFINE z == Len(l) + 2
      <4>1. z \in 1 .. k /\ z \in 1 .. m /\ z <= Len(e) /\ e[z] = LF
        BY <1>1, <1>2, <1>10, <3>2
      <4> HIDE DEF z
      <4>2. b[z] = LF
        BY <1>8, <4>1
      <4> QED BY <4>1, <4>2 DEF NoLine
    <3> QED BY <1>1, <1>2, <3>1, <3>2
  <2>2. /\ j \in 1 .. c /\ n \in Nat /\ j = n + 2 /\ j >= 2
        /\ j - 1 \in 1 .. c /\ m + n = Len(l) /\ m + j = Len(l) + 2
         /\ m + (j - 1) = Len(l) + 1 /\ n \in 0 .. (Len(b) - m) /\ j # 0 /\ j # 1 /\ j - 1 - 1 = n
    BY <1>1, <1>2, <1>10, <2>1
  <2>3. data[j] = LF /\ data[j - 1] = CR
    <3> DEFINE z == Len(l) + 2
               y == Len(l) + 1
    <3>1. z \in 1 .. k /\ z <= Len(e) /\ e[z] = LF /\ y \in 1 .. k /\ y <= Len(e) /\ e[y] = CR
      BY <1>1, <1>2, <1>10
    <3>2. data[j] = b[z] /\ data[j - 1] = b[y]
      BY <1>5, <2>2
    <3> HIDE DEF z, y
    <3> QED BY <1>8, <3>1, <3>2
  <2>4. ASSUME NEW x \in 1 .. (j - 1) PROVE data[x] # LF
    <3>1. /\ x \in 1 .. c /\ m + x \in 1 .. k /\ m + x <= Len(e)
          /\ (m + x \in 1 .. Len(l) \/ m + x = Len(l) + 1)
      BY <1>1, <1>2, <1>10, <2>1, <2>2
    <3>2. data[x] = b[m + x] /\ b[m + x] = e[m + x]
      BY <1>5, <1>8, <3>1
    <3>3. CR # LF
      BY DEF CR, LF
    <3>4. e[m + x] # LF
      <4> DEFINE z == m + x
      <4>1. z \in 1 .. Len(l) \/ z = Len(l) + 1
        BY <3>1
      <4>2. SUFFICES e[z] # LF
        OBVIOUS
      <4> HIDE DEF z
      <4> QED BY <1>2, <3>3, <4>1
    <3> QED BY <3>2, <3>4
  <2> HIDE DEF j, n, c
  <2>5. i = j
    <3>1. j \in 1 .. Len(data) /\ Len(data) \in Nat
      BY <1>1, <1>5, <2>2
    <3> QED BY <2>3, <2>4, <3>1, FirstLFIs DEF i
  <2>6. DelimBefore(data, i, before) /\ ~ DelimAfter(data, i, before)
    <3>1. DelimBefore(data, i, before)
      BY <2>2, <2>3, <2>5 DEF DelimBefore
    <3> QED BY <3>1 DEF DelimAfter
  <2>7. q = [r EXCEPT !.text = @ \o SubSeq(data, 1, i - 1 - 1),
                      !.rest = Len(data) - i - 0, !.done = TRUE]
    BY <1>7, <2>2, <2>5, <2>6
  <2>8. i - 1 - 1 = n
    BY <2>2, <2>5
  <2>9. t \o SubSeq(data, 1, n) = l
    <3>1. t \o SubSeq(data, 1, n) = SubSeq(b, 1, m + n)
      BY <2>2, FrontOfPiece DEF t, data
    <3>2. ASSUME NEW x \in 1 .. Len(l) PROVE b[x] = l[x]
      <4>1. x \in 1 .. k /\ x <= Len(e)
        BY <1>1, <1>2, <1>10
      <4> QED BY <1>2, <1>8, <4>1
    <3>3. Len(l) <= Len(b)
      BY <1>1, <1>2, <1>10
    <3>4. SubSeq(b, 1, Len(l)) = l
      BY <1>2, <3>2, <3>3, FrontSame
    <3> QED BY <2>2, <3>1, <3>4
  <2>10. Len(data) - i - 0 = k - Len(e)
    BY <1>1, <1>2, <1>5, <2>5 DEF j, c
  <2> DEFINE v == k - Len(e)
             r1 == [r EXCEPT !.text = l]
             r2 == [r1 EXCEPT !.rest = v]
  <2>11. q = [r2 EXCEPT !.done = Yes]
    <3> DEFINE u == SubSeq(data, 1, i - 1 - 1)
               v1 == Len(data) - i - 0
    <3>1. q = [r EXCEPT !.text = @ \o u, !.rest = v1, !.done = TRUE]
      BY <2>7
    <3>2. r.text \o u = l /\ v1 = v
      BY <1>6, <2>8, <2>9, <2>10
    <3> HIDE DEF u, v1, v, k
    <3> QED BY <3>1, <3>2 DEF Yes
  <2>12. r1 = Obj(b, k, <<>>, <<>>, l, 0, 0, No, No)
    <3> HIDE DEF k
    <3> QED BY <1>6, SetText
  <2>13. r2 = Obj(b, k, <<>>, <<>>, l, v, 0, No, No)
    <3> HIDE DEF k, r1, v
    <3> QED BY <2>12, SetRest
  <2>14. q = Obj(b, k, <<>>, <<>>, l, v, 0, Yes, No)
    <3> HIDE DEF k, r1, r2, v
    <3> QED BY <2>11, <2>13, SetDone
  <2> QED BY <1>1, <1>2, <1>10, <2>1, <2>14
<1> QED BY <1>1, <1>2, <1>9, <1>10

(* What remains behind a line. *)
LEMMA LineRest ==
  ASSUME NEW b \in Seq(Byte), NEW n \in Nat, n <= Len(b), NEW l,
         NEW q, q = Obj(b, Len(b), <<>>, <<>>, l, Len(b) - n, 0, Yes, No)
  PROVE  LineRemaining(q) = SubSeq(b, n + 1, Len(b))
<1>1. Len(b) \in Nat
  BY LenProperties
<1>2. q.buf = b /\ q.pos = Len(b) /\ q.rest = Len(b) - n
  BY Fields
<1>3. Len(b) - (Len(b) - n) = n
  BY <1>1
<1> QED BY <1>2, <1>3 DEF LineRemaining

-----------------------------------------------------------------------------
(* JSONProtocol *)

(* A JSONProtocol whose document d is complete. *)
JsonDone(b, d) == Obj(b, Len(b), <<>>, <<>>, d, 0, 0, Yes, No)
NoDocument(b, m) == \A i \in 1 .. m : b[i] # Close

(* What the stream finds in the first c bytes. *)
FoundIn(all, c, d) ==
  /\ JsonStart(all) = 1
  /\ c < Len(d) => JsonEnd(all) = 0
  /\ c = Len(d) => JsonEnd(all) = c /\ all = d

(* The stream finds a document exactly at its closing brace. *)
LEMMA JsonEndIs ==
  ASSUME NEW d \in Documents, NEW b \in Seq(Byte), Agrees(b, d), Len(b) <= Len(d),
         NEW c \in 1 .. Len(b), NEW all, all = SubSeq(b, 1, c)
  PROVE  FoundIn(all, c, d)
<1>1. /\ d \in Seq(Byte) /\ Len(d) \in Nat /\ Len(d) > 1 /\ d[1] = Open /\ d[Len(d)] = Close
      /\ \A i \in 1 .. (Len(d) - 1) : d[i] # Close
  BY DocumentBytes
<1>2. Len(b) \in Nat
  BY LenProperties
<1>3. c \in 0 .. Len(b) /\ c \in Nat /\ c >= 1 /\ c <= Len(d)
  BY <1>1, <1>2
<1>4. Fronted(b, c, Byte)
  BY <1>3, FrontPiece
<1>5. all \in Seq(Byte) /\ Len(all) = c /\ \A i \in 1 .. c : all[i] = b[i]
  BY <1>4 DEF Fronted
<1>6. DOMAIN all = 1 .. c
  BY <1>5, LenProperties
<1>7. \A i \in 1 .. c : all[i] = d[i]
  <2>1. \A i \in 1 .. c : i \in 1 .. Len(b) /\ i <= Len(d)
    BY <1>1, <1>2, <1>3
  <2> QED BY <1>5, <2>1 DEF Agrees
<1>8. JsonStart(all) = 1
  <2> DEFINE I == {i \in 1 .. Len(all) : all[i] = Open}
  <2>1. JsonStart(all) = IF I # {} THEN Min(I) ELSE 0
    BY DEF JsonStart, SelectInSeq
  <2>2. 1 \in 1 .. c
    BY <1>3
  <2>3. 1 \in I
    BY <1>1, <1>5, <1>7, <2>2
  <2>4. I \in SUBSET Nat /\ \A i \in I : 1 <= i
    BY <1>3, <1>5
  <2> HIDE DEF I
  <2>5. Min(I) = 1
    BY <2>3, <2>4, Smallest
  <2> QED BY <2>1, <2>3, <2>5
<1> DEFINE E == {i \in 1 .. c : i > 1 /\ all[i] = Close}
<1>9. JsonEnd(all) = IF E = {} THEN 0 ELSE Min(E)
  <2> DEFINE S == {i \in DOMAIN all : i > JsonStart(all) /\ all[i] = Close}
  <2>1. JsonEnd(all) = IF JsonStart(all) = 0 \/ S = {} THEN 0 ELSE Min(S)
    BY DEF JsonEnd
  <2>2. S = E
    BY <1>6, <1>8
  <2> HIDE DEF S, E
  <2> QED BY <1>8, <2>1, <2>2
<1>10. ASSUME c < Len(d) PROVE JsonEnd(all) = 0
  <2>1. \A i \in 1 .. c : i \in 1 .. (Len(d) - 1)
    BY <1>1, <1>3, <1>10
  <2>2. E = {}
    BY <1>1, <1>7, <2>1
  <2> QED BY <1>9, <2>2
<1>11. ASSUME c = Len(d) PROVE JsonEnd(all) = c /\ all = d
  <2>1. c \in 1 .. c /\ c > 1 /\ all[c] = Close
    BY <1>1, <1>3, <1>7, <1>11
  <2>2. c \in E /\ E \in SUBSET Nat
    BY <2>1
  <2>3. ASSUME NEW i \in E PROVE c <= i
    <3>1. i \in 1 .. c /\ d[i] = Close
      BY <1>7
    <3>2. i \notin 1 .. (Len(d) - 1)
      BY <1>1, <3>1
    <3> HIDE DEF E
    <3> QED BY <1>3, <1>11, <3>1, <3>2
  <2> HIDE DEF E
  <2>4. Min(E) = c
    BY <2>2, <2>3, Smallest
  <2>5. all = d
    BY <1>1, <1>5, <1>7, <1>11, SeqEqual
  <2> QED BY <1>9, <2>2, <2>4, <2>5
<1> QED BY <1>8, <1>10, <1>11 DEF FoundIn

(* A window on what remains. *)
LEMMA ReadWindow ==
  ASSUME NEW b \in Seq(Byte), NEW m \in 0 .. Len(b), NEW p, p.buf = b, p.pos = m
  PROVE  \E c \in m .. Len(b) :
           /\ c > m \/ m = Len(b)
           /\ Peek(p, StreamSize) = SubSeq(b, m + 1, c) /\ Len(Peek(p, StreamSize)) = c - m
           /\ AfterRead(p, StreamSize) = [p EXCEPT !.pos = c]
<1>1. Len(b) \in Nat /\ StreamSize \in Nat /\ StreamSize > 0
  BY LenProperties, WindowsAssumption
<1> DEFINE s == Clip(p, StreamSize)
           c == m + s
<1>2. s \in 0 .. (Len(b) - m) /\ (s = 0 => m = Len(b))
  BY <1>1 DEF Clip, RemainingSize
<1>3. Peek(p, StreamSize) = SubSeq(b, m + 1, c) /\ AfterRead(p, StreamSize) = [p EXCEPT !.pos = c]
  BY DEF Peek, AfterRead, Fastforward
<1> HIDE DEF s
<1>4. c \in m .. Len(b) /\ (c > m \/ m = Len(b)) /\ c \in Nat /\ m \in Nat /\ m <= c /\ c <= Len(b)
  BY <1>1, <1>2
<1> HIDE DEF c
<1>5. Taken(b, m, c, Byte)
  BY <1>4, Piece
<1>6. Len(SubSeq(b, m + 1, c)) = c - m
  BY <1>5 DEF Taken
<1> QED BY <1>3, <1>4, <1>6

(* A turn of the loop. *)
LEMMA JsonWindowAt ==
  ASSUME NEW d \in Documents, NEW b \in Seq(Byte), Agrees(b, d), Len(b) <= Len(d),
         NEW m \in 0 .. Len(b), m < Len(d)
  PROVE  \/ m = Len(b) /\ JsonWindow(TextAt(b, m)) = TextAt(b, m)
         \/ \E c \in 0 .. Len(b) : m < c /\ c < Len(d) /\ JsonWindow(TextAt(b, m)) = TextAt(b, c)
         \/ Len(b) = Len(d) /\ JsonWindow(TextAt(b, m)) = JsonDone(b, d)
<1> DEFINE p == TextAt(b, m)
           t == SubSeq(b, 1, m)
<1>1. Len(b) \in Nat /\ Len(d) \in Nat /\ d \in Seq(Byte)
  BY LenProperties, DocumentBytes
<1>2. p = Obj(b, m, <<>>, <<>>, t, 0, 0, No, No)
  BY DEF TextAt
<1> HIDE DEF p, t
<1>3. p.buf = b /\ p.pos = m /\ p.text = t /\ p.done = FALSE
  <2>1. p.done = No
    BY <1>2, Fields
  <2>2. p.buf = b /\ p.pos = m /\ p.text = t
    BY <1>2, Fields
  <2> QED BY <2>1, <2>2 DEF No
<1>4. PICK c \in m .. Len(b) :
        /\ c > m \/ m = Len(b)
        /\ Peek(p, StreamSize) = SubSeq(b, m + 1, c) /\ Len(Peek(p, StreamSize)) = c - m
        /\ AfterRead(p, StreamSize) = [p EXCEPT !.pos = c]
  BY <1>3, ReadWindow, SMTT(40)
<1> DEFINE data == Peek(p, StreamSize)
           all == t \o data
           r == [p EXCEPT !.pos = c]
<1>5. all = SubSeq(b, 1, c)
  <2>1. 1 \in 1 .. Len(b) + 1 /\ m \in 1 - 1 .. Len(b) /\ c \in m .. Len(b)
    BY <1>1
  <2>2. SubSeq(b, 1, m) \o SubSeq(b, m + 1, c) = SubSeq(b, 1, c)
    BY <2>1, ConcatAdjacentSubSeq
  <2> QED BY <1>4, <2>2 DEF t
<1>6. JsonWindow(p) = LET end == JsonEnd(all)
                          after == Len(all) - end
                      IN IF p.done \/ data = <<>> THEN p
                         ELSE IF end = 0 THEN [r EXCEPT !.text = all]
                         ELSE [Fastforward(p, Len(data) - after) EXCEPT
                                 !.text = SubSeq(all, JsonStart(all), end), !.rest = after, !.done = TRUE]
  <2> HIDE DEF r
  <2>1. AfterRead(p, StreamSize) = r
    BY <1>4 DEF r
  <2> QED BY <1>3, <2>1 DEF JsonWindow
<1>7. r = Obj(b, c, <<>>, <<>>, t, 0, 0, No, No)
  <2> HIDE DEF r
  <2> QED BY <1>2, SetPos DEF r
<1> HIDE DEF data, all, r
<1>8. CASE m = Len(b)
  <2>1. c = m
    BY <1>1, <1>8
  <2>2. data = <<>>
    <3>1. m \in Int /\ m + 1 \in Int /\ m < m + 1
      BY <1>1
    <3>2. SubSeq(b, m + 1, m) = <<>>
      BY <3>1, SubSeqEmpty
    <3> QED BY <1>4, <2>1, <3>2 DEF data
  <2> QED BY <1>6, <1>8, <2>2 DEF p
<1>9. CASE m # Len(b)
  <2>1. c > m /\ c \in 1 .. Len(b) /\ c \in 0 .. Len(b) /\ c \in Nat
    BY <1>1, <1>4, <1>9
  <2>2. Len(data) = c - m /\ data # <<>>
    <3>1. Len(data) = c - m
      BY <1>4 DEF data
    <3>2. Len(data) > 0
      BY <2>1, <3>1
    <3> QED BY <3>1, <3>2
  <2>3. /\ JsonStart(all) = 1
        /\ c < Len(d) => JsonEnd(all) = 0
        /\ c = Len(d) => JsonEnd(all) = c /\ all = d
    <3>1. FoundIn(all, c, d)
      BY <1>5, <2>1, JsonEndIs
    <3> QED BY <3>1 DEF FoundIn
  <2>4. CASE c < Len(d)
    <3>1. JsonWindow(p) = [r EXCEPT !.text = all]
      BY <1>3, <1>6, <2>2, <2>3, <2>4
    <3>2. [r EXCEPT !.text = all] = Obj(b, c, <<>>, <<>>, all, 0, 0, No, No)
      BY <1>7, SetText
    <3>3. JsonWindow(p) = TextAt(b, c)
      BY <1>5, <3>1, <3>2 DEF TextAt
    <3> QED BY <2>1, <2>4, <3>3 DEF p
  <2>5. CASE c = Len(d)
    <3>1. Len(b) = Len(d)
      BY <1>1, <2>1, <2>5
    <3>2. JsonEnd(all) = c /\ all = d /\ c # 0 /\ Len(all) = c /\ c - c = 0
      BY <2>1, <2>3, <2>5
    <3>3. JsonWindow(p) = [Fastforward(p, Len(data) - 0) EXCEPT
                             !.text = SubSeq(d, 1, Len(d)), !.rest = 0, !.done = TRUE]
      BY <1>3, <1>6, <2>2, <2>3, <2>5, <3>2
    <3>4. SubSeq(d, 1, Len(d)) = d
      BY <1>1, SubSeqFull
    <3>5. Fastforward(p, Len(data) - 0) = r
      <4>1. m + (Len(data) - 0) = c
        BY <1>1, <2>1, <2>2
      <4> QED BY <1>3, <4>1 DEF Fastforward, r
    <3> DEFINE r1 == [r EXCEPT !.text = d]
               r2 == [r1 EXCEPT !.rest = 0]
    <3>6. JsonWindow(p) = [r2 EXCEPT !.done = Yes]
      BY <3>3, <3>4, <3>5 DEF Yes
    <3>7. r1 = Obj(b, c, <<>>, <<>>, d, 0, 0, No, No)
      BY <1>7, SetText
    <3>8. r2 = Obj(b, c, <<>>, <<>>, d, 0, 0, No, No)
      <4> HIDE DEF r1
      <4> QED BY <3>7, SetRest
    <3>9. [r2 EXCEPT !.done = Yes] = Obj(b, c, <<>>, <<>>, d, 0, 0, Yes, No)
      <4> HIDE DEF r2
      <4> QED BY <3>8, SetDone
    <3>10. JsonWindow(p) = JsonDone(b, d)
      BY <2>5, <3>1, <3>6, <3>9 DEF JsonDone
    <3> QED BY <3>1, <3>10 DEF p
  <2> QED BY <1>1, <2>1, <2>4, <2>5
<1> QED BY <1>8, <1>9

(* processRead finds a document exactly when all of it is in the buffer. *)
LEMMA JsonParse ==
  ASSUME NEW d \in Documents, NEW b \in Seq(Byte), Agrees(b, d), NEW m \in 0 .. Len(b),
         NoDocument(b, m), NoDocument(b, Len(b) - 1), NEW q, q = JsonProcessRead(TextAt(b, m))
  PROVE  /\ Len(b) < Len(d) => q = TextAt(b, Len(b)) /\ NoDocument(b, Len(b))
         /\ Len(b) >= Len(d) => Len(b) = Len(d) /\ q = JsonDone(b, d)
<1> DEFINE N == Len(b)
           p == TextAt(b, m)
<1>1. N \in Nat
  BY LenProperties
<1>2. /\ d \in Seq(Byte) /\ Len(d) \in Nat /\ Len(d) > 1 /\ d[Len(d)] = Close
      /\ \A i \in 1 .. (Len(d) - 1) : d[i] # Close
  BY DocumentBytes
<1>3. m < Len(d) /\ N <= Len(d)
  <2>1. ASSUME N >= Len(d) PROVE b[Len(d)] = Close
    <3>1. Len(d) \in 1 .. N /\ Len(d) <= Len(d)
      BY <1>1, <1>2, <2>1
    <3> QED BY <1>2, <3>1 DEF Agrees
  <2>2. ASSUME m >= Len(d) PROVE FALSE
    <3>1. Len(d) \in 1 .. m /\ N >= Len(d)
      BY <1>1, <1>2, <2>2
    <3> QED BY <2>1, <3>1 DEF NoDocument
  <2>3. ASSUME N > Len(d) PROVE FALSE
    <3>1. Len(d) \in 1 .. (N - 1) /\ N >= Len(d)
      BY <1>1, <1>2, <2>3
    <3> QED BY <2>1, <3>1 DEF NoDocument
  <2> QED BY <1>1, <1>2, <2>2, <2>3
<1>4. q = Repeat(JsonWindow, p, N)
  <2>1. p.buf = b
    BY Fields DEF TextAt
  <2> HIDE DEF p
  <2>2. q = JsonProcessRead(p)
    BY DEF p
  <2> QED BY <2>1, <2>2 DEF JsonProcessRead
<1>5. PICK h : WindowLoop(h, p, N)
  <2> HIDE DEF p, N
  <2> QED BY <1>1, RepeatWindows
<1>6. h[0] = p /\ h[N] = q /\ \A k \in 0 .. (N - 1) : h[k + 1] = JsonWindow(h[k])
  <2> HIDE DEF p, N
  <2> QED BY <1>4, <1>5 DEF WindowLoop
<1> DEFINE Mid(j, s) == \E c \in 0 .. N : c < Len(d) /\ (c >= j \/ c = N) /\ s = TextAt(b, c)
           End(s) == N = Len(d) /\ s = JsonDone(b, d)
           I(j, s) == Mid(j, s) \/ End(s)
<1>7. I(0, h[0])
  BY <1>1, <1>3, <1>6
<1>8. ASSUME NEW j \in 0 .. (N - 1), I(j, h[j]) PROVE I(j + 1, h[j + 1])
  <2>1. h[j + 1] = JsonWindow(h[j])
    BY <1>6
  <2>2. CASE End(h[j])
    <3> DEFINE s == JsonDone(b, d)
    <3>0. s.done = Yes
      BY Fields DEF JsonDone
    <3>1. s.done = TRUE
      BY <3>0 DEF Yes
    <3> HIDE DEF s
    <3>2. JsonWindow(s) = s
      BY <3>1 DEF JsonWindow
    <3> QED BY <2>1, <2>2, <3>2 DEF s
  <2>3. CASE Mid(j, h[j])
    <3>1. PICK c \in 0 .. N : c < Len(d) /\ (c >= j \/ c = N) /\ h[j] = TextAt(b, c)
      BY <2>3
    <3>2. \/ c = N /\ JsonWindow(TextAt(b, c)) = TextAt(b, c)
          \/ \E x \in 0 .. N : c < x /\ x < Len(d) /\ JsonWindow(TextAt(b, c)) = TextAt(b, x)
          \/ N = Len(d) /\ JsonWindow(TextAt(b, c)) = JsonDone(b, d)
      BY <1>3, <3>1, JsonWindowAt
    <3>3. CASE c = N /\ JsonWindow(TextAt(b, c)) = TextAt(b, c)
      BY <2>1, <3>1, <3>3
    <3>4. CASE \E x \in 0 .. N : c < x /\ x < Len(d) /\ JsonWindow(TextAt(b, c)) = TextAt(b, x)
      <4>1. PICK x \in 0 .. N : c < x /\ x < Len(d) /\ JsonWindow(TextAt(b, c)) = TextAt(b, x)
        BY <3>4
      <4>2. x >= j + 1
        BY <1>1, <3>1, <4>1
      <4>3. h[j + 1] = TextAt(b, x)
        BY <2>1, <3>1, <4>1
      <4> QED BY <4>1, <4>2, <4>3
    <3>5. CASE N = Len(d) /\ JsonWindow(TextAt(b, c)) = JsonDone(b, d)
      BY <2>1, <3>1, <3>5
    <3> QED BY <3>2, <3>3, <3>4, <3>5
  <2> QED BY <1>8, <2>2, <2>3
<1>9. I(N, q)
  <2> HIDE DEF I, p
  <2> DEFINE M == {j \in Nat : I(j, h[j])}
  <2>1. 0 \in M
    BY <1>7
  <2>2. ASSUME NEW j \in 0 .. (N - 1), j \in M PROVE j + 1 \in M
    <3>1. j \in Nat /\ j + 1 \in Nat /\ I(j, h[j])
      BY <2>2
    <3> HIDE DEF N
    <3> QED BY <1>8, <3>1
  <2>3. N \in M
    <3> HIDE DEF M
    <3>1. \A j \in 0 .. N : j \in M
      BY <1>1, <2>1, <2>2, UpTo
    <3> QED BY <1>1, <3>1
  <2> QED BY <1>6, <2>3
<1>10. ASSUME N < Len(d) PROVE q = TextAt(b, N) /\ NoDocument(b, N)
  <2>1. PICK c \in 0 .. N : c >= N /\ q = TextAt(b, c)
    BY <1>1, <1>2, <1>9, <1>10
  <2>2. c = N
    BY <1>1, <2>1
  <2>3. ASSUME NEW i \in 1 .. N PROVE b[i] # Close
    <3>1. i \in 1 .. (Len(d) - 1) /\ i <= Len(d)
      BY <1>1, <1>2, <1>10
    <3> QED BY <1>2, <3>1 DEF Agrees
  <2> QED BY <2>1, <2>2, <2>3 DEF NoDocument
<1>11. ASSUME N >= Len(d) PROVE N = Len(d) /\ q = JsonDone(b, d)
  <2>1. N = Len(d)
    BY <1>1, <1>2, <1>3, <1>11
  <2>2. ~ Mid(N, q)
    BY <1>1, <2>1
  <2> QED BY <1>9, <2>1, <2>2
<1> QED BY <1>10, <1>11

(* Nothing remains behind a document. *)
LEMMA JsonRest ==
  ASSUME NEW b \in Seq(Byte), NEW d, NEW q, q = JsonDone(b, d)
  PROVE  JsonRemaining(q) = SubSeq(b, Len(b) + 1, Len(b))
<1>1. Len(b) \in Nat
  BY LenProperties
<1>2. q.buf = b /\ q.pos = Len(b) /\ q.rest = 0
  BY Fields DEF JsonDone
<1>3. Len(b) - 0 = Len(b)
  BY <1>1
<1> QED BY <1>2, <1>3 DEF JsonRemaining

-----------------------------------------------------------------------------
(* All kinds *)

(* A protocol object that is waiting for more of its packet. *)
Clean(kd, p) ==
  CASE kd \in {"frame", "list"} -> \E m \in 0 .. 4 : 2 * m <= Len(p.buf) /\ p = FrameAt(p.buf, m)
    [] kd = "line" -> \E m \in 0 .. Len(p.buf) : p = TextAt(p.buf, m) /\ NoLine(p.buf, m)
    [] kd = "json" -> \E m \in 0 .. Len(p.buf) : p = TextAt(p.buf, m) /\ NoDocument(p.buf, m)

(* What its buffer holds ends at a good place. *)
Fit(kd, p) ==
  CASE kd \in {"frame", "list"} -> Untorn(p.buf)
    [] kd = "line" -> p.buf[Len(p.buf)] # CR /\ Len(p.buf) - p.pos <= LineBuffer
    [] kd = "json" -> NoDocument(p.buf, Len(p.buf) - 1)

(* A waiting object is not done, and its read position is in the buffer. *)
LEMMA CleanFields ==
  ASSUME NEW kd \in Kinds, NEW p, Clean(kd, p), Len(p.buf) \in Nat
  PROVE  p.done = FALSE /\ p.threw = FALSE /\ p.pos \in 0 .. Len(p.buf)
<1> DEFINE b == p.buf
<1>1. CASE kd \in {"frame", "list"}
  <2>1. PICK m \in 0 .. 4 : 2 * m <= Len(b) /\ p = FrameAt(b, m)
    BY <1>1 DEF Clean
  <2>2. p.pos = 2 * m /\ p.done = No /\ p.threw = No
    <3> HIDE DEF b
    <3> QED BY <2>1, Fields DEF FrameAt
  <2>3. 2 * m \in 0 .. Len(b)
    BY <2>1
  <2> QED BY <2>2, <2>3 DEF No
<1>2. CASE kd \in {"line", "json"}
  <2>1. PICK m \in 0 .. Len(b) : p = TextAt(b, m)
    BY <1>2 DEF Clean
  <2>2. p.pos = m /\ p.done = No /\ p.threw = No
    <3> HIDE DEF b
    <3> QED BY <2>1, Fields DEF TextAt
  <2> QED BY <2>2 DEF No
<1> QED BY <1>1, <1>2 DEF Kinds

(* A new object waits. *)
LEMMA NewClean ==
  ASSUME NEW kd \in Kinds
  PROVE  Clean(kd, NewProtocol) /\ NewProtocol.buf = <<>> /\ NewProtocol.pos = 0
<1> DEFINE p == NewProtocol
           b == p.buf
<1>1. b = <<>> /\ p.pos = 0
  BY DEF NewProtocol
<1>2. WordsOf(b, 0) = <<>> /\ SubSeq(b, 1, 0) = <<>>
  <2>1. WordsOf(b, 0) = <<>>
    BY DEF WordsOf
  <2>2. SubSeq(b, 1, 0) = <<>>
    BY SubSeqEmpty
  <2> QED BY <2>1, <2>2
<1>3. p = FrameAt(b, 0) /\ p = TextAt(b, 0)
  <2>1. 2 * 0 = 0
    OBVIOUS
  <2>2. p = Obj(b, 0, <<>>, <<>>, <<>>, 0, 0, No, No)
    BY <1>1, NewObject
  <2> HIDE DEF p, b
  <2> QED BY <1>2, <2>1, <2>2 DEF FrameAt, TextAt
<1>4. Len(b) = 0 /\ 0 \in 0 .. 4 /\ 0 \in 0 .. 0 /\ 2 * 0 <= 0
  BY <1>1
<1> HIDE DEF p
<1>5. NoLine(b, 0) /\ NoDocument(b, 0)
  BY DEF NoLine, NoDocument
<1>6. Clean(kd, p)
  <2>1. CASE kd \in {"frame", "list"}
    BY <1>3, <1>4, <2>1 DEF Clean
  <2>2. CASE kd = "line"
    BY <1>3, <1>4, <1>5, <2>2 DEF Clean
  <2>3. CASE kd = "json"
    BY <1>3, <1>4, <1>5, <2>3 DEF Clean
  <2> QED BY <2>1, <2>2, <2>3 DEF Kinds
<1> QED BY <1>1, <1>6 DEF p

(* addToReadingBuffer leaves it waiting. *)
LEMMA AddClean ==
  ASSUME NEW kd \in Kinds, NEW p, p.buf \in Seq(Byte), Clean(kd, p), NEW data \in Seq(Byte),
         NEW q, q = AddToReadingBuffer(p, data)
  PROVE  Clean(kd, q) /\ q.buf = p.buf \o data /\ q.pos = p.pos
<1> DEFINE a == p.buf
           b == a \o data
<1>1. Joined(a, data, Byte)
  BY Parts
<1>2. b \in Seq(Byte) /\ Len(b) = Len(a) + Len(data) /\ Len(a) \in Nat /\ Len(data) \in Nat
      /\ \A i \in 1 .. Len(a) : b[i] = a[i]
  BY <1>1 DEF Joined
<1>3. q = [p EXCEPT !.buf = @ \o data]
  BY DEF AddToReadingBuffer
<1>4. CASE kd \in {"frame", "list"}
  <2>1. PICK m \in 0 .. 4 : 2 * m <= Len(a) /\ p = FrameAt(a, m)
    BY <1>4 DEF Clean
  <2> DEFINE w == WordsOf(a, m)
             x == 2 * m
  <2>2. p = Obj(a, x, w, <<>>, <<>>, 0, 0, No, No)
    BY <2>1 DEF FrameAt
  <2>3. WordsOf(b, m) = w
    <3>1. ASSUME NEW j \in 1 .. m PROVE WordOf(b, j) = WordOf(a, j)
      <4>1. 2 * j - 1 \in 1 .. Len(a) /\ 2 * j \in 1 .. Len(a)
        BY <1>2, <2>1
      <4> HIDE DEF a, b
      <4> QED BY <1>2, <4>1 DEF WordOf
    <3> HIDE DEF a, b
    <3> QED BY <3>1 DEF WordsOf
  <2> HIDE DEF w, x, a, b
  <2>4. q = Obj(b, x, w, <<>>, <<>>, 0, 0, No, No)
    <3>1. q = [p EXCEPT !.buf = b]
      BY <1>3 DEF a, b
    <3> QED BY <2>2, <3>1, SetBuf
  <2>5. q.buf = b /\ q.pos = x /\ p.pos = x
    BY <2>2, <2>4, Fields
  <2>6. q = FrameAt(b, m) /\ 2 * m <= Len(b)
    BY <1>2, <2>1, <2>3, <2>4 DEF FrameAt, x
  <2>7. Clean(kd, q)
    BY <1>4, <2>5, <2>6 DEF Clean
  <2> QED BY <2>5, <2>7 DEF a, b
<1>5. CASE kd \in {"line", "json"}
  <2>1. PICK m \in 0 .. Len(a) : /\ p = TextAt(a, m)
                                 /\ kd = "line" => NoLine(a, m)
                                 /\ kd = "json" => NoDocument(a, m)
    BY <1>5 DEF Clean
  <2> DEFINE t == SubSeq(a, 1, m)
  <2>2. p = Obj(a, m, <<>>, <<>>, t, 0, 0, No, No)
    BY <2>1 DEF TextAt
  <2>0. /\ m \in Nat /\ m \in 0 .. Len(b) /\ (m # 0 => m \in 1 .. Len(a))
        /\ \A i \in 1 .. m : i \in 1 .. Len(a)
    BY <1>2
  <2>3. SubSeq(b, 1, m) = t
    <3>1. Fronted(a, m, Byte)
      BY <1>2, FrontPiece
    <3>2. Fronted(b, m, Byte)
      BY <1>2, <2>0, FrontPiece
    <3> DEFINE u == SubSeq(b, 1, m)
    <3>3. t \in Seq(Byte) /\ Len(t) = m /\ \A i \in 1 .. m : t[i] = a[i]
      BY <3>1 DEF Fronted
    <3>4. u \in Seq(Byte) /\ Len(u) = m /\ \A i \in 1 .. m : u[i] = b[i]
      BY <3>2 DEF Fronted
    <3> HIDE DEF t, u, a, b
    <3>5. \A i \in 1 .. Len(u) : u[i] = t[i]
      BY <1>2, <2>0, <3>3, <3>4
    <3>6. u = t
      BY <3>3, <3>4, <3>5, SeqEqual
    <3> QED BY <3>6 DEF u
  <2> HIDE DEF t, a, b
  <2>4. q = Obj(b, m, <<>>, <<>>, t, 0, 0, No, No)
    <3>1. q = [p EXCEPT !.buf = b]
      BY <1>3 DEF a, b
    <3> QED BY <2>2, <3>1, SetBuf
  <2>5. q.buf = b /\ q.pos = m /\ p.pos = m
    BY <2>2, <2>4, Fields
  <2>6. q = TextAt(b, m)
    BY <2>3, <2>4 DEF TextAt
  <2>7. (kd = "line" => NoLine(b, m)) /\ (kd = "json" => NoDocument(b, m))
    BY <1>2, <2>0, <2>1 DEF NoLine, NoDocument
  <2>8. Clean(kd, q)
    BY <1>5, <2>0, <2>5, <2>6, <2>7 DEF Clean
  <2> QED BY <2>5, <2>8 DEF a, b
<1> QED BY <1>4, <1>5 DEF Kinds

(* A new object with some bytes. *)
LEMMA NewWith ==
  ASSUME NEW kd \in Kinds, NEW s \in Seq(Byte), NEW c, c = AddToReadingBuffer(NewProtocol, s)
  PROVE  Clean(kd, c) /\ c.buf = s /\ c.pos = 0
<1> DEFINE o == NewProtocol
<1>1. Clean(kd, o) /\ o.buf = <<>> /\ o.pos = 0
  BY NewClean
<1>2. o.buf \o s = s
  BY <1>1, ConcatEmptySeq
<1>3. o.buf \in Seq(Byte) /\ Clean(kd, o)
  BY <1>1
<1>4. c = AddToReadingBuffer(o, s)
  OBVIOUS
<1> HIDE DEF o
<1>5. Clean(kd, c) /\ c.buf = o.buf \o s /\ c.pos = o.pos
  BY <1>3, <1>4, AddClean
<1> QED BY <1>1, <1>2, <1>5

(* A LineProtocol and a JSONProtocol take all that there is. *)
Drained(kd, p) == kd \in {"line", "json"} => p.pos = Len(p.buf)

(* processReadFromReadingBuffer and onReceivedProtocol, for one packet. *)
Parsed(kd, p, q, h, e, pkt) ==
  /\ q.threw = FALSE
  /\ Len(p.buf) < Len(e) => q.done = FALSE /\ q.buf = p.buf /\ Clean(kd, q) /\ Drained(kd, q)
  /\ Len(p.buf) >= Len(e) => /\ q.done = TRUE /\ h.done = TRUE /\ h.buf = p.buf
                             /\ h.pos \in 0 .. Len(p.buf) /\ Delivered(h) = pkt
                             /\ Remaining(h) = SubSeq(p.buf, Len(e) + 1, Len(p.buf))
                             /\ kd = "line" => p.pos <= Len(e)

(* For a frame, *)
LEMMA ParseFrame ==
  ASSUME kind = "frame", NEW pkt \in Frames, NEW p, p.buf \in Seq(Byte),
         Agrees(p.buf, Enc(kind, pkt)), Clean(kind, p), Fit(kind, p), NEW before,
         NEW q, q = ProcessRead(p, before), NEW h, h = Handled(q)
  PROVE  Parsed(kind, p, q, h, Enc(kind, pkt), pkt)
<1> DEFINE e == Enc(kind, pkt)
           b == p.buf
           cmd == pkt[1]
           payload == pkt[2]
<1>1. /\ cmd \in 0 .. MaxWord /\ payload \in Seq(Byte)
      /\ 8 + Len(payload) <= MaxWord /\ pkt = <<cmd, payload>>
  BY PacketsAssumption DEF HeaderWords, WordSize
<1>2. e = Frame(cmd, payload)
  BY DEF Enc
<1>3. Untorn(b)
  BY DEF Fit
<1>4. PICK m \in 0 .. 4 : 2 * m <= Len(b) /\ p = FrameAt(b, m)
  BY DEF Clean
<1>5. q = FrameProcessRead(p) /\ h = q
  BY DEF ProcessRead, Handled
<1>6. Len(e) \in Nat /\ Len(b) \in Nat /\ Len(e) >= 8
  <2> HIDE DEF cmd, payload
  <2>1. Len(e) = 8 + Len(payload) /\ Len(payload) \in Nat
    BY <1>1, <1>2, FrameBytes
  <2> QED BY <2>1, LenProperties
<1> HIDE DEF e, b, cmd, payload
<1>7. Agrees(b, e) /\ b \in Seq(Byte)
  BY DEF e, b
<1>8. /\ Len(b) < Len(e) => \E n \in 0 .. 4 : 2 * n <= Len(b) /\ q = FrameAt(b, n)
      /\ Len(b) >= Len(e) => q = FrameDone(b) /\ WordOf(b, 1) = cmd /\ WordOf(b, 4) = Len(e)
  BY <1>1, <1>2, <1>3, <1>4, <1>5, <1>7, FrameParse
<1>9. CASE Len(b) < Len(e)
  <2>1. PICK n \in 0 .. 4 : 2 * n <= Len(b) /\ q = FrameAt(b, n)
    BY <1>8, <1>9
  <2>2. q.buf = b /\ q.done = No /\ q.threw = No
    BY <2>1, Fields DEF FrameAt
  <2>3. Clean(kind, q)
    BY <2>1, <2>2 DEF Clean
  <2>4. Drained(kind, q)
    BY DEF Drained
  <2> QED BY <1>6, <1>9, <2>2, <2>3, <2>4 DEF Parsed, No, e, b
<1>10. CASE Len(b) >= Len(e)
  <2>1. q = FrameDone(b) /\ WordOf(b, 1) = cmd /\ WordOf(b, 4) = Len(e)
    BY <1>8, <1>10
  <2>2. q.buf = b /\ q.pos = 8 /\ q.done = Yes /\ q.threw = No
    BY <2>1, Fields DEF FrameDone
  <2>3. /\ q.words[1] = cmd /\ FramePayload(q) = payload
        /\ FrameRemaining(q) = SubSeq(b, Len(e) + 1, Len(b))
    BY <1>1, <1>2, <1>7, <1>10, <2>1, FrameParts
  <2>4. Delivered(q) = pkt /\ Remaining(q) = SubSeq(b, Len(e) + 1, Len(b))
    BY <1>1, <2>3 DEF Delivered, Remaining
  <2>5. 8 \in 0 .. Len(b)
    BY <1>6, <1>10
  <2> QED BY <1>5, <1>6, <1>10, <2>2, <2>4, <2>5 DEF Parsed, Yes, No, e, b
<1> QED BY <1>6, <1>9, <1>10

(* a list in a frame, *)
LEMMA ParseList ==
  ASSUME kind = "list", NEW pkt \in Lists, NEW p, p.buf \in Seq(Byte),
         Agrees(p.buf, Enc(kind, pkt)), Clean(kind, p), Fit(kind, p), NEW before,
         NEW q, q = ProcessRead(p, before), NEW h, h = Handled(q)
  PROVE  Parsed(kind, p, q, h, Enc(kind, pkt), pkt)
<1> DEFINE e == Enc(kind, pkt)
           b == p.buf
           cmd == 5
           payload == String32List(pkt)
<1>1. cmd \in 0 .. MaxWord /\ payload \in Seq(Byte) /\ 8 + Len(payload) <= MaxWord
  BY ListFits DEF MaxWord
<1>2. e = Frame(cmd, payload)
  BY DEF Enc
<1>0. e = Frame(5, String32List(pkt))
  BY DEF Enc
<1>3. Untorn(b)
  BY DEF Fit
<1>4. PICK m \in 0 .. 4 : 2 * m <= Len(b) /\ p = FrameAt(b, m)
  BY DEF Clean
<1>5. q = FrameProcessRead(p) /\ h = ListProcessRead(q)
  BY DEF ProcessRead, Handled
<1> HIDE DEF e, b, cmd, payload
<1>6. Len(e) \in Nat /\ Len(b) \in Nat /\ Len(e) >= 8
  <2>1. Len(e) = 8 + Len(payload) /\ Len(payload) \in Nat
    BY <1>1, <1>2, FrameBytes
  <2> QED BY <2>1, LenProperties DEF b
<1>7. Agrees(b, e) /\ b \in Seq(Byte)
  BY DEF e, b
<1>8. /\ Len(b) < Len(e) => \E n \in 0 .. 4 : 2 * n <= Len(b) /\ q = FrameAt(b, n)
      /\ Len(b) >= Len(e) => q = FrameDone(b) /\ WordOf(b, 1) = cmd /\ WordOf(b, 4) = Len(e)
  BY <1>1, <1>2, <1>3, <1>4, <1>5, <1>7, FrameParse, SMTT(40)
<1>9. CASE Len(b) < Len(e)
  <2>1. PICK n \in 0 .. 4 : 2 * n <= Len(b) /\ q = FrameAt(b, n)
    BY <1>8, <1>9
  <2>2. q.buf = b /\ q.done = No /\ q.threw = No
    BY <2>1, Fields DEF FrameAt
  <2>3. Clean(kind, q)
    BY <2>1, <2>2 DEF Clean
  <2>4. Drained(kind, q)
    BY DEF Drained
  <2> QED BY <1>6, <1>9, <2>2, <2>3, <2>4 DEF Parsed, No, e, b
<1>10. CASE Len(b) >= Len(e)
  <2>1. q = FrameDone(b) /\ WordOf(b, 4) = Len(e)
    BY <1>8, <1>10
  <2>2. q.done = Yes /\ q.threw = No
    BY <2>1, Fields DEF FrameDone
  <2>3. /\ h = Obj(b, Len(e), WordsOf(b, 4), pkt, <<>>, Len(pkt), 8, Yes, No)
        /\ FrameRemaining(h) = SubSeq(b, Len(e) + 1, Len(b))
    BY <1>0, <1>5, <1>7, <1>10, <2>1, ListParse
  <2>4. h.buf = b /\ h.pos = Len(e) /\ h.items = pkt /\ h.done = Yes
    BY <2>3, Fields
  <2>5. Delivered(h) = pkt /\ Remaining(h) = SubSeq(b, Len(e) + 1, Len(b))
    BY <2>3, <2>4 DEF Delivered, Remaining
  <2>6. Len(e) \in 0 .. Len(b)
    BY <1>6, <1>10
  <2> QED BY <1>6, <1>10, <2>2, <2>4, <2>5, <2>6 DEF Parsed, Yes, No, e, b
<1> QED BY <1>6, <1>9, <1>10

(* a line, *)
LEMMA ParseLine ==
  ASSUME kind = "line", NEW pkt \in Lines, NEW p, p.buf \in Seq(Byte), Len(p.buf) > 0,
         Agrees(p.buf, Enc(kind, pkt)), Clean(kind, p), Fit(kind, p), NEW before,
         NEW q, q = ProcessRead(p, before), NEW h, h = Handled(q)
  PROVE  Parsed(kind, p, q, h, Enc(kind, pkt), pkt)
<1> DEFINE e == Enc(kind, pkt)
           b == p.buf
<1>1. e = Line(pkt)
  BY DEF Enc
<1>2. PICK m \in 0 .. Len(b) : p = TextAt(b, m) /\ NoLine(b, m)
  BY DEF Clean
<1>3. q = LineProcessRead(p, before) /\ h = q
  BY DEF ProcessRead, Handled
<1>4. b[Len(b)] # CR /\ Len(b) - p.pos <= LineBuffer
  BY DEF Fit
<1> HIDE DEF e, b
<1>5. Len(e) \in Nat /\ Len(b) \in Nat
  <2>1. Len(e) = Len(pkt) + 2 /\ Len(pkt) \in Nat
    BY <1>1, LineBytes
  <2> QED BY <2>1, LenProperties DEF b
<1>6. Agrees(b, e) /\ b \in Seq(Byte) /\ Len(b) > 0
  BY DEF e, b
<1>7. p.pos = m
  BY <1>2, Fields DEF TextAt
<1>8. /\ Len(b) < Len(e) => q = TextAt(b, Len(b)) /\ NoLine(b, Len(b))
      /\ Len(b) >= Len(e) => /\ m <= Len(e)
                             /\ q = Obj(b, Len(b), <<>>, <<>>, pkt, Len(b) - Len(e), 0, Yes, No)
  BY <1>1, <1>2, <1>3, <1>4, <1>6, <1>7, LineParse
<1>9. CASE Len(b) < Len(e)
  <2>1. q = TextAt(b, Len(b)) /\ NoLine(b, Len(b))
    BY <1>8, <1>9
  <2>2. q.buf = b /\ q.pos = Len(b) /\ q.done = No /\ q.threw = No
    BY <2>1, Fields DEF TextAt
  <2>3. Len(b) \in 0 .. Len(b)
    BY <1>5
  <2>4. Clean(kind, q)
    BY <2>1, <2>2, <2>3 DEF Clean
  <2>5. Drained(kind, q)
    BY <2>2 DEF Drained
  <2> QED BY <1>5, <1>9, <2>2, <2>4, <2>5 DEF Parsed, No, e, b
<1>10. CASE Len(b) >= Len(e)
  <2> DEFINE x == Len(b)
             r == Len(b) - Len(e)
  <2>1. m <= Len(e) /\ q = Obj(b, x, <<>>, <<>>, pkt, r, 0, Yes, No)
    BY <1>8, <1>10
  <2>2. LineRemaining(q) = SubSeq(b, Len(e) + 1, Len(b))
    BY <1>5, <1>6, <1>10, <2>1, LineRest
  <2> HIDE DEF x, r
  <2>3. q.buf = b /\ q.pos = x /\ q.text = pkt /\ q.done = Yes /\ q.threw = No
    BY <2>1, Fields
  <2>4. Delivered(q) = pkt /\ Remaining(q) = SubSeq(b, Len(e) + 1, Len(b))
    BY <2>2, <2>3 DEF Delivered, Remaining
  <2>5. x \in 0 .. Len(b)
    BY <1>5 DEF x
  <2>6. q.done = TRUE /\ q.threw = FALSE /\ q.pos \in 0 .. Len(b) /\ p.pos <= Len(e)
    BY <1>7, <2>1, <2>3, <2>5 DEF Yes, No
  <2>7. /\ h.done = TRUE /\ h.buf = b /\ h.pos \in 0 .. Len(b) /\ Delivered(h) = pkt
        /\ Remaining(h) = SubSeq(b, Len(e) + 1, Len(b))
    BY <1>3, <2>3, <2>4, <2>6
  <2>8. ~ (Len(b) < Len(e))
    BY <1>5, <1>10
  <2> HIDE DEF x, r
  <2> QED BY <1>10, <2>6, <2>7, <2>8, Zenon DEF Parsed, e, b
<1> QED BY <1>5, <1>9, <1>10

(* a document, *)
LEMMA ParseJson ==
  ASSUME kind = "json", NEW pkt \in Documents, NEW p, p.buf \in Seq(Byte),
         Agrees(p.buf, Enc(kind, pkt)), Clean(kind, p), Fit(kind, p), NEW before,
         NEW q, q = ProcessRead(p, before), NEW h, h = Handled(q)
  PROVE  Parsed(kind, p, q, h, Enc(kind, pkt), pkt)
<1> DEFINE e == Enc(kind, pkt)
           b == p.buf
<1>1. e = pkt
  BY DEF Enc
<1>2. PICK m \in 0 .. Len(b) : p = TextAt(b, m) /\ NoDocument(b, m)
  BY DEF Clean
<1>3. q = JsonProcessRead(p) /\ h = q
  BY DEF ProcessRead, Handled
<1>4. NoDocument(b, Len(b) - 1)
  BY DEF Fit
<1> HIDE DEF e, b
<1>5. Len(e) \in Nat /\ Len(b) \in Nat
  <2>1. Len(pkt) \in Nat
    BY DocumentBytes
  <2> QED BY <1>1, <2>1, LenProperties DEF b
<1>6. Agrees(b, pkt) /\ b \in Seq(Byte)
  BY <1>1 DEF e, b
<1>7. /\ Len(b) < Len(e) => q = TextAt(b, Len(b)) /\ NoDocument(b, Len(b))
      /\ Len(b) >= Len(e) => Len(b) = Len(e) /\ q = JsonDone(b, pkt)
  BY <1>1, <1>2, <1>3, <1>4, <1>6, JsonParse
<1>8. CASE Len(b) < Len(e)
  <2>1. q = TextAt(b, Len(b)) /\ NoDocument(b, Len(b))
    BY <1>7, <1>8
  <2>2. q.buf = b /\ q.pos = Len(b) /\ q.done = No /\ q.threw = No
    BY <2>1, Fields DEF TextAt
  <2>3. Len(b) \in 0 .. Len(b)
    BY <1>5
  <2>4. Clean(kind, q)
    BY <2>1, <2>2, <2>3 DEF Clean
  <2>5. Drained(kind, q)
    BY <2>2 DEF Drained
  <2> QED BY <1>5, <1>8, <2>2, <2>4, <2>5 DEF Parsed, No, e, b
<1>9. CASE Len(b) >= Len(e)
  <2>1. Len(b) = Len(e) /\ q = JsonDone(b, pkt)
    BY <1>7, <1>9
  <2>2. JsonRemaining(q) = SubSeq(b, Len(e) + 1, Len(b))
    BY <1>6, <2>1, JsonRest
  <2>3. q.buf = b /\ q.pos = Len(b) /\ q.text = pkt /\ q.done = Yes /\ q.threw = No
    BY <2>1, Fields DEF JsonDone
  <2>4. Delivered(q) = pkt /\ Remaining(q) = SubSeq(b, Len(e) + 1, Len(b))
    BY <2>2, <2>3 DEF Delivered, Remaining
  <2>5. Len(b) \in 0 .. Len(b)
    BY <1>5
  <2> QED BY <1>3, <1>5, <1>9, <2>3, <2>4, <2>5 DEF Parsed, Yes, No, e, b
<1> QED BY <1>5, <1>8, <1>9

(* and so for a packet of any kind. *)
LEMMA ParseOne ==
  ASSUME kind \in Kinds, NEW pkt \in PacketsOf(kind), NEW p, p.buf \in Seq(Byte), Len(p.buf) > 0,
         Agrees(p.buf, Enc(kind, pkt)), Clean(kind, p), Fit(kind, p), NEW before,
         NEW q, q = ProcessRead(p, before), NEW h, h = Handled(q)
  PROVE  Parsed(kind, p, q, h, Enc(kind, pkt), pkt)
<1>1. CASE kind = "frame"
  <2>1. pkt \in Frames
    BY <1>1 DEF PacketsOf
  <2> QED BY <1>1, <2>1, ParseFrame
<1>2. CASE kind = "list"
  <2>1. pkt \in Lists
    BY <1>2 DEF PacketsOf
  <2> QED BY <1>2, <2>1, ParseList
<1>3. CASE kind = "line"
  <2>1. pkt \in Lines
    BY <1>3 DEF PacketsOf
  <2> QED BY <1>3, <2>1, ParseLine
<1>4. CASE kind = "json"
  <2>1. pkt \in Documents
    BY <1>4 DEF PacketsOf
  <2> QED BY <1>4, <2>1, ParseJson
<1> QED BY <1>1, <1>2, <1>3, <1>4 DEF Kinds

-----------------------------------------------------------------------------
(* The loop of onSocket_ReadEvent *)

(* A read has taken the stream as far as "at", and the object c holds what  *)
(* follows the packets delivered.                                           *)
Held(kd, d, at, c, got) ==
  /\ Len(got) \in 0 .. Len(d) /\ got = SubSeq(d, 1, Len(got))
  /\ c.buf \in Seq(Byte) /\ Offset(kd, d, Len(got)) + Len(c.buf) = at
  /\ \A i \in 1 .. Len(c.buf) : c.buf[i] = Upto(kd, d, Len(d))[Offset(kd, d, Len(got)) + i]
  /\ Clean(kd, c)

(* The read ends at a good place. *)
Cut(d, at, p) ==
  CASE kind \in {"frame", "list"} ->
         \A k \in 0 .. Len(d) - 1 : at \in Offset(kind, d, k) .. Offset(kind, d, k) + 8
                                      => (at - Offset(kind, d, k)) % 2 = 0
    [] kind = "line" -> p.buf[Len(p.buf)] # CR /\ Len(p.buf) - p.pos <= LineBuffer
    [] kind = "json" -> NoDocument(p.buf, Len(p.buf) - 1)

(* Before a turn of the loop, and after its end. *)
Ready(d, at, p, got) == Held(kind, d, at, p, got) /\ Len(p.buf) > 0 /\ Cut(d, at, p)

Kept(p) == IF p.done THEN NewProtocol ELSE p
Partial(kd, d, c, got) == Len(got) < Len(d) => Len(c.buf) < Len(Enc(kd, d[Len(got) + 1]))
Settled(kd, d, at, p, got) ==
  /\ Held(kd, d, at, Kept(p), got) /\ Partial(kd, d, Kept(p), got) /\ Drained(kd, Kept(p))
  /\ p.buf \in Seq(Byte) /\ p.pos \in 0 .. Len(p.buf) /\ p.done \in BOOLEAN

(* The record of the loop, and assignments to its fields. *)
Run(p, g, br, en) == [protocol |-> p, got |-> g, broken |-> br, ended |-> en]

(* The fields of the record. *)
LEMMA RunFields ==
  ASSUME NEW p, NEW g, NEW br, NEW en, NEW r, r = Run(p, g, br, en)
  PROVE  r.protocol = p /\ r.got = g /\ r.broken = br /\ r.ended = en
BY DEF Run

(* Assignments to protocol, *)
LEMMA RunProtocol ==
  ASSUME NEW p, NEW g, NEW br, NEW en, NEW r, r = Run(p, g, br, en), NEW v
  PROVE  [r EXCEPT !.protocol = v] = Run(v, g, br, en)
BY DEF Run

(* to ended, *)
LEMMA RunEnded ==
  ASSUME NEW p, NEW g, NEW br, NEW en, NEW r, r = Run(p, g, br, en), NEW v
  PROVE  [r EXCEPT !.ended = v] = Run(p, g, br, v)
BY DEF Run

(* to got, *)
LEMMA RunGot ==
  ASSUME NEW p, NEW g, NEW br, NEW en, NEW r, r = Run(p, g, br, en), NEW v
  PROVE  [r EXCEPT !.got = v] = Run(p, v, br, en)
BY DEF Run

(* and to broken. *)
LEMMA RunBroken ==
  ASSUME NEW p, NEW g, NEW br, NEW en, NEW r, r = Run(p, g, br, en), NEW v
  PROVE  [r EXCEPT !.broken = v] = Run(p, g, v, en)
BY DEF Run

(* The bytes that a ready object holds start with the next packet. *)
LEMMA NextPacket ==
  ASSUME kind \in Kinds, NEW d \in Seq(PacketsOf(kind)), NEW at \in Nat, at <= Offset(kind, d, Len(d)),
         NEW p, NEW got, Held(kind, d, at, p, got), Len(p.buf) > 0
  PROVE  /\ Len(got) \in Nat /\ Len(got) + 1 \in 1 .. Len(d) /\ d[Len(got) + 1] \in PacketsOf(kind)
         /\ Agrees(p.buf, Enc(kind, d[Len(got) + 1]))
<1> DEFINE n == Len(d)
           k == Len(got)
           off == Offset(kind, d, k)
           b == p.buf
           nb == Len(b)
           u == Upto(kind, d, n)
<1>0. Layout(kind, d)
  BY LaidOut
<1>1. /\ k \in 0 .. n /\ b \in Seq(Byte) /\ off + nb = at
      /\ \A i \in 1 .. nb : b[i] = u[off + i]
  BY DEF Held
<1>2. nb \in Nat /\ nb > 0 /\ n \in Nat
  BY <1>1, LenProperties
<1>3. off \in Nat
  BY <1>0, <1>1 DEF Layout
<1>4. k # n
  <2>1. SUFFICES ASSUME k = n PROVE FALSE
    OBVIOUS
  <2>2. off = Offset(kind, d, n)
    BY <2>1
  <2> HIDE DEF off, nb, n, k
  <2> QED BY <1>1, <1>2, <1>3, <2>2 DEF n
<1>5. k + 1 \in 1 .. n /\ k \in Nat
  <2> HIDE DEF k, n
  <2> QED BY <1>1, <1>2, <1>4
<1> DEFINE e == Enc(kind, d[k + 1])
<1>6. d[k + 1] \in PacketsOf(kind) /\ \A i \in 1 .. Len(e) : u[off + i] = e[i]
  <2>1. (k + 1) - 1 = k
    BY <1>5
  <2>2. /\ d[k + 1] \in PacketsOf(kind)
        /\ \A i \in 1 .. Len(e) : u[Offset(kind, d, (k + 1) - 1) + i] = e[i]
    BY <1>0, <1>5 DEF Layout
  <2> QED BY <2>1, <2>2
<1>7. Len(e) \in Nat
  BY <1>6, EncBytes
<1>8. Agrees(b, e)
  <2>1. ASSUME NEW i \in 1 .. nb, i <= Len(e) PROVE b[i] = e[i]
    <3>1. i \in 1 .. Len(e)
      BY <1>2, <1>7, <2>1
    <3> HIDE DEF e, u, off, nb, b, n, k
    <3> QED BY <1>1, <1>6, <3>1
  <2> QED BY <2>1 DEF Agrees
<1> QED BY <1>5, <1>6, <1>8

(* A good place for the stream is one for the object. *)
LEMMA CutFit ==
  ASSUME kind \in Kinds, NEW d \in Seq(PacketsOf(kind)), NEW at \in Nat, at <= Offset(kind, d, Len(d)),
         NEW p, NEW got, Ready(d, at, p, got)
  PROVE  Fit(kind, p)
<1>0. Held(kind, d, at, p, got) /\ Len(p.buf) > 0 /\ Cut(d, at, p)
  BY DEF Ready
<1>1. CASE kind \in {"frame", "list"}
  <2> DEFINE k == Len(got)
             off == Offset(kind, d, k)
             nb == Len(p.buf)
  <2>1. k \in Nat /\ k + 1 \in 1 .. Len(d)
    BY <1>0, NextPacket
  <2>2. off + nb = at /\ p.buf \in Seq(Byte)
    BY <1>0 DEF Held
  <2>3. nb \in Nat /\ Len(d) \in Nat
    BY <2>2, LenProperties
  <2>4. k \in 0 .. Len(d) /\ k \in 0 .. Len(d) - 1
    BY <2>1, <2>3
  <2>5. off \in Nat
    BY <2>4, LaidOut DEF Layout
  <2>6. at \in off .. off + 8 => (at - off) % 2 = 0
    BY <1>0, <1>1, <2>4 DEF Cut
  <2>7. at - off = nb /\ (nb <= 8 => at \in off .. off + 8)
    <3> HIDE DEF off, nb
    <3> QED BY <2>2, <2>3, <2>5
  <2>8. nb <= 8 => nb % 2 = 0
    <3> HIDE DEF off, nb
    <3> QED BY <2>6, <2>7
  <2> QED BY <1>1, <2>8 DEF Fit, Untorn
<1>2. CASE kind \in {"line", "json"}
  BY <1>0, <1>2 DEF Cut, Fit
<1> QED BY <1>1, <1>2 DEF Kinds

(* What follows a packet goes on to end at a good place. *)
LEMMA CutRest ==
  ASSUME kind \in Kinds, NEW d, NEW at, NEW p, p.buf \in Seq(Byte), Cut(d, at, p),
         NEW n \in Nat, n < Len(p.buf), kind = "line" => p.pos <= n,
         p.pos \in 0 .. Len(p.buf),
         NEW c, c.pos = 0, c.buf = SubSeq(p.buf, n + 1, Len(p.buf))
  PROVE  Cut(d, at, c)
<1> DEFINE b == p.buf
           nb == Len(b)
           s == SubSeq(b, n + 1, nb)
<1>1. nb \in Nat /\ n <= nb
  BY LenProperties
<1>2. Len(s) = nb - n /\ \A i \in 1 .. (nb - n) : s[i] = b[n + i]
  <2>1. Taken(b, n, nb, Byte)
    BY <1>1, Piece
  <2> QED BY <2>1 DEF Taken
<1>3. c.buf = s /\ n < nb /\ p.pos \in Int
  OBVIOUS
<1>4. CASE kind \in {"frame", "list"}
  BY <1>4 DEF Cut
<1>5. CASE kind = "line"
  <2>1. b[nb] # CR /\ nb - p.pos <= LineBuffer /\ p.pos <= n
    BY <1>5 DEF Cut
  <2> HIDE DEF b, nb, s
  <2>2. nb - n \in 1 .. (nb - n) /\ n + (nb - n) = nb
    BY <1>1, <1>3
  <2>3. s[Len(s)] # CR
    BY <1>2, <2>1, <2>2
  <2>4. Len(s) - 0 <= LineBuffer
    BY <1>1, <1>2, <1>3, <2>1, WindowsAssumption
  <2> QED BY <1>3, <1>5, <2>3, <2>4 DEF Cut
<1>6. CASE kind = "json"
  <2>1. NoDocument(b, nb - 1)
    BY <1>6 DEF Cut
  <2> HIDE DEF b, nb, s
  <2>2. NoDocument(s, Len(s) - 1)
    <3>1. ASSUME NEW i \in 1 .. (Len(s) - 1) PROVE s[i] # Close
      <4>1. i \in 1 .. (nb - n) /\ n + i \in 1 .. (nb - 1)
        BY <1>1, <1>2
      <4> QED BY <1>2, <2>1, <4>1 DEF NoDocument
    <3> QED BY <3>1 DEF NoDocument
  <2> QED BY <1>3, <1>6, <2>2 DEF Cut
<1> QED BY <1>4, <1>5, <1>6 DEF Kinds

(* A turn that finds no whole packet ends the loop. *)
LEMMA TurnShort ==
  ASSUME kind \in Kinds, NEW d \in Seq(PacketsOf(kind)), NEW at \in Nat, at <= Offset(kind, d, Len(d)),
         NEW p, NEW got, Ready(d, at, p, got), NEW before, NEW q, q = ProcessRead(p, before),
         Len(p.buf) < Len(Enc(kind, d[Len(got) + 1]))
  PROVE  ReadTurn(Run(p, got, No, No), before) = Run(q, got, No, Yes) /\ Settled(kind, d, at, q, got)
<1> DEFINE k == Len(got)
           pkt == d[k + 1]
           e == Enc(kind, pkt)
           h == Handled(q)
           r == Run(p, got, No, No)
<1>0. Held(kind, d, at, p, got) /\ Len(p.buf) > 0
  BY DEF Ready
<1>1. k \in Nat /\ k + 1 \in 1 .. Len(d) /\ pkt \in PacketsOf(kind) /\ Agrees(p.buf, e)
  BY <1>0, NextPacket
<1>2. Fit(kind, p)
  BY CutFit
<1>3. p.buf \in Seq(Byte) /\ Clean(kind, p)
  BY <1>0 DEF Held
<1>4. Parsed(kind, p, q, h, e, pkt)
  BY <1>0, <1>1, <1>2, <1>3, ParseOne
<1>5. q.threw = FALSE /\ q.done = FALSE /\ q.buf = p.buf /\ Clean(kind, q) /\ Drained(kind, q)
  BY <1>4 DEF Parsed
<1>6. ReadTurn(r, before) = Run(q, got, No, Yes)
  <2> HIDE DEF r
  <2>1. r.protocol = p /\ r.ended = No
    BY RunFields DEF r
  <2>2. ~ r.ended /\ (q.threw \/ ~ q.done) /\ q = ProcessRead(r.protocol, before)
    BY <1>5, <2>1 DEF No
  <2>3. ReadTurn(r, before) = [r EXCEPT !.protocol = q, !.broken = q.threw, !.ended = TRUE]
    BY <2>2 DEF ReadTurn
  <2>4. ReadTurn(r, before) = [r EXCEPT !.protocol = q, !.broken = No, !.ended = Yes]
    BY <1>5, <2>3 DEF No, Yes
  <2>5. r = Run(p, got, No, No)
    BY DEF r
  <2> DEFINE r1 == [r EXCEPT !.protocol = q]
             r2 == [r1 EXCEPT !.broken = No]
  <2>6. ReadTurn(r, before) = [r2 EXCEPT !.ended = Yes]
    BY <2>4
  <2>7. r1 = Run(q, got, No, No)
    BY <2>5, RunProtocol
  <2>8. r2 = Run(q, got, No, No)
    <3> HIDE DEF r1
    <3> QED BY <2>7, RunBroken
  <2> HIDE DEF r2
  <2> QED BY <2>6, <2>8, RunEnded
<1>7. Kept(q) = q
  BY <1>5 DEF Kept
<1>8. Held(kind, d, at, q, got)
  BY <1>0, <1>5 DEF Held
<1>9. Partial(kind, d, q, got)
  BY <1>5 DEF Partial
<1>10. q.pos \in 0 .. Len(q.buf)
  <2>1. Len(q.buf) \in Nat
    BY <1>3, <1>5, LenProperties
  <2> QED BY <1>5, <2>1, CleanFields
<1>11. Settled(kind, d, at, q, got)
  BY <1>3, <1>5, <1>7, <1>8, <1>9, <1>10 DEF Settled
<1> QED BY <1>6, <1>11

(* A turn that finds one delivers it, and ends the loop or leaves less. *)
Proceeds(d, at, p, r2) ==
  \/ \E p2, g2 : r2 = Run(p2, g2, No, Yes) /\ Settled(kind, d, at, p2, g2)
  \/ \E p2, g2 : r2 = Run(p2, g2, No, No) /\ Ready(d, at, p2, g2) /\ Len(p2.buf) < Len(p.buf)

(* A turn with a whole packet in the buffer. *)
LEMMA TurnWhole ==
  ASSUME kind \in Kinds, NEW d \in Seq(PacketsOf(kind)), NEW at \in Nat, at <= Offset(kind, d, Len(d)),
         NEW p, NEW got, Ready(d, at, p, got), NEW before, NEW q, q = ProcessRead(p, before),
         Len(p.buf) >= Len(Enc(kind, d[Len(got) + 1]))
  PROVE  Proceeds(d, at, p, ReadTurn(Run(p, got, No, No), before))
<1> DEFINE k == Len(got)
           pkt == d[k + 1]
           e == Enc(kind, pkt)
           h == Handled(q)
           r == Run(p, got, No, No)
           b == p.buf
           nb == Len(b)
           ne == Len(e)
           s == SubSeq(b, ne + 1, nb)
           g2 == Append(got, pkt)
           off == Offset(kind, d, k)
           off2 == Offset(kind, d, k + 1)
           u == Upto(kind, d, Len(d))
<1>0. Held(kind, d, at, p, got) /\ nb > 0 /\ Cut(d, at, p)
  BY DEF Ready
<1>1. k \in Nat /\ k + 1 \in 1 .. Len(d) /\ pkt \in PacketsOf(kind) /\ Agrees(b, e)
  BY <1>0, NextPacket
<1>2. Fit(kind, p)
  BY CutFit
<1>3. /\ k \in 0 .. Len(d) /\ b \in Seq(Byte) /\ Clean(kind, p) /\ got = SubSeq(d, 1, k)
      /\ off + nb = at /\ \A i \in 1 .. nb : b[i] = u[off + i]
  BY <1>0 DEF Held
<1>4. Parsed(kind, p, q, h, e, pkt)
  BY <1>0, <1>1, <1>2, <1>3, ParseOne
<1>5. nb \in Nat /\ ne \in Nat /\ ne > 0 /\ ne <= nb /\ Len(d) \in Nat
  BY <1>1, <1>3, EncBytes, LenProperties
<1>6. /\ q.threw = FALSE /\ q.done = TRUE /\ h.done = TRUE /\ h.buf = b /\ h.pos \in 0 .. nb
      /\ Delivered(h) = pkt /\ Remaining(h) = s /\ (kind = "line" => p.pos <= ne)
  <2>1. nb >= ne
    BY <1>5
  <2> QED BY <1>4, <2>1 DEF Parsed
<1>7. s \in Seq(Byte) /\ Len(s) = nb - ne /\ \A i \in 1 .. (nb - ne) : s[i] = b[ne + i]
  <2>1. Taken(b, ne, nb, Byte)
    BY <1>3, <1>5, Piece
  <2> QED BY <2>1 DEF Taken
<1>8. off \in Nat /\ off2 = off + ne /\ (k + 1 = Len(d) => off2 = Offset(kind, d, Len(d)))
  <2>1. Layout(kind, d)
    BY LaidOut
  <2>2. (k + 1) - 1 = k
    BY <1>1
  <2>3. off2 = Offset(kind, d, (k + 1) - 1) + ne
    BY <1>1, <2>1 DEF Layout
  <2>4. off \in Nat
    BY <1>3, <2>1 DEF Layout
  <2> QED BY <2>2, <2>3, <2>4
<1>9. g2 = SubSeq(d, 1, k + 1) /\ Len(g2) = k + 1 /\ k + 1 \in 0 .. Len(d)
  <2>1. (k + 1) - 1 = k /\ k + 1 \in 0 .. Len(d)
    BY <1>1, <1>5
  <2>2. Append(SubSeq(d, 1, (k + 1) - 1), d[k + 1]) = SubSeq(d, 1, k + 1)
    BY <1>1, OneFurther
  <2>3. Fronted(d, k + 1, PacketsOf(kind))
    BY <2>1, FrontPiece
  <2> QED BY <1>3, <2>1, <2>2, <2>3 DEF Fronted
<1> DEFINE out == Run(h, g2, No, No)
<1>10. r.protocol = p /\ r.got = got /\ ~ r.ended /\ q = ProcessRead(r.protocol, before)
  <2>1. r.protocol = p /\ r.got = got /\ r.ended = No
    <3> HIDE DEF r
    <3> QED BY RunFields DEF r
  <2> HIDE DEF r
  <2> QED BY <2>1 DEF No
<1>11. [r EXCEPT !.protocol = h, !.got = Append(@, Delivered(h))] = out
  <2>1. [r EXCEPT !.protocol = h, !.got = g2] = out
    <3> HIDE DEF g2, h, r
    <3>1. r = Run(p, got, No, No)
      BY DEF r
    <3> DEFINE r1 == [r EXCEPT !.protocol = h]
    <3>2. r1 = Run(h, got, No, No)
      BY <3>1, RunProtocol
    <3>3. [r EXCEPT !.protocol = h, !.got = g2] = [r1 EXCEPT !.got = g2]
      OBVIOUS
    <3> HIDE DEF r1
    <3>4. [r1 EXCEPT !.got = g2] = out
      BY <3>2, RunGot
    <3> QED BY <3>3, <3>4
  <2>2. Append(r.got, Delivered(h)) = g2
    <3> HIDE DEF r
    <3> QED BY <1>6, <1>10
  <2> HIDE DEF r, g2, out, h
  <2> QED BY <2>1, <2>2
<1>12. CASE s = <<>>
  <2>1. ne = nb
    <3>1. Len(s) = 0
      <4> HIDE DEF s
      <4> QED BY <1>12
    <3> HIDE DEF s, nb, ne
    <3> QED BY <1>5, <1>7, <3>1
  <2>2. ReadTurn(r, before) = [out EXCEPT !.ended = TRUE]
    <3> HIDE DEF r, out, s
    <3> QED BY <1>6, <1>10, <1>11, <1>12 DEF ReadTurn
  <2>3. ReadTurn(r, before) = Run(h, g2, No, Yes)
    <3>1. ReadTurn(r, before) = [out EXCEPT !.ended = Yes]
      BY <2>2 DEF Yes
    <3> HIDE DEF r, h, g2
    <3> QED BY <3>1, RunEnded
  <2>4. Kept(h) = NewProtocol /\ NewProtocol.buf = <<>> /\ Clean(kind, NewProtocol)
    <3>1. Kept(h) = NewProtocol
      <4> HIDE DEF h
      <4> QED BY <1>6 DEF Kept
    <3> QED BY <3>1, NewClean
  <2> DEFINE c == NewProtocol
  <2>5. Len(c.buf) = 0 /\ c.buf \in Seq(Byte) /\ off2 + 0 = at
    <3>1. off2 + 0 = at
      <4> HIDE DEF off, off2, ne, nb
      <4> QED BY <1>3, <1>5, <1>8, <2>1
    <3> QED BY <2>4, <3>1
  <2> HIDE DEF c
  <2>6. Held(kind, d, at, c, g2)
    <3>1. Clean(kind, c)
      BY <2>4 DEF c
    <3>2. \A i \in 1 .. Len(c.buf) : c.buf[i] = u[off2 + i]
      BY <2>5
    <3> HIDE DEF g2
    <3> QED BY <1>9, <2>5, <3>1, <3>2 DEF Held
  <2>7. Partial(kind, d, c, g2)
    <3>1. ASSUME k + 1 < Len(d) PROVE 0 < Len(Enc(kind, d[k + 1 + 1]))
      <4>1. k + 1 + 1 \in 1 .. Len(d)
        BY <1>1, <1>5, <3>1
      <4>2. d[k + 1 + 1] \in PacketsOf(kind)
        BY <4>1, ElementOfSeq
      <4>3. Len(Enc(kind, d[k + 1 + 1])) \in Nat /\ Len(Enc(kind, d[k + 1 + 1])) > 0
        BY <4>2, EncBytes
      <4> QED BY <4>3
    <3> HIDE DEF g2
    <3> QED BY <1>9, <2>5, <3>1 DEF Partial
  <2>8. Settled(kind, d, at, h, g2)
    <3>1. Drained(kind, c)
      <4>1. c.pos = 0
        BY NewClean DEF c
      <4> QED BY <2>5, <4>1 DEF Drained
    <3> HIDE DEF h, g2
    <3> QED BY <1>3, <1>6, <2>4, <2>6, <2>7, <3>1 DEF Settled, c
  <2> HIDE DEF h, g2, r
  <2> QED BY <2>3, <2>8 DEF Proceeds, r
<1>13. CASE s # <<>>
  <2>1. ne < nb
    <3>1. Len(s) # 0
      <4> HIDE DEF s
      <4> QED BY <1>7, <1>13, EmptySeq
    <3> HIDE DEF s, nb, ne
    <3> QED BY <1>5, <1>7, <3>1
  <2>2. s # b
    <3>1. Len(s) # Len(b)
      <4> HIDE DEF s, ne
      <4> QED BY <1>5, <1>7
    <3> QED BY <3>1
  <2> DEFINE c == AddToReadingBuffer(NewProtocol, s)
  <2>3. ReadTurn(r, before) = [out EXCEPT !.protocol = c]
    <3> HIDE DEF r, out, s, c
    <3> QED BY <1>6, <1>10, <1>11, <1>13, <2>2 DEF ReadTurn, c
  <2>4. ReadTurn(r, before) = Run(c, g2, No, No)
    <3> HIDE DEF r, h, g2, c
    <3> QED BY <2>3, RunProtocol
  <2>5. c.buf = s /\ c.pos = 0 /\ Clean(kind, c)
    <3>1. c = AddToReadingBuffer(NewProtocol, s)
      OBVIOUS
    <3> HIDE DEF s, c
    <3> QED BY <1>7, <3>1, NewWith
  <2> HIDE DEF c
  <2>6. off2 + Len(s) = at
    <3> HIDE DEF off, off2, ne, nb, s
    <3> QED BY <1>3, <1>5, <1>7, <1>8, <2>1
  <2>7. \A i \in 1 .. Len(s) : s[i] = u[off2 + i]
    <3>1. ASSUME NEW i \in 1 .. Len(s) PROVE s[i] = u[off2 + i]
      <4>1. i \in 1 .. (nb - ne) /\ ne + i \in 1 .. nb /\ off + (ne + i) = off2 + i
        <5> HIDE DEF off, off2, ne, nb, s
        <5> QED BY <1>5, <1>7, <1>8, <2>1
      <4>2. s[i] = b[ne + i] /\ b[ne + i] = u[off + (ne + i)]
        <5> HIDE DEF off, off2, ne, nb, s, u, b
        <5> QED BY <1>3, <1>7, <4>1
      <4> QED BY <4>1, <4>2
    <3> QED BY <3>1
  <2>8. Held(kind, d, at, c, g2)
    <3> HIDE DEF g2, s
    <3> QED BY <1>7, <1>9, <2>5, <2>6, <2>7 DEF Held
  <2>9. p.pos \in 0 .. nb
    BY <1>3, <1>5, CleanFields
  <2>10. Cut(d, at, c)
    <3> HIDE DEF ne
    <3> QED BY <1>0, <1>3, <1>5, <1>6, <2>1, <2>5, <2>9, CutRest
  <2>11. Len(c.buf) > 0 /\ Len(c.buf) < Len(p.buf)
    <3> HIDE DEF s, ne
    <3> QED BY <1>5, <1>7, <2>1, <2>5
  <2>12. Ready(d, at, c, g2)
    BY <2>8, <2>10, <2>11 DEF Ready
  <2> HIDE DEF g2, r
  <2> QED BY <2>4, <2>11, <2>12 DEF Proceeds, r
<1> QED BY <1>12, <1>13

(* The loop ends: every turn that goes on leaves fewer bytes. *)
Loops(d, at, r, left) ==
  \/ \E p2, g2 : r = Run(p2, g2, No, Yes) /\ Settled(kind, d, at, p2, g2)
  \/ \E p2, g2 : r = Run(p2, g2, No, No) /\ Ready(d, at, p2, g2) /\ Len(p2.buf) <= left

(* A turn, whatever the buffer holds. *)
LEMMA TurnStep ==
  ASSUME kind \in Kinds, NEW d \in Seq(PacketsOf(kind)), NEW at \in Nat, at <= Offset(kind, d, Len(d)),
         NEW r, NEW left \in Nat, Loops(d, at, r, left), NEW before
  PROVE  Loops(d, at, ReadTurn(r, before), left - 1)
<1>1. CASE \E p2, g2 : r = Run(p2, g2, No, Yes) /\ Settled(kind, d, at, p2, g2)
  <2>1. PICK p2, g2 : r = Run(p2, g2, No, Yes) /\ Settled(kind, d, at, p2, g2)
    BY <1>1
  <2>2. r.ended
    <3>1. r.ended = Yes
      BY <2>1, RunFields
    <3> QED BY <3>1 DEF Yes
  <2>3. ReadTurn(r, before) = r
    BY <2>2 DEF ReadTurn
  <2> QED BY <2>1, <2>3 DEF Loops
<1>2. CASE \E p2, g2 : r = Run(p2, g2, No, No) /\ Ready(d, at, p2, g2) /\ Len(p2.buf) <= left
  <2>1. PICK p, got : r = Run(p, got, No, No) /\ Ready(d, at, p, got) /\ Len(p.buf) <= left
    BY <1>2
  <2> DEFINE e == Enc(kind, d[Len(got) + 1])
             q == ProcessRead(p, before)
             r2 == ReadTurn(r, before)
  <2>2. Held(kind, d, at, p, got) /\ Len(p.buf) > 0
    BY <2>1 DEF Ready
  <2>3. Len(p.buf) \in Nat /\ Len(e) \in Nat
    <3>1. p.buf \in Seq(Byte)
      BY <2>2 DEF Held
    <3>2. d[Len(got) + 1] \in PacketsOf(kind)
      BY <2>2, NextPacket
    <3> QED BY <3>1, <3>2, EncBytes, LenProperties
  <2>4. CASE Len(p.buf) < Len(e)
    <3>1. r2 = Run(q, got, No, Yes) /\ Settled(kind, d, at, q, got)
      <4> HIDE DEF q
      <4> QED BY <2>1, <2>4, TurnShort DEF q
    <3> HIDE DEF q
    <3> QED BY <3>1 DEF Loops
  <2>5. CASE Len(p.buf) >= Len(e)
    <3>1. Proceeds(d, at, p, ReadTurn(Run(p, got, No, No), before))
      <4> HIDE DEF q
      <4> QED BY <2>1, <2>5, TurnWhole DEF q
    <3>2. Proceeds(d, at, p, r2)
      BY <2>1, <3>1
    <3>3. CASE \E p2, g2 : r2 = Run(p2, g2, No, Yes) /\ Settled(kind, d, at, p2, g2)
      BY <3>3 DEF Loops
    <3>4. CASE \E p2, g2 : r2 = Run(p2, g2, No, No) /\ Ready(d, at, p2, g2) /\ Len(p2.buf) < Len(p.buf)
      <4>1. PICK p2, g2 : r2 = Run(p2, g2, No, No) /\ Ready(d, at, p2, g2) /\ Len(p2.buf) < Len(p.buf)
        BY <3>4
      <4>2. Len(p2.buf) \in Nat
        <5>1. p2.buf \in Seq(Byte)
          BY <4>1 DEF Ready, Held
        <5> QED BY <5>1, LenProperties
      <4>3. Len(p2.buf) <= left - 1
        BY <2>1, <2>3, <4>1, <4>2
      <4> HIDE DEF r2
      <4> QED BY <4>1, <4>3 DEF Loops, r2
    <3> HIDE DEF r2
    <3> QED BY <3>2, <3>3, <3>4 DEF Proceeds
  <2> HIDE DEF e
  <2> QED BY <2>3, <2>4, <2>5
<1> QED BY <1>1, <1>2 DEF Loops

(* After as many turns as there were bytes the loop has ended, with less than a packet left. *)
LEMMA LoopSettles ==
  ASSUME kind \in Kinds, NEW d \in Seq(PacketsOf(kind)), NEW at \in Nat, at <= Offset(kind, d, Len(d)),
         NEW p, NEW got, Ready(d, at, p, got), NEW before
  PROVE  \E p2, g2 : ReadLoop(p, got, before) = Run(p2, g2, No, Yes) /\ Settled(kind, d, at, p2, g2)
<1> DEFINE n == Len(p.buf)
           x == Begin(p, got)
<1>1. n \in Nat
  <2>1. p.buf \in Seq(Byte)
    BY DEF Ready, Held
  <2> QED BY <2>1, LenProperties
<1>2. ReadLoop(p, got, before) = Repeat(LAMBDA r : ReadTurn(r, before), x, n)
  BY DEF ReadLoop
<1> HIDE DEF n, x
<1>3. PICK h : TurnLoop(h, x, n, before)
  BY <1>1, RepeatReads
<1>4. h[0] = x /\ \A k \in 0 .. (n - 1) : h[k + 1] = ReadTurn(h[k], before)
  BY <1>3 DEF TurnLoop
<1>5. h[n] = ReadLoop(p, got, before)
  BY <1>2, <1>3 DEF TurnLoop
<1> DEFINE Good(k) == Loops(d, at, h[k], n - k)
           S == {k \in Nat : Good(k)}
<1>6. Good(0)
  <2>1. x = Run(p, got, No, No)
    BY DEF x, Begin, Run, No
  <2>2. Len(p.buf) <= n - 0
    BY <1>1 DEF n
  <2> QED BY <1>4, <2>1, <2>2 DEF Loops
<1>7. ASSUME NEW k \in 0 .. (n - 1), Good(k) PROVE Good(k + 1)
  <2>1. n - k \in Nat /\ (n - k) - 1 = n - (k + 1)
    BY <1>1
  <2>2. h[k + 1] = ReadTurn(h[k], before)
    BY <1>4
  <2>3. Loops(d, at, ReadTurn(h[k], before), (n - k) - 1)
    BY <1>7, <2>1, TurnStep
  <2> QED BY <2>1, <2>2, <2>3
<1>8. Good(n)
  <2> HIDE DEF Good
  <2>1. 0 \in S
    BY <1>6
  <2>2. \A k \in 0 .. (n - 1) : k \in S => k + 1 \in S
    BY <1>7
  <2>3. n \in 0 .. n
    BY <1>1
  <2> HIDE DEF S
  <2>4. n \in S
    BY <1>1, <2>1, <2>2, <2>3, UpTo
  <2> QED BY <2>4 DEF S
<1>9. ASSUME NEW p2, NEW g2, Ready(d, at, p2, g2), Len(p2.buf) <= n - n PROVE FALSE
  <2>1. p2.buf \in Seq(Byte) /\ Len(p2.buf) > 0
    BY <1>9 DEF Ready, Held
  <2>2. Len(p2.buf) \in Nat
    BY <2>1, LenProperties
  <2> QED BY <1>1, <1>9, <2>1, <2>2
<1> QED BY <1>5, <1>8, <1>9 DEF Loops

-----------------------------------------------------------------------------
(* The invariant *)

(* A stream: the wire w is the end of what was written, and the object      *)
(* holds what lies between the packets delivered and the wire.              *)
Streaming(kd, d, w, p, got) ==
  /\ w \in Seq(Byte) /\ Len(w) <= Offset(kd, d, Len(d))
  /\ \A i \in 1 .. Len(w) : w[i] = Upto(kd, d, Len(d))[Offset(kd, d, Len(d)) - Len(w) + i]
  /\ Settled(kd, d, Offset(kd, d, Len(d)) - Len(w), p, got)

(* Datagrams: one for every packet that is due, and no object waits. *)
Sending(kd, d, w, p, got) ==
  /\ w \in Seq(Seq(Byte)) /\ Len(got) \in Nat /\ Len(got) + Len(w) = Len(d)
  /\ got = SubSeq(d, 1, Len(got))
  /\ \A i \in 1 .. Len(w) : w[i] = Enc(kd, d[Len(got) + i])
  /\ Kept(p) = NewProtocol
  /\ p.buf \in Seq(Byte) /\ p.pos \in 0 .. Len(p.buf) /\ p.done \in BOOLEAN

Inv ==
  /\ <<kind, transport>> \in Channels
  /\ due \in Seq(PacketsOf(kind)) /\ Len(due) <= MaxPackets
  /\ broken = FALSE
  /\ transport = "stream" => Streaming(kind, due, wire, protocol, received)
  /\ transport = "datagram" => Sending(kind, due, wire, protocol, received)

(* The reads end at good places, and a datagram of a line fits into the     *)
(* buffer that LineProtocol fills once.                                     *)
Orderly ==
  /\ ~ AnyCut
  /\ <<"line", "datagram">> \in Channels => \A l \in Lines : Len(l) + 2 <= LineBuffer

(* The names of the two modules. *)
LEMMA SameNames ==
  ASSUME due \in Seq(PacketsOf(kind))
  PROVE  /\ Packets = PacketsOf(kind) /\ \A pkt : Encode(pkt) = Enc(kind, pkt)
         /\ Written = Upto(kind, due, Len(due))
         /\ Starts = {Offset(kind, due, k) : k \in 0 .. Len(due) - 1}
<1>1. Packets = PacketsOf(kind)
  BY DEF Packets, PacketsOf
<1>2. ASSUME NEW pkt PROVE Encode(pkt) = Enc(kind, pkt)
  BY DEF Encode, Enc
<1>3. DOMAIN due = 1 .. Len(due)
  BY LenProperties
<1>4. ASSUME NEW k PROVE FlattenSeq([i \in 1 .. k |-> Encode(due[i])]) = Upto(kind, due, k)
  <2>1. [i \in 1 .. k |-> Encode(due[i])] = [i \in 1 .. k |-> Enc(kind, due[i])]
    BY <1>2
  <2> QED BY <2>1 DEF Upto
<1>5. Written = Upto(kind, due, Len(due))
  BY <1>3, <1>4 DEF Written
<1>6. \A k : Len(FlattenSeq([i \in 1 .. k |-> Encode(due[i])])) = Offset(kind, due, k)
  BY <1>4 DEF Offset
<1>7. Starts = {Offset(kind, due, k) : k \in 0 .. Len(due) - 1}
  BY <1>6 DEF Starts
<1> QED BY <1>1, <1>2, <1>5, <1>7

(* Sequences that start alike. *)
LEMMA SameFront ==
  ASSUME NEW T, NEW s \in Seq(T), NEW t \in Seq(T), NEW k \in 0 .. Len(s), k \in 0 .. Len(t),
         \A i \in 1 .. k : s[i] = t[i]
  PROVE  SubSeq(s, 1, k) = SubSeq(t, 1, k)
<1> DEFINE a == SubSeq(s, 1, k)
           b == SubSeq(t, 1, k)
<1>1. Fronted(s, k, T) /\ Fronted(t, k, T)
  BY FrontPiece
<1>2. /\ a \in Seq(T) /\ Len(a) = k /\ \A i \in 1 .. k : a[i] = s[i]
      /\ b \in Seq(T) /\ Len(b) = k /\ \A i \in 1 .. k : b[i] = t[i]
  BY <1>1 DEF Fronted
<1> HIDE DEF a, b
<1>3. \A i \in 1 .. Len(a) : a[i] = b[i]
  BY <1>2
<1>4. a = b
  BY <1>2, <1>3, SeqEqual
<1> QED BY <1>4 DEF a, b

(* Nothing is written yet. *)
LEMMA Empty ==
  ASSUME NEW kd \in Kinds
  PROVE  Streaming(kd, <<>>, <<>>, NewProtocol, <<>>) /\ Sending(kd, <<>>, <<>>, NewProtocol, <<>>)
<1> DEFINE z == <<>>
           p == NewProtocol
           n == Len(z)
<1>1. n = 0 /\ z \in Seq(Byte) /\ z \in Seq(Seq(Byte)) /\ z \in Seq(PacketsOf(kd)) /\ SubSeq(z, 1, 0) = z
  BY SubSeqEmpty
<1>2. p.buf = z /\ p.pos = 0 /\ Clean(kd, p)
  BY NewClean
<1>3. p.done = FALSE
  BY DEF NewProtocol
<1>4. Kept(p) = p
  BY <1>3 DEF Kept
<1>5. Offset(kd, z, 0) = 0
  BY <1>1, LaidOut DEF Layout
<1> HIDE DEF z, p, n
<1>6. Len(z) = 0
  BY <1>1 DEF n
<1>7. Held(kd, z, 0, p, z)
  BY <1>1, <1>2, <1>5, <1>6 DEF Held
<1>8. Partial(kd, z, p, z) /\ Drained(kd, p)
  BY <1>2, <1>6 DEF Partial, Drained
<1>0. p.buf \in Seq(Byte) /\ p.pos \in 0 .. Len(p.buf) /\ p.done \in BOOLEAN
  <2>1. p.done \in BOOLEAN
    BY <1>3
  <2>2. 0 \in 0 .. Len(z)
    BY <1>6
  <2> QED BY <1>1, <1>2, <2>1, <2>2
<1>9. Settled(kd, z, 0, p, z)
  BY <1>0, <1>4, <1>7, <1>8 DEF Settled
<1>10. Streaming(kd, z, z, p, z)
  <2>1. Offset(kd, z, Len(z)) - Len(z) = 0 /\ Len(z) <= Offset(kd, z, Len(z))
    BY <1>5, <1>6
  <2> QED BY <1>1, <1>6, <1>9, <2>1 DEF Streaming
<1>11. Sending(kd, z, z, p, z)
  <2>1. Len(z) \in Nat /\ Len(z) + Len(z) = Len(z) /\ z = SubSeq(z, 1, Len(z))
    BY <1>1, <1>6
  <2>2. Kept(p) = NewProtocol
    BY <1>4 DEF p
  <2> QED BY <1>0, <1>1, <1>6, <2>1, <2>2 DEF Sending
<1> QED BY <1>10, <1>11 DEF z, p

(* A packet more leaves what is held as it was. *)
LEMMA StillSettled ==
  ASSUME NEW kd \in Kinds, NEW d \in Seq(PacketsOf(kd)), NEW pkt \in PacketsOf(kd),
         NEW d2, d2 = Append(d, pkt), NEW at \in Nat, at <= Offset(kd, d, Len(d)), NEW p, NEW got,
         Settled(kd, d, at, p, got)
  PROVE  Settled(kd, d2, at, p, got)
<1> DEFINE c == Kept(p)
           n == Len(d)
           k == Len(got)
           b == c.buf
           nb == Len(b)
           off == Offset(kd, d, k)
           top == Offset(kd, d, n)
           u == Upto(kd, d, n)
           u2 == Upto(kd, d2, n + 1)
           e == Enc(kd, pkt)
<1>1. /\ d2 \in Seq(PacketsOf(kd)) /\ Len(d2) = n + 1 /\ d2[n + 1] = pkt
      /\ \A i \in 1 .. n : d2[i] = d[i]
      /\ \A j \in 0 .. n : Upto(kd, d2, j) = Upto(kd, d, j)
      /\ u2 = u \o e
  <2>1. Longer(kd, d, d2, pkt)
    BY OneMore
  <2> QED BY <2>1 DEF Longer
<1>2. Held(kd, d, at, c, got) /\ Partial(kd, d, c, got) /\ Drained(kd, c)
  BY DEF Settled
<1>3. /\ k \in 0 .. n /\ got = SubSeq(d, 1, k) /\ b \in Seq(Byte) /\ off + nb = at
      /\ (\A i \in 1 .. nb : b[i] = u[off + i]) /\ Clean(kd, c)
  BY <1>2 DEF Held
<1>4. n \in Nat /\ nb \in Nat
  BY <1>3, LenProperties
<1>5. u \in Seq(Byte) /\ off \in Nat /\ top \in Nat /\ Len(u) = top
  <2>1. Layout(kd, d)
    BY LaidOut
  <2>2. n \in 0 .. n
    BY <1>4
  <2>3. u \in Seq(Byte) /\ off \in Nat /\ top \in Nat
    BY <1>3, <2>1, <2>2 DEF Layout
  <2> QED BY <2>3 DEF Offset
<1>6. e \in Seq(Byte) /\ Len(e) \in Nat /\ Len(e) > 0
  BY EncBytes
<1>7. \A i \in 1 .. Len(u) : u2[i] = u[i]
  <2>1. Joined(u, e, Byte)
    BY <1>5, <1>6, Parts
  <2> QED BY <1>1, <2>1 DEF Joined
<1>8. Offset(kd, d2, k) = off /\ k \in 0 .. (n + 1)
  BY <1>1, <1>3, <1>4 DEF Offset
<1>9. got = SubSeq(d2, 1, k)
  <2>1. \A i \in 1 .. k : d[i] = d2[i]
    <3>1. \A i \in 1 .. k : i \in 1 .. n
      BY <1>3, <1>4
    <3> QED BY <1>1, <3>1
  <2>2. k \in 0 .. Len(d2)
    BY <1>1, <1>8
  <2> HIDE DEF k, n
  <2>3. SubSeq(d, 1, k) = SubSeq(d2, 1, k)
    BY <1>1, <1>3, <2>1, <2>2, SameFront DEF n
  <2> QED BY <1>3, <2>3
<1>10. \A i \in 1 .. nb : b[i] = u2[off + i]
  <2>1. ASSUME NEW i \in 1 .. nb PROVE b[i] = u2[off + i]
    <3>1. off + i \in 1 .. Len(u)
      <4> HIDE DEF off, nb, top, u
      <4>1. at <= top
        BY DEF top, n
      <4> QED BY <1>3, <1>4, <1>5, <4>1
    <3> HIDE DEF u, u2, off, nb, b
    <3> QED BY <1>3, <1>7, <3>1
  <2> QED BY <2>1
<1>11. Held(kd, d2, at, c, got)
  <2>1. Upto(kd, d2, Len(d2)) = u2 /\ k \in 0 .. Len(d2)
    BY <1>1, <1>8
  <2> HIDE DEF c, u2
  <2> QED BY <1>3, <1>8, <1>9, <1>10, <2>1 DEF Held
<1>12. Partial(kd, d2, c, got)
  <2>1. CASE k < n
    <3>1. k + 1 \in 1 .. n
      BY <1>3, <1>4, <2>1
    <3>2. d2[k + 1] = d[k + 1]
      BY <1>1, <3>1
    <3>3. nb < Len(Enc(kd, d[k + 1]))
      BY <1>2, <2>1 DEF Partial
    <3> QED BY <3>2, <3>3 DEF Partial
  <2>2. CASE ~ (k < n)
    <3>1. k = n
      BY <1>3, <1>4, <2>2
    <3>2. off = top
      BY <3>1
    <3>3. nb = 0
      <4>1. at <= top
        OBVIOUS
      <4> HIDE DEF off, top, nb
      <4> QED BY <1>3, <1>4, <1>5, <3>2, <4>1
    <3>4. d2[k + 1] = pkt
      BY <1>1, <3>1
    <3>5. nb < Len(Enc(kd, d2[k + 1]))
      <4> HIDE DEF nb, e
      <4>1. nb < Len(e)
        BY <1>6, <3>3
      <4> QED BY <3>4, <4>1 DEF e
    <3> QED BY <3>5 DEF Partial
  <2> QED BY <2>1, <2>2
<1>13. p.buf \in Seq(Byte) /\ p.pos \in 0 .. Len(p.buf) /\ p.done \in BOOLEAN
  BY DEF Settled
<1> HIDE DEF c
<1> QED BY <1>2, <1>11, <1>12, <1>13 DEF Settled, c

(* Write, on a stream and with datagrams. *)
LEMMA StreamWrite ==
  ASSUME NEW kd \in Kinds, NEW d \in Seq(PacketsOf(kd)), NEW pkt \in PacketsOf(kd),
         NEW d2, d2 = Append(d, pkt), NEW w, NEW w2, w2 = w \o Enc(kd, pkt), NEW p, NEW got,
         Streaming(kd, d, w, p, got)
  PROVE  Streaming(kd, d2, w2, p, got)
<1> DEFINE n == Len(d)
           u == Upto(kd, d, n)
           u2 == Upto(kd, d2, n + 1)
           e == Enc(kd, pkt)
           top == Offset(kd, d, n)
           top2 == Offset(kd, d2, n + 1)
           ne == Len(e)
           nw == Len(w)
           at == top - nw
<1>1. Len(d2) = n + 1 /\ u2 = u \o e
  <2>1. Longer(kd, d, d2, pkt)
    BY OneMore
  <2> QED BY <2>1 DEF Longer
<1>2. /\ w \in Seq(Byte) /\ nw <= top /\ (\A i \in 1 .. nw : w[i] = u[at + i])
      /\ Settled(kd, d, at, p, got)
  BY DEF Streaming
<1>3. e \in Seq(Byte) /\ ne \in Nat /\ nw \in Nat
  BY <1>2, EncBytes, LenProperties
<1>4. u \in Seq(Byte) /\ top \in Nat /\ Len(u) = top
  <2>1. Layout(kd, d)
    BY LaidOut
  <2>2. n \in 0 .. n
    BY LenProperties
  <2>3. u \in Seq(Byte) /\ top \in Nat
    BY <2>1, <2>2 DEF Layout
  <2> QED BY <2>3 DEF Offset
<1>5. Len(u2) = top + ne /\ (\A i \in 1 .. top : u2[i] = u[i]) /\ (\A i \in 1 .. ne : u2[top + i] = e[i])
  <2>1. Joined(u, e, Byte)
    BY <1>3, <1>4, Parts
  <2> QED BY <1>1, <1>4, <2>1 DEF Joined
<1>6. /\ w2 \in Seq(Byte) /\ Len(w2) = nw + ne /\ (\A i \in 1 .. nw : w2[i] = w[i])
      /\ (\A i \in 1 .. ne : w2[nw + i] = e[i])
  <2>1. Joined(w, e, Byte)
    BY <1>2, <1>3, Parts
  <2> QED BY <2>1 DEF Joined
<1>7. at \in Nat /\ at <= top
  <2> HIDE DEF top, nw
  <2> QED BY <1>2, <1>3, <1>4
<1>8. Settled(kd, d2, at, p, got)
  <2> HIDE DEF at
  <2> QED BY <1>2, <1>7, StillSettled
<1>9. top2 = top + ne
  BY <1>5 DEF Offset
<1>10. top2 - Len(w2) = at /\ Len(w2) <= top2
  <2> HIDE DEF top, top2, nw, ne
  <2> QED BY <1>2, <1>3, <1>4, <1>6, <1>9
<1>11. ASSUME NEW i \in 1 .. Len(w2) PROVE w2[i] = u2[at + i]
  <2>1. CASE i <= nw
    <3>1. i \in 1 .. nw /\ at + i \in 1 .. top
      <4> HIDE DEF top, nw
      <4> QED BY <1>2, <1>3, <1>4, <2>1
    <3> HIDE DEF top, nw, at, u, u2
    <3> QED BY <1>2, <1>5, <1>6, <3>1
  <2>2. CASE ~ (i <= nw)
    <3>1. i - nw \in 1 .. ne /\ nw + (i - nw) = i /\ top + (i - nw) = at + i
      <4> HIDE DEF top, nw, ne
      <4> QED BY <1>2, <1>3, <1>4, <1>6, <2>2
    <3> HIDE DEF top, nw, ne, at, u, u2, e
    <3> QED BY <1>5, <1>6, <3>1
  <2> QED BY <2>1, <2>2
<1>12. Upto(kd, d2, Len(d2)) = u2 /\ Offset(kd, d2, Len(d2)) = top2
  BY <1>1
<1> HIDE DEF u2, top2, at
<1> QED BY <1>6, <1>8, <1>10, <1>11, <1>12 DEF Streaming

(* The same with datagrams. *)
LEMMA SendWrite ==
  ASSUME NEW kd \in Kinds, NEW d \in Seq(PacketsOf(kd)), NEW pkt \in PacketsOf(kd),
         NEW d2, d2 = Append(d, pkt), NEW w, NEW w2, w2 = Append(w, Enc(kd, pkt)), NEW p, NEW got,
         Sending(kd, d, w, p, got)
  PROVE  Sending(kd, d2, w2, p, got)
<1> DEFINE n == Len(d)
           k == Len(got)
           nw == Len(w)
           e == Enc(kd, pkt)
<1>1. Len(d2) = n + 1 /\ d2 \in Seq(PacketsOf(kd)) /\ d2[n + 1] = pkt /\ \A i \in 1 .. n : d2[i] = d[i]
  BY AppendProperties
<1>2. /\ w \in Seq(Seq(Byte)) /\ k \in Nat /\ k + nw = n /\ got = SubSeq(d, 1, k)
      /\ \A i \in 1 .. nw : w[i] = Enc(kd, d[k + i])
  BY DEF Sending
<1>3. n \in Nat /\ nw \in Nat /\ e \in Seq(Byte)
  BY <1>2, EncBytes, LenProperties
<1>4. w2 \in Seq(Seq(Byte)) /\ Len(w2) = nw + 1 /\ w2[nw + 1] = e /\ \A i \in 1 .. nw : w2[i] = w[i]
  <2> HIDE DEF e
  <2> QED BY <1>2, <1>3, AppendProperties DEF e
<1> HIDE DEF n, k, nw, e
<1>5. k \in 0 .. n /\ k \in 0 .. (n + 1) /\ (\A i \in 1 .. k : i \in 1 .. n) /\ k + Len(w2) = Len(d2)
  BY <1>1, <1>2, <1>3, <1>4
<1>6. SubSeq(d2, 1, k) = got
  <2>1. \A i \in 1 .. k : d[i] = d2[i]
    BY <1>1, <1>5
  <2>2. k \in 0 .. Len(d) /\ k \in 0 .. Len(d2)
    BY <1>1, <1>5 DEF n
  <2>3. SubSeq(d, 1, k) = SubSeq(d2, 1, k)
    BY <1>1, <2>1, <2>2, SameFront
  <2> QED BY <1>2, <2>3
<1>7. ASSUME NEW i \in 1 .. Len(w2) PROVE w2[i] = Enc(kd, d2[k + i])
  <2>1. CASE i \in 1 .. nw
    <3>1. k + i \in 1 .. n
      BY <1>2, <1>3, <2>1
    <3> QED BY <1>1, <1>2, <1>4, <2>1, <3>1
  <2>2. CASE i \notin 1 .. nw
    <3>1. i = nw + 1 /\ k + i = n + 1
      BY <1>2, <1>3, <1>4, <2>2
    <3> QED BY <1>1, <1>4, <3>1 DEF e
  <2> QED BY <2>1, <2>2
<1> QED BY <1>2, <1>4, <1>5, <1>6, <1>7 DEF Sending, k

(* Lose: the datagram and its packet. *)
Removed(s, i, t, T) ==
  /\ t \in Seq(T) /\ Len(t) = Len(s) - 1
  /\ \A j \in 1 .. (Len(s) - 1) : t[j] = IF j < i THEN s[j] ELSE s[j + 1]

(* What RemoveAt leaves. *)
LEMMA Removal ==
  ASSUME NEW T, NEW s \in Seq(T), NEW i \in 1 .. Len(s), NEW t, t = RemoveAt(s, i)
  PROVE  Removed(s, i, t, T)
<1> DEFINE n == Len(s)
           a == SubSeq(s, 1, i - 1)
           b == SubSeq(s, i + 1, n)
<1>1. n \in Nat /\ i \in Nat /\ i - 1 \in 0 .. n /\ i <= n
  BY LenProperties
<1>2. a \in Seq(T) /\ Len(a) = i - 1 /\ \A j \in 1 .. (i - 1) : a[j] = s[j]
  <2>1. Fronted(s, i - 1, T)
    BY <1>1, FrontPiece
  <2> QED BY <2>1 DEF Fronted
<1>3. b \in Seq(T) /\ Len(b) = n - i /\ \A j \in 1 .. (n - i) : b[j] = s[i + j]
  <2>1. Taken(s, i, n, T)
    BY <1>1, Piece
  <2> QED BY <2>1 DEF Taken
<1>4. t = a \o b
  BY DEF RemoveAt
<1> HIDE DEF a, b, n
<1>5. /\ t \in Seq(T) /\ Len(t) = (i - 1) + (n - i) /\ (\A j \in 1 .. (i - 1) : t[j] = a[j])
      /\ (\A j \in 1 .. (n - i) : t[(i - 1) + j] = b[j])
  <2>1. Joined(a, b, T)
    BY <1>2, <1>3, Parts
  <2> QED BY <1>2, <1>3, <1>4, <2>1 DEF Joined
<1>6. ASSUME NEW j \in 1 .. (n - 1) PROVE t[j] = IF j < i THEN s[j] ELSE s[j + 1]
  <2>1. CASE j < i
    <3>1. j \in 1 .. (i - 1)
      BY <1>1, <2>1
    <3> QED BY <1>2, <1>5, <2>1, <3>1
  <2>2. CASE ~ (j < i)
    <3>1. (j - i) + 1 \in 1 .. (n - i) /\ (i - 1) + ((j - i) + 1) = j /\ i + ((j - i) + 1) = j + 1
      BY <1>1, <2>2
    <3>2. t[j] = b[(j - i) + 1] /\ b[(j - i) + 1] = s[j + 1]
      BY <1>3, <1>5, <3>1
    <3> QED BY <2>2, <3>2
  <2> QED BY <2>1, <2>2
<1>7. (i - 1) + (n - i) = n - 1
  BY <1>1
<1> QED BY <1>5, <1>6, <1>7 DEF Removed, n

(* A lost datagram takes its packet out of what is due. *)
LEMMA SendLose ==
  ASSUME NEW kd \in Kinds, NEW d \in Seq(PacketsOf(kd)), NEW w, NEW i \in 1 .. Len(w),
         NEW d2, d2 = RemoveAt(d, Len(d) - Len(w) + i), NEW w2, w2 = RemoveAt(w, i), NEW p, NEW got,
         Sending(kd, d, w, p, got)
  PROVE  /\ Sending(kd, d2, w2, p, got) /\ d2 \in Seq(PacketsOf(kd))
         /\ Len(d2) = Len(d) - 1 /\ Len(d) \in Nat
<1> DEFINE n == Len(d)
           k == Len(got)
           nw == Len(w)
           x == n - nw + i
<1>1. /\ w \in Seq(Seq(Byte)) /\ k \in Nat /\ k + nw = n /\ got = SubSeq(d, 1, k)
      /\ \A j \in 1 .. nw : w[j] = Enc(kd, d[k + j])
  BY DEF Sending
<1>2. n \in Nat /\ nw \in Nat
  BY <1>1, LenProperties
<1>3. x = k + i /\ x \in 1 .. n
  <2>1. i \in 1 .. nw /\ k \in Nat /\ k + nw = n
    BY <1>1
  <2> HIDE DEF n, nw, k
  <2> QED BY <1>2, <2>1
<1>4. /\ w2 \in Seq(Seq(Byte)) /\ Len(w2) = nw - 1
      /\ \A j \in 1 .. (nw - 1) : w2[j] = IF j < i THEN w[j] ELSE w[j + 1]
  <2>1. Removed(w, i, w2, Seq(Byte))
    BY <1>1, Removal
  <2> QED BY <2>1 DEF Removed
<1>5. /\ d2 \in Seq(PacketsOf(kd)) /\ Len(d2) = n - 1
      /\ \A j \in 1 .. (n - 1) : d2[j] = IF j < x THEN d[j] ELSE d[j + 1]
  <2>1. Removed(d, x, d2, PacketsOf(kd))
    <3> HIDE DEF x
    <3> QED BY <1>3, Removal DEF x
  <2> QED BY <2>1 DEF Removed
<1> HIDE DEF n, k, nw, x
<1>0. i \in Nat /\ i > 0 /\ i <= nw
  BY <1>2 DEF nw
<1>6. /\ k + Len(w2) = Len(d2) /\ k \in 0 .. n /\ k \in 0 .. (n - 1)
      /\ \A j \in 1 .. k : j \in 1 .. (n - 1) /\ j < x
  BY <1>0, <1>1, <1>2, <1>3, <1>4, <1>5, SMTT(40)
<1>7. SubSeq(d2, 1, k) = got
  <2>1. \A j \in 1 .. k : d[j] = d2[j]
    BY <1>5, <1>6
  <2>2. k \in 0 .. Len(d) /\ k \in 0 .. Len(d2)
    BY <1>5, <1>6 DEF n
  <2>3. SubSeq(d, 1, k) = SubSeq(d2, 1, k)
    BY <1>5, <2>1, <2>2, SameFront
  <2> QED BY <1>1, <2>3
<1>8. ASSUME NEW j \in 1 .. Len(w2) PROVE w2[j] = Enc(kd, d2[k + j])
  <2>1. /\ j \in 1 .. (nw - 1) /\ j \in 1 .. nw /\ j + 1 \in 1 .. nw
        /\ k + j \in 1 .. (n - 1) /\ k + (j + 1) = (k + j) + 1
    <3>1. j \in 1 .. (nw - 1)
      BY <1>4
    <3>2. k \in Nat /\ k + nw = n
      BY <1>1
    <3> QED BY <1>2, <3>1, <3>2
  <2>2. CASE j < i
    <3>1. k + j < x
      BY <1>1, <1>3, <2>2
    <3>2. w2[j] = w[j] /\ d2[k + j] = d[k + j]
      BY <1>4, <1>5, <2>1, <2>2, <3>1
    <3> QED BY <1>1, <2>1, <3>2
  <2>3. CASE ~ (j < i)
    <3>1. ~ (k + j < x)
      BY <1>1, <1>3, <2>3
    <3>2. w2[j] = w[j + 1] /\ d2[k + j] = d[(k + j) + 1]
      BY <1>4, <1>5, <2>1, <2>3, <3>1
    <3>3. w[j + 1] = Enc(kd, d[k + (j + 1)])
      BY <1>1, <2>1
    <3> QED BY <2>1, <3>2, <3>3
  <2> QED BY <2>2, <2>3
<1>9. Sending(kd, d2, w2, p, got)
  BY <1>1, <1>4, <1>6, <1>7, <1>8 DEF Sending, k
<1> QED BY <1>2, <1>5, <1>9 DEF n

(* ReadEvent: the object with the bytes just read is ready for the loop. *)
LEMMA ReadCut ==
  ASSUME kind \in Kinds, due \in Seq(PacketsOf(kind)), wire \in Seq(Byte),
         NEW n \in 1 .. Len(wire), SafeCut(n), NEW at, at = Offset(kind, due, Len(due)) - Len(wire) + n,
         NEW c, c.buf \in Seq(Byte), Clean(kind, c), Drained(kind, c),
         NEW q, q.pos = c.pos, q.buf \in Seq(Byte), Len(q.buf) = Len(c.buf) + n,
         \A i \in 1 .. Len(c.buf) : q.buf[i] = c.buf[i],
         \A i \in 1 .. n : q.buf[Len(c.buf) + i] = wire[i]
  PROVE  Cut(due, at, q)
<1> DEFINE nc == Len(c.buf)
           nq == Len(q.buf)
<1>0. Len(wire) \in Nat
  BY LenProperties
<1>1. nc \in Nat /\ n \in Nat /\ n > 0 /\ nq = nc + n
  BY LenProperties
<1>2. CASE kind \in {"frame", "list"}
  <2> DEFINE z == Len(Written) - Len(wire) + n
             Good(x) == \A s \in Starts : x \in s .. s + 8 => (x - s) % 2 = 0
  <2>1. z = at /\ Starts = {Offset(kind, due, k) : k \in 0 .. Len(due) - 1}
    <3>1. /\ Written = Upto(kind, due, Len(due))
          /\ Starts = {Offset(kind, due, k) : k \in 0 .. Len(due) - 1}
      BY SameNames
    <3> QED BY <3>1 DEF Offset
  <2> DEFINE a == Len(Written) - Len(wire)
  <2>0. a \in Int /\ n \in Int /\ \A s \in Starts : s \in Int
    <3>1. Layout(kind, due)
      BY LaidOut
    <3>2. Len(due) \in Nat
      BY <3>1 DEF Layout
    <3>3. /\ Len(due) \in 0 .. Len(due)
          /\ \A k \in 0 .. Len(due) - 1 : k \in 0 .. Len(due)
      BY <3>2
    <3>4. \A k \in 0 .. Len(due) : Offset(kind, due, k) \in Nat
      BY <3>1 DEF Layout
    <3>5. Len(Written) = Offset(kind, due, Len(due))
      BY SameNames DEF Offset
    <3>6. Len(wire) \in Nat
      BY <1>0
    <3>7. a \in Int
      BY <3>3, <3>4, <3>5, <3>6
    <3>8. \A s \in Starts : s \in Int
      BY <2>1, <3>3, <3>4
    <3> QED BY <1>1, <3>7, <3>8
  <2>2. Good(z)
    <3>1. ASSUME NEW s \in Starts, z \in s .. s + 8 PROVE (z - s) % 2 = 0
      <4> DEFINE v == a + (n - s)
      <4>1. a + n \in s .. s + 4 * 2 => (a + n - s) % 2 = 0
        BY <1>2 DEF SafeCut, HeaderWords, WordSize
      <4>2. a + n = z /\ 4 * 2 = 8
        OBVIOUS
      <4>3. a + n \in s .. s + 4 * 2
        <5> HIDE DEF a, z
        <5> QED BY <3>1, <4>2
      <4>4. v % 2 = 0
        <5> HIDE DEF a
        <5> QED BY <4>1, <4>3
      <4>5. v = z - s
        <5> HIDE DEF a, z
        <5> QED BY <2>0, <4>2
      <4> HIDE DEF v, z
      <4> QED BY <4>4, <4>5
    <3> QED BY <3>1
  <2>3. Good(at)
    <3> HIDE DEF z, Good
    <3> QED BY <2>1, <2>2
  <2>4. \A s \in Starts : at \in s .. s + 8 => (at - s) % 2 = 0
    BY <2>3
  <2>5. \A k \in 0 .. Len(due) - 1 : Offset(kind, due, k) \in Starts
    BY <2>1
  <2> QED BY <1>2, <2>4, <2>5 DEF Cut
<1>3. CASE kind = "line"
  <2>1. wire[n] # CR /\ n <= LineBuffer
    BY <1>3 DEF SafeCut
  <2>2. c.pos = nc
    BY <1>3 DEF Drained
  <2>3. q.buf[nq] # CR
    <3>1. n \in 1 .. n
      BY <1>1
    <3>2. q.buf[nc + n] = wire[n]
      BY <3>1
    <3> QED BY <1>1, <2>1, <3>2
  <2>4. nq - q.pos <= LineBuffer
    <3>1. q.pos = nc
      BY <2>2
    <3> HIDE DEF nc, nq
    <3> QED BY <1>1, <2>1, <3>1
  <2> QED BY <1>3, <2>3, <2>4 DEF Cut
<1>4. CASE kind = "json"
  <2>1. \A i \in 1 .. n - 1 : wire[i] # Close
    BY <1>4 DEF SafeCut
  <2>2. NoDocument(c.buf, nc)
    <3>1. PICK m \in 0 .. nc : c = TextAt(c.buf, m) /\ NoDocument(c.buf, m)
      BY <1>4 DEF Clean
    <3>2. c.pos = nc
      BY <1>4 DEF Drained
    <3>3. c.pos = m
      <4> DEFINE b == c.buf
                 t == SubSeq(b, 1, m)
      <4>1. c = Obj(b, m, <<>>, <<>>, t, 0, 0, No, No)
        BY <3>1 DEF TextAt
      <4> HIDE DEF b, t
      <4> QED BY <4>1, Fields
    <3> QED BY <3>1, <3>2, <3>3
  <2>3. ASSUME NEW i \in 1 .. (nq - 1) PROVE q.buf[i] # Close
    <3>1. CASE i \in 1 .. nc
      BY <2>2, <3>1 DEF NoDocument
    <3>2. CASE i \notin 1 .. nc
      <4>1. i - nc \in 1 .. n - 1 /\ i - nc \in 1 .. n /\ nc + (i - nc) = i
        <5> HIDE DEF nc, nq
        <5> QED BY <1>1, <3>2
      <4>2. q.buf[i] = wire[i - nc]
        BY <4>1
      <4> QED BY <2>1, <4>1, <4>2
    <3> QED BY <3>1, <3>2
  <2>4. NoDocument(q.buf, nq - 1)
    BY <2>3 DEF NoDocument
  <2> QED BY <1>4, <2>4 DEF Cut
<1> QED BY <1>2, <1>3, <1>4 DEF Kinds

(* ReadEvent keeps the invariant. *)
LEMMA StreamRead ==
  ASSUME kind \in Kinds, due \in Seq(PacketsOf(kind)),
         Streaming(kind, due, wire, protocol, received),
         NEW n \in 1 .. Len(wire), SafeCut(n), NEW before,
         NEW r, r = ReadLoop(AddToReadingBuffer(Current, SubSeq(wire, 1, n)), received, before)
  PROVE  \E p2, g2 : /\ r = Run(p2, g2, No, Yes)
                     /\ Streaming(kind, due, SubSeq(wire, n + 1, Len(wire)), p2, g2)
<1> DEFINE c == Kept(protocol)
           b == c.buf
           nc == Len(b)
           data == SubSeq(wire, 1, n)
           q == AddToReadingBuffer(c, data)
           top == Offset(kind, due, Len(due))
           u == Upto(kind, due, Len(due))
           nw == Len(wire)
           at == top - nw
           at2 == top - nw + n
           k == Len(received)
           off == Offset(kind, due, k)
           w2 == SubSeq(wire, n + 1, nw)
<1>1. /\ wire \in Seq(Byte) /\ nw <= top /\ (\A i \in 1 .. nw : wire[i] = u[at + i])
      /\ Settled(kind, due, at, protocol, received)
  BY DEF Streaming
<1>2. Held(kind, due, at, c, received) /\ Drained(kind, c)
  BY <1>1 DEF Settled
<1>3. /\ k \in 0 .. Len(due) /\ received = SubSeq(due, 1, k) /\ b \in Seq(Byte) /\ off + nc = at
      /\ (\A i \in 1 .. nc : b[i] = u[off + i]) /\ Clean(kind, c)
  BY <1>2 DEF Held
<1>4. nw \in Nat /\ nc \in Nat /\ n \in Nat /\ n > 0 /\ n <= nw /\ n \in 0 .. nw
  BY <1>1, <1>3, LenProperties
<1>5. top \in Nat /\ off \in Nat
  <2>1. Layout(kind, due)
    BY LaidOut
  <2>2. Len(due) \in 0 .. Len(due)
    BY LenProperties
  <2> QED BY <1>3, <2>1, <2>2 DEF Layout
<1>6. data \in Seq(Byte) /\ Len(data) = n /\ \A i \in 1 .. n : data[i] = wire[i]
  <2>1. Fronted(wire, n, Byte)
    BY <1>1, <1>4, FrontPiece
  <2> QED BY <2>1 DEF Fronted
<1>7. Clean(kind, q) /\ q.buf = b \o data /\ q.pos = c.pos
  <2> HIDE DEF c, data, q
  <2> QED BY <1>3, <1>6, AddClean, SMTT(40) DEF q
<1>8. /\ q.buf \in Seq(Byte) /\ Len(q.buf) = nc + n /\ (\A i \in 1 .. nc : q.buf[i] = b[i])
      /\ (\A i \in 1 .. n : q.buf[nc + i] = wire[i])
  <2>1. Joined(b, data, Byte)
    BY <1>3, <1>6, Parts
  <2>2. /\ b \o data \in Seq(Byte) /\ Len(b \o data) = nc + n
        /\ (\A i \in 1 .. nc : (b \o data)[i] = b[i])
        /\ (\A i \in 1 .. n : (b \o data)[nc + i] = data[i])
    BY <1>6, <2>1 DEF Joined
  <2> HIDE DEF q, b, data, nc
  <2> QED BY <1>6, <1>7, <2>2
<1> HIDE DEF q
<1>9. at2 \in Nat /\ at2 <= top /\ at2 = at + n /\ off + (nc + n) = at2
  <2> HIDE DEF top, nw, off, nc
  <2> QED BY <1>1, <1>3, <1>4, <1>5
<1>10. ASSUME NEW i \in 1 .. (nc + n) PROVE q.buf[i] = u[off + i]
  <2>1. CASE i \in 1 .. nc
    BY <1>3, <1>8, <2>1
  <2>2. CASE i \notin 1 .. nc
    <3>1. i - nc \in 1 .. n /\ i - nc \in 1 .. nw /\ nc + (i - nc) = i /\ at + (i - nc) = off + i
      <4> HIDE DEF nc, nw, off, at
      <4> QED BY <1>3, <1>4, <1>5, <2>2
    <3> HIDE DEF nc, nw, off, at, u
    <3> QED BY <1>1, <1>8, <3>1
  <2> QED BY <2>1, <2>2
<1>11. Held(kind, due, at2, q, received)
  <2>1. off + Len(q.buf) = at2
    BY <1>8, <1>9
  <2>2. \A i \in 1 .. Len(q.buf) : q.buf[i] = u[off + i]
    BY <1>8, <1>10
  <2> HIDE DEF at2, u
  <2> QED BY <1>3, <1>7, <1>8, <2>1, <2>2 DEF Held, u
<1>12. Cut(due, at2, q)
  <2>1. wire \in Seq(Byte)
    BY <1>1
  <2> HIDE DEF c
  <2> QED BY <1>2, <1>3, <1>7, <1>8, <2>1, ReadCut
<1>13. Len(q.buf) > 0
  <2> HIDE DEF nc
  <2> QED BY <1>4, <1>8
<1>14. Ready(due, at2, q, received)
  BY <1>11, <1>12, <1>13 DEF Ready
<1>15. r = ReadLoop(q, received, before)
  BY DEF q, Current, Kept
<1>16. PICK p2, g2 : r = Run(p2, g2, No, Yes) /\ Settled(kind, due, at2, p2, g2)
  <2> HIDE DEF at2
  <2> QED BY <1>9, <1>14, <1>15, LoopSettles
<1>17. w2 \in Seq(Byte) /\ Len(w2) = nw - n /\ \A i \in 1 .. (nw - n) : w2[i] = wire[n + i]
  <2>1. Taken(wire, n, nw, Byte)
    BY <1>1, <1>4, Piece
  <2> QED BY <2>1 DEF Taken
<1>18. top - Len(w2) = at2 /\ Len(w2) <= top
  <2> HIDE DEF w2, top, nw
  <2> QED BY <1>1, <1>4, <1>5, <1>17
<1>19. ASSUME NEW i \in 1 .. Len(w2) PROVE w2[i] = u[at2 + i]
  <2>1. i \in 1 .. (nw - n) /\ n + i \in 1 .. nw /\ at + (n + i) = at2 + i
    <3> HIDE DEF w2, top, nw
    <3> QED BY <1>4, <1>5, <1>17
  <2> HIDE DEF w2, nw, at, at2, u
  <2> QED BY <1>1, <1>17, <2>1
<1>20. Streaming(kind, due, w2, p2, g2)
  <2> HIDE DEF w2, at2
  <2> QED BY <1>16, <1>17, <1>18, <1>19 DEF Streaming
<1> QED BY <1>16, <1>20

(* ReadFrom: a datagram is a packet. *)
LEMMA WholeFits ==
  ASSUME NEW kd \in Kinds, NEW pkt \in PacketsOf(kd), NEW p, p.buf = Enc(kd, pkt), p.pos = 0,
         kd = "line" => Len(pkt) + 2 <= LineBuffer
  PROVE  Fit(kd, p)
<1> DEFINE e == Enc(kd, pkt)
<1>1. CASE kd \in {"frame", "list"}
  <2>1. Len(e) \in Nat /\ Len(e) >= 8
    <3>1. CASE kd = "frame"
      <4> DEFINE cmd == pkt[1]
                 payload == pkt[2]
      <4>1. cmd \in 0 .. MaxWord /\ payload \in Seq(Byte) /\ 8 + Len(payload) <= MaxWord
        BY <3>1, PacketsAssumption DEF PacketsOf, HeaderWords, WordSize
      <4>2. e = Frame(cmd, payload)
        BY <3>1 DEF Enc
      <4> HIDE DEF cmd, payload, e
      <4>3. Len(e) = 8 + Len(payload) /\ Len(payload) \in Nat
        BY <4>1, <4>2, FrameBytes
      <4> QED BY <4>3
    <3>2. CASE kd = "list"
      <4> DEFINE cmd == 5
                 payload == String32List(pkt)
      <4>1. cmd \in 0 .. MaxWord /\ payload \in Seq(Byte) /\ 8 + Len(payload) <= MaxWord
        <5>1. pkt \in Lists
          BY <3>2 DEF PacketsOf
        <5> QED BY <5>1, ListFits DEF MaxWord
      <4>2. e = Frame(cmd, payload)
        BY <3>2 DEF Enc
      <4> HIDE DEF cmd, payload, e
      <4>3. Len(e) = 8 + Len(payload) /\ Len(payload) \in Nat
        BY <4>1, <4>2, FrameBytes
      <4> QED BY <4>3
    <3> QED BY <1>1, <3>1, <3>2
  <2>2. Untorn(e)
    <3> DEFINE n == Len(e)
    <3>0. n \in Nat /\ n >= 8
      BY <2>1
    <3> HIDE DEF n
    <3>1. n <= 8 => n = 8
      BY <3>0
    <3>2. 8 % 2 = 0
      OBVIOUS
    <3>3. n <= 8 => n % 2 = 0
      BY <3>1, <3>2
    <3> QED BY <3>3 DEF Untorn, n
  <2> HIDE DEF e
  <2> QED BY <1>1, <2>2 DEF Fit, e
<1>2. CASE kd = "line"
  <2>1. pkt \in Lines /\ e = Line(pkt)
    BY <1>2 DEF PacketsOf, Enc
  <2> HIDE DEF e
  <2>2. Len(pkt) \in Nat /\ Len(e) = Len(pkt) + 2 /\ e[Len(pkt) + 2] = LF
    BY <2>1, LineBytes
  <2>3. e[Len(e)] # CR /\ Len(e) - 0 <= LineBuffer
    BY <1>2, <2>2 DEF LF, CR
  <2> QED BY <1>2, <2>3 DEF Fit, e
<1>3. CASE kd = "json"
  <2>1. pkt \in Documents /\ e = pkt
    BY <1>3 DEF PacketsOf, Enc
  <2> HIDE DEF e
  <2>2. \A i \in 1 .. (Len(e) - 1) : e[i] # Close
    BY <2>1, DocumentBytes
  <2> QED BY <1>3, <2>2 DEF Fit, NoDocument, e
<1> QED BY <1>1, <1>2, <1>3 DEF Kinds

(* ReadFrom delivers the packet of the datagram and keeps the invariant. *)
LEMMA SendRead ==
  ASSUME kind \in Kinds, due \in Seq(PacketsOf(kind)),
         kind = "line" => \A l \in Lines : Len(l) + 2 <= LineBuffer,
         Sending(kind, due, wire, protocol, received), wire # <<>>, NEW before,
         NEW q, q = ProcessRead(AddToReadingBuffer(ResetBuffer(Current), Head(wire)), before),
         NEW h, h = Handled(q)
  PROVE  /\ q.threw = FALSE /\ q.done = TRUE
         /\ Sending(kind, due, Tail(wire), h, Append(received, Delivered(h)))
<1> DEFINE k == Len(received)
           nw == Len(wire)
           n == Len(due)
           pkt == due[k + 1]
           e == Enc(kind, pkt)
           c == ResetBuffer(Current)
           p == AddToReadingBuffer(c, Head(wire))
           g2 == Append(received, pkt)
           w2 == Tail(wire)
<1>1. /\ wire \in Seq(Seq(Byte)) /\ k \in Nat /\ k + nw = n /\ received = SubSeq(due, 1, k)
      /\ (\A i \in 1 .. nw : wire[i] = Enc(kind, due[k + i])) /\ Kept(protocol) = NewProtocol
  BY DEF Sending
<1>2. nw \in Nat /\ nw > 0 /\ n \in Nat
  <2>1. nw \in Nat \ {0}
    BY <1>1, EmptySeq
  <2> QED BY <2>1, LenProperties
<1>3. k + 1 \in 1 .. n /\ 1 \in 1 .. nw
  <2> HIDE DEF k, n, nw
  <2> QED BY <1>1, <1>2
<1>4. pkt \in PacketsOf(kind)
  BY <1>3, ElementOfSeq
<1>5. e \in Seq(Byte) /\ Len(e) \in Nat /\ Len(e) > 0
  BY <1>4, EncBytes
<1>6. Head(wire) = e
  <2>1. Head(wire) = wire[1]
    OBVIOUS
  <2> QED BY <1>1, <1>3, <2>1
<1>7. c = NewProtocol
  <2>1. Current = NewProtocol
    BY <1>1 DEF Current, Kept
  <2> DEFINE o == NewProtocol
             o1 == [o EXCEPT !.buf = <<>>]
  <2>2. o = Obj(<<>>, 0, <<>>, <<>>, <<>>, 0, 0, No, No)
    BY NewObject
  <2> HIDE DEF o
  <2>3. o1 = Obj(<<>>, 0, <<>>, <<>>, <<>>, 0, 0, No, No)
    BY <2>2, SetBuf
  <2> HIDE DEF o1
  <2>4. [o1 EXCEPT !.pos = 0] = Obj(<<>>, 0, <<>>, <<>>, <<>>, 0, 0, No, No)
    BY <2>3, SetPos
  <2>5. ResetBuffer(o) = [o1 EXCEPT !.pos = 0]
    BY DEF ResetBuffer, o1
  <2> QED BY <2>1, <2>2, <2>4, <2>5 DEF o
<1>8. Clean(kind, p) /\ p.buf = e /\ p.pos = 0
  <2>1. p = AddToReadingBuffer(NewProtocol, e)
    BY <1>6, <1>7
  <2> HIDE DEF p, e
  <2> QED BY <1>5, <2>1, NewWith
<1>9. Agrees(p.buf, e)
  BY <1>8 DEF Agrees
<1>10. Fit(kind, p)
  <2>1. kind = "line" => Len(pkt) + 2 <= LineBuffer
    BY <1>4 DEF PacketsOf
  <2> HIDE DEF p, pkt
  <2> QED BY <1>4, <1>8, <2>1, WholeFits
<1>11. Parsed(kind, p, q, h, e, pkt)
  <2>1. q = ProcessRead(p, before) /\ Len(p.buf) > 0 /\ p.buf \in Seq(Byte)
    BY <1>5, <1>8
  <2> HIDE DEF p, pkt
  <2> QED BY <1>4, <1>8, <1>9, <1>10, <2>1, ParseOne
<1>12. /\ q.threw = FALSE /\ q.done = TRUE /\ h.done = TRUE /\ h.buf = e /\ h.pos \in 0 .. Len(e)
       /\ Delivered(h) = pkt
  <2>1. Len(p.buf) >= Len(e)
    BY <1>5, <1>8
  <2> HIDE DEF p, pkt, e
  <2> QED BY <1>8, <1>11, <2>1 DEF Parsed
<1>13. Kept(h) = NewProtocol
  BY <1>12 DEF Kept
<1>14. g2 = SubSeq(due, 1, k + 1) /\ Len(g2) = k + 1
  <2>1. (k + 1) - 1 = k /\ k + 1 \in 0 .. n
    BY <1>1, <1>2, <1>3
  <2>2. Append(SubSeq(due, 1, (k + 1) - 1), due[k + 1]) = SubSeq(due, 1, k + 1)
    BY <1>3, OneFurther
  <2>3. Fronted(due, k + 1, PacketsOf(kind))
    BY <2>1, FrontPiece
  <2> QED BY <1>1, <2>1, <2>2, <2>3 DEF Fronted
<1>15. w2 \in Seq(Seq(Byte)) /\ Len(w2) = nw - 1 /\ \A i \in 1 .. Len(w2) : w2[i] = wire[i + 1]
  BY <1>1, HeadTailProperties
<1> HIDE DEF g2, w2
<1>16. ASSUME NEW i \in 1 .. Len(w2) PROVE w2[i] = Enc(kind, due[(k + 1) + i])
  <2>1. i + 1 \in 1 .. nw /\ k + (i + 1) = (k + 1) + i
    <3> HIDE DEF k, nw
    <3> QED BY <1>1, <1>2, <1>15
  <2>2. wire[i + 1] = Enc(kind, due[k + (i + 1)])
    BY <1>1, <2>1
  <2> QED BY <1>15, <2>1, <2>2
<1>17. Len(g2) \in Nat /\ Len(g2) + Len(w2) = n
  <2> HIDE DEF k, n, nw
  <2> QED BY <1>1, <1>2, <1>14, <1>15
<1>18. h.buf \in Seq(Byte) /\ h.pos \in 0 .. Len(h.buf) /\ h.done \in BOOLEAN
  <2>1. h.done \in BOOLEAN
    BY <1>12
  <2> HIDE DEF e
  <2> QED BY <1>5, <1>12, <2>1
<1>19. Sending(kind, due, w2, h, g2)
  BY <1>13, <1>14, <1>15, <1>16, <1>17, <1>18 DEF Sending
<1>20. Append(received, Delivered(h)) = g2
  BY <1>12 DEF g2
<1> QED BY <1>12, <1>19, <1>20 DEF w2

-----------------------------------------------------------------------------
(* The theorems *)

(* A channel has one of the kinds and one of the transports. *)
LEMMA SomeKind ==
  ASSUME <<kind, transport>> \in Channels
  PROVE  kind \in Kinds /\ transport \in {"stream", "datagram"}
BY ReaderAssumption DEF Kinds

(* The invariant holds when nothing has been written. *)
LEMMA InitInv == Init => Inv
<1> SUFFICES ASSUME Init PROVE Inv
  OBVIOUS
<1>1. PICK c \in Channels : kind = c[1] /\ transport = c[2]
  BY DEF Init
<1>2. <<kind, transport>> \in Channels
  BY <1>1, ReaderAssumption
<1>3. kind \in Kinds
  BY <1>2, SomeKind
<1>4. due = <<>> /\ wire = <<>> /\ received = <<>> /\ protocol = NewProtocol /\ broken = FALSE
  BY DEF Init
<1>5. Streaming(kind, due, wire, protocol, received) /\ Sending(kind, due, wire, protocol, received)
  <2>1. Streaming(kind, <<>>, <<>>, NewProtocol, <<>>) /\ Sending(kind, <<>>, <<>>, NewProtocol, <<>>)
    BY <1>3, Empty
  <2> QED BY <1>4, <2>1
<1>6. due \in Seq(PacketsOf(kind)) /\ Len(due) <= MaxPackets
  BY <1>4, ReaderAssumption
<1> QED BY <1>2, <1>4, <1>5, <1>6 DEF Inv

(* Write keeps it. *)
LEMMA WriteInv ==
  ASSUME Inv, NEW pkt \in Packets, Write(pkt)
  PROVE  Inv'
<1>1. /\ <<kind, transport>> \in Channels /\ due \in Seq(PacketsOf(kind)) /\ broken = FALSE
      /\ transport = "stream" => Streaming(kind, due, wire, protocol, received)
      /\ transport = "datagram" => Sending(kind, due, wire, protocol, received)
  BY DEF Inv
<1>2. kind \in Kinds /\ transport \in {"stream", "datagram"}
  BY <1>1, SomeKind
<1>3. pkt \in PacketsOf(kind) /\ Encode(pkt) = Enc(kind, pkt)
  BY <1>1, SameNames
<1>4. /\ Len(due) < MaxPackets /\ due' = Append(due, pkt) /\ kind' = kind /\ transport' = transport
      /\ protocol' = protocol /\ received' = received /\ broken' = broken
      /\ wire' = IF transport = "stream" THEN wire \o Enc(kind, pkt) ELSE Append(wire, Enc(kind, pkt))
  BY <1>3 DEF Write
<1>5. due' \in Seq(PacketsOf(kind)) /\ Len(due') <= MaxPackets
  <2>1. due' \in Seq(PacketsOf(kind)) /\ Len(due') = Len(due) + 1
    BY <1>1, <1>3, <1>4, AppendProperties
  <2>2. Len(due) \in Nat
    BY <1>1, LenProperties
  <2> QED BY <1>4, <2>1, <2>2, ReaderAssumption
<1>6. CASE transport = "stream"
  <2>1. wire' = wire \o Enc(kind, pkt)
    BY <1>4, <1>6
  <2>2. Streaming(kind, due', wire', protocol, received)
    BY <1>1, <1>2, <1>3, <1>4, <1>6, <2>1, StreamWrite
  <2> QED BY <1>1, <1>4, <1>5, <1>6, <2>2 DEF Inv
<1>7. CASE transport = "datagram"
  <2>1. wire' = Append(wire, Enc(kind, pkt))
    BY <1>4, <1>7
  <2>2. Sending(kind, due', wire', protocol, received)
    BY <1>1, <1>2, <1>3, <1>4, <1>7, <2>1, SendWrite
  <2> QED BY <1>1, <1>4, <1>5, <1>7, <2>2 DEF Inv
<1> QED BY <1>2, <1>6, <1>7

(* onSocket_ReadEvent keeps it. *)
LEMMA ReadEventInv ==
  ASSUME Orderly, Inv, NEW n \in 1 .. IoBuf, NEW before, ReadEvent(n, before)
  PROVE  Inv'
<1> DEFINE r == ReadLoop(AddToReadingBuffer(Current, SubSeq(wire, 1, n)), received, before)
<1>1. /\ transport = "stream" /\ n <= Len(wire) /\ (AnyCut \/ SafeCut(n))
      /\ protocol' = r.protocol /\ received' = r.got /\ broken' = r.broken
      /\ wire' = SubSeq(wire, n + 1, Len(wire))
      /\ kind' = kind /\ transport' = transport /\ due' = due
  BY DEF ReadEvent
<1>2. /\ <<kind, transport>> \in Channels /\ due \in Seq(PacketsOf(kind)) /\ Len(due) <= MaxPackets
      /\ Streaming(kind, due, wire, protocol, received)
  BY <1>1 DEF Inv
<1>3. kind \in Kinds
  BY <1>2, SomeKind
<1>4. SafeCut(n)
  BY <1>1 DEF Orderly
<1>5. n \in 1 .. Len(wire)
  <2>1. wire \in Seq(Byte)
    BY <1>2 DEF Streaming
  <2>2. Len(wire) \in Nat
    BY <2>1, LenProperties
  <2> QED BY <1>1, <2>2, ReaderAssumption
<1> HIDE DEF r
<1>6. PICK p2, g2 : /\ r = Run(p2, g2, No, Yes)
                    /\ Streaming(kind, due, SubSeq(wire, n + 1, Len(wire)), p2, g2)
  BY <1>2, <1>3, <1>4, <1>5, StreamRead DEF r
<1>7. protocol' = p2 /\ received' = g2 /\ broken' = No
  BY <1>1, <1>6, RunFields
<1>8. Streaming(kind', due', wire', protocol', received')
  BY <1>1, <1>6, <1>7
<1>9. broken' = FALSE
  BY <1>7 DEF No
<1> QED BY <1>1, <1>2, <1>8, <1>9 DEF Inv

(* onSocket_ReadFrom keeps it. *)
LEMMA ReadFromInv ==
  ASSUME Orderly, Inv, NEW before, ReadFrom(before)
  PROVE  Inv'
<1> DEFINE q == ProcessRead(AddToReadingBuffer(ResetBuffer(Current), Head(wire)), before)
           h == Handled(q)
<1>1. /\ transport = "datagram" /\ wire # <<>>
      /\ protocol' = (IF q.done THEN h ELSE q)
      /\ received' = (IF q.done THEN Append(received, Delivered(h)) ELSE received)
      /\ broken' = q.threw /\ wire' = Tail(wire)
      /\ kind' = kind /\ transport' = transport /\ due' = due
  BY DEF ReadFrom
<1>2. /\ <<kind, transport>> \in Channels /\ due \in Seq(PacketsOf(kind)) /\ Len(due) <= MaxPackets
      /\ Sending(kind, due, wire, protocol, received)
  BY <1>1 DEF Inv
<1>3. kind \in Kinds
  BY <1>2, SomeKind
<1>4. kind = "line" => \A l \in Lines : Len(l) + 2 <= LineBuffer
  BY <1>1, <1>2 DEF Orderly
<1> HIDE DEF q, h
<1>5. q = ProcessRead(AddToReadingBuffer(ResetBuffer(Current), Head(wire)), before) /\ h = Handled(q)
  BY DEF q, h
<1>6. /\ q.threw = FALSE /\ q.done = TRUE
      /\ Sending(kind, due, Tail(wire), h, Append(received, Delivered(h)))
  BY <1>1, <1>2, <1>3, <1>4, <1>5, SendRead
<1>7. protocol' = h /\ received' = Append(received, Delivered(h)) /\ broken' = FALSE
  BY <1>1, <1>6
<1>8. Sending(kind', due', wire', protocol', received')
  BY <1>1, <1>6, <1>7
<1> QED BY <1>1, <1>2, <1>7, <1>8 DEF Inv

(* A lost datagram keeps it. *)
LEMMA LoseInv ==
  ASSUME Inv, NEW i, Lose(i)
  PROVE  Inv'
<1>1. /\ transport = "datagram" /\ i \in DOMAIN wire /\ wire' = RemoveAt(wire, i)
      /\ due' = RemoveAt(due, Len(due) - Len(wire) + i) /\ kind' = kind /\ transport' = transport
      /\ protocol' = protocol /\ received' = received /\ broken' = broken
  BY DEF Lose
<1>2. /\ <<kind, transport>> \in Channels /\ due \in Seq(PacketsOf(kind)) /\ Len(due) <= MaxPackets
      /\ broken = FALSE /\ Sending(kind, due, wire, protocol, received)
  BY <1>1 DEF Inv
<1>3. kind \in Kinds
  BY <1>2, SomeKind
<1>4. i \in 1 .. Len(wire)
  <2>1. wire \in Seq(Seq(Byte))
    BY <1>2 DEF Sending
  <2> QED BY <1>1, <2>1, LenProperties
<1>5. /\ Sending(kind, due', wire', protocol, received) /\ due' \in Seq(PacketsOf(kind))
      /\ Len(due') = Len(due) - 1 /\ Len(due) \in Nat
  BY <1>1, <1>2, <1>3, <1>4, SendLose
<1>6. Len(due') <= MaxPackets
  BY <1>2, <1>5, ReaderAssumption
<1> QED BY <1>1, <1>2, <1>5, <1>6 DEF Inv

(* Every step keeps it. *)
LEMMA StepInv ==
  ASSUME Orderly
  PROVE  Inv /\ [Next]_vars => Inv'
<1> SUFFICES ASSUME Inv, [Next]_vars PROVE Inv'
  OBVIOUS
<1>1. ASSUME NEW pkt \in Packets, Write(pkt) PROVE Inv'
  BY <1>1, WriteInv
<1>2. ASSUME NEW n \in 1 .. IoBuf, NEW before \in {0, CR}, ReadEvent(n, before) PROVE Inv'
  BY <1>2, ReadEventInv
<1>3. ASSUME NEW before \in {0, CR}, ReadFrom(before) PROVE Inv'
  BY <1>3, ReadFromInv
<1>4. ASSUME NEW i \in 1 .. MaxPackets, Lose(i) PROVE Inv'
  BY <1>4, LoseInv
<1>5. CASE UNCHANGED vars
  BY <1>5 DEF vars, Inv
<1> QED BY <1>1, <1>2, <1>3, <1>4, <1>5 DEF Next

(* What is delivered is what was written. *)
LEMMA InvIntact ==
  ASSUME Inv
  PROVE  PacketsIntact
<1> DEFINE k == Len(received)
<1>1. /\ <<kind, transport>> \in Channels /\ due \in Seq(PacketsOf(kind))
      /\ Len(due) <= MaxPackets /\ broken = FALSE
  BY DEF Inv
<1>2. transport \in {"stream", "datagram"}
  BY <1>1, SomeKind
<1>3. /\ wire \in (IF transport = "stream" THEN Seq(Byte) ELSE Seq(Seq(Byte)))
      /\ protocol.buf \in Seq(Byte) /\ protocol.pos \in 0 .. Len(protocol.buf)
      /\ protocol.done \in BOOLEAN
      /\ k \in 0 .. Len(due) /\ received = SubSeq(due, 1, k)
  <2>1. CASE transport = "stream"
    <3>1. Streaming(kind, due, wire, protocol, received)
      BY <2>1 DEF Inv
    <3>2. /\ wire \in Seq(Byte)
          /\ Settled(kind, due, Offset(kind, due, Len(due)) - Len(wire), protocol, received)
      BY <3>1 DEF Streaming
    <3> QED BY <2>1, <3>2 DEF Settled, Held
  <2>2. CASE transport = "datagram"
    <3>1. Sending(kind, due, wire, protocol, received)
      BY <2>2 DEF Inv
    <3>2. /\ wire \in Seq(Seq(Byte)) /\ k \in Nat
          /\ k + Len(wire) = Len(due) /\ received = SubSeq(due, 1, k)
          /\ protocol.buf \in Seq(Byte) /\ protocol.pos \in 0 .. Len(protocol.buf)
          /\ protocol.done \in BOOLEAN
      BY <3>1 DEF Sending
    <3>3. k \in 0 .. Len(due)
      <4>1. Len(wire) \in Nat /\ Len(due) \in Nat
        BY <1>1, <3>2, LenProperties
      <4> HIDE DEF k
      <4> QED BY <3>2, <4>1
    <3> QED BY <2>2, <3>2, <3>3
  <2> QED BY <1>2, <2>1, <2>2
<1>4. Packets = PacketsOf(kind)
  BY <1>1, SameNames
<1>5. TypeOK
  BY <1>1, <1>3, <1>4 DEF TypeOK
<1>6. IsPrefix(received, due)
  <2>1. Fronted(due, k, PacketsOf(kind))
    BY <1>1, <1>3, FrontPiece
  <2>2. received \in Seq(PacketsOf(kind))
    BY <1>3, <2>1 DEF Fronted
  <2>3. SubSeq(received, 1, k) = received
    BY <2>2, SubSeqFull
  <2>4. k <= Len(due)
    BY <1>3
  <2> QED BY <1>3, <2>3, <2>4 DEF IsPrefix
<1> QED BY <1>1, <1>5, <1>6 DEF PacketsIntact

(* Nothing waits in an object when the wire is empty. *)
LEMMA InvDelivered ==
  ASSUME Inv
  PROVE  NothingHeldBack
<1> DEFINE k == Len(received)
           n == Len(due)
<1>1. <<kind, transport>> \in Channels /\ due \in Seq(PacketsOf(kind))
  BY DEF Inv
<1>2. kind \in Kinds /\ transport \in {"stream", "datagram"}
  BY <1>1, SomeKind
<1>3. SUFFICES ASSUME wire = <<>> PROVE received = due
  BY DEF NothingHeldBack
<1>4. Len(wire) = 0 /\ n \in Nat
  BY <1>1, <1>3, LenProperties
<1>5. SUFFICES received = SubSeq(due, 1, k) /\ k = n
  BY <1>1, SubSeqFull
<1>6. CASE transport = "stream"
  <2> DEFINE c == Kept(protocol)
             top == Offset(kind, due, n)
             nc == Len(c.buf)
  <2>1. Streaming(kind, due, wire, protocol, received)
    BY <1>6 DEF Inv
  <2>2. Settled(kind, due, top - Len(wire), protocol, received)
    BY <2>1 DEF Streaming
  <2>3. Held(kind, due, top - Len(wire), c, received) /\ Partial(kind, due, c, received)
    BY <2>2 DEF Settled
  <2>4. /\ k \in 0 .. n /\ received = SubSeq(due, 1, k) /\ c.buf \in Seq(Byte)
        /\ Offset(kind, due, k) + nc = top - Len(wire)
    BY <2>3 DEF Held
  <2>5. nc \in Nat
    BY <2>4, LenProperties
  <2>6. k = n
    <3>1. SUFFICES ASSUME k # n PROVE FALSE
      OBVIOUS
    <3> DEFINE off == Offset(kind, due, k)
               off2 == Offset(kind, due, k + 1)
               e == Enc(kind, due[k + 1])
    <3>2. k + 1 \in 1 .. n /\ k + 1 \in 0 .. n /\ n \in 0 .. n /\ (k + 1) - 1 = k /\ k < n
      <4> HIDE DEF k, n
      <4> QED BY <1>4, <2>4, <3>1
    <3>3. nc < Len(e)
      BY <2>3, <3>2 DEF Partial
    <3>4. Layout(kind, due)
      BY <1>1, <1>2, LaidOut
    <3>5. off2 = Offset(kind, due, (k + 1) - 1) + Len(e)
      BY <3>2, <3>4 DEF Layout
    <3>6. off2 <= top /\ off2 \in Nat /\ top \in Nat /\ off \in Nat
      BY <2>4, <3>2, <3>4 DEF Layout
    <3>7. due[k + 1] \in PacketsOf(kind)
      BY <3>2, <3>4 DEF Layout
    <3>8. Len(e) \in Nat
      BY <1>2, <3>7, EncBytes
    <3>9. off2 = off + Len(e) /\ off + nc = top
      <4>1. off2 = off + Len(e)
        BY <3>2, <3>5
      <4>2. top - Len(wire) = top
        BY <1>4, <3>6
      <4> QED BY <2>4, <4>1, <4>2
    <3> HIDE DEF off, off2, e, top, nc
    <3> QED BY <2>5, <3>3, <3>6, <3>8, <3>9
  <2> QED BY <2>4, <2>6
<1>7. CASE transport = "datagram"
  <2>1. Sending(kind, due, wire, protocol, received)
    BY <1>7 DEF Inv
  <2>2. k \in Nat /\ k + Len(wire) = n /\ received = SubSeq(due, 1, k)
    BY <2>1 DEF Sending
  <2>3. k = n
    <3> HIDE DEF k, n
    <3> QED BY <1>4, <2>2
  <2> QED BY <2>2, <2>3
<1> QED BY <1>2, <1>6, <1>7

(* When reads end at good places and a datagram of a line fits into         *)
(* LineProtocol's buffer, Inv holds: the object in front of the loop holds  *)
(* exactly the bytes between the packets delivered and the wire, less than  *)
(* a packet of them, or the wire has a datagram for every packet not yet    *)
(* delivered.                                                               *)
THEOREM ObjectsHoldTheRest ==
  ASSUME Orderly
  PROVE  Spec => []Inv
<1>1. Init => Inv
  BY InitInv
<1>2. Inv /\ [Next]_vars => Inv'
  BY StepInv
<1> QED BY <1>1, <1>2, PTL DEF Spec

(* The read handlers of ClientController.cpp give onReceivedProtocol the    *)
(* packets that were written, whole, in order and each once, for every      *)
(* kind of packet, stream or datagrams, and every division into reads at    *)
(* good places.                                                             *)
THEOREM PacketsStayIntact ==
  ASSUME Orderly
  PROVE  Spec => []PacketsIntact
<1>1. Spec => []Inv
  BY ObjectsHoldTheRest
<1>2. Inv => PacketsIntact
  BY InvIntact
<1> QED BY <1>1, <1>2, PTL

(* When every byte has been read every packet has been delivered: the loop  *)
(* of onSocket_ReadEvent stops only for less than a packet.                 *)
THEOREM EverythingIsDelivered ==
  ASSUME Orderly
  PROVE  Spec => []NothingHeldBack
<1>1. Spec => []Inv
  BY ObjectsHoldTheRest
<1>2. Inv => NothingHeldBack
  BY InvDelivered
<1> QED BY <1>1, <1>2, PTL
=============================================================================
