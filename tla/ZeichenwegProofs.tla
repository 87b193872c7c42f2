-------------------------- MODULE ZeichenwegProofs --------------------------
(***************************************************************************)
(* Theorems about the way of a character: the buffers are kept, characters *)
(* are printed once and in order, and the counts of the acknowledgements   *)
(* promise nothing too early.                                              *)
(*                                                                         *)
(* The way from one station to the other is looked at as what it holds: g, *)
(* what was printed last; S, what is to be printed; M, the telegrams; and  *)
(* what has been typed, of which the characters up to G have been sent.    *)
(***************************************************************************)
EXTENDS Zeichenweg, SequenceTheorems, FiniteSetTheorems, NaturalsInduction,
        WellFoundedInduction, TLAPS

Schritte == {"Auswerten", "Block", "Quitt", "Quittiert", "Socket", "Senden"}
Zaehler == 0 .. ZwUmlauf - 1
Telegramm ==
    {t \in [code : {"BAUDOT_DATA", "QUITT"}, zeichen : Seq(Nat \ {0}), anzahl : Zaehler] :
        t.code = "QUITT" => t.zeichen = << >>}
Station == [getippt : Nat, eigene : Nat, empf : Seq(Nat \ {0}), aus : Seq(Telegramm), ein : Seq(Telegramm),
            sende : Seq(Nat), gedruckt : Nat, gesendet : Zaehler, empfangen : Zaehler, quittiert : Zaehler,
            quittung : BOOLEAN, fehler : BOOLEAN, pc : Schritte]

Puffer(u) ==
    /\ Len(u.empf) <= ZwMaxPuffer /\ Len(u.sende) < ZwMaxPuffer
    /\ Belegung(u.aus) <= ZwOutMax
Gut(u) == u \in Station /\ Puffer(u)

Typ ==
    /\ zw \in [Enden -> Station] /\ \A s \in Enden : Puffer(zw[s])
    /\ zwNetz \in [Enden -> Seq(Telegramm)]
    /\ zwAbrisse \in Nat /\ zwLage \in ZwLagen
    /\ \A s \in Enden : zw[s].getippt <= zwLage.tippt[s]

LEMMA Groessen ==
    /\ ZwMaxPuffer \in Nat /\ 2 <= ZwMaxPuffer /\ ZwBlock \in Nat /\ 1 <= ZwBlock
    /\ ZwOutMax \in Nat /\ ZwOutMax > 2 /\ ZwUmlauf \in Nat /\ 1 <= ZwUmlauf /\ ZwMaxNetz \in Nat
BY ZwAnnahme

LEMMA Partner ==
    /\ Gegenstelle("A") = "B" /\ Gegenstelle("B") = "A"
    /\ \A s \in Enden : Gegenstelle(s) \in Enden /\ Gegenstelle(s) # s /\ Gegenstelle(Gegenstelle(s)) = s
    /\ \A s, t \in Enden : s # t => t = Gegenstelle(s)
<1>1. Gegenstelle("A") = "B" BY DEF Gegenstelle, Enden
<1>2. Gegenstelle("B") = "A" BY DEF Gegenstelle, Enden
<1> QED BY <1>1, <1>2 DEF Enden

LEMMA TypIstZwTyp == Typ => ZwTyp
BY DEF Typ, ZwTyp, Puffer, Station, Zaehler

(***************************************************************************)
(* Induction, said of sets.                                                *)
(***************************************************************************)
LEMMA Kleinste ==
    ASSUME NEW T, T \subseteq Nat, T # {}
    PROVE  \E x \in T : \A y \in T : x <= y
<1> DEFINE R == {p \in Nat \X Nat : p[1] < p[2]}
<1>1. IsWellFoundedOn(R, Nat) BY NatLessThanWellFounded DEF OpToRel
<1>2. PICK x \in T : \A y \in T : ~(<<y, x>> \in R) BY <1>1, WFMin
<1>3. \A y \in T : ~(y < x) BY <1>2
<1> QED BY <1>3

LEMMA AlleZahlen ==
    ASSUME NEW T, 0 \in T, \A n \in Nat : n \in T => n + 1 \in T
    PROVE  Nat \subseteq T
<1> SUFFICES ASSUME Nat \ T # {} PROVE FALSE OBVIOUS
<1>1. PICK x \in Nat \ T : \A y \in Nat \ T : x <= y BY Kleinste
<1>2. x # 0 BY <1>1
<1>3. x - 1 \in Nat /\ ~(x <= x - 1) BY <1>1, <1>2
<1>4. x - 1 \in T BY <1>1, <1>3
<1>5. (x - 1) + 1 = x BY <1>1
<1> QED BY <1>1, <1>3, <1>4, <1>5

(***************************************************************************)
(* Sequences.                                                              *)
(***************************************************************************)
LEMMA KopfRest ==
    ASSUME NEW T, NEW X \in Seq(T), NEW Y \in Seq(T), X # << >>
    PROVE  X \o Y \in Seq(T) /\ X \o Y # << >> /\ (X \o Y)[1] = Head(X) /\ Tail(X \o Y) = Tail(X) \o Y
<1> DEFINE P == X \o Y
           R == Tail(X)
           Q == R \o Y
<1>1. Len(X) \in Nat /\ Len(X) > 0 /\ Len(Y) \in Nat OBVIOUS
<1>2. P \in Seq(T) /\ Len(P) = Len(X) + Len(Y) BY ConcatProperties
<1>3. \A i \in 1 .. Len(X) + Len(Y) : P[i] = IF i <= Len(X) THEN X[i] ELSE Y[i - Len(X)]
  BY ConcatProperties
<1>4. R \in Seq(T) /\ Len(R) = Len(X) - 1 /\ \A i \in 1 .. Len(X) - 1 : R[i] = X[i + 1]
  BY HeadTailProperties
<1> HIDE DEF R
<1>5. Q \in Seq(T) /\ Len(Q) = Len(X) - 1 + Len(Y) BY <1>4, ConcatProperties
<1>6. \A i \in 1 .. Len(X) - 1 + Len(Y) : Q[i] = IF i <= Len(X) - 1 THEN R[i] ELSE Y[i - (Len(X) - 1)]
  BY <1>4, ConcatProperties
<1> HIDE DEF P, Q
<1>7. P # << >> BY <1>1, <1>2
<1>8. P[1] = X[1] /\ X[1] = Head(X) BY <1>1, <1>3
<1>9. Tail(P) \in Seq(T) /\ Len(Tail(P)) = Len(Q) /\ \A i \in 1 .. Len(Q) : Tail(P)[i] = P[i + 1]
  <2>1. /\ Tail(P) \in Seq(T) /\ Len(Tail(P)) = Len(P) - 1
        /\ \A i \in 1 .. Len(Tail(P)) : Tail(P)[i] = P[i + 1]
    BY <1>2, <1>7, HeadTailProperties
  <2>2. Len(Q) = Len(P) - 1 BY <1>1, <1>2, <1>5
  <2> QED BY <2>1, <2>2
<1>10. ASSUME NEW i \in 1 .. Len(Q) PROVE P[i + 1] = Q[i]
  <2>1. i \in Nat /\ i >= 1 /\ i <= Len(X) - 1 + Len(Y) /\ i + 1 \in 1 .. Len(X) + Len(Y) BY <1>1, <1>5
  <2>2. CASE i <= Len(X) - 1
    <3>1. i + 1 <= Len(X) /\ i \in 1 .. Len(X) - 1 BY <1>1, <2>1, <2>2
    <3> QED BY <1>3, <1>4, <1>5, <1>6, <2>1, <2>2, <3>1
  <2>3. CASE ~(i <= Len(X) - 1)
    <3>1. ~(i + 1 <= Len(X)) /\ (i + 1) - Len(X) = i - (Len(X) - 1) BY <1>1, <2>1, <2>3
    <3> QED BY <1>3, <1>5, <1>6, <2>1, <2>3, <3>1
  <2> QED BY <2>2, <2>3
<1>11. Tail(P) = Q
  <2>1. \A i \in 1 .. Len(Tail(P)) : Tail(P)[i] = Q[i] BY <1>9, <1>10
  <2> HIDE DEF P, Q
  <2> QED BY <1>5, <1>9, <2>1, SeqEqual
<1> QED BY <1>2, <1>7, <1>8, <1>11 DEF P, Q, R

OhneKopf(a, b, c) == Tail(a \o b \o c) = Tail(a) \o b \o c

LEMMA KopfRestDrei ==
    ASSUME NEW T, NEW X \in Seq(T), NEW L \in Seq(T), NEW Y \in Seq(T), X # << >>
    PROVE  /\ X \o L \o Y \in Seq(T) /\ X \o L \o Y # << >>
           /\ Head(X \o L \o Y) = Head(X) /\ OhneKopf(X, L, Y)
<1> DEFINE P == X \o L
<1>1. P \in Seq(T) /\ P # << >> /\ P[1] = Head(X) /\ Tail(P) = Tail(X) \o L BY KopfRest
<1>2. P[1] = Head(P) BY <1>1
<1> HIDE DEF P
<1>3. P \o Y \in Seq(T) /\ P \o Y # << >> /\ Head(P \o Y) = Head(P) /\ Tail(P \o Y) = Tail(P) \o Y
  <2> DEFINE Q == P \o Y
  <2>1. Q \in Seq(T) /\ Q # << >> /\ Q[1] = Head(P) /\ Tail(Q) = Tail(P) \o Y BY <1>1, KopfRest
  <2> HIDE DEF Q
  <2>2. Head(Q) = Q[1] BY <2>1
  <2> QED BY <2>1, <2>2 DEF Q
<1> QED BY <1>1, <1>2, <1>3 DEF P, OhneKopf

(* Equations between concatenations are given names: the prover looks for  *)
(* a name.                                                                 *)
Zusammen(a, b, c) == a \o b = c
Assoziativ(a, b, c) == (a \o b) \o c = a \o (b \o c)

LEMMA AssoziativGilt ==
    ASSUME NEW T, NEW a \in Seq(T), NEW b \in Seq(T), NEW c \in Seq(T)
    PROVE  Assoziativ(a, b, c)
BY ConcatAssociative DEF Assoziativ

(* The first n of L may as well be the last ones of what is before it. *)
LEMMA Verschoben ==
    ASSUME NEW T, NEW X \in Seq(T), NEW L \in Seq(T), NEW n \in 0 .. Len(L)
    PROVE  /\ SubSeq(L, 1, n) \in Seq(T) /\ SubSeq(L, n + 1, Len(L)) \in Seq(T)
           /\ X \o SubSeq(L, 1, n) \in Seq(T)
           /\ Zusammen(X \o SubSeq(L, 1, n), SubSeq(L, n + 1, Len(L)), X \o L)
<1> DEFINE A == SubSeq(L, 1, n)
           B == SubSeq(L, n + 1, Len(L))
<1>1. Len(L) \in Nat /\ n \in Nat /\ n <= Len(L) OBVIOUS
<1>2. A \in Seq(T) /\ Len(A) = n
  <2>1. \A i \in 1 .. n : L[i] \in T BY <1>1
  <2> QED BY <1>1, <2>1, SubSeqProperties
<1>3. B \in Seq(T)
  <2>1. \A i \in n + 1 .. Len(L) : L[i] \in T BY <1>1
  <2> QED BY <1>1, <2>1, SubSeqProperties
<1>4. A \o B = L
  <2>1. 1 \in 1 .. Len(L) + 1 /\ n \in 1 - 1 .. Len(L) /\ Len(L) \in n .. Len(L) BY <1>1
  <2>2. A \o B = SubSeq(L, 1, Len(L)) BY <2>1, ConcatAdjacentSubSeq
  <2> QED BY <2>2, SubSeqFull
<1> HIDE DEF A, B
<1>5. Assoziativ(X, A, B) BY <1>2, <1>3, AssoziativGilt
<1>6. X \o A \in Seq(T) BY <1>2, ConcatProperties
<1>7. Zusammen(X \o A, B, X \o L) BY <1>4, <1>5 DEF Zusammen, Assoziativ
<1> QED BY <1>2, <1>3, <1>6, <1>7 DEF A, B

LEMMA VerschobenDrei ==
    ASSUME NEW T, NEW X \in Seq(T), NEW L \in Seq(T), NEW Y \in Seq(T), NEW n \in 0 .. Len(Y)
    PROVE  /\ SubSeq(Y, n + 1, Len(Y)) \in Seq(T) /\ L \o SubSeq(Y, 1, n) \in Seq(T)
           /\ Zusammen(X \o (L \o SubSeq(Y, 1, n)), SubSeq(Y, n + 1, Len(Y)), X \o L \o Y)
<1> DEFINE A == SubSeq(Y, 1, n)
           B == SubSeq(Y, n + 1, Len(Y))
           P == X \o L
<1>1. P \in Seq(T) BY ConcatProperties
<1> HIDE DEF P
<1>2. A \in Seq(T) /\ B \in Seq(T) /\ Zusammen(P \o A, B, P \o Y) BY <1>1, Verschoben
<1> HIDE DEF A, B
<1>3. Assoziativ(X, L, A) BY <1>2, AssoziativGilt
<1>4. L \o A \in Seq(T) BY <1>2, ConcatProperties
<1>5. Zusammen(X \o (L \o A), B, X \o L \o Y) BY <1>2, <1>3 DEF P, Assoziativ
<1> QED BY <1>2, <1>4, <1>5 DEF A, B

LEMMA Angehaengt ==
    ASSUME NEW T, NEW X \in Seq(T), NEW L \in Seq(T), NEW Y \in Seq(T), NEW t \in T
    PROVE  X \o L \o Append(Y, t) = Append(X \o L \o Y, t) /\ X \o L \o Y \in Seq(T)
<1> DEFINE P == X \o L
           s == <<t>>
<1>1. P \in Seq(T) /\ s \in Seq(T) BY ConcatProperties
<1> HIDE DEF P
<1>2. Append(Y, t) = Y \o s /\ P \o Y \in Seq(T) BY <1>1, AppendIsConcat, ConcatProperties
<1>3. Append(P \o Y, t) = (P \o Y) \o s BY <1>2, AppendIsConcat
<1> HIDE DEF s
<1>4. Assoziativ(P, Y, s) BY <1>1, AssoziativGilt
<1> QED BY <1>2, <1>3, <1>4 DEF P, Assoziativ

Verkettet(P, X, M) ==
    /\ Len(P) = Len(X) + Len(M)
    /\ \A i \in 1 .. Len(X) + Len(M) : P[i] = IF i <= Len(X) THEN X[i] ELSE M[i - Len(X)]

LEMMA VerkettetGilt ==
    ASSUME NEW T, NEW X \in Seq(T), NEW M \in Seq(T)
    PROVE  X \o M \in Seq(T) /\ Verkettet(X \o M, X, M)
BY ConcatProperties DEF Verkettet

LEMMA Modulo == \A i \in Int : i % ZwUmlauf \in Zaehler
BY Groessen DEF Zaehler

(***************************************************************************)
(* Bytes: Belegung is a sum over the telegrams, from the first on.         *)
(***************************************************************************)
IstSumme(f, ts) == f = [i \in 0 .. Len(ts) |-> IF i = 0 THEN 0 ELSE f[i - 1] + Laenge(ts[i])]
Summe(ts) == CHOOSE f : IstSumme(f, ts)

LEMMA LaengeZahl == \A t \in Telegramm : Laenge(t) \in Nat
BY DEF Telegramm, Laenge

LEMMA SummeGilt ==
    ASSUME NEW ts \in Seq(Telegramm)
    PROVE  IstSumme(Summe(ts), ts) /\ Belegung(ts) = Summe(ts)[Len(ts)]
<1> DEFINE N == Len(ts)
           Bis(f, n) == f = [i \in 0 .. n |-> IF i = 0 THEN 0 ELSE f[i - 1] + Laenge(ts[i])]
           T == {n \in Nat : \E f : Bis(f, n)}
<1>1. 0 \in T
  <2> DEFINE f == [i \in 0 .. 0 |-> 0]
  <2>1. f = [i \in 0 .. 0 |-> IF i = 0 THEN 0 ELSE f[i - 1] + Laenge(ts[i])] OBVIOUS
  <2>2. Bis(f, 0) BY <2>1
  <2> QED BY <2>2
<1>2. ASSUME NEW n \in Nat, n \in T PROVE n + 1 \in T
  <2>1. PICK f : Bis(f, n) BY <1>2
  <2> DEFINE g == [i \in 0 .. n + 1 |-> IF i <= n THEN f[i] ELSE f[n] + Laenge(ts[n + 1])]
             h == [i \in 0 .. n + 1 |-> IF i = 0 THEN 0 ELSE g[i - 1] + Laenge(ts[i])]
  <2>2. ASSUME NEW i \in 0 .. n + 1 PROVE g[i] = h[i]
    <3>1. CASE i = 0
      <4>1. g[i] = f[0] /\ h[i] = 0 BY <3>1
      <4>2. f[0] = 0 BY <2>1
      <4> QED BY <4>1, <4>2
    <3>2. CASE i \in 1 .. n
      <4>1. i # 0 /\ i <= n /\ i - 1 \in 0 .. n + 1 /\ i - 1 <= n /\ i \in 0 .. n BY <3>2
      <4>2. g[i] = f[i] /\ g[i - 1] = f[i - 1] BY <4>1
      <4>3. h[i] = g[i - 1] + Laenge(ts[i]) BY <4>1
      <4>4. f[i] = f[i - 1] + Laenge(ts[i]) BY <2>1, <4>1
      <4> QED BY <4>2, <4>3, <4>4
    <3>3. CASE i = n + 1
      <4>1. i # 0 /\ ~(i <= n) /\ i - 1 = n /\ n \in 0 .. n + 1 /\ n <= n BY <3>3
      <4>2. g[i] = f[n] + Laenge(ts[n + 1]) /\ g[n] = f[n] BY <4>1
      <4>3. h[i] = g[n] + Laenge(ts[i]) BY <4>1
      <4> QED BY <3>3, <4>2, <4>3
    <3> QED BY <3>1, <3>2, <3>3
  <2>3. g = h
    <3>1. DOMAIN g = 0 .. n + 1 /\ DOMAIN h = 0 .. n + 1 OBVIOUS
    <3>2. g = [i \in 0 .. n + 1 |-> g[i]] /\ h = [i \in 0 .. n + 1 |-> h[i]] OBVIOUS
    <3> HIDE DEF g, h
    <3> QED BY <2>2, <3>1, <3>2
  <2> HIDE DEF g
  <2>4. Bis(g, n + 1) BY <2>3
  <2> HIDE DEF h, Bis
  <2>5. \E k : Bis(k, n + 1) BY <2>4
  <2> QED BY <2>5
<1>3. N \in Nat OBVIOUS
<1>4. N \in T
  <2> HIDE DEF T
  <2> QED BY <1>1, <1>2, <1>3, AlleZahlen
<1>5. \E f : IstSumme(f, ts) BY <1>4 DEF IstSumme
<1>6. IstSumme(Summe(ts), ts) BY <1>5 DEF Summe
<1>7. Belegung(ts) = Summe(ts)[Len(ts)] BY DEF Belegung, Summe, IstSumme
<1> QED BY <1>6, <1>7

(* The sum up to i is a number, and the next one has one telegram more.    *)
LEMMA SummeBis ==
    ASSUME NEW ts \in Seq(Telegramm)
    PROVE  /\ Summe(ts)[0] = 0
           /\ \A i \in 1 .. Len(ts) : Summe(ts)[i] = Summe(ts)[i - 1] + Laenge(ts[i])
           /\ \A i \in 0 .. Len(ts) : Summe(ts)[i] \in Nat
<1> DEFINE f == Summe(ts)
           T == {n \in Nat : n <= Len(ts) => f[n] \in Nat}
<1>1. f = [i \in 0 .. Len(ts) |-> IF i = 0 THEN 0 ELSE f[i - 1] + Laenge(ts[i])]
  BY SummeGilt DEF IstSumme
<1> HIDE DEF f
<1>2. Len(ts) \in Nat OBVIOUS
<1>3. f[0] = 0 BY <1>1, <1>2
<1>4. \A i \in 1 .. Len(ts) : f[i] = f[i - 1] + Laenge(ts[i]) BY <1>1, <1>2
<1>5. 0 \in T BY <1>3
<1>6. ASSUME NEW n \in Nat, n \in T PROVE n + 1 \in T
  <2> SUFFICES ASSUME n + 1 <= Len(ts) PROVE f[n + 1] \in Nat OBVIOUS
  <2>1. n <= Len(ts) /\ n + 1 \in 1 .. Len(ts) /\ (n + 1) - 1 = n BY <1>2
  <2>2. f[n] \in Nat BY <1>6, <2>1
  <2>3. ts[n + 1] \in Telegramm BY <2>1
  <2>4. f[n + 1] = f[n] + Laenge(ts[n + 1]) BY <1>4, <2>1
  <2> QED BY <2>2, <2>3, <2>4, LaengeZahl
<1>7. Nat \subseteq T
  <2> HIDE DEF T
  <2> QED BY <1>5, <1>6, AlleZahlen
<1>8. \A i \in 0 .. Len(ts) : f[i] \in Nat BY <1>2, <1>7
<1> QED BY <1>3, <1>4, <1>8 DEF f

LEMMA BelegungZahl ==
    ASSUME NEW ts \in Seq(Telegramm)
    PROVE  Belegung(ts) \in Nat
<1>1. Len(ts) \in 0 .. Len(ts) OBVIOUS
<1> QED BY <1>1, SummeGilt, SummeBis

LEMMA BelegungLeer == Belegung(<< >>) = 0
<1>1. << >> \in Seq(Telegramm) /\ Len(<< >>) = 0 OBVIOUS
<1> QED BY <1>1, SummeGilt, SummeBis

LEMMA BelegungMehr ==
    ASSUME NEW ts \in Seq(Telegramm), NEW t \in Telegramm
    PROVE  Belegung(Append(ts, t)) = Belegung(ts) + Laenge(t)
<1> DEFINE us == Append(ts, t)
           f == Summe(ts)
           g == Summe(us)
           T == {n \in Nat : n <= Len(ts) => g[n] = f[n]}
<1>1. us \in Seq(Telegramm) /\ Len(us) = Len(ts) + 1 /\ us[Len(us)] = t /\ Len(ts) \in Nat OBVIOUS
<1>2. \A i \in 1 .. Len(ts) : us[i] = ts[i] OBVIOUS
<1> HIDE DEF us
<1>3. /\ f[0] = 0 /\ g[0] = 0
      /\ \A i \in 1 .. Len(ts) : f[i] = f[i - 1] + Laenge(ts[i])
      /\ \A i \in 1 .. Len(us) : g[i] = g[i - 1] + Laenge(us[i])
  BY <1>1, SummeBis
<1> HIDE DEF f, g
<1>4. 0 \in T BY <1>3
<1>5. ASSUME NEW n \in Nat, n \in T PROVE n + 1 \in T
  <2> SUFFICES ASSUME n + 1 <= Len(ts) PROVE g[n + 1] = f[n + 1] OBVIOUS
  <2>1. n <= Len(ts) /\ n + 1 \in 1 .. Len(ts) /\ n + 1 \in 1 .. Len(us) /\ (n + 1) - 1 = n BY <1>1
  <2>2. g[n + 1] = g[n] + Laenge(us[n + 1]) /\ f[n + 1] = f[n] + Laenge(ts[n + 1]) BY <1>3, <2>1
  <2> QED BY <1>2, <1>5, <2>1, <2>2
<1>6. Nat \subseteq T
  <2> HIDE DEF T
  <2> QED BY <1>4, <1>5, AlleZahlen
<1>7. g[Len(ts)] = f[Len(ts)] BY <1>1, <1>6
<1>8. Len(us) \in 1 .. Len(us) /\ Len(us) - 1 = Len(ts) BY <1>1
<1>9. g[Len(us)] = f[Len(ts)] + Laenge(t) BY <1>1, <1>3, <1>7, <1>8
<1> QED BY <1>1, <1>9, SummeGilt DEF f, g, us

(* What is left when the first n have gone is not longer.                  *)
LEMMA BelegungRest ==
    ASSUME NEW ts \in Seq(Telegramm), NEW n \in 0 .. Len(ts)
    PROVE  Belegung(SubSeq(ts, n + 1, Len(ts))) <= Belegung(ts)
<1> DEFINE us == SubSeq(ts, n + 1, Len(ts))
           f == Summe(ts)
           g == Summe(us)
           T == {k \in Nat : k <= Len(us) => g[k] + f[n] = f[n + k]}
<1>1. Len(ts) \in Nat /\ n \in Nat OBVIOUS
<1>2. us \in Seq(Telegramm) /\ Len(us) = Len(ts) - n /\ \A i \in 1 .. Len(us) : us[i] = ts[n + i]
  BY <1>1, SubSeqProperties
<1> HIDE DEF us
<1>3. /\ f[0] = 0 /\ g[0] = 0
      /\ \A i \in 1 .. Len(ts) : f[i] = f[i - 1] + Laenge(ts[i])
      /\ \A i \in 1 .. Len(us) : g[i] = g[i - 1] + Laenge(us[i])
      /\ \A i \in 0 .. Len(ts) : f[i] \in Nat
      /\ \A i \in 0 .. Len(us) : g[i] \in Nat
  BY <1>2, SummeBis
<1> HIDE DEF f, g
<1>4. 0 \in T
  <2>1. f[n] \in Nat BY <1>3
  <2> QED BY <1>1, <1>3, <2>1
<1>5. ASSUME NEW k \in Nat, k \in T PROVE k + 1 \in T
  <2> SUFFICES ASSUME k + 1 <= Len(us) PROVE g[k + 1] + f[n] = f[n + (k + 1)] OBVIOUS
  <2>1. /\ k <= Len(us) /\ k + 1 \in 1 .. Len(us) /\ (k + 1) - 1 = k
        /\ n + (k + 1) \in 1 .. Len(ts) /\ (n + (k + 1)) - 1 = n + k /\ k \in 0 .. Len(us)
    BY <1>1, <1>2
  <2>2. g[k + 1] = g[k] + Laenge(us[k + 1]) /\ f[n + (k + 1)] = f[n + k] + Laenge(ts[n + (k + 1)])
    BY <1>3, <2>1
  <2>3. us[k + 1] = ts[n + (k + 1)] BY <1>2, <2>1
  <2>4. g[k] + f[n] = f[n + k] BY <1>5, <2>1
  <2>5. g[k] \in Nat /\ f[n] \in Nat /\ Laenge(us[k + 1]) \in Nat
    <3>1. us[k + 1] \in Telegramm BY <1>2, <2>1
    <3> QED BY <1>3, <2>1, <3>1, LaengeZahl
  <2> QED BY <2>2, <2>3, <2>4, <2>5
<1>6. Nat \subseteq T
  <2> HIDE DEF T
  <2> QED BY <1>4, <1>5, AlleZahlen
<1>7. Len(us) \in Nat /\ n + Len(us) = Len(ts) BY <1>1, <1>2
<1>8. g[Len(us)] + f[n] = f[Len(ts)] BY <1>6, <1>7
<1>9. g[Len(us)] \in Nat /\ f[n] \in Nat BY <1>3, <1>7
<1>10. Belegung(us) = g[Len(us)] /\ Belegung(ts) = f[Len(ts)] BY <1>2, SummeGilt DEF f, g
<1> QED BY <1>8, <1>9, <1>10 DEF us

(***************************************************************************)
(* Order.                                                                  *)
(***************************************************************************)
Text(M, i) == M[i].zeichen
Zwischen(z, g, G) == \A k \in DOMAIN z : z[k] # 0 => g < z[k] /\ z[k] <= G
Davor(y, z) == \A k \in DOMAIN y, l \in DOMAIN z : 0 \notin {y[k], z[l]} => y[k] < z[l]

Geordnet(g, S, M, G) ==
    /\ g \in Nat /\ G \in Nat /\ g <= G
    /\ Steigend(S) /\ Zwischen(S, g, G)
    /\ \A i \in DOMAIN M : Steigend(Text(M, i)) /\ Zwischen(Text(M, i), g, G) /\ Davor(S, Text(M, i))
    /\ \A i, j \in DOMAIN M : i < j => Davor(Text(M, i), Text(M, j))

(* None is missing.                                                        *)
In(n, z) == \E k \in DOMAIN z : z[k] = n
Voll(g, S, M, G) == \A n \in g + 1 .. G : In(n, S) \/ \E i \in DOMAIN M : In(n, Text(M, i))

LEMMA TextTyp ==
    ASSUME NEW M \in Seq(Telegramm), NEW i \in 1 .. Len(M)
    PROVE  M[i] \in Telegramm /\ Text(M, i) \in Seq(Nat \ {0}) /\ Text(M, i) \in Seq(Nat)
<1>1. M[i] \in Telegramm OBVIOUS
<1>2. Text(M, i) \in Seq(Nat \ {0}) BY <1>1 DEF Telegramm, Text
<1>3. ASSUME NEW z \in Seq(Nat \ {0}) PROVE z \in Seq(Nat) OBVIOUS
<1> QED BY <1>1, <1>2, <1>3

(* A character is printed. *)
LEMMA DruckenOrdnet ==
    ASSUME NEW g, NEW S \in Seq(Nat), NEW M \in Seq(Telegramm), NEW G, Geordnet(g, S, M, G), S # << >>
    PROVE  LET h == IF Head(S) = 0 THEN g ELSE Head(S)
           IN  Geordnet(h, Tail(S), M, G) /\ (Voll(g, S, M, G) => Voll(h, Tail(S), M, G))
<1> DEFINE h == IF Head(S) = 0 THEN g ELSE Head(S)
           R == Tail(S)
<1>1. /\ g \in Nat /\ G \in Nat /\ g <= G /\ Steigend(S) /\ Zwischen(S, g, G)
  BY DEF Geordnet
<1>2. /\ \A i \in DOMAIN M : Steigend(Text(M, i)) /\ Zwischen(Text(M, i), g, G) /\ Davor(S, Text(M, i))
      /\ \A i, j \in DOMAIN M : i < j => Davor(Text(M, i), Text(M, j))
  BY DEF Geordnet
<1>3. Head(S) = S[1] /\ 1 \in DOMAIN S /\ Head(S) \in Nat /\ DOMAIN S = 1 .. Len(S) OBVIOUS
<1>4. R \in Seq(Nat) /\ DOMAIN R = 1 .. Len(S) - 1 /\ \A k \in DOMAIN R : R[k] = S[k + 1] /\ k + 1 \in DOMAIN S OBVIOUS
<1> HIDE DEF R
<1>5. h \in Nat /\ g <= h /\ h <= G BY <1>1, <1>3 DEF Zwischen
<1>6. Steigend(R) BY <1>1, <1>3, <1>4 DEF Steigend
<1>7. Zwischen(R, h, G)
  <2> SUFFICES ASSUME NEW k \in DOMAIN R, R[k] # 0 PROVE h < R[k] /\ R[k] <= G BY DEF Zwischen
  <2>1. R[k] = S[k + 1] /\ k + 1 \in DOMAIN S /\ 1 < k + 1 /\ S[k + 1] \in Nat BY <1>3, <1>4
  <2>2. g < S[k + 1] /\ S[k + 1] <= G BY <1>1, <2>1 DEF Zwischen
  <2>3. Head(S) # 0 => S[1] < S[k + 1] BY <1>1, <1>3, <2>1 DEF Steigend
  <2> QED BY <1>3, <2>1, <2>2, <2>3
<1>8. ASSUME NEW i \in DOMAIN M
      PROVE  Steigend(Text(M, i)) /\ Zwischen(Text(M, i), h, G) /\ Davor(R, Text(M, i))
  <2>1. Steigend(Text(M, i)) /\ Zwischen(Text(M, i), g, G) /\ Davor(S, Text(M, i)) BY <1>2
  <2>2. Davor(R, Text(M, i)) BY <1>4, <2>1 DEF Davor
  <2>3. Zwischen(Text(M, i), h, G)
    <3> SUFFICES ASSUME NEW k \in DOMAIN Text(M, i), Text(M, i)[k] # 0
                 PROVE h < Text(M, i)[k] /\ Text(M, i)[k] <= G
      BY DEF Zwischen
    <3>1. g < Text(M, i)[k] /\ Text(M, i)[k] <= G BY <2>1 DEF Zwischen
    <3>2. Head(S) # 0 => S[1] < Text(M, i)[k] BY <1>3, <2>1 DEF Davor
    <3> QED BY <1>3, <3>1, <3>2
  <2> QED BY <2>1, <2>2, <2>3
<1>9. Geordnet(h, R, M, G)
  <2> HIDE DEF h
  <2> QED BY <1>1, <1>2, <1>5, <1>6, <1>7, <1>8 DEF Geordnet
<1>10. ASSUME Voll(g, S, M, G) PROVE Voll(h, R, M, G)
  <2> SUFFICES ASSUME NEW n \in h + 1 .. G
               PROVE In(n, R) \/ \E i \in DOMAIN M : In(n, Text(M, i))
    BY DEF Voll
  <2>1. n \in g + 1 .. G /\ n # 0 /\ h < n BY <1>1, <1>5
  <2>2. In(n, S) \/ \E i \in DOMAIN M : In(n, Text(M, i)) BY <1>10, <2>1 DEF Voll
  <2>3. ASSUME In(n, S) PROVE In(n, R)
    <3>1. PICK k \in DOMAIN S : S[k] = n BY <2>3 DEF In
    <3>2. k # 1 BY <1>3, <2>1, <3>1
    <3>5. k \in 1 .. Len(S) /\ Len(S) \in Nat BY <1>3
    <3>3. k - 1 \in 1 .. Len(S) - 1 /\ (k - 1) + 1 = k BY <3>2, <3>5
    <3>4. R[k - 1] = n /\ k - 1 \in DOMAIN R BY <1>4, <3>1, <3>3
    <3> QED BY <3>4 DEF In
  <2> QED BY <2>2, <2>3
<1> QED BY <1>9, <1>10 DEF R

(* A telegram is taken: its characters are now to be printed. *)
LEMMA NehmenOrdnet ==
    ASSUME NEW g, NEW S \in Seq(Nat), NEW M \in Seq(Telegramm), NEW G, Geordnet(g, S, M, G), M # << >>
    PROVE  /\ Geordnet(g, S \o Text(M, 1), Tail(M), G)
           /\ Voll(g, S, M, G) => Voll(g, S \o Text(M, 1), Tail(M), G)
<1> DEFINE z == Text(M, 1)
           N == Tail(M)
           R == S \o z
<1>1. /\ g \in Nat /\ G \in Nat /\ g <= G /\ Steigend(S) /\ Zwischen(S, g, G)
  BY DEF Geordnet
<1>2. /\ \A i \in DOMAIN M : Steigend(Text(M, i)) /\ Zwischen(Text(M, i), g, G) /\ Davor(S, Text(M, i))
      /\ \A i, j \in DOMAIN M : i < j => Davor(Text(M, i), Text(M, j))
  BY DEF Geordnet
<1>3. 1 \in 1 .. Len(M) /\ DOMAIN M = 1 .. Len(M) /\ Len(M) \in Nat OBVIOUS
<1>4. z \in Seq(Nat) BY <1>3, TextTyp
<1>5. N \in Seq(Telegramm) /\ DOMAIN N = 1 .. Len(M) - 1 /\ \A i \in DOMAIN N : N[i] = M[i + 1] /\ i + 1 \in DOMAIN M
  OBVIOUS
<1>6. \A i \in DOMAIN N : Text(N, i) = Text(M, i + 1) BY <1>5 DEF Text
<1>7. /\ DOMAIN R = 1 .. Len(S) + Len(z) /\ DOMAIN S = 1 .. Len(S) /\ DOMAIN z = 1 .. Len(z)
      /\ Len(S) \in Nat /\ Len(z) \in Nat
      /\ \A k \in 1 .. Len(S) : R[k] = S[k]
      /\ \A k \in 1 .. Len(z) : R[Len(S) + k] = z[k]
  BY <1>4
<1>8. \A k \in DOMAIN R : \/ k \in DOMAIN S /\ R[k] = S[k]
                          \/ k - Len(S) \in DOMAIN z /\ R[k] = z[k - Len(S)]
  <2> SUFFICES ASSUME NEW k \in DOMAIN R
               PROVE \/ k \in DOMAIN S /\ R[k] = S[k]
                     \/ k - Len(S) \in DOMAIN z /\ R[k] = z[k - Len(S)]
    OBVIOUS
  <2>1. CASE k <= Len(S) BY <1>7, <2>1
  <2>2. CASE ~(k <= Len(S))
    <3>1. k - Len(S) \in 1 .. Len(z) /\ Len(S) + (k - Len(S)) = k BY <1>7, <2>2
    <3> QED BY <1>7, <3>1
  <2> QED BY <2>1, <2>2
<1>9. Steigend(z) /\ Zwischen(z, g, G) /\ Davor(S, z) BY <1>2, <1>3
<1> HIDE DEF z, N, R
<1>10. Steigend(R)
  <2> SUFFICES ASSUME NEW i \in DOMAIN R, NEW j \in DOMAIN R, i < j, 0 \notin {R[i], R[j]} PROVE R[i] < R[j]
    BY DEF Steigend
  <2>1. CASE i \in DOMAIN S /\ R[i] = S[i] /\ j \in DOMAIN S /\ R[j] = S[j] BY <1>1, <2>1 DEF Steigend
  <2>2. CASE i \in DOMAIN S /\ R[i] = S[i] /\ j - Len(S) \in DOMAIN z /\ R[j] = z[j - Len(S)]
    BY <1>9, <2>2 DEF Davor
  <2>3. CASE i - Len(S) \in DOMAIN z /\ R[i] = z[i - Len(S)] /\ j - Len(S) \in DOMAIN z /\ R[j] = z[j - Len(S)]
    <3>1. i - Len(S) < j - Len(S) BY <1>7
    <3> QED BY <1>9, <2>3, <3>1 DEF Steigend
  <2>4. CASE i - Len(S) \in DOMAIN z /\ j \in DOMAIN S BY <1>7, <2>4
  <2> QED BY <1>8, <2>1, <2>2, <2>3, <2>4
<1>11. Zwischen(R, g, G) BY <1>1, <1>8, <1>9 DEF Zwischen
<1>12. ASSUME NEW i \in DOMAIN N
       PROVE Steigend(Text(N, i)) /\ Zwischen(Text(N, i), g, G) /\ Davor(R, Text(N, i))
  <2>1. i + 1 \in DOMAIN M /\ Text(N, i) = Text(M, i + 1) /\ 1 \in DOMAIN M /\ 1 < i + 1 BY <1>3, <1>5, <1>6
  <2>2. Davor(z, Text(N, i)) BY <1>2, <2>1 DEF z
  <2>3. Steigend(Text(N, i)) /\ Zwischen(Text(N, i), g, G) /\ Davor(S, Text(N, i)) BY <1>2, <2>1
  <2>4. Davor(R, Text(N, i)) BY <1>8, <2>2, <2>3 DEF Davor
  <2> QED BY <2>3, <2>4
<1>13. ASSUME NEW i \in DOMAIN N, NEW j \in DOMAIN N, i < j PROVE Davor(Text(N, i), Text(N, j))
  <2>1. i + 1 \in DOMAIN M /\ j + 1 \in DOMAIN M /\ i + 1 < j + 1 BY <1>5, <1>13
  <2> QED BY <1>2, <1>6, <2>1
<1>14. Geordnet(g, R, N, G) BY <1>1, <1>10, <1>11, <1>12, <1>13 DEF Geordnet
<1>15. ASSUME Voll(g, S, M, G) PROVE Voll(g, R, N, G)
  <2> SUFFICES ASSUME NEW n \in g + 1 .. G
               PROVE In(n, R) \/ \E i \in DOMAIN N : In(n, Text(N, i))
    BY DEF Voll
  <2>1. In(n, S) \/ \E i \in DOMAIN M : In(n, Text(M, i)) BY <1>15 DEF Voll
  <2>2. CASE In(n, S)
    <3>1. PICK k \in DOMAIN S : S[k] = n BY <2>2 DEF In
    <3>2. k \in DOMAIN R /\ R[k] = n BY <1>7, <3>1
    <3> QED BY <3>2 DEF In
  <2>3. CASE In(n, z)
    <3>1. PICK k \in DOMAIN z : z[k] = n BY <2>3 DEF In
    <3>2. Len(S) + k \in DOMAIN R /\ R[Len(S) + k] = n BY <1>7, <3>1
    <3> QED BY <3>2 DEF In
  <2>4. ASSUME NEW i \in DOMAIN M, i # 1, In(n, Text(M, i)) PROVE \E j \in DOMAIN N : In(n, Text(N, j))
    <3>1. i - 1 \in DOMAIN N /\ (i - 1) + 1 = i BY <1>3, <1>5, <2>4
    <3>2. Text(N, i - 1) = Text(M, i) BY <1>6, <3>1
    <3> QED BY <2>4, <3>1, <3>2
  <2> QED BY <2>1, <2>2, <2>3, <2>4 DEF z
<1> QED BY <1>14, <1>15 DEF z, N, R

(* A telegram is sent, with the next characters typed or with none. *)
LEMMA SendenOrdnet ==
    ASSUME NEW g, NEW S \in Seq(Nat), NEW M \in Seq(Telegramm), NEW G, Geordnet(g, S, M, G),
           NEW t \in Telegramm, \A k \in 1 .. Len(t.zeichen) : t.zeichen[k] = G + k
    PROVE  /\ Geordnet(g, S, Append(M, t), G + Len(t.zeichen))
           /\ Voll(g, S, M, G) => Voll(g, S, Append(M, t), G + Len(t.zeichen))
<1> DEFINE z == t.zeichen
           N == Append(M, t)
           H == G + Len(z)
<1>1. /\ g \in Nat /\ G \in Nat /\ g <= G /\ Steigend(S) /\ Zwischen(S, g, G)
  BY DEF Geordnet
<1>2. /\ \A i \in DOMAIN M : Steigend(Text(M, i)) /\ Zwischen(Text(M, i), g, G) /\ Davor(S, Text(M, i))
      /\ \A i, j \in DOMAIN M : i < j => Davor(Text(M, i), Text(M, j))
  BY DEF Geordnet
<1>3. z \in Seq(Nat \ {0}) /\ Len(z) \in Nat /\ DOMAIN z = 1 .. Len(z) BY DEF Telegramm
<1>4. \A k \in DOMAIN z : z[k] = G + k BY <1>3
<1>5. /\ N \in Seq(Telegramm) /\ DOMAIN N = 1 .. Len(M) + 1 /\ DOMAIN M = 1 .. Len(M) /\ Len(M) \in Nat
      /\ N[Len(M) + 1] = t /\ \A i \in DOMAIN M : N[i] = M[i]
  OBVIOUS
<1>6. Text(N, Len(M) + 1) = z /\ \A i \in DOMAIN M : Text(N, i) = Text(M, i) BY <1>5 DEF Text
<1>7. \A i \in DOMAIN M : Text(M, i) \in Seq(Nat) BY <1>5, TextTyp
<1> HIDE DEF z, N
<1>8. H \in Nat /\ g <= H /\ G <= H BY <1>1, <1>3
<1>9. Steigend(z)
  <2> SUFFICES ASSUME NEW i \in DOMAIN z, NEW j \in DOMAIN z, i < j PROVE z[i] < z[j] BY DEF Steigend
  <2>1. z[i] = G + i /\ z[j] = G + j /\ i \in Nat /\ j \in Nat BY <1>3, <1>4
  <2> QED BY <1>1, <2>1
<1>10. Zwischen(z, g, H)
  <2> SUFFICES ASSUME NEW k \in DOMAIN z PROVE g < z[k] /\ z[k] <= H BY DEF Zwischen
  <2>1. z[k] = G + k /\ k \in 1 .. Len(z) BY <1>3, <1>4
  <2> QED BY <1>1, <1>3, <2>1
(* What was there before comes before it. *)
<1>11. ASSUME NEW y \in Seq(Nat), Zwischen(y, g, G) PROVE Davor(y, z) /\ Zwischen(y, g, H)
  <2>1. \A k \in DOMAIN y : y[k] \in Nat OBVIOUS
  <2>2. ASSUME NEW k \in DOMAIN y, NEW l \in DOMAIN z, y[k] # 0 PROVE y[k] < z[l]
    <3>1. y[k] \in Nat /\ y[k] <= G BY <1>11, <2>1, <2>2 DEF Zwischen
    <3>2. z[l] = G + l /\ l \in 1 .. Len(z) BY <1>3, <1>4
    <3> QED BY <1>1, <1>3, <3>1, <3>2
  <2>3. ASSUME NEW k \in DOMAIN y, y[k] # 0 PROVE g < y[k] /\ y[k] <= H
    <3>1. y[k] \in Nat /\ g < y[k] /\ y[k] <= G BY <1>11, <2>1, <2>3 DEF Zwischen
    <3> QED BY <1>1, <1>8, <3>1
  <2> QED BY <2>2, <2>3 DEF Davor, Zwischen
<1>12. Davor(S, z) /\ Zwischen(S, g, H) BY <1>1, <1>11
<1>13. \A i \in DOMAIN M : Davor(Text(M, i), z) /\ Zwischen(Text(M, i), g, H) BY <1>2, <1>7, <1>11
<1> HIDE DEF H
<1>14. ASSUME NEW i \in DOMAIN N
       PROVE Steigend(Text(N, i)) /\ Zwischen(Text(N, i), g, H) /\ Davor(S, Text(N, i))
  <2>1. CASE i \in DOMAIN M BY <1>2, <1>6, <1>13, <2>1
  <2>2. CASE i = Len(M) + 1 BY <1>6, <1>9, <1>10, <1>12, <2>2
  <2> QED BY <1>5, <2>1, <2>2
<1>15. ASSUME NEW i \in DOMAIN N, NEW j \in DOMAIN N, i < j PROVE Davor(Text(N, i), Text(N, j))
  <2>1. i \in DOMAIN M BY <1>5, <1>15
  <2>2. CASE j \in DOMAIN M BY <1>2, <1>6, <1>15, <2>1, <2>2
  <2>3. CASE j = Len(M) + 1 BY <1>6, <1>13, <2>1, <2>3
  <2> QED BY <1>5, <2>2, <2>3
<1>16. Geordnet(g, S, N, H) BY <1>1, <1>8, <1>12, <1>14, <1>15 DEF Geordnet
<1>17. ASSUME Voll(g, S, M, G) PROVE Voll(g, S, N, H)
  <2> SUFFICES ASSUME NEW n \in g + 1 .. H
               PROVE In(n, S) \/ \E i \in DOMAIN N : In(n, Text(N, i))
    BY DEF Voll
  <2>1. CASE n <= G
    <3>1. n \in g + 1 .. G BY <1>1, <1>8, <2>1
    <3>2. In(n, S) \/ \E i \in DOMAIN M : In(n, Text(M, i)) BY <1>17, <3>1 DEF Voll
    <3>3. DOMAIN M \subseteq DOMAIN N BY <1>5
    <3> QED BY <1>6, <3>2, <3>3
  <2>2. CASE ~(n <= G)
    <3>1. n - G \in DOMAIN z /\ G + (n - G) = n BY <1>1, <1>3, <1>8, <2>2 DEF H
    <3>2. In(n, z) BY <1>4, <3>1 DEF In
    <3>3. Len(M) + 1 \in DOMAIN N BY <1>5
    <3> QED BY <1>6, <3>2, <3>3
  <2> QED BY <2>1, <2>2
<1> QED BY <1>16, <1>17 DEF z, N, H

(* A station has something of its own to print. *)
LEMMA AnsageOrdnet ==
    ASSUME NEW g, NEW M \in Seq(Telegramm), NEW G, Geordnet(g, << >>, M, G)
    PROVE  /\ Geordnet(g, <<0>>, M, G)
           /\ Voll(g, << >>, M, G) => Voll(g, <<0>>, M, G)
<1> DEFINE S == <<0>>
           L == << >>
<1>1. DOMAIN S = {1} /\ S[1] = 0 /\ DOMAIN L = {} OBVIOUS
<1> HIDE DEF S, L
<1>2. Steigend(S) /\ Zwischen(S, g, G) BY <1>1 DEF Steigend, Zwischen
<1>3. \A i \in DOMAIN M : Davor(S, Text(M, i)) BY <1>1 DEF Davor
<1>4. Geordnet(g, L, M, G) BY DEF L
<1>5. Geordnet(g, S, M, G) BY <1>2, <1>3, <1>4 DEF Geordnet
<1>6. \A n : ~In(n, L) BY <1>1 DEF In
<1>7. Voll(g, L, M, G) => Voll(g, S, M, G) BY <1>6 DEF Voll
<1> QED BY <1>5, <1>7 DEF S, L

(* Some of the telegrams are lost. *)
Auswahl(N, M) == \A i \in DOMAIN N : \E j \in DOMAIN M : N[i] = M[j]

LEMMA VerlustOrdnet ==
    ASSUME NEW g, NEW S, NEW G, NEW X \in Seq(Telegramm), NEW L \in Seq(Telegramm), NEW Y \in Seq(Telegramm),
           Geordnet(g, S, X \o L \o Y, G)
    PROVE  Geordnet(g, S, X \o << >> \o Y, G) /\ Auswahl(X \o << >> \o Y, X \o L \o Y)
<1> DEFINE M == X \o L \o Y
           N == X \o << >> \o Y
           e(i) == IF i <= Len(X) THEN i ELSE i + Len(L)
<1>1. /\ Len(X) \in Nat /\ Len(L) \in Nat /\ Len(Y) \in Nat
      /\ DOMAIN M = 1 .. Len(X) + Len(L) + Len(Y) /\ DOMAIN N = 1 .. Len(X) + Len(Y)
  OBVIOUS
<1>2. \A i \in DOMAIN N : e(i) \in DOMAIN M /\ N[i] = M[e(i)]
  <2> SUFFICES ASSUME NEW i \in DOMAIN N PROVE e(i) \in DOMAIN M /\ N[i] = M[e(i)] OBVIOUS
  <2>1. CASE i <= Len(X)
    <3>1. e(i) = i /\ i \in 1 .. Len(X) BY <1>1, <2>1
    <3>2. N[i] = X[i] /\ M[i] = X[i] BY <3>1
    <3>3. i \in DOMAIN M BY <1>1, <3>1
    <3> QED BY <3>1, <3>2, <3>3
  <2>2. CASE ~(i <= Len(X))
    <3>1. e(i) = i + Len(L) /\ i - Len(X) \in 1 .. Len(Y) /\ i + Len(L) \in DOMAIN M BY <1>1, <2>2
    <3>2. N[i] = Y[i - Len(X)] BY <1>1, <2>2
    <3>3. M[i + Len(L)] = Y[i - Len(X)] BY <1>1, <2>2
    <3> QED BY <3>1, <3>2, <3>3
  <2> QED BY <2>1, <2>2
<1>3. \A i, j \in DOMAIN N : i < j => e(i) < e(j) BY <1>1
<1>4. Geordnet(g, S, M, G) OBVIOUS
<1> HIDE DEF M, N, e
<1>5. \A i \in DOMAIN N : e(i) \in DOMAIN M /\ Text(N, i) = Text(M, e(i)) BY <1>2 DEF Text
<1>6. \A i \in DOMAIN N : Steigend(Text(N, i)) /\ Zwischen(Text(N, i), g, G) /\ Davor(S, Text(N, i))
  BY <1>4, <1>5 DEF Geordnet
<1>7. \A i, j \in DOMAIN N : i < j => Davor(Text(N, i), Text(N, j))
  BY <1>3, <1>4, <1>5 DEF Geordnet
<1>8. Geordnet(g, S, N, G) BY <1>4, <1>6, <1>7 DEF Geordnet
<1>9. Auswahl(N, M) BY <1>2 DEF Auswahl
<1> QED BY <1>8, <1>9 DEF N, M

(***************************************************************************)
(* Counts.  R is the partner's count of what it has received; while fewer  *)
(* than ZwUmlauf - 1 characters have been typed none of the counts has     *)
(* wrapped.  What is not there yet is above R, and of the last Len(S) that *)
(* were received or announced, S[k] is at least the number its place says, *)
(* so that R - Len(S), the count that is sent, is at most g; an            *)
(* announcement alone makes it -1.                                         *)
(***************************************************************************)
LEMMA ModuloKlein == \A i \in 0 .. ZwUmlauf - 1 : i % ZwUmlauf = i
BY Groessen

LEMMA ModuloNegativ == \A i \in -ZwUmlauf .. -1 : i % ZwUmlauf = i + ZwUmlauf
BY Groessen

Steht(g, S, R, M, G) ==
    /\ R \in Nat /\ R <= G /\ Len(S) <= R + 1 /\ R - Len(S) <= g
    /\ \A k \in DOMAIN S : R - Len(S) + k <= IF S[k] = 0 THEN g ELSE S[k]
    /\ \A i \in DOMAIN M : \A k \in DOMAIN Text(M, i) : R < Text(M, i)[k]

(* A count that may be an old one. *)
Alt(a, g) == a <= g \/ a = ZwUmlauf - 1
Bestaetigt(g, q, M) == Alt(q, g) /\ \A i \in DOMAIN M : M[i].code = "QUITT" => Alt(M[i].anzahl, g)

LEMMA AuswahlSteht ==
    ASSUME NEW g, NEW S, NEW R, NEW G, NEW M, NEW N, Steht(g, S, R, M, G), Auswahl(N, M)
    PROVE  Steht(g, S, R, N, G)
BY DEF Steht, Auswahl, Text

LEMMA AuswahlBestaetigt ==
    ASSUME NEW g, NEW q, NEW M, NEW N, Bestaetigt(g, q, M), Auswahl(N, M)
    PROVE  Bestaetigt(g, q, N)
BY DEF Bestaetigt, Auswahl

LEMMA RestAuswahl ==
    ASSUME NEW M \in Seq(Telegramm), M # << >>
    PROVE  Auswahl(Tail(M), M)
<1>1. \A i \in DOMAIN Tail(M) : i + 1 \in DOMAIN M /\ Tail(M)[i] = M[i + 1] OBVIOUS
<1> QED BY <1>1 DEF Auswahl

LEMMA AltBleibt ==
    ASSUME NEW a \in Zaehler, NEW g \in Nat, NEW h \in Nat, g <= h, Alt(a, g)
    PROVE  Alt(a, h)
BY Groessen DEF Alt, Zaehler

LEMMA BestaetigtBleibt ==
    ASSUME NEW q \in Zaehler, NEW M \in Seq(Telegramm), NEW g \in Nat, NEW h \in Nat, g <= h, Bestaetigt(g, q, M)
    PROVE  Bestaetigt(h, q, M)
<1>1. Alt(q, h) BY AltBleibt DEF Bestaetigt
<1>2. ASSUME NEW i \in DOMAIN M, M[i].code = "QUITT" PROVE Alt(M[i].anzahl, h)
  <2>1. M[i] \in Telegramm OBVIOUS
  <2>2. M[i].anzahl \in Zaehler BY <2>1 DEF Telegramm
  <2> QED BY <1>2, <2>2, AltBleibt DEF Bestaetigt
<1> QED BY <1>1, <1>2 DEF Bestaetigt

LEMMA BestaetigtMehr ==
    ASSUME NEW g, NEW q, NEW M \in Seq(Telegramm), NEW t \in Telegramm, Bestaetigt(g, q, M),
           t.code = "QUITT" => Alt(t.anzahl, g)
    PROVE  Bestaetigt(g, q, Append(M, t))
<1> DEFINE N == Append(M, t)
<1>1. /\ DOMAIN N = 1 .. Len(M) + 1 /\ DOMAIN M = 1 .. Len(M) /\ Len(M) \in Nat
      /\ N[Len(M) + 1] = t /\ \A i \in DOMAIN M : N[i] = M[i]
  OBVIOUS
<1> HIDE DEF N
<1>2. ASSUME NEW i \in DOMAIN N, N[i].code = "QUITT" PROVE Alt(N[i].anzahl, g)
  <2>1. CASE i \in DOMAIN M BY <1>1, <1>2, <2>1 DEF Bestaetigt
  <2>2. CASE i = Len(M) + 1 BY <1>1, <1>2, <2>2
  <2> QED BY <1>1, <2>1, <2>2
<1>3. Bestaetigt(g, q, N) BY <1>2 DEF Bestaetigt
<1> QED BY <1>3 DEF N

LEMMA ZahlAlt ==
    ASSUME NEW g, NEW S \in Seq(Nat), NEW R, NEW M, NEW G \in Nat, G < ZwUmlauf - 1, Steht(g, S, R, M, G)
    PROVE  Alt((R - Len(S)) % ZwUmlauf, g)
<1> DEFINE d == R - Len(S)
<1>1. R \in Nat /\ R <= G /\ Len(S) <= R + 1 /\ d <= g /\ Len(S) \in Nat BY DEF Steht
<1>2. d \in Int /\ -1 <= d /\ d <= G BY <1>1
<1> HIDE DEF d
<1>3. CASE d >= 0
  <2>1. d \in 0 .. ZwUmlauf - 1 BY <1>2, <1>3, Groessen
  <2>2. d % ZwUmlauf = d BY <2>1, ModuloKlein
  <2> QED BY <1>1, <2>2 DEF Alt, d
<1>4. CASE d = -1
  <2>1. d \in -ZwUmlauf .. -1 BY <1>4, Groessen
  <2>2. d % ZwUmlauf = d + ZwUmlauf BY <2>1, ModuloNegativ
  <2>3. d % ZwUmlauf = ZwUmlauf - 1 BY <1>4, <2>2, Groessen
  <2> QED BY <2>3 DEF Alt, d
<1> QED BY <1>2, <1>3, <1>4

(* Characters in order, all above R. *)
LEMMA Mindestens ==
    ASSUME NEW R \in Nat, NEW z \in Seq(Nat \ {0}), Steigend(z), \A k \in DOMAIN z : R < z[k]
    PROVE  \A k \in DOMAIN z : R + k <= z[k]
<1> DEFINE T == {n \in Nat : n + 1 <= Len(z) => R + (n + 1) <= z[n + 1]}
<1>1. Len(z) \in Nat /\ DOMAIN z = 1 .. Len(z) /\ \A k \in DOMAIN z : z[k] \in Nat /\ z[k] # 0 OBVIOUS
<1>2. 0 \in T
  <2> SUFFICES ASSUME 1 <= Len(z) PROVE R + 1 <= z[1] OBVIOUS
  <2>1. 1 \in DOMAIN z BY <1>1
  <2> QED BY <1>1, <2>1
<1>3. ASSUME NEW n \in Nat, n \in T PROVE n + 1 \in T
  <2> SUFFICES ASSUME (n + 1) + 1 <= Len(z) PROVE R + ((n + 1) + 1) <= z[(n + 1) + 1] OBVIOUS
  <2>1. n + 1 \in DOMAIN z /\ (n + 1) + 1 \in DOMAIN z /\ n + 1 < (n + 1) + 1 /\ n + 1 <= Len(z) BY <1>1
  <2>2. z[n + 1] < z[(n + 1) + 1] BY <1>1, <2>1 DEF Steigend
  <2>3. R + (n + 1) <= z[n + 1] BY <1>3, <2>1
  <2>4. z[n + 1] \in Nat /\ z[(n + 1) + 1] \in Nat BY <1>1, <2>1
  <2> QED BY <2>2, <2>3, <2>4
<1>4. Nat \subseteq T
  <2> HIDE DEF T
  <2> QED BY <1>2, <1>3, AlleZahlen
<1>5. ASSUME NEW k \in DOMAIN z PROVE R + k <= z[k]
  <2>1. k - 1 \in Nat /\ (k - 1) + 1 = k /\ k <= Len(z) BY <1>1
  <2>2. k - 1 \in T BY <1>4, <2>1
  <2> QED BY <2>1, <2>2
<1> QED BY <1>5

LEMMA DruckenSteht ==
    ASSUME NEW g \in Nat, NEW h \in Nat, NEW S \in Seq(Nat), NEW R, NEW M, NEW G, Steht(g, S, R, M, G), S # << >>,
           g <= h, h = IF Head(S) = 0 THEN g ELSE Head(S)
    PROVE  Steht(h, Tail(S), R, M, G)
<1> DEFINE Q == Tail(S)
<1>1. /\ R \in Nat /\ R <= G /\ Len(S) <= R + 1 /\ R - Len(S) <= g
      /\ \A k \in DOMAIN S : R - Len(S) + k <= IF S[k] = 0 THEN g ELSE S[k]
      /\ \A i \in DOMAIN M : \A k \in DOMAIN Text(M, i) : R < Text(M, i)[k]
  BY DEF Steht
<1>2. Head(S) = S[1] /\ 1 \in DOMAIN S /\ Len(S) \in Nat /\ \A k \in DOMAIN S : S[k] \in Nat OBVIOUS
<1>3. /\ Len(Q) = Len(S) - 1 /\ DOMAIN Q = 1 .. Len(S) - 1
      /\ \A k \in DOMAIN Q : Q[k] = S[k + 1] /\ k + 1 \in DOMAIN S
  OBVIOUS
<1> HIDE DEF Q
<1>4. R - Len(S) + 1 <= h BY <1>1, <1>2
<1>5. Len(Q) <= R + 1 /\ R - Len(Q) <= h BY <1>1, <1>2, <1>3, <1>4
<1>6. ASSUME NEW k \in DOMAIN Q PROVE R - Len(Q) + k <= IF Q[k] = 0 THEN h ELSE Q[k]
  <2>1. k \in Nat /\ k + 1 \in DOMAIN S /\ Q[k] = S[k + 1] BY <1>2, <1>3
  <2>2. R - Len(S) + (k + 1) <= IF S[k + 1] = 0 THEN g ELSE S[k + 1] BY <1>1, <2>1
  <2>3. S[k + 1] \in Nat BY <1>2, <2>1
  <2>4. R - Len(Q) + k = R - Len(S) + (k + 1) BY <1>1, <1>2, <1>3, <2>1
  <2>5. R - Len(S) + (k + 1) \in Int BY <1>1, <1>2, <2>1
  <2> QED BY <2>1, <2>2, <2>3, <2>4, <2>5
<1>7. Steht(h, Q, R, M, G) BY <1>1, <1>5, <1>6 DEF Steht
<1> QED BY <1>7 DEF Q

LEMMA NehmenSteht ==
    ASSUME NEW g, NEW S \in Seq(Nat), NEW R, NEW M \in Seq(Telegramm), NEW G, M # << >>,
           Geordnet(g, S, M, G), Steht(g, S, R, M, G)
    PROVE  Steht(g, S \o Text(M, 1), R + Len(Text(M, 1)), Tail(M), G)
<1> DEFINE z == Text(M, 1)
           N == Tail(M)
           P == S \o z
           n == R + Len(z)
<1>1. /\ R \in Nat /\ R <= G /\ Len(S) <= R + 1 /\ R - Len(S) <= g
      /\ \A k \in DOMAIN S : R - Len(S) + k <= IF S[k] = 0 THEN g ELSE S[k]
      /\ \A i \in DOMAIN M : \A k \in DOMAIN Text(M, i) : R < Text(M, i)[k]
  BY DEF Steht
<1>2. 1 \in 1 .. Len(M) /\ DOMAIN M = 1 .. Len(M) /\ Len(M) \in Nat OBVIOUS
<1>3. z \in Seq(Nat \ {0}) /\ z \in Seq(Nat) BY <1>2, TextTyp
<1>4. /\ g \in Nat /\ G \in Nat /\ Steigend(z) /\ Zwischen(z, g, G)
      /\ \A i, j \in DOMAIN M : i < j => Davor(Text(M, i), Text(M, j))
  BY <1>2 DEF Geordnet
<1>5. \A k \in DOMAIN z : R < z[k] BY <1>1, <1>2
<1>6. DOMAIN N = 1 .. Len(M) - 1 /\ \A i \in DOMAIN N : N[i] = M[i + 1] /\ i + 1 \in DOMAIN M /\ 1 < i + 1
  OBVIOUS
<1>7. \A i \in DOMAIN N : Text(N, i) = Text(M, i + 1) BY <1>6 DEF Text
<1>8. \A i \in DOMAIN N : Text(M, i + 1) \in Seq(Nat \ {0}) BY <1>2, <1>6, TextTyp
<1> HIDE DEF z, N
<1>9. Len(z) \in Nat /\ DOMAIN z = 1 .. Len(z) /\ \A k \in DOMAIN z : z[k] \in Nat /\ z[k] # 0 BY <1>3
<1>10. \A k \in DOMAIN z : R + k <= z[k] BY <1>1, <1>3, <1>4, <1>5, Mindestens
<1>11. Len(S) \in Nat OBVIOUS
<1>12. /\ Len(P) = Len(S) + Len(z)
       /\ \A k \in 1 .. Len(S) + Len(z) : P[k] = IF k <= Len(S) THEN S[k] ELSE z[k - Len(S)]
  <2>1. Verkettet(P, S, z) BY <1>3, VerkettetGilt
  <2> QED BY <2>1 DEF Verkettet
<1>13. DOMAIN P = 1 .. Len(S) + Len(z) BY <1>3
<1> HIDE DEF P
<1>14. n \in Nat /\ n <= G
  <2>1. CASE Len(z) = 0 BY <1>1, <2>1
  <2>2. CASE Len(z) # 0
    <3>1. Len(z) \in DOMAIN z BY <1>9, <2>2
    <3>2. R + Len(z) <= z[Len(z)] /\ z[Len(z)] <= G BY <1>4, <1>9, <1>10, <3>1 DEF Zwischen
    <3> QED BY <1>1, <1>4, <1>9, <3>1, <3>2
  <2> QED BY <2>1, <2>2
<1>15. Len(P) <= n + 1 /\ n - Len(P) = R - Len(S) BY <1>1, <1>9, <1>11, <1>12
<1>16. ASSUME NEW k \in DOMAIN P PROVE n - Len(P) + k <= IF P[k] = 0 THEN g ELSE P[k]
  <2>1. k \in 1 .. Len(S) + Len(z) /\ k \in Nat BY <1>9, <1>11, <1>13
  <2>2. n - Len(P) + k = R - Len(S) + k BY <1>15
  <2>3. CASE k <= Len(S)
    <3>1. k \in DOMAIN S BY <2>1, <2>3
    <3> QED BY <1>1, <1>12, <2>1, <2>2, <2>3, <3>1
  <2>4. CASE ~(k <= Len(S))
    <3>1. k - Len(S) \in DOMAIN z BY <1>9, <1>11, <2>1, <2>4
    <3>2. P[k] = z[k - Len(S)] BY <1>12, <2>1, <2>4
    <3>3. R + (k - Len(S)) <= z[k - Len(S)] /\ z[k - Len(S)] # 0 BY <1>9, <1>10, <3>1
    <3>4. R + (k - Len(S)) = R - Len(S) + k BY <1>1, <1>11, <2>1
    <3> QED BY <2>2, <3>2, <3>3, <3>4
  <2> QED BY <2>3, <2>4
<1>17. ASSUME NEW i \in DOMAIN N, NEW k \in DOMAIN Text(N, i) PROVE n < Text(N, i)[k]
  <2> DEFINE y == Text(M, i + 1)
  <2>1. Text(N, i) = y /\ i + 1 \in DOMAIN M /\ 1 < i + 1 BY <1>6, <1>7
  <2>2. y \in Seq(Nat \ {0}) BY <1>8
  <2> HIDE DEF y
  <2>3. k \in DOMAIN y /\ y[k] \in Nat /\ y[k] # 0 BY <2>1, <2>2
  <2>4. CASE Len(z) = 0
    <3>1. R < y[k] BY <1>1, <2>1, <2>3 DEF y
    <3> QED BY <1>1, <2>1, <2>4, <3>1
  <2>5. CASE Len(z) # 0
    <3>1. Len(z) \in DOMAIN z BY <1>9, <2>5
    <3>2. Davor(z, y) BY <1>2, <1>4, <2>1 DEF z, y
    <3>3. z[Len(z)] < y[k] BY <1>9, <2>3, <3>1, <3>2 DEF Davor
    <3>4. R + Len(z) <= z[Len(z)] /\ z[Len(z)] \in Nat BY <1>9, <1>10, <3>1
    <3> QED BY <1>1, <1>9, <2>1, <2>3, <3>3, <3>4
  <2> QED BY <2>4, <2>5
<1> HIDE DEF n
<1>18. n - Len(P) <= g BY <1>1, <1>15
<1>19. Steht(g, P, n, N, G) BY <1>14, <1>15, <1>16, <1>17, <1>18 DEF Steht
<1> QED BY <1>19 DEF P, z, n, N

LEMMA SendenSteht ==
    ASSUME NEW g, NEW S, NEW R, NEW M \in Seq(Telegramm), NEW G \in Nat, Steht(g, S, R, M, G),
           NEW t \in Telegramm, \A k \in 1 .. Len(t.zeichen) : t.zeichen[k] = G + k
    PROVE  Steht(g, S, R, Append(M, t), G + Len(t.zeichen))
<1> DEFINE z == t.zeichen
           N == Append(M, t)
           H == G + Len(z)
<1>1. R \in Nat /\ R <= G BY DEF Steht
<1>2. z \in Seq(Nat \ {0}) /\ Len(z) \in Nat /\ DOMAIN z = 1 .. Len(z) BY DEF Telegramm
<1>3. /\ DOMAIN N = 1 .. Len(M) + 1 /\ DOMAIN M = 1 .. Len(M) /\ Len(M) \in Nat
      /\ N[Len(M) + 1] = t /\ \A i \in DOMAIN M : N[i] = M[i]
  OBVIOUS
<1>4. Text(N, Len(M) + 1) = z /\ \A i \in DOMAIN M : Text(N, i) = Text(M, i) BY <1>3 DEF Text
<1> HIDE DEF z, N
<1>5. \A k \in DOMAIN z : z[k] = G + k /\ k \in Nat /\ k >= 1 BY <1>2 DEF z
<1>6. R <= H BY <1>1, <1>2
<1>7. ASSUME NEW i \in DOMAIN N, NEW k \in DOMAIN Text(N, i) PROVE R < Text(N, i)[k]
  <2>1. CASE i \in DOMAIN M BY <1>4, <1>7, <2>1 DEF Steht
  <2>2. CASE i = Len(M) + 1
    <3>1. z[k] = G + k /\ k \in Nat /\ k >= 1 BY <1>4, <1>5, <2>2
    <3> QED BY <1>1, <1>4, <2>2, <3>1
  <2> QED BY <1>3, <2>1, <2>2
<1> HIDE DEF H
<1>8. Steht(g, S, R, N, H) BY <1>6, <1>7 DEF Steht
<1> QED BY <1>8 DEF z, N, H

LEMMA AnsageSteht ==
    ASSUME NEW g \in Nat, NEW R, NEW M, NEW G, Steht(g, << >>, R, M, G)
    PROVE  Steht(g, <<0>>, R, M, G)
<1> DEFINE S == <<0>>
           L == << >>
<1>1. Len(L) = 0 /\ Len(S) = 1 /\ DOMAIN S = {1} /\ S[1] = 0 OBVIOUS
<1> HIDE DEF S, L
<1>2. Steht(g, L, R, M, G) BY DEF L
<1>3. R \in Nat /\ R - 0 <= g BY <1>1, <1>2 DEF Steht
<1>4. Len(S) <= R + 1 /\ R - Len(S) <= g BY <1>1, <1>3
<1>5. \A k \in DOMAIN S : R - Len(S) + k <= IF S[k] = 0 THEN g ELSE S[k] BY <1>1, <1>3
<1>6. Steht(g, S, R, M, G) BY <1>2, <1>4, <1>5 DEF Steht
<1> QED BY <1>6 DEF S

(***************************************************************************)
(* The invariant: v is the station that types, w its partner, N what is on *)
(* its way to w, a the number of breaks.                                   *)
(***************************************************************************)
Grenze(v) == v.getippt - Len(v.empf)
Getipptes(v) == \A k \in 1 .. Len(v.empf) : v.empf[k] = Grenze(v) + k
Richtung(v, w, N, a) ==
    /\ Getipptes(v)
    /\ Geordnet(w.gedruckt, w.sende, w.ein \o N \o v.aus, Grenze(v))
    /\ a = 0 => Voll(w.gedruckt, w.sende, w.ein \o N \o v.aus, Grenze(v))

(* B is what is on its way to v, with the counts of w among it.            *)
Zaehlung(v, w, N, B) ==
    v.getippt < ZwUmlauf - 1 =>
        /\ v.gesendet = Grenze(v)
        /\ Steht(w.gedruckt, w.sende, w.empfangen, w.ein \o N \o v.aus, Grenze(v))
        /\ Bestaetigt(w.gedruckt, v.quittiert, v.ein \o B \o w.aus)

WegInv ==
    /\ Typ
    /\ \A s \in Enden : Richtung(zw[s], zw[Gegenstelle(s)], zwNetz[Gegenstelle(s)], zwAbrisse)
    /\ \A s \in Enden : Zaehlung(zw[s], zw[Gegenstelle(s)], zwNetz[Gegenstelle(s)], zwNetz[s])

LEMMA Teile ==
    ASSUME NEW u \in Station
    PROVE  /\ u.getippt \in Nat /\ u.eigene \in Nat /\ u.empf \in Seq(Nat \ {0}) /\ u.aus \in Seq(Telegramm)
           /\ u.ein \in Seq(Telegramm) /\ u.sende \in Seq(Nat) /\ u.gedruckt \in Nat
           /\ u.gesendet \in Zaehler /\ u.empfangen \in Zaehler /\ u.quittiert \in Zaehler
           /\ u.quittung \in BOOLEAN /\ u.fehler \in BOOLEAN /\ u.pc \in Schritte
           /\ Len(u.empf) \in Nat /\ Len(u.sende) \in Nat /\ Len(u.aus) \in Nat /\ Len(u.ein) \in Nat
BY DEF Station

(* The station x becomes u; its partner is as it was. *)
Wird(x, u) == zw' = [zw EXCEPT ![x] = u] /\ zwAbrisse' = zwAbrisse /\ zwLage' = zwLage

LEMMA NachSchritt ==
    ASSUME WegInv, NEW x \in Enden, NEW u, Gut(u), u.getippt <= zwLage.tippt[x], Wird(x, u),
           zwNetz' \in [Enden -> Seq(Telegramm)],
           Richtung(u, zw[Gegenstelle(x)], zwNetz'[Gegenstelle(x)], zwAbrisse),
           Richtung(zw[Gegenstelle(x)], u, zwNetz'[x], zwAbrisse),
           Zaehlung(u, zw[Gegenstelle(x)], zwNetz'[Gegenstelle(x)], zwNetz'[x]),
           Zaehlung(zw[Gegenstelle(x)], u, zwNetz'[x], zwNetz'[Gegenstelle(x)])
    PROVE  WegInv'
<1> DEFINE y == Gegenstelle(x)
<1>1. y \in Enden /\ y # x /\ Gegenstelle(y) = x BY Partner
<1>2. Typ BY DEF WegInv
<1>3. zw \in [Enden -> Station] /\ zw' = [zw EXCEPT ![x] = u] BY <1>2 DEF Typ, Wird
<1>4. zw'[x] = u /\ zw'[y] = zw[y] BY <1>1, <1>3
<1>5. \A s \in Enden : s = x \/ s = y BY Partner
<1>6. Typ'
  <2>1. zw' \in [Enden -> Station] BY <1>3 DEF Gut
  <2>2. Puffer(zw'[x]) /\ Puffer(zw'[y]) BY <1>1, <1>2, <1>4 DEF Typ, Gut
  <2>3. zw'[x].getippt <= zwLage.tippt[x] /\ zw'[y].getippt <= zwLage.tippt[y] BY <1>1, <1>2, <1>4 DEF Typ
  <2>4. zwAbrisse' \in Nat /\ zwLage' \in ZwLagen /\ zwLage' = zwLage BY <1>2 DEF Typ, Wird
  <2> QED BY <1>5, <2>1, <2>2, <2>3, <2>4 DEF Typ
<1>7. zwAbrisse' = zwAbrisse BY DEF Wird
<1>8. Richtung(zw'[x], zw'[y], zwNetz'[y], zwAbrisse') BY <1>4, <1>7
<1>9. Richtung(zw'[y], zw'[x], zwNetz'[x], zwAbrisse') BY <1>4, <1>7
<1>10. \A s \in Enden : Richtung(zw'[s], zw'[Gegenstelle(s)], zwNetz'[Gegenstelle(s)], zwAbrisse')
  BY <1>1, <1>5, <1>8, <1>9
<1>11. \A s \in Enden : Zaehlung(zw'[s], zw'[Gegenstelle(s)], zwNetz'[Gegenstelle(s)], zwNetz'[s])
  <2>1. Zaehlung(zw'[x], zw'[y], zwNetz'[y], zwNetz'[x]) BY <1>4
  <2>2. Zaehlung(zw'[y], zw'[x], zwNetz'[x], zwNetz'[y]) BY <1>4
  <2> QED BY <1>1, <1>5, <2>1, <2>2
<1> QED BY <1>6, <1>10, <1>11 DEF WegInv

LEMMA GleicheRichtung ==
    ASSUME NEW v, NEW w, NEW N, NEW a, Richtung(v, w, N, a), NEW v2, NEW w2, NEW N2,
           v2.getippt = v.getippt, v2.empf = v.empf, w2.gedruckt = w.gedruckt, w2.sende = w.sende,
           w2.ein \o N2 \o v2.aus = w.ein \o N \o v.aus
    PROVE  Richtung(v2, w2, N2, a)
BY DEF Richtung, Getipptes, Grenze

LEMMA GleicheZaehlung ==
    ASSUME NEW v, NEW w, NEW N, NEW B, Zaehlung(v, w, N, B), NEW v2, NEW w2, NEW N2, NEW B2,
           v2.getippt < ZwUmlauf - 1 => v.getippt < ZwUmlauf - 1, Grenze(v2) = Grenze(v),
           v2.gesendet = v.gesendet, v2.quittiert = v.quittiert,
           w2.gedruckt = w.gedruckt, w2.sende = w.sende, w2.empfangen = w.empfangen,
           w2.ein \o N2 \o v2.aus = w.ein \o N \o v.aus, v2.ein \o B2 \o w2.aus = v.ein \o B \o w.aus
    PROVE  Zaehlung(v2, w2, N2, B2)
BY DEF Zaehlung

(* What a lemma about a step begins with. *)
Lage(x, y, v, w) ==
    /\ y = Gegenstelle(x) /\ v = zw[x] /\ w = zw[y]
    /\ y \in Enden /\ y # x /\ v \in Station /\ w \in Station /\ Puffer(v)
    /\ v.getippt <= zwLage.tippt[x] /\ zwLage.tippt[x] \in Nat
    /\ zwNetz[x] \in Seq(Telegramm) /\ zwNetz[y] \in Seq(Telegramm)
    /\ zwNetz \in [Enden -> Seq(Telegramm)]
    /\ Richtung(v, w, zwNetz[y], zwAbrisse) /\ Richtung(w, v, zwNetz[x], zwAbrisse)
    /\ Zaehlung(v, w, zwNetz[y], zwNetz[x]) /\ Zaehlung(w, v, zwNetz[x], zwNetz[y])

LEMMA LageGilt ==
    ASSUME WegInv, NEW x \in Enden
    PROVE  Lage(x, Gegenstelle(x), zw[x], zw[Gegenstelle(x)])
<1>1. Typ BY DEF WegInv
<1>2. Gegenstelle(x) \in Enden /\ Gegenstelle(x) # x /\ Gegenstelle(Gegenstelle(x)) = x BY Partner
<1>3. zwLage \in ZwLagen BY <1>1 DEF Typ
<1>4. zwLage.tippt \in [{"A", "B"} -> Nat] BY <1>3, ZwAnnahme
<1>5. zwLage.tippt[x] \in Nat BY <1>4 DEF Enden
<1>6. /\ Richtung(zw[x], zw[Gegenstelle(x)], zwNetz[Gegenstelle(x)], zwAbrisse)
      /\ Richtung(zw[Gegenstelle(x)], zw[x], zwNetz[x], zwAbrisse)
  BY <1>2 DEF WegInv
<1>7. /\ Zaehlung(zw[x], zw[Gegenstelle(x)], zwNetz[Gegenstelle(x)], zwNetz[x])
      /\ Zaehlung(zw[Gegenstelle(x)], zw[x], zwNetz[x], zwNetz[Gegenstelle(x)])
  BY <1>2 DEF WegInv
<1> QED BY <1>1, <1>2, <1>5, <1>6, <1>7 DEF Lage, Typ

(* The number of characters sent, and the bounds of a direction. *)
LEMMA GrenzeZahl ==
    ASSUME NEW v, NEW w, NEW N, NEW a, Richtung(v, w, N, a)
    PROVE  /\ Grenze(v) \in Nat /\ w.gedruckt \in Nat /\ w.gedruckt <= Grenze(v)
BY DEF Richtung, Geordnet

LEMMA BeiderTyp ==
    ASSUME NEW v \in Station, NEW w \in Station, NEW N \in Seq(Telegramm)
    PROVE  w.ein \o N \o v.aus \in Seq(Telegramm)
<1> DEFINE X == w.ein
           Y == v.aus
           P == X \o N
<1>1. X \in Seq(Telegramm) /\ Y \in Seq(Telegramm) BY Teile
<1> HIDE DEF X, Y
<1>2. P \in Seq(Telegramm) BY <1>1, ConcatProperties
<1> HIDE DEF P
<1>3. P \o Y \in Seq(Telegramm) BY <1>1, <1>2, ConcatProperties
<1> QED BY <1>3 DEF P, X, Y

(***************************************************************************)
(* Each step keeps it.                                                     *)
(***************************************************************************)
LEMMA GetipptErhaelt ==
    ASSUME WegInv, NEW x \in Enden, Getippt(x), UNCHANGED <<zwNetz, zwAbrisse, zwLage>>
    PROVE  WegInv'
<1> DEFINE y == Gegenstelle(x)
           v == zw[x]
           w == zw[y]
           n == v.getippt + 1
           E == Append(v.empf, n)
           u == [v EXCEPT !.getippt = n, !.empf = E]
<1>1. Lage(x, y, v, w) BY LageGilt
<1>2. v.getippt < zwLage.tippt[x] /\ Len(v.empf) < ZwMaxPuffer /\ zw' = [zw EXCEPT ![x] = u]
  BY DEF Getippt
<1> HIDE DEF v, w, y
<1>3. v \in Station /\ w \in Station /\ Puffer(v) /\ zwLage.tippt[x] \in Nat BY <1>1 DEF Lage
<1>4. v.getippt \in Nat /\ v.empf \in Seq(Nat \ {0}) /\ Len(v.empf) \in Nat BY <1>3, Teile
<1>15. n \in Nat \ {0} BY <1>4
<1>5. /\ E \in Seq(Nat \ {0}) /\ Len(E) = Len(v.empf) + 1 /\ E[Len(v.empf) + 1] = n
      /\ \A k \in 1 .. Len(v.empf) : E[k] = v.empf[k]
  BY <1>4, <1>15
<1> HIDE DEF E, n
<1>6. u \in Station BY <1>3, <1>5, <1>15 DEF Station
<1>7. /\ u.getippt = n /\ u.empf = E /\ u.aus = v.aus /\ u.ein = v.ein /\ u.sende = v.sende
      /\ u.gedruckt = v.gedruckt /\ u.gesendet = v.gesendet /\ u.empfangen = v.empfangen /\ u.quittiert = v.quittiert
  BY <1>3 DEF Station
<1> HIDE DEF u
<1>8. Puffer(u) BY <1>2, <1>3, <1>4, <1>5, <1>7, Groessen DEF Puffer
<1>9. Grenze(u) = Grenze(v)
  <2>1. u.getippt - Len(u.empf) = (v.getippt + 1) - (Len(v.empf) + 1) BY <1>5, <1>7 DEF n
  <2> QED BY <1>4, <2>1 DEF Grenze
<1>10. Richtung(u, w, zwNetz[y], zwAbrisse)
  <2>1. Richtung(v, w, zwNetz[y], zwAbrisse) BY <1>1 DEF Lage
  <2>2. Getipptes(u)
    <3> SUFFICES ASSUME NEW k \in 1 .. Len(E) PROVE E[k] = Grenze(v) + k BY <1>7, <1>9 DEF Getipptes
    <3>1. CASE k \in 1 .. Len(v.empf) BY <1>5, <2>1, <3>1 DEF Richtung, Getipptes
    <3>2. CASE k = Len(v.empf) + 1 BY <1>4, <1>5, <3>2 DEF Grenze, n
    <3> QED BY <1>4, <1>5, <3>1, <3>2
  <2> QED BY <1>7, <1>9, <2>1, <2>2 DEF Richtung
<1>11. Richtung(w, u, zwNetz[x], zwAbrisse)
  <2>1. Richtung(w, v, zwNetz[x], zwAbrisse) BY <1>1 DEF Lage
  <2> QED BY <1>7, <2>1 DEF Richtung
<1>12. u.getippt <= zwLage.tippt[x] BY <1>2, <1>3, <1>4, <1>7 DEF n
<1>13. Wird(x, u) /\ zwNetz' = zwNetz /\ zwNetz' \in [Enden -> Seq(Telegramm)] BY <1>1, <1>2 DEF Wird, Lage
<1>14. Gut(u) BY <1>6, <1>8 DEF Gut
<1>16. Zaehlung(u, w, zwNetz[y], zwNetz[x])
  <2>1. Zaehlung(v, w, zwNetz[y], zwNetz[x]) BY <1>1 DEF Lage
  <2>2. u.getippt < ZwUmlauf - 1 => v.getippt < ZwUmlauf - 1 BY <1>4, <1>7, Groessen DEF n
  <2> QED BY <1>7, <1>9, <2>1, <2>2, GleicheZaehlung
<1>17. Zaehlung(w, u, zwNetz[x], zwNetz[y])
  <2>1. Zaehlung(w, v, zwNetz[x], zwNetz[y]) BY <1>1 DEF Lage
  <2> QED BY <1>7, <2>1, GleicheZaehlung
<1> QED BY <1>10, <1>11, <1>12, <1>13, <1>14, <1>16, <1>17, NachSchritt DEF v, w, y

LEMMA DruckenHoeher ==
    ASSUME NEW g, NEW S \in Seq(Nat), NEW M, NEW G, Geordnet(g, S, M, G), S # << >>,
           NEW h, h = IF Head(S) = 0 THEN g ELSE Head(S)
    PROVE  g \in Nat /\ h \in Nat /\ g <= h
<1>1. g \in Nat /\ Zwischen(S, g, G) BY DEF Geordnet
<1>2. Head(S) = S[1] /\ 1 \in DOMAIN S /\ Head(S) \in Nat OBVIOUS
<1> QED BY <1>1, <1>2 DEF Zwischen

LEMMA GedrucktErhaelt ==
    ASSUME WegInv, NEW x \in Enden, Gedruckt(x), UNCHANGED <<zwNetz, zwAbrisse, zwLage>>
    PROVE  WegInv'
<1> DEFINE y == Gegenstelle(x)
           v == zw[x]
           w == zw[y]
           h == IF Head(v.sende) = 0 THEN v.gedruckt ELSE Head(v.sende)
           R == Tail(v.sende)
           q == v.quittung \/ Len(v.sende) = 1
           u == [v EXCEPT !.sende = R, !.gedruckt = h, !.quittung = q]
<1>1. Lage(x, y, v, w) BY LageGilt
<1>2. v.sende # << >> /\ zw' = [zw EXCEPT ![x] = u]
  BY DEF Gedruckt
<1> HIDE DEF v, w, y
<1>3. v \in Station /\ w \in Station /\ Puffer(v) BY <1>1 DEF Lage
<1>4. v.sende \in Seq(Nat) /\ v.gedruckt \in Nat /\ Len(v.sende) \in Nat /\ v.ein \in Seq(Telegramm)
  BY <1>3, Teile
<1>5. R \in Seq(Nat) /\ Len(R) = Len(v.sende) - 1 BY <1>2, <1>4
<1>6. h \in Nat BY <1>2, <1>4
<1>7. q \in BOOLEAN OBVIOUS
<1>8. DEFINE M == v.ein \o zwNetz[x] \o w.aus
<1>9. M \in Seq(Telegramm)
  <2>1. w.aus \in Seq(Telegramm) /\ zwNetz[x] \in Seq(Telegramm) BY <1>1, <1>3, Teile DEF Lage
  <2> QED BY <1>4, <2>1
<1>10. Richtung(w, v, zwNetz[x], zwAbrisse) BY <1>1 DEF Lage
<1> HIDE DEF M
<1>11. Geordnet(v.gedruckt, v.sende, M, Grenze(w)) BY <1>10 DEF Richtung, M
<1>12. Geordnet(h, R, M, Grenze(w)) /\ (Voll(v.gedruckt, v.sende, M, Grenze(w)) => Voll(h, R, M, Grenze(w)))
  BY <1>2, <1>4, <1>9, <1>11, DruckenOrdnet
<1>21. v.gedruckt <= h BY <1>2, <1>4, <1>11, DruckenHoeher
<1>22. ASSUME Steht(v.gedruckt, v.sende, v.empfangen, M, Grenze(w)) PROVE Steht(h, R, v.empfangen, M, Grenze(w))
  <2> HIDE DEF h
  <2>1. h = IF Head(v.sende) = 0 THEN v.gedruckt ELSE Head(v.sende) BY DEF h
  <2> QED BY <1>2, <1>4, <1>6, <1>21, <1>22, <2>1, DruckenSteht
<1> HIDE DEF h, R, q
<1>13. u \in Station BY <1>3, <1>5, <1>6, <1>7 DEF Station
<1>14. /\ u.getippt = v.getippt /\ u.empf = v.empf /\ u.aus = v.aus /\ u.ein = v.ein /\ u.sende = R
       /\ u.gedruckt = h /\ u.gesendet = v.gesendet /\ u.empfangen = v.empfangen /\ u.quittiert = v.quittiert
  BY <1>3 DEF Station
<1> HIDE DEF u
<1>15. Puffer(u) BY <1>3, <1>4, <1>5, <1>14, Groessen DEF Puffer
<1>16. Richtung(w, u, zwNetz[x], zwAbrisse) BY <1>10, <1>12, <1>14 DEF Richtung, M
<1>17. Richtung(u, w, zwNetz[y], zwAbrisse)
  <2>1. Richtung(v, w, zwNetz[y], zwAbrisse) BY <1>1 DEF Lage
  <2> QED BY <1>14, <2>1, GleicheRichtung
<1>18. u.getippt <= zwLage.tippt[x] BY <1>1, <1>14 DEF Lage
<1>19. Wird(x, u) /\ zwNetz' = zwNetz /\ zwNetz' \in [Enden -> Seq(Telegramm)] BY <1>1, <1>2 DEF Wird, Lage
<1>20. Gut(u) BY <1>13, <1>15 DEF Gut
<1>23. Zaehlung(u, w, zwNetz[y], zwNetz[x])
  <2>1. Zaehlung(v, w, zwNetz[y], zwNetz[x]) BY <1>1 DEF Lage
  <2>2. Grenze(u) = Grenze(v) BY <1>14 DEF Grenze
  <2> QED BY <1>14, <2>1, <2>2, GleicheZaehlung
<1>24. Zaehlung(w, u, zwNetz[x], zwNetz[y])
  <2> DEFINE B == w.ein \o zwNetz[y] \o v.aus
  <2> SUFFICES ASSUME w.getippt < ZwUmlauf - 1
               PROVE  /\ w.gesendet = Grenze(w)
                      /\ Steht(h, R, v.empfangen, M, Grenze(w))
                      /\ Bestaetigt(h, w.quittiert, B)
    BY <1>14 DEF Zaehlung, M
  <2>1. /\ w.gesendet = Grenze(w) /\ Steht(v.gedruckt, v.sende, v.empfangen, M, Grenze(w))
        /\ Bestaetigt(v.gedruckt, w.quittiert, B)
    BY <1>1 DEF Lage, Zaehlung, M
  <2>2. B \in Seq(Telegramm) BY <1>1, BeiderTyp DEF Lage
  <2> HIDE DEF B
  <2>3. w.quittiert \in Zaehler BY <1>3, Teile
  <2> QED BY <1>4, <1>6, <1>21, <1>22, <2>1, <2>2, <2>3, BestaetigtBleibt
<1> QED BY <1>16, <1>17, <1>18, <1>19, <1>20, <1>23, <1>24, NachSchritt DEF v, w, y

(* Nothing changes that matters here. *)
LEMMA GleichErhaelt ==
    ASSUME WegInv, NEW x \in Enden, NEW u \in Station, Wird(x, u), zwNetz' = zwNetz,
           u.getippt = zw[x].getippt, u.empf = zw[x].empf, u.aus = zw[x].aus, u.ein = zw[x].ein,
           u.sende = zw[x].sende, u.gedruckt = zw[x].gedruckt, u.gesendet = zw[x].gesendet,
           u.empfangen = zw[x].empfangen, u.quittiert = zw[x].quittiert
    PROVE  WegInv'
<1> DEFINE y == Gegenstelle(x)
           v == zw[x]
           w == zw[y]
<1>1. Lage(x, y, v, w) BY LageGilt
<1>2. /\ u.getippt = v.getippt /\ u.empf = v.empf /\ u.aus = v.aus /\ u.ein = v.ein /\ u.sende = v.sende
      /\ u.gedruckt = v.gedruckt /\ u.gesendet = v.gesendet /\ u.empfangen = v.empfangen /\ u.quittiert = v.quittiert
  OBVIOUS
<1> HIDE DEF v, w, y
<1>3. Gut(u) BY <1>1, <1>2 DEF Gut, Puffer, Lage
<1>4. Richtung(u, w, zwNetz[y], zwAbrisse) /\ Richtung(w, u, zwNetz[x], zwAbrisse)
  <2>1. Richtung(v, w, zwNetz[y], zwAbrisse) /\ Richtung(w, v, zwNetz[x], zwAbrisse) BY <1>1 DEF Lage
  <2> QED BY <1>2, <2>1, GleicheRichtung
<1>5. u.getippt <= zwLage.tippt[x] /\ zwNetz' \in [Enden -> Seq(Telegramm)] BY <1>1, <1>2 DEF Lage
<1>6. Zaehlung(u, w, zwNetz[y], zwNetz[x]) /\ Zaehlung(w, u, zwNetz[x], zwNetz[y])
  <2>1. Zaehlung(v, w, zwNetz[y], zwNetz[x]) /\ Zaehlung(w, v, zwNetz[x], zwNetz[y]) BY <1>1 DEF Lage
  <2>2. Grenze(u) = Grenze(v) BY <1>2 DEF Grenze
  <2> QED BY <1>2, <2>1, <2>2, GleicheZaehlung
<1> QED BY <1>3, <1>4, <1>5, <1>6, NachSchritt DEF v, w, y

LEMMA UebernommenErhaelt ==
    ASSUME WegInv, NEW x \in Enden, Verarbeitbar(zw[x]), zw' = [zw EXCEPT ![x] = Uebernommen(@)],
           UNCHANGED <<zwNetz, zwAbrisse, zwLage>>
    PROVE  WegInv'
<1> DEFINE y == Gegenstelle(x)
           v == zw[x]
           w == zw[y]
           t == Head(v.ein)
           F == Tail(v.ein)
           z == t.zeichen
           m == (v.empfangen + Len(z)) % ZwUmlauf
           S == v.sende \o z
           u == Uebernommen(v)
           M == v.ein \o zwNetz[x] \o w.aus
           N == F \o zwNetz[x] \o w.aus
<1>1. Lage(x, y, v, w) BY LageGilt
<1>2. v.ein # << >> /\ (t.code = "BAUDOT_DATA" => Len(v.sende) + Len(z) < ZwMaxPuffer) /\ zw' = [zw EXCEPT ![x] = u]
  BY DEF Verarbeitbar, PasstInSendePuffer
<1> HIDE DEF v, w, y
<1>3. v \in Station /\ w \in Station /\ Puffer(v) /\ zwNetz[x] \in Seq(Telegramm) BY <1>1 DEF Lage
<1>4. /\ v.sende \in Seq(Nat) /\ v.ein \in Seq(Telegramm) /\ v.empfangen \in Zaehler /\ w.aus \in Seq(Telegramm)
      /\ Len(v.sende) \in Nat
  BY <1>3, Teile
<1>5. t \in Telegramm /\ F \in Seq(Telegramm) BY <1>2, <1>4
<1>6. M \in Seq(Telegramm) /\ M # << >> /\ M[1] = t /\ Tail(M) = N
  <2> DEFINE X == v.ein
             L == zwNetz[x]
             Y == w.aus
  <2>1. X \in Seq(Telegramm) /\ L \in Seq(Telegramm) /\ Y \in Seq(Telegramm) /\ X # << >> BY <1>2, <1>3, <1>4
  <2> HIDE DEF X, L, Y
  <2>2. X \o L \o Y \in Seq(Telegramm) BY <2>1, KopfRestDrei
  <2>3. X \o L \o Y # << >> BY <2>1, KopfRestDrei
  <2>4. Head(X \o L \o Y) = Head(X) BY <2>1, KopfRestDrei
  <2>5. OhneKopf(X, L, Y) BY <2>1, KopfRestDrei
  <2>6. M \in Seq(Telegramm) /\ M # << >> /\ Head(M) = t /\ Tail(M) = N
    BY <2>2, <2>3, <2>4, <2>5 DEF X, L, Y, OhneKopf
  <2> HIDE DEF M
  <2>7. M[1] = Head(M) BY <2>6
  <2> QED BY <2>6, <2>7
<1>7. z \in Seq(Nat \ {0}) /\ z \in Seq(Nat) /\ Len(z) \in Nat /\ (t.code = "QUITT" => z = << >>)
  BY <1>5 DEF Telegramm
<1>8. S \in Seq(Nat) /\ Len(S) = Len(v.sende) + Len(z) BY <1>4, <1>7, ConcatProperties
<1>9. t.code = "QUITT" \/ t.code = "BAUDOT_DATA" BY <1>5 DEF Telegramm
<1>10. Len(v.sende) < ZwMaxPuffer BY <1>3 DEF Puffer
<1>25. z = << >> => S = v.sende
  <2> HIDE DEF z
  <2> QED BY <1>4, ConcatEmptySeq
<1>11. Len(S) < ZwMaxPuffer
  <2>1. CASE t.code = "QUITT" BY <1>7, <1>10, <1>25, <2>1
  <2>2. CASE t.code = "BAUDOT_DATA" BY <1>2, <1>8, <2>2
  <2> QED BY <1>9, <2>1, <2>2
<1>12. m \in Zaehler
  <2> HIDE DEF z
  <2>1. v.empfangen \in Int BY <1>4, Groessen DEF Zaehler
  <2>2. v.empfangen + Len(z) \in Int BY <1>7, <2>1
  <2> QED BY <2>2, Modulo
<1>13. t.anzahl \in Zaehler BY <1>5 DEF Telegramm
<1>24. SubSeq(S, 1, Len(S)) = S
  <2> HIDE DEF S
  <2> QED BY <1>8, SubSeqFull
<1>14. /\ u \in Station /\ u.getippt = v.getippt /\ u.empf = v.empf /\ u.aus = v.aus /\ u.ein = F /\ u.sende = S
       /\ u.gedruckt = v.gedruckt /\ u.gesendet = v.gesendet
       /\ t.code = "QUITT" => u.empfangen = v.empfangen /\ u.quittiert = t.anzahl
       /\ t.code = "BAUDOT_DATA" => u.empfangen = m /\ u.quittiert = v.quittiert
  <2>1. CASE t.code = "QUITT"
    <3>1. u = [v EXCEPT !.ein = F, !.quittiert = t.anzahl] BY <2>1 DEF Uebernommen
    <3>2. S = v.sende BY <1>7, <1>25, <2>1
    <3> HIDE DEF F, S, u, t
    <3>3. /\ u \in Station /\ u.getippt = v.getippt /\ u.empf = v.empf /\ u.aus = v.aus /\ u.ein = F
          /\ u.sende = v.sende /\ u.gedruckt = v.gedruckt /\ u.gesendet = v.gesendet
          /\ u.empfangen = v.empfangen /\ u.quittiert = t.anzahl
      BY <1>3, <1>5, <1>13, <3>1 DEF Station
    <3> QED BY <2>1, <3>2, <3>3
  <2>2. CASE t.code = "BAUDOT_DATA"
    <3>1. SubSeq(S, 1, IF Len(S) < ZwMaxPuffer THEN Len(S) ELSE ZwMaxPuffer) = S
      <4> HIDE DEF S
      <4> QED BY <1>11, <1>24
    <3>2. u = [v EXCEPT !.ein = F, !.empfangen = m, !.sende = S]
      <4>1. u = [v EXCEPT !.ein = F, !.empfangen = (@ + Len(z)) % ZwUmlauf,
                          !.sende = SubSeq(S, 1, IF Len(S) < ZwMaxPuffer THEN Len(S) ELSE ZwMaxPuffer)]
        BY <2>2 DEF Uebernommen
      <4> QED BY <3>1, <4>1
    <3> HIDE DEF F, S, u, m
    <3>3. /\ u \in Station /\ u.getippt = v.getippt /\ u.empf = v.empf /\ u.aus = v.aus /\ u.ein = F
          /\ u.sende = S /\ u.gedruckt = v.gedruckt /\ u.gesendet = v.gesendet
          /\ u.empfangen = m /\ u.quittiert = v.quittiert
      BY <1>3, <1>5, <1>8, <1>12, <3>2 DEF Station
    <3> HIDE DEF t
    <3> QED BY <2>2, <3>3
  <2> QED BY <1>9, <2>1, <2>2
<1>15. Richtung(w, v, zwNetz[x], zwAbrisse) BY <1>1 DEF Lage
<1>16. Geordnet(v.gedruckt, v.sende, M, Grenze(w)) BY <1>15 DEF Richtung
<1>17. S = v.sende \o Text(M, 1) BY <1>6 DEF Text
<1>26. z = Text(M, 1) BY <1>6 DEF Text
<1> HIDE DEF M, N, F, S, u, t, z, m
<1>18. Geordnet(v.gedruckt, S, N, Grenze(w)) /\ (Voll(v.gedruckt, v.sende, M, Grenze(w)) => Voll(v.gedruckt, S, N, Grenze(w)))
  BY <1>4, <1>6, <1>16, <1>17, NehmenOrdnet
<1>19. Richtung(w, u, zwNetz[x], zwAbrisse)
  <2>1. u.ein \o zwNetz[x] \o w.aus = N BY <1>14 DEF N
  <2> QED BY <1>14, <1>15, <1>18, <2>1 DEF Richtung, M
<1>20. Richtung(u, w, zwNetz[y], zwAbrisse)
  <2>1. Richtung(v, w, zwNetz[y], zwAbrisse) BY <1>1 DEF Lage
  <2> QED BY <1>14, <2>1, GleicheRichtung
<1>21. u.getippt <= zwLage.tippt[x] BY <1>1, <1>14 DEF Lage
<1>22. Wird(x, u) /\ zwNetz' = zwNetz /\ zwNetz' \in [Enden -> Seq(Telegramm)] BY <1>1, <1>2 DEF Wird, Lage
<1>23. Gut(u) BY <1>3, <1>11, <1>14 DEF Gut, Puffer
<1>27. Zaehlung(u, w, zwNetz[y], zwNetz[x])
  <2> SUFFICES ASSUME v.getippt < ZwUmlauf - 1
               PROVE  /\ v.gesendet = Grenze(v)
                      /\ Steht(w.gedruckt, w.sende, w.empfangen, w.ein \o zwNetz[y] \o v.aus, Grenze(v))
                      /\ Bestaetigt(w.gedruckt, u.quittiert, N)
    BY <1>14 DEF Zaehlung, Grenze, N
  <2>1. /\ v.gesendet = Grenze(v)
        /\ Steht(w.gedruckt, w.sende, w.empfangen, w.ein \o zwNetz[y] \o v.aus, Grenze(v))
        /\ Bestaetigt(w.gedruckt, v.quittiert, M)
    BY <1>1 DEF Lage, Zaehlung, M
  <2>2. Alt(u.quittiert, w.gedruckt)
    <3>1. 1 \in DOMAIN M BY <1>6
    <3>2. CASE t.code = "QUITT" BY <1>6, <1>14, <2>1, <3>1, <3>2 DEF Bestaetigt
    <3>3. CASE t.code = "BAUDOT_DATA" BY <1>14, <2>1, <3>3 DEF Bestaetigt
    <3> QED BY <1>9, <3>2, <3>3
  <2>3. Auswahl(N, M) BY <1>6, RestAuswahl
  <2>4. Bestaetigt(w.gedruckt, u.quittiert, M) BY <2>1, <2>2 DEF Bestaetigt
  <2>5. Bestaetigt(w.gedruckt, u.quittiert, N) BY <2>3, <2>4, AuswahlBestaetigt
  <2> QED BY <2>1, <2>5
<1>28. Zaehlung(w, u, zwNetz[x], zwNetz[y])
  <2> SUFFICES ASSUME w.getippt < ZwUmlauf - 1
               PROVE  /\ w.gesendet = Grenze(w)
                      /\ Steht(v.gedruckt, S, u.empfangen, N, Grenze(w))
                      /\ Bestaetigt(v.gedruckt, w.quittiert, w.ein \o zwNetz[y] \o v.aus)
    BY <1>14 DEF Zaehlung, N
  <2>1. /\ w.gesendet = Grenze(w)
        /\ Steht(v.gedruckt, v.sende, v.empfangen, M, Grenze(w))
        /\ Bestaetigt(v.gedruckt, w.quittiert, w.ein \o zwNetz[y] \o v.aus)
    BY <1>1 DEF Lage, Zaehlung, M
  <2>2. Steht(v.gedruckt, S, v.empfangen + Len(z), N, Grenze(w))
    BY <1>4, <1>6, <1>16, <1>17, <1>26, <2>1, NehmenSteht
  <2>3. u.empfangen = v.empfangen + Len(z)
    <3>1. v.empfangen \in Int BY <1>4, Groessen DEF Zaehler
    <3>2. CASE t.code = "QUITT"
      <4>1. Len(z) = 0 BY <1>7, <3>2
      <4> QED BY <1>14, <3>1, <3>2, <4>1
    <3>3. CASE t.code = "BAUDOT_DATA"
      <4>1. v.empfangen + Len(z) \in Nat /\ v.empfangen + Len(z) <= Grenze(w) BY <2>2 DEF Steht
      <4>2. Grenze(w) \in Nat /\ Grenze(w) <= w.getippt /\ w.getippt \in Nat
        <5>1. Grenze(w) \in Nat BY <1>15, GrenzeZahl
        <5>2. w.getippt \in Nat /\ Len(w.empf) \in Nat BY <1>3, Teile
        <5> QED BY <5>1, <5>2 DEF Grenze
      <4>3. v.empfangen + Len(z) \in 0 .. ZwUmlauf - 1 BY <4>1, <4>2, Groessen
      <4>4. m = v.empfangen + Len(z) BY <4>3, ModuloKlein DEF m
      <4> QED BY <1>14, <3>3, <4>4
    <3> QED BY <1>9, <3>2, <3>3
  <2> QED BY <2>1, <2>2, <2>3
<1> QED BY <1>19, <1>20, <1>21, <1>22, <1>23, <1>27, <1>28, NachSchritt DEF v, w, y

LEMMA AuswertenErhaelt ==
    ASSUME WegInv, NEW x \in Enden, ITelexOderAsciiEmpfangVerarbeiten(x), UNCHANGED <<zwNetz, zwAbrisse, zwLage>>
    PROVE  WegInv'
<1>1. CASE Verarbeitbar(zw[x])
  <2>1. zw' = [zw EXCEPT ![x] = Uebernommen(@)] BY <1>1 DEF ITelexOderAsciiEmpfangVerarbeiten
  <2> QED BY <1>1, <2>1, UebernommenErhaelt
<1>2. CASE ~Verarbeitbar(zw[x])
  <2> DEFINE v == zw[x]
             u == [v EXCEPT !.pc = "Block"]
  <2>1. zw' = [zw EXCEPT ![x] = u] BY <1>2 DEF ITelexOderAsciiEmpfangVerarbeiten
  <2>2. v \in Station BY LageGilt DEF Lage
  <2> HIDE DEF v
  <2>3. /\ u \in Station /\ u.getippt = v.getippt /\ u.empf = v.empf /\ u.aus = v.aus /\ u.ein = v.ein
        /\ u.sende = v.sende /\ u.gedruckt = v.gedruckt
        /\ u.gesendet = v.gesendet /\ u.empfangen = v.empfangen /\ u.quittiert = v.quittiert
    BY <2>2 DEF Station, Schritte
  <2>4. Wird(x, u) /\ zwNetz' = zwNetz BY <2>1 DEF Wird
  <2> QED BY <2>3, <2>4, GleichErhaelt DEF v
<1> QED BY <1>1, <1>2

(* What is left when the first of E have gone. *)
Schnitt(E, z, R) ==
    /\ Len(E) = Len(z) + Len(R)
    /\ \A k \in 1 .. Len(z) : z[k] = E[k]
    /\ \A k \in 1 .. Len(R) : R[k] = E[Len(z) + k]

LEMMA SchnittGilt ==
    ASSUME NEW T, NEW E \in Seq(T), NEW n \in 0 .. Len(E)
    PROVE  /\ SubSeq(E, 1, n) \in Seq(T) /\ SubSeq(E, n + 1, Len(E)) \in Seq(T)
           /\ Len(SubSeq(E, 1, n)) = n /\ Len(SubSeq(E, n + 1, Len(E))) = Len(E) - n
           /\ Schnitt(E, SubSeq(E, 1, n), SubSeq(E, n + 1, Len(E)))
<1> DEFINE z == SubSeq(E, 1, n)
           R == SubSeq(E, n + 1, Len(E))
<1>1. Len(E) \in Nat /\ n \in Nat /\ n <= Len(E) OBVIOUS
<1>2. z \in Seq(T) /\ Len(z) = n /\ \A k \in 1 .. n : z[k] = E[k]
  <2>1. \A i \in 1 .. n : E[i] \in T BY <1>1
  <2> QED BY <1>1, <2>1, SubSeqProperties
<1>3. R \in Seq(T) /\ Len(R) = Len(E) - n /\ \A k \in 1 .. Len(E) - n : R[k] = E[n + k]
  <2>1. \A i \in n + 1 .. Len(E) : E[i] \in T BY <1>1
  <2> QED BY <1>1, <2>1, SubSeqProperties
<1> HIDE DEF z, R
<1>4. Schnitt(E, z, R) BY <1>1, <1>2, <1>3 DEF Schnitt
<1> QED BY <1>2, <1>3, <1>4 DEF z, R

(* A telegram is added to what is to go out. *)
LEMMA AnhaengenErhaelt ==
    ASSUME WegInv, NEW x \in Enden, NEW u \in Station, NEW t \in Telegramm, Wird(x, u), zwNetz' = zwNetz,
           u.getippt = zw[x].getippt, u.ein = zw[x].ein, u.sende = zw[x].sende, u.gedruckt = zw[x].gedruckt,
           u.aus = Append(zw[x].aus, t), Belegung(zw[x].aus) + Laenge(t) <= ZwOutMax,
           Schnitt(zw[x].empf, t.zeichen, u.empf), u.empfangen = zw[x].empfangen, u.quittiert = zw[x].quittiert,
           u.gesendet = (zw[x].gesendet + Len(t.zeichen)) % ZwUmlauf,
           t.code = "QUITT" => t.anzahl = Quittungszahl(zw[x])
    PROVE  WegInv'
<1> DEFINE y == Gegenstelle(x)
           v == zw[x]
           w == zw[y]
           z == t.zeichen
           M == w.ein \o zwNetz[y] \o v.aus
           G == Grenze(v)
           S == w.sende
           H == G + Len(z)
<1>1. Lage(x, y, v, w) BY LageGilt
<1>2. /\ u.getippt = v.getippt /\ u.ein = v.ein /\ u.sende = v.sende /\ u.gedruckt = v.gedruckt
      /\ u.aus = Append(v.aus, t) /\ Belegung(v.aus) + Laenge(t) <= ZwOutMax /\ Schnitt(v.empf, z, u.empf)
      /\ u.empfangen = v.empfangen /\ u.quittiert = v.quittiert /\ u.gesendet = (v.gesendet + Len(z)) % ZwUmlauf
      /\ t.code = "QUITT" => t.anzahl = Quittungszahl(v)
  OBVIOUS
<1> HIDE DEF v, w, y
<1>3. v \in Station /\ w \in Station /\ Puffer(v) /\ zwNetz[y] \in Seq(Telegramm) BY <1>1 DEF Lage
<1>4. /\ v.getippt \in Nat /\ Len(v.empf) \in Nat /\ v.aus \in Seq(Telegramm) /\ w.ein \in Seq(Telegramm)
      /\ w.sende \in Seq(Nat) /\ Len(u.empf) \in Nat
  BY <1>3, Teile
<1>5. z \in Seq(Nat \ {0}) /\ Len(z) \in Nat BY DEF Telegramm
<1> HIDE DEF z
<1>6. Richtung(v, w, zwNetz[y], zwAbrisse) BY <1>1 DEF Lage
<1>7. G \in Nat BY <1>6, GrenzeZahl
<1>8. Len(v.empf) = Len(z) + Len(u.empf) BY <1>2 DEF Schnitt
<1>9. Grenze(u) = H BY <1>2, <1>4, <1>5, <1>8 DEF Grenze
<1>10. \A k \in 1 .. Len(z) : z[k] = G + k
  <2> SUFFICES ASSUME NEW k \in 1 .. Len(z) PROVE z[k] = G + k OBVIOUS
  <2>1. k \in 1 .. Len(v.empf) /\ z[k] = v.empf[k] BY <1>2, <1>4, <1>5, <1>8 DEF Schnitt
  <2> QED BY <1>6, <2>1 DEF Richtung, Getipptes
<1>11. Getipptes(u)
  <2> SUFFICES ASSUME NEW k \in 1 .. Len(u.empf) PROVE u.empf[k] = Grenze(u) + k BY DEF Getipptes
  <2>3. Len(z) + k \in 1 .. Len(v.empf) BY <1>4, <1>5, <1>8
  <2>4. Schnitt(v.empf, z, u.empf) BY <1>2
  <2>1. Len(z) + k \in 1 .. Len(v.empf) /\ u.empf[k] = v.empf[Len(z) + k] BY <2>3, <2>4 DEF Schnitt
  <2>2. v.empf[Len(z) + k] = G + (Len(z) + k) BY <1>6, <2>1 DEF Richtung, Getipptes
  <2> HIDE DEF G
  <2> QED BY <1>5, <1>7, <1>9, <2>1, <2>2
<1>12. M \in Seq(Telegramm) /\ w.ein \o zwNetz[y] \o u.aus = Append(M, t)
  <2> DEFINE X == w.ein
             L == zwNetz[y]
             Y == v.aus
  <2>1. X \in Seq(Telegramm) /\ L \in Seq(Telegramm) /\ Y \in Seq(Telegramm) BY <1>3, <1>4
  <2> HIDE DEF X, L, Y
  <2>2. X \o L \o Append(Y, t) = Append(X \o L \o Y, t) /\ X \o L \o Y \in Seq(Telegramm) BY <2>1, Angehaengt
  <2> QED BY <1>2, <2>2 DEF X, L, Y
<1>13. Geordnet(w.gedruckt, S, M, G) BY <1>6 DEF Richtung
<1>14. S \in Seq(Nat) BY <1>4
<1> HIDE DEF M, G, S, z
<1>15. Geordnet(w.gedruckt, S, Append(M, t), G + Len(t.zeichen))
       /\ (Voll(w.gedruckt, S, M, G) => Voll(w.gedruckt, S, Append(M, t), G + Len(t.zeichen)))
  BY <1>10, <1>12, <1>13, <1>14, SendenOrdnet DEF z
<1>16. Richtung(u, w, zwNetz[y], zwAbrisse)
  <2>1. zwAbrisse = 0 => Voll(w.gedruckt, S, M, G) BY <1>6 DEF Richtung, M, G, S
  <2> HIDE DEF H
  <2>2. H = G + Len(t.zeichen) BY DEF H, z
  <2> QED BY <1>9, <1>11, <1>12, <1>15, <2>1, <2>2 DEF Richtung, S
<1>17. Richtung(w, u, zwNetz[x], zwAbrisse)
  <2>1. Richtung(w, v, zwNetz[x], zwAbrisse) BY <1>1 DEF Lage
  <2> QED BY <1>2, <2>1, GleicheRichtung
<1>18. Belegung(u.aus) <= ZwOutMax BY <1>2, <1>4, BelegungMehr
<1>19. Gut(u)
  <2>1. Len(v.empf) <= ZwMaxPuffer /\ Len(v.sende) < ZwMaxPuffer BY <1>3 DEF Puffer
  <2>2. Len(u.empf) <= ZwMaxPuffer BY <1>4, <1>5, <1>8, <2>1, Groessen
  <2> QED BY <1>2, <1>18, <2>1, <2>2 DEF Gut, Puffer
<1>20. u.getippt <= zwLage.tippt[x] /\ zwNetz' \in [Enden -> Seq(Telegramm)] BY <1>1, <1>2 DEF Lage
<1>21. ASSUME v.getippt < ZwUmlauf - 1
       PROVE  u.gesendet = H /\ Steht(w.gedruckt, S, w.empfangen, Append(M, t), H)
              /\ Bestaetigt(w.gedruckt, v.quittiert, v.ein \o zwNetz[x] \o w.aus)
  <2>1. /\ v.gesendet = G /\ Steht(w.gedruckt, S, w.empfangen, M, G)
        /\ Bestaetigt(w.gedruckt, v.quittiert, v.ein \o zwNetz[x] \o w.aus)
    BY <1>1, <1>21 DEF Lage, Zaehlung, M, G, S
  <2>2. H \in Int /\ 0 <= H /\ H <= v.getippt
    <3>1. H = v.getippt - Len(u.empf) BY <1>2, <1>9 DEF Grenze
    <3>2. 0 <= H BY <1>5, <1>7
    <3> HIDE DEF H
    <3> QED BY <1>4, <3>1, <3>2
  <2>3. H \in 0 .. ZwUmlauf - 1 BY <1>4, <1>21, <2>2, Groessen
  <2>4. H % ZwUmlauf = H BY <2>3, ModuloKlein
  <2>5. u.gesendet = H BY <1>2, <2>1, <2>4
  <2>6. Steht(w.gedruckt, S, w.empfangen, Append(M, t), G + Len(t.zeichen))
    BY <1>7, <1>10, <1>12, <2>1, SendenSteht DEF z
  <2> QED BY <2>1, <2>5, <2>6 DEF z
<1>22. Zaehlung(u, w, zwNetz[y], zwNetz[x])
  <2> HIDE DEF H
  <2>1. u.getippt < ZwUmlauf - 1 => v.getippt < ZwUmlauf - 1 BY <1>2
  <2> QED BY <1>2, <1>9, <1>12, <1>21, <2>1 DEF Zaehlung, S
<1>23. Zaehlung(w, u, zwNetz[x], zwNetz[y])
  <2> SUFFICES ASSUME w.getippt < ZwUmlauf - 1
               PROVE  /\ w.gesendet = Grenze(w)
                      /\ Steht(v.gedruckt, v.sende, v.empfangen, v.ein \o zwNetz[x] \o w.aus, Grenze(w))
                      /\ Bestaetigt(v.gedruckt, w.quittiert, Append(M, t))
    BY <1>2, <1>12 DEF Zaehlung
  <2>1. /\ w.gesendet = Grenze(w)
        /\ Steht(v.gedruckt, v.sende, v.empfangen, v.ein \o zwNetz[x] \o w.aus, Grenze(w))
        /\ Bestaetigt(v.gedruckt, w.quittiert, M)
    BY <1>1 DEF Lage, Zaehlung, M
  <2>2. ASSUME t.code = "QUITT" PROVE Alt(t.anzahl, v.gedruckt)
    <3>1. Richtung(w, v, zwNetz[x], zwAbrisse) BY <1>1 DEF Lage
    <3>2. Grenze(w) \in Nat /\ Grenze(w) <= w.getippt /\ w.getippt \in Nat
      <4>1. Grenze(w) \in Nat BY <3>1, GrenzeZahl
      <4>2. w.getippt \in Nat /\ Len(w.empf) \in Nat BY <1>3, Teile
      <4> QED BY <4>1, <4>2 DEF Grenze
    <3>3. Grenze(w) < ZwUmlauf - 1 BY <3>2, Groessen
    <3>4. v.sende \in Seq(Nat) BY <1>3, Teile
    <3>5. Alt(Quittungszahl(v), v.gedruckt) BY <2>1, <3>2, <3>3, <3>4, ZahlAlt DEF Quittungszahl
    <3> QED BY <1>2, <2>2, <3>5
  <2>3. Bestaetigt(v.gedruckt, w.quittiert, Append(M, t)) BY <1>12, <2>1, <2>2, BestaetigtMehr
  <2> QED BY <2>1, <2>3
<1> QED BY <1>16, <1>17, <1>19, <1>20, <1>22, <1>23, NachSchritt DEF v, w, y

LEMMA BlockErhaelt ==
    ASSUME WegInv, NEW x \in Enden, BaudotBlockSenden(x), UNCHANGED <<zwNetz, zwAbrisse, zwLage>>
    PROVE  WegInv'
<1> DEFINE v == zw[x]
           n == BlockLaenge(v)
           E == v.empf
           z == SubSeq(E, 1, n)
           R == SubSeq(E, n + 1, Len(E))
           t == Daten(z)
           A == Append(v.aus, t)
           m == (v.gesendet + n) % ZwUmlauf
           u == [v EXCEPT !.aus = A, !.empf = R, !.gesendet = m, !.quittung = TRUE, !.pc = "Quitt"]
           s == [v EXCEPT !.pc = "Quitt"]
<1>1. v \in Station /\ Puffer(v) BY LageGilt DEF Lage
<1>2. \/ n > 0 /\ zw' = [zw EXCEPT ![x] = u]
      \/ zw' = [zw EXCEPT ![x] = s]
  BY DEF BaudotBlockSenden, MitBlock
<1> HIDE DEF v
<1>3. E \in Seq(Nat \ {0}) /\ Len(E) \in Nat /\ v.aus \in Seq(Telegramm) /\ v.gesendet \in Zaehler BY <1>1, Teile
<1>4. CASE n > 0 /\ zw' = [zw EXCEPT ![x] = u]
  <2>1. n \in 0 .. Len(E) /\ n <= ZwOutMax - 2 - Belegung(v.aus)
    <3>1. Belegung(v.aus) \in Nat BY <1>3, BelegungZahl
    <3> DEFINE f == ZwOutMax - 2 - Belegung(v.aus)
               l == IF Len(E) > f THEN f ELSE Len(E)
    <3>2. f \in Int /\ Len(E) \in Nat /\ ZwBlock \in Nat BY <1>3, <3>1, Groessen
    <3>3. n = IF l > ZwBlock THEN ZwBlock ELSE l BY DEF BlockLaenge
    <3> HIDE DEF f, E, n
    <3> QED BY <1>4, <3>2, <3>3 DEF f
  <2> HIDE DEF E, n
  <2>2. /\ z \in Seq(Nat \ {0}) /\ R \in Seq(Nat \ {0}) /\ Len(z) = n /\ Schnitt(E, z, R)
    BY <1>3, <2>1, SchnittGilt
  <2> HIDE DEF z, R
  <2>3. t \in Telegramm /\ t.zeichen = z /\ Laenge(t) = 2 + n /\ t.code = "BAUDOT_DATA"
    <3>1. 0 \in Zaehler BY Groessen DEF Zaehler
    <3> QED BY <2>2, <3>1 DEF Daten, Telegramm, Laenge
  <2>4. Belegung(v.aus) + Laenge(t) <= ZwOutMax
    <3>1. Belegung(v.aus) \in Nat BY <1>3, BelegungZahl
    <3> QED BY <2>1, <2>3, <3>1, Groessen
  <2> HIDE DEF t
  <2>5. A \in Seq(Telegramm) BY <1>3, <2>3
  <2>6. m \in Zaehler
    <3>1. v.gesendet \in Int BY <1>3, Groessen DEF Zaehler
    <3>2. v.gesendet + n \in Int BY <1>3, <2>1, <3>1
    <3> QED BY <3>2, Modulo
  <2> HIDE DEF A, m
  <2>7. u \in Station BY <1>1, <2>2, <2>5, <2>6 DEF Station, Schritte
  <2>8. /\ u.getippt = v.getippt /\ u.ein = v.ein /\ u.sende = v.sende /\ u.gedruckt = v.gedruckt
        /\ u.aus = A /\ u.empf = R /\ u.gesendet = m /\ u.empfangen = v.empfangen /\ u.quittiert = v.quittiert
    BY <1>1 DEF Station
  <2> HIDE DEF u
  <2>9. Wird(x, u) /\ zwNetz' = zwNetz BY <1>4 DEF Wird
  <2>10. m = (v.gesendet + Len(t.zeichen)) % ZwUmlauf BY <2>2, <2>3 DEF m
  <2> QED BY <2>2, <2>3, <2>4, <2>7, <2>8, <2>9, <2>10, AnhaengenErhaelt DEF v, A, E
<1>5. CASE zw' = [zw EXCEPT ![x] = s]
  <2>1. /\ s \in Station /\ s.getippt = v.getippt /\ s.empf = v.empf /\ s.aus = v.aus /\ s.ein = v.ein
        /\ s.sende = v.sende /\ s.gedruckt = v.gedruckt
        /\ s.gesendet = v.gesendet /\ s.empfangen = v.empfangen /\ s.quittiert = v.quittiert
    BY <1>1 DEF Station, Schritte
  <2> HIDE DEF s
  <2>2. Wird(x, s) /\ zwNetz' = zwNetz BY <1>5 DEF Wird
  <2> QED BY <2>1, <2>2, GleichErhaelt DEF v
<1> QED BY <1>2, <1>4, <1>5

LEMMA QuittErhaelt ==
    ASSUME WegInv, NEW x \in Enden, QuittSenden(x), UNCHANGED <<zwNetz, zwAbrisse, zwLage>>
    PROVE  WegInv'
<1> DEFINE v == zw[x]
           k == Quittungszahl(v)
           t == Quitt(k)
           A == Append(v.aus, t)
           u == [v EXCEPT !.aus = A, !.pc = "Quittiert"]
           s == [v EXCEPT !.pc = "Socket"]
<1>1. v \in Station /\ Puffer(v) BY LageGilt DEF Lage
<1>2. \/ Belegung(v.aus) + 3 <= ZwOutMax /\ zw' = [zw EXCEPT ![x] = u]
      \/ zw' = [zw EXCEPT ![x] = s]
  BY DEF QuittSenden
<1> HIDE DEF v
<1>3. /\ Len(v.sende) \in Nat /\ v.aus \in Seq(Telegramm) /\ v.empfangen \in Zaehler
      /\ v.empf \in Seq(Nat \ {0}) /\ Len(v.empf) \in Nat /\ v.gesendet \in Zaehler
  BY <1>1, Teile
<1>4. CASE Belegung(v.aus) + 3 <= ZwOutMax /\ zw' = [zw EXCEPT ![x] = u]
  <2>1. k \in Zaehler
    <3>1. v.empfangen \in Int BY <1>3, Groessen DEF Zaehler
    <3>2. v.empfangen - Len(v.sende) \in Int BY <1>3, <3>1
    <3> QED BY <3>2, Modulo DEF Quittungszahl
  <2> HIDE DEF k
  <2>2. t \in Telegramm /\ t.zeichen = << >> /\ Laenge(t) = 3 /\ t.anzahl = k BY <2>1 DEF Quitt, Telegramm, Laenge
  <2> HIDE DEF t
  <2>3. A \in Seq(Telegramm) BY <1>3, <2>2
  <2> HIDE DEF A
  <2>4. /\ u \in Station /\ u.getippt = v.getippt /\ u.ein = v.ein /\ u.sende = v.sende /\ u.gedruckt = v.gedruckt
        /\ u.aus = A /\ u.empf = v.empf /\ u.gesendet = v.gesendet /\ u.empfangen = v.empfangen /\ u.quittiert = v.quittiert
    BY <1>1, <2>3 DEF Station, Schritte
  <2>5. Schnitt(v.empf, t.zeichen, v.empf) BY <1>3, <2>2 DEF Schnitt
  <2> HIDE DEF u
  <2>6. Wird(x, u) /\ zwNetz' = zwNetz BY <1>4 DEF Wird
  <2>7. v.gesendet = (v.gesendet + Len(t.zeichen)) % ZwUmlauf
    <3>1. Len(t.zeichen) = 0 BY <2>2
    <3>2. v.gesendet % ZwUmlauf = v.gesendet BY <1>3, ModuloKlein DEF Zaehler
    <3>3. v.gesendet + 0 = v.gesendet BY <1>3, Groessen DEF Zaehler
    <3> QED BY <3>1, <3>2, <3>3
  <2> QED BY <1>4, <2>2, <2>4, <2>5, <2>6, <2>7, AnhaengenErhaelt DEF v, A, k
<1>5. CASE zw' = [zw EXCEPT ![x] = s]
  <2>1. /\ s \in Station /\ s.getippt = v.getippt /\ s.empf = v.empf /\ s.aus = v.aus /\ s.ein = v.ein
        /\ s.sende = v.sende /\ s.gedruckt = v.gedruckt
        /\ s.gesendet = v.gesendet /\ s.empfangen = v.empfangen /\ s.quittiert = v.quittiert
    BY <1>1 DEF Station, Schritte
  <2> HIDE DEF s
  <2>2. Wird(x, s) /\ zwNetz' = zwNetz BY <1>5 DEF Wird
  <2> QED BY <2>1, <2>2, GleichErhaelt DEF v
<1> QED BY <1>2, <1>4, <1>5

LEMMA ErledigtErhaelt ==
    ASSUME WegInv, NEW x \in Enden, QuittungErledigt(x), UNCHANGED <<zwNetz, zwAbrisse, zwLage>>
    PROVE  WegInv'
<1> DEFINE v == zw[x]
           u == [v EXCEPT !.quittung = FALSE, !.pc = "Socket"]
<1>1. v \in Station BY LageGilt DEF Lage
<1>2. zw' = [zw EXCEPT ![x] = u] BY DEF QuittungErledigt
<1> HIDE DEF v
<1>3. /\ u \in Station /\ u.getippt = v.getippt /\ u.empf = v.empf /\ u.aus = v.aus /\ u.ein = v.ein
      /\ u.sende = v.sende /\ u.gedruckt = v.gedruckt
      /\ u.gesendet = v.gesendet /\ u.empfangen = v.empfangen /\ u.quittiert = v.quittiert
  BY <1>1 DEF Station, Schritte
<1> HIDE DEF u
<1>4. Wird(x, u) /\ zwNetz' = zwNetz BY <1>2 DEF Wird
<1> QED BY <1>3, <1>4, GleichErhaelt DEF v

LEMMA EmpfangenErhaelt ==
    ASSUME WegInv, NEW x \in Enden, SocketEmpfangen(x), UNCHANGED <<zwAbrisse, zwLage>>
    PROVE  WegInv'
<1> DEFINE y == Gegenstelle(x)
           v == zw[x]
           w == zw[y]
           X == v.ein
           L == zwNetz[x]
<1>1. Lage(x, y, v, w) BY LageGilt
<1>2. PICK n \in 0 .. Len(L) :
        /\ zw' = [zw EXCEPT ![x].ein = X \o SubSeq(L, 1, n), ![x].pc = "Senden"]
        /\ zwNetz' = [zwNetz EXCEPT ![x] = SubSeq(L, n + 1, Len(L))]
  BY DEF SocketEmpfangen
<1> DEFINE A == SubSeq(L, 1, n)
           B == SubSeq(L, n + 1, Len(L))
           C == X \o A
           u == [v EXCEPT !.ein = C, !.pc = "Senden"]
<1>3. zw' = [zw EXCEPT ![x] = u] /\ zwNetz' = [zwNetz EXCEPT ![x] = B]
  <2>1. zw \in [Enden -> Station] BY DEF WegInv, Typ
  <2> QED BY <1>2, <2>1
<1> HIDE DEF v, w, y
<1>4. /\ v \in Station /\ Puffer(v) /\ L \in Seq(Telegramm) /\ zwNetz \in [Enden -> Seq(Telegramm)]
      /\ y \in Enden /\ y # x
  BY <1>1 DEF Lage
<1>5. X \in Seq(Telegramm) BY <1>4, Teile
<1> HIDE DEF X, L
<1>6. B \in Seq(Telegramm) /\ C \in Seq(Telegramm) /\ C \o B = X \o L
  <2>1. B \in Seq(Telegramm) /\ C \in Seq(Telegramm) /\ Zusammen(C, B, X \o L) BY <1>4, <1>5, Verschoben
  <2> QED BY <2>1 DEF Zusammen
<1> HIDE DEF A, B, C
<1>7. /\ u \in Station /\ u.getippt = v.getippt /\ u.empf = v.empf /\ u.aus = v.aus /\ u.ein = C
      /\ u.sende = v.sende /\ u.gedruckt = v.gedruckt
      /\ u.gesendet = v.gesendet /\ u.empfangen = v.empfangen /\ u.quittiert = v.quittiert
  BY <1>4, <1>6 DEF Station, Schritte
<1> HIDE DEF u
<1>8. zwNetz'[x] = B /\ zwNetz'[y] = zwNetz[y] /\ zwNetz' \in [Enden -> Seq(Telegramm)] BY <1>3, <1>4, <1>6
<1>13. u.ein \o zwNetz'[x] \o w.aus = v.ein \o L \o w.aus BY <1>6, <1>7, <1>8 DEF X
<1>9. Richtung(u, w, zwNetz'[y], zwAbrisse)
  <2>1. Richtung(v, w, zwNetz[y], zwAbrisse) BY <1>1 DEF Lage
  <2> QED BY <1>7, <1>8, <2>1, GleicheRichtung
<1>10. Richtung(w, u, zwNetz'[x], zwAbrisse)
  <2>1. Richtung(w, v, L, zwAbrisse) BY <1>1 DEF Lage, L
  <2> QED BY <1>7, <1>13, <2>1, GleicheRichtung
<1>11. Gut(u) BY <1>4, <1>7 DEF Gut, Puffer
<1>12. Wird(x, u) /\ u.getippt <= zwLage.tippt[x] BY <1>1, <1>3, <1>7 DEF Wird, Lage
<1>14. Zaehlung(u, w, zwNetz'[y], zwNetz'[x]) /\ Zaehlung(w, u, zwNetz'[x], zwNetz'[y])
  <2>1. Zaehlung(v, w, zwNetz[y], L) /\ Zaehlung(w, v, L, zwNetz[y]) BY <1>1 DEF Lage, L
  <2>2. Grenze(u) = Grenze(v) BY <1>7 DEF Grenze
  <2>3. Zaehlung(u, w, zwNetz'[y], zwNetz'[x]) BY <1>7, <1>8, <1>13, <2>1, <2>2, GleicheZaehlung
  <2>4. Zaehlung(w, u, zwNetz'[x], zwNetz'[y]) BY <1>7, <1>8, <1>13, <2>1, GleicheZaehlung
  <2> QED BY <2>3, <2>4
<1> QED BY <1>8, <1>9, <1>10, <1>11, <1>12, <1>14, NachSchritt DEF v, w, y

LEMMA SendenErhaelt ==
    ASSUME WegInv, NEW x \in Enden, SocketSenden(x), UNCHANGED <<zwAbrisse, zwLage>>
    PROVE  WegInv'
<1> DEFINE y == Gegenstelle(x)
           v == zw[x]
           w == zw[y]
           X == w.ein
           L == zwNetz[y]
           Y == v.aus
<1>1. Lage(x, y, v, w) BY LageGilt
<1>2. PICK n \in 0 .. Len(Y) :
        /\ zwNetz' = [zwNetz EXCEPT ![y] = L \o SubSeq(Y, 1, n)]
        /\ zw' = [zw EXCEPT ![x].aus = SubSeq(Y, n + 1, Len(Y)), ![x].pc = "Auswerten",
                            ![x].fehler = IF n > 0 THEN FALSE ELSE v.fehler \/ Y # << >>]
  BY DEF SocketSenden
<1> DEFINE A == SubSeq(Y, 1, n)
           B == SubSeq(Y, n + 1, Len(Y))
           C == L \o A
           f == IF n > 0 THEN FALSE ELSE v.fehler \/ Y # << >>
           u == [v EXCEPT !.aus = B, !.pc = "Auswerten", !.fehler = f]
<1>3. zw' = [zw EXCEPT ![x] = u] /\ zwNetz' = [zwNetz EXCEPT ![y] = C]
  <2>1. zw \in [Enden -> Station] BY DEF WegInv, Typ
  <2> HIDE DEF f
  <2>2. zw' = [zw EXCEPT ![x].aus = B, ![x].pc = "Auswerten", ![x].fehler = f] BY <1>2 DEF f
  <2> QED BY <1>2, <2>1, <2>2
<1> HIDE DEF v, w, y
<1>4. /\ v \in Station /\ w \in Station /\ Puffer(v) /\ L \in Seq(Telegramm) /\ zwNetz[x] \in Seq(Telegramm)
      /\ zwNetz \in [Enden -> Seq(Telegramm)] /\ y \in Enden /\ y # x
  BY <1>1 DEF Lage
<1>5. X \in Seq(Telegramm) /\ Y \in Seq(Telegramm) /\ v.fehler \in BOOLEAN BY <1>4, Teile
<1>6. f \in BOOLEAN BY <1>5
<1>7. Belegung(B) <= Belegung(Y)
  <2> HIDE DEF Y
  <2> QED BY <1>5, BelegungRest
<1> HIDE DEF X, L, Y, f
<1>8. B \in Seq(Telegramm) /\ C \in Seq(Telegramm) /\ X \o C \o B = X \o L \o Y
  <2>1. B \in Seq(Telegramm) /\ C \in Seq(Telegramm) /\ Zusammen(X \o C, B, X \o L \o Y)
    BY <1>4, <1>5, VerschobenDrei
  <2> QED BY <2>1 DEF Zusammen
<1> HIDE DEF A, B, C
<1>9. /\ u \in Station /\ u.getippt = v.getippt /\ u.empf = v.empf /\ u.aus = B /\ u.ein = v.ein
      /\ u.sende = v.sende /\ u.gedruckt = v.gedruckt
      /\ u.gesendet = v.gesendet /\ u.empfangen = v.empfangen /\ u.quittiert = v.quittiert
  BY <1>4, <1>6, <1>8 DEF Station, Schritte
<1> HIDE DEF u
<1>10. zwNetz'[y] = C /\ zwNetz'[x] = zwNetz[x] /\ zwNetz' \in [Enden -> Seq(Telegramm)] BY <1>3, <1>4, <1>8
<1>15. w.ein \o zwNetz'[y] \o u.aus = w.ein \o L \o v.aus BY <1>8, <1>9, <1>10 DEF X, Y
<1>11. Richtung(u, w, zwNetz'[y], zwAbrisse)
  <2>1. Richtung(v, w, L, zwAbrisse) BY <1>1 DEF Lage, L
  <2> QED BY <1>9, <1>15, <2>1, GleicheRichtung
<1>12. Richtung(w, u, zwNetz'[x], zwAbrisse)
  <2>1. Richtung(w, v, zwNetz[x], zwAbrisse) BY <1>1 DEF Lage
  <2> QED BY <1>9, <1>10, <2>1, GleicheRichtung
<1>13. Gut(u)
  <2>1. Belegung(u.aus) <= Belegung(v.aus) BY <1>7, <1>9 DEF Y
  <2>2. Belegung(u.aus) \in Nat /\ Belegung(v.aus) \in Nat BY <1>5, <1>8, <1>9, BelegungZahl DEF Y
  <2>3. Belegung(u.aus) <= ZwOutMax BY <1>4, <2>1, <2>2, Groessen DEF Puffer
  <2> QED BY <1>4, <1>9, <2>3 DEF Gut, Puffer
<1>14. Wird(x, u) /\ u.getippt <= zwLage.tippt[x] BY <1>1, <1>3, <1>9 DEF Wird, Lage
<1>16. Zaehlung(u, w, zwNetz'[y], zwNetz'[x]) /\ Zaehlung(w, u, zwNetz'[x], zwNetz'[y])
  <2>1. Zaehlung(v, w, L, zwNetz[x]) /\ Zaehlung(w, v, zwNetz[x], L) BY <1>1 DEF Lage, L
  <2>2. Grenze(u) = Grenze(v) BY <1>9 DEF Grenze
  <2>3. Zaehlung(u, w, zwNetz'[y], zwNetz'[x]) BY <1>9, <1>10, <1>15, <2>1, <2>2, GleicheZaehlung
  <2>4. Zaehlung(w, u, zwNetz'[x], zwNetz'[y]) BY <1>9, <1>10, <1>15, <2>1, GleicheZaehlung
  <2> QED BY <2>3, <2>4
<1> QED BY <1>10, <1>11, <1>12, <1>13, <1>14, <1>16, NachSchritt DEF v, w, y

LEMMA EigenerTextErhaelt ==
    ASSUME WegInv, NEW x \in Enden, EigenerText(x), UNCHANGED <<zwNetz, zwAbrisse, zwLage>>
    PROVE  WegInv'
<1> DEFINE y == Gegenstelle(x)
           v == zw[x]
           w == zw[y]
           M == v.ein \o zwNetz[x] \o w.aus
           n == v.eigene + 1
           u == [v EXCEPT !.sende = <<0>>, !.eigene = n]
<1>1. Lage(x, y, v, w) BY LageGilt
<1>2. v.sende = << >> /\ zw' = [zw EXCEPT ![x] = u]
  <2>1. zw \in [Enden -> Station] BY DEF WegInv, Typ
  <2> QED BY <2>1 DEF EigenerText
<1> HIDE DEF v, w, y
<1>3. v \in Station /\ w \in Station /\ Puffer(v) /\ zwNetz[x] \in Seq(Telegramm) BY <1>1 DEF Lage
<1>4. v.eigene \in Nat /\ v.ein \in Seq(Telegramm) /\ w.aus \in Seq(Telegramm) BY <1>3, Teile
<1>5. n \in Nat /\ <<0>> \in Seq(Nat) /\ Len(<<0>>) = 1 BY <1>4
<1>6. M \in Seq(Telegramm)
  <2> DEFINE P == v.ein \o zwNetz[x]
  <2>1. P \in Seq(Telegramm) BY <1>3, <1>4, ConcatProperties
  <2> HIDE DEF P
  <2>2. P \o w.aus \in Seq(Telegramm) BY <1>4, <2>1, ConcatProperties
  <2> QED BY <2>2 DEF P
<1>7. Richtung(w, v, zwNetz[x], zwAbrisse) BY <1>1 DEF Lage
<1> HIDE DEF M, n
<1>8. Geordnet(v.gedruckt, << >>, M, Grenze(w)) BY <1>2, <1>7 DEF Richtung, M
<1>9. /\ Geordnet(v.gedruckt, <<0>>, M, Grenze(w))
      /\ Voll(v.gedruckt, << >>, M, Grenze(w)) => Voll(v.gedruckt, <<0>>, M, Grenze(w))
  BY <1>6, <1>8, AnsageOrdnet
<1>10. /\ u \in Station /\ u.getippt = v.getippt /\ u.empf = v.empf /\ u.aus = v.aus /\ u.ein = v.ein
       /\ u.sende = <<0>> /\ u.gedruckt = v.gedruckt /\ u.gesendet = v.gesendet /\ u.empfangen = v.empfangen /\ u.quittiert = v.quittiert
  BY <1>3, <1>5 DEF Station
<1> HIDE DEF u
<1>11. Richtung(w, u, zwNetz[x], zwAbrisse) BY <1>2, <1>7, <1>9, <1>10 DEF Richtung, M
<1>12. Richtung(u, w, zwNetz[y], zwAbrisse)
  <2>1. Richtung(v, w, zwNetz[y], zwAbrisse) BY <1>1 DEF Lage
  <2> QED BY <1>10, <2>1, GleicheRichtung
<1>13. Gut(u) BY <1>3, <1>5, <1>10, Groessen DEF Gut, Puffer
<1>14. Wird(x, u) /\ u.getippt <= zwLage.tippt[x] /\ zwNetz' = zwNetz /\ zwNetz' \in [Enden -> Seq(Telegramm)]
  BY <1>1, <1>2, <1>10 DEF Wird, Lage
<1>15. Zaehlung(u, w, zwNetz[y], zwNetz[x])
  <2>1. Zaehlung(v, w, zwNetz[y], zwNetz[x]) BY <1>1 DEF Lage
  <2>2. Grenze(u) = Grenze(v) BY <1>10 DEF Grenze
  <2> QED BY <1>10, <2>1, <2>2, GleicheZaehlung
<1>16. Zaehlung(w, u, zwNetz[x], zwNetz[y])
  <2>1. Zaehlung(w, v, zwNetz[x], zwNetz[y]) BY <1>1 DEF Lage
  <2>2. v.gedruckt \in Nat BY <1>3, Teile
  <2>3. Steht(v.gedruckt, << >>, v.empfangen, M, Grenze(w)) => Steht(v.gedruckt, <<0>>, v.empfangen, M, Grenze(w))
    BY <2>2, AnsageSteht
  <2> QED BY <1>2, <1>10, <2>1, <2>3 DEF Zaehlung, M
<1> QED BY <1>11, <1>12, <1>13, <1>14, <1>15, <1>16, NachSchritt DEF v, w, y

LEMMA AbrissErhaelt ==
    ASSUME WegInv, Abriss, UNCHANGED zwLage
    PROVE  WegInv'
<1>1. Typ BY DEF WegInv
<1>2. zw' = zw /\ zwAbrisse' = zwAbrisse + 1 /\ zwNetz' = [s \in Enden |-> << >>] BY DEF Abriss
<1>3. zwAbrisse' \in Nat /\ zwAbrisse' # 0 BY <1>1, <1>2 DEF Typ
<1>4. zwNetz' \in [Enden -> Seq(Telegramm)] /\ \A s \in Enden : zwNetz'[s] = << >>
  <2>1. << >> \in Seq(Telegramm) OBVIOUS
  <2> QED BY <1>2, <2>1
<1>5. Typ' BY <1>1, <1>2, <1>3, <1>4 DEF Typ
<1>6. ASSUME NEW s \in Enden
      PROVE  /\ Richtung(zw[s], zw[Gegenstelle(s)], zwNetz'[Gegenstelle(s)], zwAbrisse')
             /\ Zaehlung(zw[s], zw[Gegenstelle(s)], zwNetz'[Gegenstelle(s)], zwNetz'[s])
  <2> DEFINE y == Gegenstelle(s)
             v == zw[s]
             w == zw[y]
             X == w.ein
             L == zwNetz[y]
             Y == v.aus
  <2>1. Lage(s, y, v, w) BY LageGilt
  <2>2. zwNetz'[y] = << >> /\ zwNetz'[s] = << >> BY <1>4, <2>1 DEF Lage
  <2> HIDE DEF v, w, y
  <2>3. X \in Seq(Telegramm) /\ L \in Seq(Telegramm) /\ Y \in Seq(Telegramm) BY <2>1, Teile DEF Lage
  <2>4. Richtung(v, w, L, zwAbrisse) BY <2>1 DEF Lage
  <2>5. Geordnet(w.gedruckt, w.sende, X \o L \o Y, Grenze(v)) /\ Getipptes(v) BY <2>4 DEF Richtung
  <2> HIDE DEF X, L, Y
  <2>6. Geordnet(w.gedruckt, w.sende, X \o << >> \o Y, Grenze(v)) /\ Auswahl(X \o << >> \o Y, X \o L \o Y)
    BY <2>3, <2>5, VerlustOrdnet
  <2>7. Richtung(v, w, << >>, zwAbrisse') BY <1>3, <2>5, <2>6 DEF Richtung, X, Y
(* And what was on its way to it. *)
  <2> DEFINE O == v.ein
             B == zwNetz[s]
             Q == w.aus
  <2>8. O \in Seq(Telegramm) /\ B \in Seq(Telegramm) /\ Q \in Seq(Telegramm) BY <2>1, Teile DEF Lage
  <2>9. Richtung(w, v, B, zwAbrisse) BY <2>1 DEF Lage
  <2>10. Geordnet(v.gedruckt, v.sende, O \o B \o Q, Grenze(w)) BY <2>9 DEF Richtung
  <2> HIDE DEF O, B, Q
  <2>11. Auswahl(O \o << >> \o Q, O \o B \o Q) BY <2>8, <2>10, VerlustOrdnet
  <2>12. Zaehlung(v, w, << >>, << >>)
    <3> SUFFICES ASSUME v.getippt < ZwUmlauf - 1
                 PROVE  /\ v.gesendet = Grenze(v)
                        /\ Steht(w.gedruckt, w.sende, w.empfangen, X \o << >> \o Y, Grenze(v))
                        /\ Bestaetigt(w.gedruckt, v.quittiert, O \o << >> \o Q)
      BY DEF Zaehlung, X, Y, O, Q
    <3>1. /\ v.gesendet = Grenze(v)
          /\ Steht(w.gedruckt, w.sende, w.empfangen, X \o L \o Y, Grenze(v))
          /\ Bestaetigt(w.gedruckt, v.quittiert, O \o B \o Q)
      BY <2>1 DEF Lage, Zaehlung, X, L, Y, O, B, Q
    <3> QED BY <2>6, <2>11, <3>1, AuswahlSteht, AuswahlBestaetigt
  <2> QED BY <2>2, <2>7, <2>12 DEF v, w, y
<1> QED BY <1>2, <1>5, <1>6 DEF WegInv

LEMMA AmAnfang == ZwInit => WegInv
<1> SUFFICES ASSUME ZwInit PROVE WegInv OBVIOUS
<1>1. << >> \in Seq(Nat) /\ << >> \in Seq(Nat \ {0}) /\ << >> \in Seq(Telegramm) /\ Len(<< >>) = 0 OBVIOUS
<1>2. 0 \in Zaehler /\ 0 \in Nat BY Groessen DEF Zaehler
<1>3. \A s \in Enden :
        /\ zw[s] \in Station /\ zw[s].empf = << >> /\ zw[s].sende = << >> /\ zw[s].aus = << >> /\ zw[s].ein = << >>
        /\ zw[s].getippt = 0 /\ zw[s].gedruckt = 0 /\ zw[s].gesendet = 0 /\ zw[s].empfangen = 0 /\ zw[s].quittiert = 0
  BY <1>1, <1>2 DEF ZwInit, Station, Schritte
<1>4. zw \in [Enden -> Station] BY <1>1, <1>2 DEF ZwInit, Station, Schritte
<1>5. \A s \in Enden : Puffer(zw[s]) BY <1>1, <1>3, BelegungLeer, Groessen DEF Puffer
<1>6. zwNetz \in [Enden -> Seq(Telegramm)] /\ \A s \in Enden : zwNetz[s] = << >> BY <1>1 DEF ZwInit
<1>7. zwAbrisse = 0 /\ zwLage \in ZwLagen BY DEF ZwInit
<1>8. zwLage.tippt \in [{"A", "B"} -> Nat] BY <1>7, ZwAnnahme
<1>9. \A s \in Enden : zw[s].getippt <= zwLage.tippt[s] BY <1>3, <1>8 DEF Enden
<1>10. Typ BY <1>4, <1>5, <1>6, <1>7, <1>9 DEF Typ
<1>11. << >> \o << >> \o << >> = << >>
  <2>1. << >> \in Seq(Telegramm) OBVIOUS
  <2> QED BY <2>1, ConcatEmptySeq
<1>12. Geordnet(0, << >>, << >>, 0) /\ Voll(0, << >>, << >>, 0)
  <2> DEFINE S == << >>
  <2>1. DOMAIN S = {} OBVIOUS
  <2> HIDE DEF S
  <2>2. Geordnet(0, S, S, 0) /\ Voll(0, S, S, 0) BY <1>2, <2>1 DEF Geordnet, Voll, Steigend, Zwischen
  <2> QED BY <2>2 DEF S
<1>13. ASSUME NEW s \in Enden PROVE Richtung(zw[s], zw[Gegenstelle(s)], zwNetz[Gegenstelle(s)], zwAbrisse)
  <2>1. Gegenstelle(s) \in Enden BY Partner
  <2>2. Grenze(zw[s]) = 0 BY <1>1, <1>3 DEF Grenze
  <2>3. Getipptes(zw[s]) BY <1>1, <1>3 DEF Getipptes
  <2> QED BY <1>3, <1>6, <1>11, <1>12, <2>1, <2>2, <2>3 DEF Richtung
<1>14. Steht(0, << >>, 0, << >>, 0) /\ Bestaetigt(0, 0, << >>)
  <2> DEFINE S == << >>
  <2>1. DOMAIN S = {} /\ Len(S) = 0 OBVIOUS
  <2> HIDE DEF S
  <2>2. Steht(0, S, 0, S, 0) /\ Bestaetigt(0, 0, S) BY <2>1 DEF Steht, Bestaetigt, Alt
  <2> QED BY <2>2 DEF S
<1>15. ASSUME NEW s \in Enden PROVE Zaehlung(zw[s], zw[Gegenstelle(s)], zwNetz[Gegenstelle(s)], zwNetz[s])
  <2>1. Gegenstelle(s) \in Enden BY Partner
  <2>2. Grenze(zw[s]) = 0 BY <1>1, <1>3 DEF Grenze
  <2> QED BY <1>3, <1>6, <1>11, <1>14, <2>1, <2>2 DEF Zaehlung
<1> QED BY <1>10, <1>13, <1>15 DEF WegInv

LEMMA JederSchritt == WegInv /\ [ZwNext]_zwVars => WegInv'
<1> SUFFICES ASSUME WegInv, [ZwNext]_zwVars PROVE WegInv' OBVIOUS
<1>1. CASE UNCHANGED zwVars
  <2>1. zw' = zw /\ zwNetz' = zwNetz /\ zwAbrisse' = zwAbrisse /\ zwLage' = zwLage BY <1>1 DEF zwVars
  <2> QED BY <2>1 DEF WegInv, Typ
<1>2. CASE ZwNext
  <2>1. zwLage' = zwLage BY <1>2 DEF ZwNext
  <2>2. ASSUME NEW s \in Enden, Getippt(s), UNCHANGED <<zwNetz, zwAbrisse>> PROVE WegInv'
    BY <2>1, <2>2, GetipptErhaelt
  <2>3. ASSUME NEW s \in Enden, Gedruckt(s), UNCHANGED <<zwNetz, zwAbrisse>> PROVE WegInv'
    BY <2>1, <2>3, GedrucktErhaelt
  <2>4. ASSUME NEW s \in Enden, ZwThread(s) PROVE WegInv'
    <3>1. CASE ITelexOderAsciiEmpfangVerarbeiten(s) /\ UNCHANGED <<zwNetz, zwAbrisse>>
      BY <2>1, <3>1, AuswertenErhaelt
    <3>2. CASE BaudotBlockSenden(s) /\ UNCHANGED <<zwNetz, zwAbrisse>> BY <2>1, <3>2, BlockErhaelt
    <3>3. CASE QuittSenden(s) /\ UNCHANGED <<zwNetz, zwAbrisse>> BY <2>1, <3>3, QuittErhaelt
    <3>4. CASE QuittungErledigt(s) /\ UNCHANGED <<zwNetz, zwAbrisse>> BY <2>1, <3>4, ErledigtErhaelt
    <3>5. CASE EigenerText(s) /\ UNCHANGED <<zwNetz, zwAbrisse>> BY <2>1, <3>5, EigenerTextErhaelt
    <3>6. CASE SocketEmpfangen(s) /\ UNCHANGED zwAbrisse BY <2>1, <3>6, EmpfangenErhaelt
    <3>7. CASE SocketSenden(s) /\ UNCHANGED zwAbrisse BY <2>1, <3>7, SendenErhaelt
    <3> QED BY <2>4, <3>1, <3>2, <3>3, <3>4, <3>5, <3>6, <3>7 DEF ZwThread
  <2>5. CASE Abriss BY <2>1, <2>5, AbrissErhaelt
  <2> QED BY <1>2, <2>2, <2>3, <2>4, <2>5 DEF ZwNext
<1> QED BY <1>1, <1>2

(***************************************************************************)
(* What it means for the way as a whole.                                   *)
(***************************************************************************)
Reihe(W, a, b, M, c) ==
    /\ DOMAIN W = 1 .. Len(M) + 3
    /\ W[1] = a /\ W[2] = b /\ W[Len(M) + 3] = c
    /\ \A i \in 1 .. Len(M) : W[i + 2] = M[i]

LEMMA ReiheGilt ==
    ASSUME NEW T, NEW a \in T, NEW b \in T, NEW c \in T, NEW M \in Seq(T)
    PROVE  Reihe(<<a, b>> \o M \o <<c>>, a, b, M, c)
<1> DEFINE X == <<a, b>>
           P == X \o M
           Y == <<c>>
           W == P \o Y
<1>1. X \in Seq(T) /\ Len(X) = 2 /\ X[1] = a /\ X[2] = b /\ Len(M) \in Nat OBVIOUS
<1>2. Y \in Seq(T) /\ Len(Y) = 1 /\ Y[1] = c OBVIOUS
<1> HIDE DEF X, Y
<1>12. P \in Seq(T) /\ Verkettet(P, X, M) BY <1>1, VerkettetGilt
<1> HIDE DEF P
<1>3. Len(P) = 2 + Len(M) BY <1>1, <1>12 DEF Verkettet
<1>4. \A i \in 1 .. 2 + Len(M) : P[i] = IF i <= 2 THEN X[i] ELSE M[i - 2] BY <1>1, <1>12 DEF Verkettet
<1>13. W \in Seq(T) /\ Verkettet(W, P, Y) BY <1>2, <1>12, VerkettetGilt
<1> HIDE DEF W
<1>5. W \in Seq(T) /\ Len(W) = 2 + Len(M) + 1 BY <1>2, <1>3, <1>13 DEF Verkettet
<1>6. \A i \in 1 .. 2 + Len(M) + 1 : W[i] = IF i <= 2 + Len(M) THEN P[i] ELSE Y[i - (2 + Len(M))]
  BY <1>2, <1>3, <1>13 DEF Verkettet
<1>7. DOMAIN W = 1 .. Len(M) + 3 BY <1>1, <1>5
<1>8. W[1] = a /\ W[2] = b BY <1>1, <1>4, <1>6
<1>9. W[Len(M) + 3] = c
  <2>1. Len(M) + 3 \in 1 .. 2 + Len(M) + 1 /\ ~(Len(M) + 3 <= 2 + Len(M)) /\ (Len(M) + 3) - (2 + Len(M)) = 1
    BY <1>1
  <2> QED BY <1>2, <1>6, <2>1
<1>10. ASSUME NEW i \in 1 .. Len(M) PROVE W[i + 2] = M[i]
  <2>1. i + 2 \in 1 .. 2 + Len(M) + 1 /\ i + 2 <= 2 + Len(M) /\ i + 2 \in 1 .. 2 + Len(M) /\ ~(i + 2 <= 2)
        /\ (i + 2) - 2 = i
    BY <1>1
  <2> QED BY <1>4, <1>6, <2>1
<1>11. Reihe(W, a, b, M, c) BY <1>7, <1>8, <1>9, <1>10 DEF Reihe
<1> QED BY <1>11 DEF W, P, X, Y

LEMMA VorDavor ==
    ASSUME NEW y, NEW z, Davor(y, z)
    PROVE  Vor(y, z)
BY DEF Davor, Vor, Nummern

LEMMA WegInvIstZeichenFolge == WegInv => ZeichenFolge
<1> SUFFICES ASSUME WegInv, NEW s \in Enden
             PROVE  /\ \A i \in DOMAIN Weg(s) : Steigend(Weg(s)[i].zeichen)
                    /\ \A i, j \in DOMAIN Weg(s) : i < j => Vor(Weg(s)[i].zeichen, Weg(s)[j].zeichen)
                    /\ zwAbrisse = 0 =>
                          zw[Gegenstelle(s)].gedruckt + 1 .. zw[s].getippt \subseteq Offen(s) \cup Nummern(zw[s].empf)
  BY DEF ZeichenFolge
<1> DEFINE y == Gegenstelle(s)
           v == zw[s]
           w == zw[y]
           X == w.ein
           L == zwNetz[y]
           Y == v.aus
           M == X \o L \o Y
           g == w.gedruckt
           S == w.sende
           E == v.empf
           G == Grenze(v)
           a == Daten(<<g>>)
           b == Daten(S)
           c == Daten(E)
           W == <<a, b>> \o M \o <<c>>
           K == Len(M)
<1>1. Lage(s, y, v, w) BY LageGilt
<1>2. Weg(s) = W /\ Telegramme(s) = M BY DEF Weg, Telegramme
<1>3. Offen(s) = Nummern(S) \cup UNION {Nummern(M[i].zeichen) : i \in DOMAIN M} BY DEF Offen, Telegramme
<1> HIDE DEF v, w, y
<1>4. /\ v \in Station /\ w \in Station /\ L \in Seq(Telegramm) /\ Richtung(v, w, L, zwAbrisse)
  BY <1>1 DEF Lage
<1>5. /\ X \in Seq(Telegramm) /\ Y \in Seq(Telegramm) /\ g \in Nat /\ S \in Seq(Nat) /\ E \in Seq(Nat \ {0})
      /\ v.getippt \in Nat /\ Len(E) \in Nat
  BY <1>4, Teile
<1>6. G \in Nat /\ g <= G BY <1>4, GrenzeZahl
<1>7. v.getippt = G + Len(E) BY <1>5 DEF Grenze
<1>8. Geordnet(g, S, M, G) /\ (zwAbrisse = 0 => Voll(g, S, M, G)) BY <1>4 DEF Richtung
<1>9. \A k \in 1 .. Len(E) : E[k] = G + k BY <1>4 DEF Richtung, Getipptes
<1> HIDE DEF X, L, Y, G
<1>10. M \in Seq(Telegramm) /\ K \in Nat /\ DOMAIN M = 1 .. K
  <2> DEFINE P == X \o L
  <2>1. P \in Seq(Telegramm) BY <1>4, <1>5, ConcatProperties
  <2> HIDE DEF P
  <2>2. P \o Y \in Seq(Telegramm) BY <1>5, <2>1, ConcatProperties
  <2>3. M \in Seq(Telegramm) BY <2>2 DEF P
  <2> HIDE DEF M
  <2> QED BY <2>3
<1> HIDE DEF M, g, S, E
<1>11. a.zeichen = <<g>> /\ b.zeichen = S /\ c.zeichen = E BY DEF Daten
<1>12. Reihe(W, a, b, M, c)
  <2> DEFINE T == Telegramm \cup {a, b, c}
  <2>1. a \in T /\ b \in T /\ c \in T OBVIOUS
  <2>2. M \in Seq(T)
    <3>1. \A i \in 1 .. Len(M) : M[i] \in T BY <1>10
    <3> HIDE DEF T
    <3> QED BY <1>10, <3>1, IsASeq
  <2> HIDE DEF T, a, b, c
  <2> QED BY <2>1, <2>2, ReiheGilt
<1> HIDE DEF W, a, b, c, K
<1>13. DOMAIN W = 1 .. K + 3 BY <1>12 DEF Reihe, K
<1>14. W[1].zeichen = <<g>> /\ W[2].zeichen = S /\ W[K + 3].zeichen = E BY <1>11, <1>12 DEF Reihe, K
<1>15. \A i \in 1 .. K : W[i + 2].zeichen = Text(M, i) BY <1>12 DEF Reihe, K, Text
(* One of the four kinds of pieces. *)
<1>16. \A i \in DOMAIN W : i = 1 \/ i = 2 \/ i = K + 3 \/ (i - 2 \in 1 .. K /\ W[i].zeichen = Text(M, i - 2))
  <2> SUFFICES ASSUME NEW i \in 1 .. K + 3, i # 1, i # 2, i # K + 3
               PROVE i - 2 \in 1 .. K /\ W[i].zeichen = Text(M, i - 2)
    BY <1>13
  <2>1. i - 2 \in 1 .. K /\ (i - 2) + 2 = i BY <1>10
  <2> QED BY <1>15, <2>1
<1>17. /\ Steigend(S) /\ Zwischen(S, g, G)
       /\ \A i \in 1 .. K : Steigend(Text(M, i)) /\ Zwischen(Text(M, i), g, G) /\ Davor(S, Text(M, i))
       /\ \A i, j \in 1 .. K : i < j => Davor(Text(M, i), Text(M, j))
  BY <1>8, <1>10 DEF Geordnet
<1>18. \A i \in 1 .. K : Text(M, i) \in Seq(Nat) BY <1>10, TextTyp DEF K
<1>19. Steigend(<<g>>)
  <2> DEFINE z == <<g>>
  <2>1. DOMAIN z = {1} OBVIOUS
  <2> HIDE DEF z
  <2>2. Steigend(z) BY <2>1 DEF Steigend
  <2> QED BY <2>2 DEF z
<1>20. Steigend(E)
  <2>2. DOMAIN E = 1 .. Len(E) BY <1>5
  <2> SUFFICES ASSUME NEW i \in DOMAIN E, NEW j \in DOMAIN E, i < j PROVE E[i] < E[j]
    BY DEF Steigend
  <2>1. E[i] = G + i /\ E[j] = G + j /\ i \in Nat /\ j \in Nat BY <1>9, <2>2
  <2> QED BY <1>6, <2>1
(* What has been printed comes before whatever is above it, and what is    *)
(* still in the buffer after whatever has been sent.                       *)
<1>21. ASSUME NEW z, Zwischen(z, g, G) PROVE Davor(<<g>>, z)
  <2> SUFFICES ASSUME NEW k \in DOMAIN <<g>>, NEW l \in DOMAIN z, z[l] # 0 PROVE <<g>>[k] < z[l]
    BY DEF Davor
  <2>1. k = 1 OBVIOUS
  <2>2. g < z[l] BY <1>21 DEF Zwischen
  <2> QED BY <2>1, <2>2
<1>22. ASSUME NEW z \in Seq(Nat), Zwischen(z, g, G) PROVE Davor(z, E)
  <2> SUFFICES ASSUME NEW k \in DOMAIN z, NEW l \in DOMAIN E, z[k] # 0 PROVE z[k] < E[l]
    BY DEF Davor
  <2>1. z[k] \in Nat /\ z[k] <= G BY <1>22 DEF Zwischen
  <2>2. E[l] = G + l /\ l \in 1 .. Len(E) BY <1>5, <1>9
  <2> QED BY <1>5, <1>6, <2>1, <2>2
<1>23. Davor(<<g>>, E)
  <2> SUFFICES ASSUME NEW k \in DOMAIN <<g>>, NEW l \in DOMAIN E PROVE <<g>>[k] < E[l]
    BY DEF Davor
  <2>1. k = 1 OBVIOUS
  <2>2. E[l] = G + l /\ l \in 1 .. Len(E) BY <1>5, <1>9
  <2> QED BY <1>5, <1>6, <2>1, <2>2
<1>24. ASSUME NEW i \in DOMAIN W PROVE Steigend(W[i].zeichen)
  BY <1>14, <1>16, <1>17, <1>19, <1>20
<1>25. ASSUME NEW i \in DOMAIN W, NEW j \in DOMAIN W, i < j PROVE Davor(W[i].zeichen, W[j].zeichen)
  <2>1. i \in 1 .. K + 3 /\ j \in 1 .. K + 3 BY <1>13
  <2>2. CASE i = 1
    <3>1. j # 1 BY <1>25, <2>2
    <3>2. CASE j = 2 BY <1>14, <1>17, <1>21, <2>2, <3>2
    <3>3. CASE j = K + 3 BY <1>14, <1>23, <2>2, <3>3
    <3>4. CASE j - 2 \in 1 .. K /\ W[j].zeichen = Text(M, j - 2)
      <4>1. Zwischen(Text(M, j - 2), g, G) BY <1>17, <3>4
      <4> QED BY <1>14, <1>21, <2>2, <3>4, <4>1
    <3> QED BY <1>16, <3>1, <3>2, <3>3, <3>4
  <2>3. CASE i = 2
    <3>1. j # 1 /\ j # 2 BY <1>25, <2>1, <2>3
    <3>2. CASE j = K + 3 BY <1>5, <1>14, <1>17, <1>22, <2>3, <3>2
    <3>3. CASE j - 2 \in 1 .. K /\ W[j].zeichen = Text(M, j - 2) BY <1>14, <1>17, <2>3, <3>3
    <3> QED BY <1>16, <3>1, <3>2, <3>3
  <2>4. CASE i - 2 \in 1 .. K /\ W[i].zeichen = Text(M, i - 2)
    <3>1. i >= 3 /\ j # 1 /\ j # 2 BY <1>10, <1>25, <2>1, <2>4
    <3>2. CASE j = K + 3 BY <1>14, <1>17, <1>18, <1>22, <2>4, <3>2
    <3>3. CASE j - 2 \in 1 .. K /\ W[j].zeichen = Text(M, j - 2)
      <4>1. i - 2 < j - 2 BY <1>25, <2>1
      <4> QED BY <1>17, <2>4, <3>3, <4>1
    <3> QED BY <1>16, <3>1, <3>2, <3>3
  <2>5. i # K + 3 BY <1>10, <1>25, <2>1
  <2> QED BY <1>16, <2>2, <2>3, <2>4, <2>5
<1>26. \A i, j \in DOMAIN W : i < j => Vor(W[i].zeichen, W[j].zeichen) BY <1>25, VorDavor
<1>27. ASSUME zwAbrisse = 0, NEW n \in g + 1 .. v.getippt PROVE n \in Offen(s) \cup Nummern(E)
  <2>1. n \in Nat /\ n # 0 BY <1>5
  <2>2. CASE n <= G
    <3>1. n \in g + 1 .. G BY <1>5, <1>6, <2>2
    <3>2. In(n, S) \/ \E i \in 1 .. K : In(n, Text(M, i)) BY <1>8, <1>10, <1>27, <3>1 DEF Voll
    <3>3. CASE In(n, S)
      <4>1. n \in Nummern(S) BY <2>1, <3>3 DEF In, Nummern
      <4> QED BY <1>3, <4>1
    <3>4. ASSUME NEW i \in 1 .. K, In(n, Text(M, i)) PROVE n \in Offen(s)
      <4>1. n \in Nummern(M[i].zeichen) BY <2>1, <3>4 DEF In, Nummern, Text
      <4> QED BY <1>3, <1>10, <4>1
    <3> QED BY <3>2, <3>3, <3>4
  <2>3. CASE ~(n <= G)
    <3>1. n - G \in 1 .. Len(E) /\ G + (n - G) = n BY <1>5, <1>6, <1>7, <2>1, <2>3
    <3>2. n - G \in DOMAIN E /\ E[n - G] = n BY <1>5, <1>9, <3>1
    <3>3. n \in Nummern(E) BY <2>1, <3>2 DEF Nummern
    <3> QED BY <3>3
  <2> QED BY <2>2, <2>3
<1>28. zwAbrisse = 0 => g + 1 .. v.getippt \subseteq Offen(s) \cup Nummern(E) BY <1>27
<1> QED BY <1>2, <1>24, <1>26, <1>28 DEF v, w, y, g, E

(* The bounds of the buffers hold (the buffer the interrupt fills, 1118 to *)
(* 1163, the one it empties, 2936 to 2954, and the one to the socket) and  *)
(* the counts stay bytes.                                                  *)
THEOREM ZwTypKorrekt == ZwSpec => []ZwTyp
<1>1. WegInv => ZwTyp BY TypIstZwTyp DEF WegInv
<1> QED BY <1>1, AmAnfang, JederSchritt, PTL DEF ZwSpec

(* A character is printed once, after the ones typed before it, and while  *)
(* the connection holds none is left out (1118 to 1163, 2936 to 2954, 3212 *)
(* to 3240): whatever is typed, whenever the interrupt comes, whatever the *)
(* sizes of the buffers and blocks.                                        *)
THEOREM ZeichenFolgeGilt == ZwSpec => []ZeichenFolge
BY AmAnfang, JederSchritt, WegInvIstZeichenFolge, PTL DEF ZwSpec

(* What is not printed yet lies between what was printed last and what was *)
(* sent last.                                                              *)
LEMMA OffenBegrenzt ==
    ASSUME WegInv, NEW s \in Enden
    PROVE  /\ Cardinality(Offen(s)) \in Nat
           /\ Cardinality(Offen(s)) <= Grenze(zw[s]) - zw[Gegenstelle(s)].gedruckt
<1> DEFINE y == Gegenstelle(s)
           v == zw[s]
           w == zw[y]
           M == w.ein \o zwNetz[y] \o v.aus
           g == w.gedruckt
           S == w.sende
           G == Grenze(v)
           I == g + 1 .. G
<1>1. Lage(s, y, v, w) BY LageGilt
<1>2. Offen(s) = Nummern(S) \cup UNION {Nummern(M[i].zeichen) : i \in DOMAIN M} BY DEF Offen, Telegramme
<1> HIDE DEF v, w, y
<1>3. v \in Station /\ w \in Station /\ zwNetz[y] \in Seq(Telegramm) /\ Richtung(v, w, zwNetz[y], zwAbrisse)
  BY <1>1 DEF Lage
<1>4. M \in Seq(Telegramm) BY <1>3, BeiderTyp
<1>5. S \in Seq(Nat) BY <1>3, Teile
<1>6. Geordnet(g, S, M, G) BY <1>3 DEF Richtung
<1>7. g \in Nat /\ G \in Nat /\ g <= G BY <1>6 DEF Geordnet
<1> HIDE DEF M, S, g, G
<1>8. ASSUME NEW z \in Seq(Nat), Zwischen(z, g, G) PROVE Nummern(z) \subseteq I
  <2> SUFFICES ASSUME NEW k \in DOMAIN z, z[k] # 0 PROVE z[k] \in I BY DEF Nummern
  <2>1. z[k] \in Nat /\ g < z[k] /\ z[k] <= G BY <1>8 DEF Zwischen
  <2> QED BY <1>7, <2>1
<1>9. Nummern(S) \subseteq I BY <1>5, <1>6, <1>8 DEF Geordnet
<1>10. ASSUME NEW i \in DOMAIN M PROVE Nummern(M[i].zeichen) \subseteq I
  <2>1. i \in 1 .. Len(M) BY <1>4
  <2>2. Text(M, i) \in Seq(Nat) BY <1>4, <2>1, TextTyp
  <2>3. Zwischen(Text(M, i), g, G) BY <1>6 DEF Geordnet
  <2>4. Nummern(Text(M, i)) \subseteq I BY <1>8, <2>2, <2>3
  <2> QED BY <2>4 DEF Text
<1>11. Offen(s) \subseteq I BY <1>2, <1>9, <1>10
<1>12. IsFiniteSet(I) /\ Cardinality(I) = G - g
  <2>1. IsFiniteSet(I) /\ Cardinality(I) = IF g + 1 > G THEN 0 ELSE G - (g + 1) + 1 BY <1>7, FS_Interval
  <2> QED BY <1>7, <2>1
<1> HIDE DEF I
<1>13. IsFiniteSet(Offen(s)) /\ Cardinality(Offen(s)) <= Cardinality(I) BY <1>11, <1>12, FS_Subset
<1>14. Cardinality(Offen(s)) \in Nat BY <1>13, FS_CardinalityType
<1>15. Cardinality(Offen(s)) <= G - g BY <1>12, <1>13
<1> QED BY <1>14, <1>15 DEF v, w, y, g, G

(* None of the counts has wrapped. *)
Kurz == \A s \in Enden : zw[s].getippt < ZwUmlauf - 1

LEMMA WegInvIstQuittungStimmt == WegInv => (Kurz => QuittungStimmt)
<1> SUFFICES ASSUME WegInv, Kurz, NEW s \in Enden
             PROVE  (zw[s].gesendet - zw[s].quittiert) % ZwUmlauf >= Cardinality(Offen(s))
  BY DEF QuittungStimmt
<1> DEFINE y == Gegenstelle(s)
           v == zw[s]
           w == zw[y]
           c == Cardinality(Offen(s))
           g == w.gedruckt
           q == v.quittiert
           G == Grenze(v)
<1>1. Lage(s, y, v, w) BY LageGilt
<1>2. v.getippt < ZwUmlauf - 1 BY DEF Kurz
<1>3. c \in Nat /\ c <= G - g BY OffenBegrenzt
<1> HIDE DEF v, w, y, c
<1>4. v \in Station /\ Richtung(v, w, zwNetz[y], zwAbrisse) BY <1>1 DEF Lage
<1>5. G \in Nat /\ g \in Nat /\ g <= G BY <1>4, GrenzeZahl
<1>6. G <= v.getippt /\ v.getippt \in Nat
  <2>1. v.getippt \in Nat /\ Len(v.empf) \in Nat BY <1>4, Teile
  <2> QED BY <2>1 DEF Grenze
<1>7. v.gesendet = G /\ Alt(q, g) BY <1>1, <1>2 DEF Lage, Zaehlung, Bestaetigt
<1>8. q \in 0 .. ZwUmlauf - 1 BY <1>4 DEF Station, Zaehler
<1> HIDE DEF g, q, G
<1>9. G < ZwUmlauf - 1 /\ ZwUmlauf \in Nat BY <1>2, <1>5, <1>6, Groessen
<1>10. CASE q <= g
  <2>1. G - q \in 0 .. ZwUmlauf - 1 BY <1>5, <1>8, <1>9, <1>10
  <2>2. (G - q) % ZwUmlauf = G - q BY <2>1, ModuloKlein
  <2>3. G - q >= c BY <1>3, <1>5, <1>8, <1>10
  <2> QED BY <1>7, <2>2, <2>3 DEF v, c, q
<1>11. CASE q = ZwUmlauf - 1
  <2>1. G - q \in -ZwUmlauf .. -1 BY <1>5, <1>8, <1>9, <1>11
  <2>2. (G - q) % ZwUmlauf = (G - q) + ZwUmlauf BY <2>1, ModuloNegativ
  <2>3. (G - q) + ZwUmlauf >= c BY <1>3, <1>5, <1>9, <1>11
  <2> QED BY <1>7, <2>2, <2>3 DEF v, c, q
<1> QED BY <1>7, <1>10, <1>11 DEF Alt

(* As long as the counts have not wrapped, no acknowledgement promises     *)
(* more than has been printed (3208, 3256): neither an old one nor one     *)
(* that was made while the interrupt printed, or while an announcement was *)
(* in the buffer.  The counts are of one byte and nothing limits how far   *)
(* they may be apart: beyond 254 characters of either station the theorem  *)
(* says nothing.                                                           *)
THEOREM QuittungGilt == ZwSpec => [](Kurz => QuittungStimmt)
BY AmAnfang, JederSchritt, WegInvIstQuittungStimmt, PTL DEF ZwSpec
=============================================================================
