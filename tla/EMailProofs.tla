----------------------------- MODULE EMailProofs -----------------------------
(***************************************************************************)
(* Theorems about the e-mail client: what an SMTP server accepts was typed *)
(* in this order and without a gap, and a mail that a POP3 server deletes  *)
(* has been printed, for any mails, any text and any sizes of buffers.     *)
(***************************************************************************)
EXTENDS EMail, SequenceTheorems, NaturalsInduction, WellFoundedInduction, TLAPS

(***************************************************************************)
(* Numbers and loops.                                                      *)
(***************************************************************************)
(* Every set of numbers has a least one. *)
LEMMA Kleinste ==
    ASSUME NEW T, T \subseteq Nat, T # {}
    PROVE  \E x \in T : \A y \in T : x <= y
<1> DEFINE R == {p \in Nat \X Nat : p[1] < p[2]}
<1>1. IsWellFoundedOn(R, Nat) BY NatLessThanWellFounded DEF OpToRel
<1>2. PICK x \in T : \A y \in T : ~(<<y, x>> \in R) BY <1>1, WFMin
<1>3. \A y \in T : ~(y < x) BY <1>2
<1> QED BY <1>3

(* Induction, said of a set. *)
LEMMA AlleZahlen ==
    ASSUME NEW T, 0 \in T, \A n \in Nat : n \in T => n + 1 \in T
    PROVE  Nat \subseteq T
<1> SUFFICES ASSUME Nat \ T # {} PROVE FALSE OBVIOUS
<1>1. PICK x \in Nat \ T : \A y \in Nat \ T : x <= y BY Kleinste
<1>2. x # 0 BY <1>1
<1>3. x - 1 \in Nat /\ ~(x <= x - 1) BY <1>1, <1>2
<1>4. x - 1 \in T BY <1>1, <1>3
<1>5. (x - 1) + 1 = x BY <1>1
<1> QED BY <1>1, <1>3, <1>4, <1>5

(* What the steps of a loop keep holds after each of them. *)
LEMMA Bleibt ==
    ASSUME NEW S, NEW f, NEW N \in Nat, f[0] \in S,
           \A i \in 1 .. N : f[i - 1] \in S => f[i] \in S
    PROVE  \A i \in 0 .. N : f[i] \in S
<1> DEFINE T == {n \in Nat : n <= N => f[n] \in S}
<1>1. 0 \in T OBVIOUS
<1>2. ASSUME NEW n \in Nat, n \in T PROVE n + 1 \in T
  <2> SUFFICES ASSUME n + 1 <= N PROVE f[n + 1] \in S OBVIOUS
  <2>1. n <= N /\ n + 1 \in 1 .. N /\ (n + 1) - 1 = n OBVIOUS
  <2> QED BY <1>2, <2>1
<1>3. Nat \subseteq T
  <2> HIDE DEF T
  <2> QED BY <1>1, <1>2, AlleZahlen
<1> QED BY <1>3

(* F gives the state after step i from the state before it. *)
IstLauf(f, N, a, F) == f = [i \in 0 .. N |-> IF i = 0 THEN a ELSE F[<<i, f[i - 1]>>]]

LEMMA LaufVorhanden ==
    ASSUME NEW a, NEW F, NEW N \in Nat
    PROVE  \E f : IstLauf(f, N, a, F)
<1> DEFINE T == {n \in Nat : \E f : IstLauf(f, n, a, F)}
<1>1. 0 \in T
  <2> DEFINE f == [i \in 0 .. 0 |-> a]
  <2>1. f = [i \in 0 .. 0 |-> IF i = 0 THEN a ELSE F[<<i, f[i - 1]>>]] OBVIOUS
  <2>2. IstLauf(f, 0, a, F) BY <2>1 DEF IstLauf
  <2> QED BY <2>2
<1>2. ASSUME NEW n \in Nat, n \in T PROVE n + 1 \in T
  <2>1. PICK f : IstLauf(f, n, a, F) BY <1>2
  <2> DEFINE g == [i \in 0 .. n + 1 |-> IF i <= n THEN f[i] ELSE F[<<n + 1, f[n]>>]]
             h == [i \in 0 .. n + 1 |-> IF i = 0 THEN a ELSE F[<<i, g[i - 1]>>]]
  <2>2. ASSUME NEW i \in 0 .. n + 1 PROVE g[i] = h[i]
    <3>1. CASE i = 0
      <4>1. g[i] = f[0] /\ h[i] = a BY <3>1
      <4>2. f[0] = a BY <2>1 DEF IstLauf
      <4> QED BY <4>1, <4>2
    <3>2. CASE i \in 1 .. n
      <4>1. i # 0 /\ i <= n /\ i - 1 \in 0 .. n + 1 /\ i - 1 <= n /\ i \in 0 .. n BY <3>2
      <4>2. g[i] = f[i] /\ g[i - 1] = f[i - 1] BY <4>1
      <4>3. h[i] = F[<<i, g[i - 1]>>] BY <4>1
      <4>4. f[i] = F[<<i, f[i - 1]>>] BY <2>1, <4>1 DEF IstLauf
      <4> QED BY <4>2, <4>3, <4>4
    <3>3. CASE i = n + 1
      <4>1. i # 0 /\ ~(i <= n) /\ i - 1 = n /\ n \in 0 .. n + 1 /\ n <= n BY <3>3
      <4>2. g[i] = F[<<n + 1, f[n]>>] /\ g[n] = f[n] BY <4>1
      <4>3. h[i] = F[<<i, g[n]>>] BY <4>1
      <4> QED BY <3>3, <4>2, <4>3
    <3> QED BY <3>1, <3>2, <3>3
  <2>3. g = h
    <3>1. DOMAIN g = 0 .. n + 1 /\ DOMAIN h = 0 .. n + 1 OBVIOUS
    <3>2. g = [i \in 0 .. n + 1 |-> g[i]] /\ h = [i \in 0 .. n + 1 |-> h[i]] OBVIOUS
    <3> HIDE DEF g, h
    <3> QED BY <2>2, <3>1, <3>2
  <2> HIDE DEF g
  <2>4. IstLauf(g, n + 1, a, F) BY <2>3 DEF IstLauf
  <2> QED BY <2>4
<1> HIDE DEF T
<1>3. N \in T BY <1>1, <1>2, AlleZahlen
<1> QED BY <1>3 DEF T

(***************************************************************************)
(* What is sent and received.                                              *)
(***************************************************************************)
Marken == {"EHLO", "AUTH", "NAME", "KENNWORT", "FROM", "RCPT", "DATA", "KOPF", "LEERZEILE", "PUNKT", "QUIT", "USER",
           "PASS", "STAT", "RETR", "DELE", "ENDE", "BRUCH"}
Token == Marken \cup {"ok", "err", "mails", "keine", "halb", "punkt", "kopf", "html", "lang", "zeile"} \cup ElZeichen

LEMMA Eines == ASSUME NEW x \in Token PROVE <<x>> \in Seq(Token) /\ Len(<<x>>) = 1 /\ <<x>>[1] = x
<1>1. Append(<< >>, x) = <<x>> /\ << >> \in Seq(Token) OBVIOUS
<1>2. Append(<< >>, x) \in Seq(Token) BY <1>1, AppendProperties
<1>3. <<x>> \in Seq(Token) BY <1>1, <1>2
<1> QED BY <1>3

LEMMA VerkettetAnhang ==
    ASSUME NEW a \in Seq(Token), NEW b \in Seq(Token), NEW x \in Token
    PROVE  Append(a \o b, x) = a \o Append(b, x)
<1>1. a \o b \in Seq(Token) BY ConcatProperties
<1>4. <<x>> \in Seq(Token) BY Eines
<1>2. Append(b, x) = b \o <<x>> BY AppendIsConcat
<1>3. Append(a \o b, x) = (a \o b) \o <<x>> BY <1>1, AppendIsConcat
<1> QED BY <1>2, <1>3, <1>4, ConcatAssociative

(***************************************************************************)
(* Selected members.                                                       *)
(***************************************************************************)
Gewaehlt(f, q, S) ==
    f[0] = << >> /\ \A i \in 1 .. Len(q) : f[i] = IF q[i] \in S THEN Append(f[i - 1], q[i]) ELSE f[i - 1]

LEMMA AuswahlFolge ==
    ASSUME NEW q \in Seq(Token), NEW S
    PROVE  \E f : Gewaehlt(f, q, S) /\ Auswahl(q, S) = f[Len(q)]
<1> DEFINE N == Len(q)
           R(f) == f = [i \in 0 .. N |-> IF i = 0 THEN << >> ELSE IF q[i] \in S THEN Append(f[i - 1], q[i]) ELSE f[i - 1]]
           F == [p \in (1 .. N) \X Seq(Token) |-> IF q[p[1]] \in S THEN Append(p[2], q[p[1]]) ELSE p[2]]
<1>1. N \in Nat OBVIOUS
<1>2. PICK f : IstLauf(f, N, << >>, F) BY <1>1, LaufVorhanden
<1>3. f[0] = << >> /\ \A i \in 1 .. N : f[i] = F[<<i, f[i - 1]>>]
  <2>1. \A i \in 0 .. N : f[i] = IF i = 0 THEN << >> ELSE F[<<i, f[i - 1]>>] BY <1>2 DEF IstLauf
  <2>2. 0 \in 0 .. N /\ \A i \in 1 .. N : i \in 0 .. N /\ i # 0 BY <1>1
  <2> HIDE DEF F, N
  <2> QED BY <2>1, <2>2
<1>4. ASSUME NEW i \in 1 .. N, NEW x \in Seq(Token)
      PROVE  F[<<i, x>>] = (IF q[i] \in S THEN Append(x, q[i]) ELSE x) /\ F[<<i, x>>] \in Seq(Token)
  <2>1. q[i] \in Token BY <1>1
  <2>2. <<i, x>> \in (1 .. N) \X Seq(Token) OBVIOUS
  <2>3. F[<<i, x>>] = (IF q[i] \in S THEN Append(x, q[i]) ELSE x) BY <2>2
  <2>4. Append(x, q[i]) \in Seq(Token) BY <2>1, AppendProperties
  <2> HIDE DEF F, N
  <2> QED BY <2>3, <2>4
<1>5. \A i \in 0 .. N : f[i] \in Seq(Token)
  <2>1. f[0] \in Seq(Token) BY <1>3
  <2>2. \A i \in 1 .. N : f[i - 1] \in Seq(Token) => f[i] \in Seq(Token)
    <3> HIDE DEF F, N
    <3> QED BY <1>3, <1>4
  <2> HIDE DEF F, N
  <2> QED BY <1>1, <2>1, <2>2, Bleibt
<1>6. \A i \in 1 .. N : f[i] = IF q[i] \in S THEN Append(f[i - 1], q[i]) ELSE f[i - 1]
  <2> SUFFICES ASSUME NEW i \in 1 .. N PROVE f[i] = IF q[i] \in S THEN Append(f[i - 1], q[i]) ELSE f[i - 1] OBVIOUS
  <2>1. i - 1 \in 0 .. N BY <1>1
  <2> HIDE DEF F, N
  <2> QED BY <1>3, <1>4, <1>5, <2>1
<1>7. R(f)
  <2> DEFINE h == [i \in 0 .. N |-> IF i = 0 THEN << >> ELSE IF q[i] \in S THEN Append(f[i - 1], q[i]) ELSE f[i - 1]]
  <2>1. f = [i \in 0 .. N |-> f[i]] BY <1>2 DEF IstLauf
  <2>2. \A i \in 0 .. N : i = 0 \/ i \in 1 .. N BY <1>1
  <2>3. \A i \in 0 .. N : f[i] = h[i]
    <3> HIDE DEF F
    <3> QED BY <1>3, <1>6, <2>2
  <2>4. h = [i \in 0 .. N |-> h[i]] OBVIOUS
  <2>5. f = h
    <3> HIDE DEF h, F
    <3> QED BY <2>1, <2>3, <2>4
  <2> HIDE DEF F
  <2> QED BY <2>5
<1>8. Auswahl(q, S) = (CHOOSE g : R(g))[N] BY DEF Auswahl
<1> DEFINE c == CHOOSE g : R(g)
<1>9. R(c)
  <2> HIDE DEF R, F
  <2> QED BY <1>7
<1>10. Gewaehlt(c, q, S)
  <2>1. \A i \in 0 .. N : c[i] = IF i = 0 THEN << >> ELSE IF q[i] \in S THEN Append(c[i - 1], q[i]) ELSE c[i - 1]
    <3> HIDE DEF c, F
    <3> QED BY <1>9
  <2>2. 0 \in 0 .. N /\ \A i \in 1 .. N : i \in 0 .. N /\ i # 0 BY <1>1
  <2> HIDE DEF c, F
  <2> QED BY <2>1, <2>2 DEF Gewaehlt
<1> HIDE DEF R, F
<1> QED BY <1>8, <1>10

(* The steps determine the result. *)
LEMMA AuswahlEindeutig ==
    ASSUME NEW q \in Seq(Token), NEW S, NEW f, Gewaehlt(f, q, S)
    PROVE  Auswahl(q, S) = f[Len(q)]
<1>1. PICK g : Gewaehlt(g, q, S) /\ Auswahl(q, S) = g[Len(q)] BY AuswahlFolge
<1> DEFINE N == Len(q)
           T == {n \in Nat : n <= N => f[n] = g[n]}
<1>2. N \in Nat OBVIOUS
<1>3. 0 \in T BY <1>1 DEF Gewaehlt
<1>4. ASSUME NEW n \in Nat, n \in T PROVE n + 1 \in T
  <2> SUFFICES ASSUME n + 1 <= N PROVE f[n + 1] = g[n + 1] OBVIOUS
  <2>1. n <= N /\ n + 1 \in 1 .. N /\ (n + 1) - 1 = n BY <1>2
  <2>2. f[n] = g[n] BY <1>4, <2>1
  <2> QED BY <1>1, <2>1, <2>2 DEF Gewaehlt
<1>5. N \in T
  <2> HIDE DEF T, N
  <2> QED BY <1>2, <1>3, <1>4, AlleZahlen
<1> QED BY <1>1, <1>2, <1>5

LEMMA AuswahlLeer == ASSUME NEW S PROVE Auswahl(<< >>, S) = << >>
<1>1. << >> \in Seq(Token) /\ Len(<< >>) = 0 OBVIOUS
<1>2. PICK f : Gewaehlt(f, << >>, S) /\ Auswahl(<< >>, S) = f[Len(<< >>)] BY <1>1, AuswahlFolge
<1> QED BY <1>1, <1>2 DEF Gewaehlt

LEMMA AuswahlAnhang ==
    ASSUME NEW q \in Seq(Token), NEW S, NEW x \in Token
    PROVE  Auswahl(Append(q, x), S) = IF x \in S THEN Append(Auswahl(q, S), x) ELSE Auswahl(q, S)
<1>1. PICK f : Gewaehlt(f, q, S) /\ Auswahl(q, S) = f[Len(q)] BY AuswahlFolge
<1> DEFINE N == Len(q)
           p == Append(q, x)
           h == [i \in 0 .. N + 1 |-> IF i <= N THEN f[i] ELSE IF x \in S THEN Append(f[N], x) ELSE f[N]]
<1>2. N \in Nat /\ p \in Seq(Token) /\ Len(p) = N + 1 /\ p[N + 1] = x /\ \A i \in 1 .. N : p[i] = q[i]
  <2>1. N \in Nat BY LenProperties
  <2>2. p \in Seq(Token) /\ Len(p) = Len(q) + 1 BY AppendProperties
  <2>3. p[Len(q) + 1] = x BY AppendProperties
  <2>4. \A i \in 1 .. Len(q) : p[i] = q[i] BY AppendProperties
  <2> QED BY <2>1, <2>2, <2>3, <2>4
<1>3. h[0] = << >> BY <1>1, <1>2 DEF Gewaehlt
<1>4. ASSUME NEW i \in 1 .. N + 1 PROVE h[i] = IF p[i] \in S THEN Append(h[i - 1], p[i]) ELSE h[i - 1]
  <2>1. CASE i = N + 1
    <3>1. h[i] = IF x \in S THEN Append(f[N], x) ELSE f[N] BY <1>2, <2>1
    <3>2. h[i - 1] = f[N] BY <1>2, <2>1
    <3> HIDE DEF h, p
    <3> QED BY <1>2, <2>1, <3>1, <3>2
  <2>2. CASE i \in 1 .. N
    <3>1. h[i] = f[i] /\ h[i - 1] = f[i - 1] BY <1>2, <2>2
    <3>2. f[i] = IF q[i] \in S THEN Append(f[i - 1], q[i]) ELSE f[i - 1] BY <1>1, <2>2 DEF Gewaehlt
    <3> HIDE DEF h, p
    <3> QED BY <1>2, <2>2, <3>1, <3>2
  <2> QED BY <1>2, <2>1, <2>2
<1>5. Gewaehlt(h, p, S)
  <2> HIDE DEF h, p
  <2> QED BY <1>2, <1>3, <1>4 DEF Gewaehlt
<1>6. Auswahl(p, S) = h[N + 1]
  <2> HIDE DEF h, p
  <2> QED BY <1>2, <1>5, AuswahlEindeutig
<1>7. h[N + 1] = IF x \in S THEN Append(f[N], x) ELSE f[N] BY <1>2
<1> HIDE DEF h, p
<1>8. Auswahl(p, S) = IF x \in S THEN Append(Auswahl(q, S), x) ELSE Auswahl(q, S) BY <1>1, <1>6, <1>7
<1> QED BY <1>8 DEF p

LEMMA AuswahlArt ==
    ASSUME NEW q \in Seq(Token), NEW S
    PROVE  Auswahl(q, S) \in Seq(S) /\ Auswahl(q, S) \in Seq(Token)
<1>1. PICK f : Gewaehlt(f, q, S) /\ Auswahl(q, S) = f[Len(q)] BY AuswahlFolge
<1> DEFINE N == Len(q)
<1>2. N \in Nat /\ \A i \in 1 .. N : q[i] \in Token OBVIOUS
<1> DEFINE U == Seq(S \cap Token)
<1>3. f[0] \in U BY <1>1 DEF Gewaehlt
<1>4. ASSUME NEW i \in 1 .. N, f[i - 1] \in U PROVE f[i] \in U
  <2>1. f[i] = IF q[i] \in S THEN Append(f[i - 1], q[i]) ELSE f[i - 1] BY <1>1 DEF Gewaehlt
  <2>2. CASE q[i] \in S
    <3>1. q[i] \in S \cap Token BY <1>2, <2>2
    <3>2. Append(f[i - 1], q[i]) \in U BY <1>4, <3>1, AppendProperties
    <3> QED BY <2>1, <2>2, <3>2
  <2>3. CASE q[i] \notin S BY <1>4, <2>1, <2>3
  <2> QED BY <2>2, <2>3
<1>5. f[N] \in U
  <2>1. \A i \in 0 .. N : f[i] \in U
    <3> HIDE DEF U, N
    <3> QED BY <1>2, <1>3, <1>4, Bleibt
  <2> QED BY <1>2, <2>1
<1>6. f[N] \in Seq(S) /\ f[N] \in Seq(Token)
  <2>1. S \cap Token \subseteq S /\ S \cap Token \subseteq Token OBVIOUS
  <2> QED BY <1>5, <2>1, SeqMonotonic
<1> QED BY <1>1, <1>6 DEF N

(* Induction over the length of the second sequence. *)
LEMMA AuswahlVerkettet ==
    ASSUME NEW q \in Seq(Token), NEW r \in Seq(Token), NEW S
    PROVE  Auswahl(q \o r, S) = Auswahl(q, S) \o Auswahl(r, S)
<1> DEFINE T == {n \in Nat : n <= Len(r) => Auswahl(q \o SubSeq(r, 1, n), S) = Auswahl(q, S) \o Auswahl(SubSeq(r, 1, n), S)}
<1>1. 0 \in T
  <2>1. SubSeq(r, 1, 0) = << >> /\ q \o << >> = q OBVIOUS
  <2>2. Auswahl(q, S) \o << >> = Auswahl(q, S) BY AuswahlArt
  <2> QED BY <2>1, <2>2, AuswahlLeer
<1>2. ASSUME NEW n \in Nat, n \in T PROVE n + 1 \in T
  <2> SUFFICES ASSUME n + 1 <= Len(r)
               PROVE  Auswahl(q \o SubSeq(r, 1, n + 1), S) = Auswahl(q, S) \o Auswahl(SubSeq(r, 1, n + 1), S)
    OBVIOUS
  <2> DEFINE a == SubSeq(r, 1, n) x == r[n + 1]
  <2>1. a \in Seq(Token) /\ x \in Token /\ SubSeq(r, 1, n + 1) = Append(a, x) OBVIOUS
  <2>2. Auswahl(q \o a, S) = Auswahl(q, S) \o Auswahl(a, S) BY <1>2
  <2> HIDE DEF a, x
  <2>3. q \o Append(a, x) = Append(q \o a, x) /\ q \o a \in Seq(Token) BY <2>1, VerkettetAnhang, ConcatProperties
  <2>4. Auswahl(Append(q \o a, x), S) = IF x \in S THEN Append(Auswahl(q \o a, S), x) ELSE Auswahl(q \o a, S)
    <3> DEFINE w == q \o a
    <3>1. w \in Seq(Token) BY <2>3
    <3> HIDE DEF w
    <3>2. Auswahl(Append(w, x), S) = IF x \in S THEN Append(Auswahl(w, S), x) ELSE Auswahl(w, S)
      BY <2>1, <3>1, AuswahlAnhang
    <3> QED BY <3>2 DEF w
  <2>5. Auswahl(Append(a, x), S) = IF x \in S THEN Append(Auswahl(a, S), x) ELSE Auswahl(a, S) BY <2>1, AuswahlAnhang
  <2> DEFINE u == Auswahl(q, S) v == Auswahl(a, S)
  <2>6. u \in Seq(Token) /\ v \in Seq(Token) BY <2>1, AuswahlArt
  <2>7. Auswahl(Append(q \o a, x), S) = IF x \in S THEN Append(u \o v, x) ELSE u \o v BY <2>2, <2>4
  <2>8. Auswahl(Append(a, x), S) = IF x \in S THEN Append(v, x) ELSE v BY <2>5
  <2> HIDE DEF u, v
  <2>9. Append(u \o v, x) = u \o Append(v, x) BY <2>1, <2>6, VerkettetAnhang
  <2>10. Auswahl(Append(q \o a, x), S) = u \o Auswahl(Append(a, x), S) BY <2>7, <2>8, <2>9
  <2> QED BY <2>1, <2>3, <2>10 DEF u
<1>3. Len(r) \in T
  <2> HIDE DEF T
  <2> QED BY <1>1, <1>2, AlleZahlen
<1>4. SubSeq(r, 1, Len(r)) = r /\ Len(r) \in Nat /\ Len(r) <= Len(r) OBVIOUS
<1>5. Auswahl(q \o SubSeq(r, 1, Len(r)), S) = Auswahl(q, S) \o Auswahl(SubSeq(r, 1, Len(r)), S) BY <1>3, <1>4
<1> QED BY <1>4, <1>5

LEMMA AuswahlEines ==
    ASSUME NEW x \in Token, NEW S
    PROVE  Auswahl(<<x>>, S) = IF x \in S THEN <<x>> ELSE << >>
<1> DEFINE l == << >>
<1>1. Append(l, x) = <<x>> /\ l \in Seq(Token) OBVIOUS
<1>2. Auswahl(l, S) = l BY AuswahlLeer
<1>3. Append(Auswahl(l, S), x) = <<x>> BY <1>1, <1>2
<1> HIDE DEF l
<1>4. Auswahl(Append(l, x), S) = IF x \in S THEN Append(Auswahl(l, S), x) ELSE Auswahl(l, S) BY <1>1, AuswahlAnhang
<1> QED BY <1>1, <1>2, <1>3, <1>4 DEF l

(* Nothing, or everything, is selected. *)
LEMMA AuswahlOhne ==
    ASSUME NEW q \in Seq(Token), NEW S, \A i \in 1 .. Len(q) : q[i] \notin S
    PROVE  Auswahl(q, S) = << >>
<1>1. PICK f : Gewaehlt(f, q, S) /\ Auswahl(q, S) = f[Len(q)] BY AuswahlFolge
<1> DEFINE N == Len(q)
<1>2. N \in Nat OBVIOUS
<1> DEFINE U == {<< >>}
<1>3. f[0] \in U BY <1>1 DEF Gewaehlt
<1>4. \A i \in 1 .. N : f[i - 1] \in U => f[i] \in U BY <1>1 DEF Gewaehlt
<1>5. f[N] \in U
  <2>1. \A i \in 0 .. N : f[i] \in U
    <3> HIDE DEF U, N
    <3> QED BY <1>2, <1>3, <1>4, Bleibt
  <2> QED BY <1>2, <2>1
<1> QED BY <1>1, <1>5

LEMMA AuswahlAlle ==
    ASSUME NEW q \in Seq(Token), NEW S, \A i \in 1 .. Len(q) : q[i] \in S
    PROVE  Auswahl(q, S) = q
<1> DEFINE f == [i \in 0 .. Len(q) |-> SubSeq(q, 1, i)]
<1>1. f[0] = << >> /\ f[Len(q)] = q OBVIOUS
<1>2. ASSUME NEW i \in 1 .. Len(q) PROVE f[i] = IF q[i] \in S THEN Append(f[i - 1], q[i]) ELSE f[i - 1]
  <2>1. f[i] = SubSeq(q, 1, i) /\ f[i - 1] = SubSeq(q, 1, i - 1) OBVIOUS
  <2>2. SubSeq(q, 1, i) = Append(SubSeq(q, 1, i - 1), q[i]) OBVIOUS
  <2> QED BY <2>1, <2>2
<1>3. Gewaehlt(f, q, S)
  <2> HIDE DEF f
  <2> QED BY <1>1, <1>2 DEF Gewaehlt
<1> QED BY <1>1, <1>3, AuswahlEindeutig

(***************************************************************************)
(* Beginnings.                                                             *)
(***************************************************************************)
Vor(a, b) == \E u \in Seq(Token) : b = a \o u

LEMMA VorIstPrefix ==
    ASSUME NEW a \in Seq(Token), NEW b \in Seq(Token), Vor(a, b)
    PROVE  IsPrefix(a, b)
<1>1. PICK u \in Seq(Token) : b = a \o u BY DEF Vor
<1>2. /\ Len(a) \in Nat /\ Len(u) \in Nat /\ Len(b) = Len(a) + Len(u)
      /\ \A i \in 1 .. Len(a) + Len(u) : b[i] = IF i <= Len(a) THEN a[i] ELSE u[i - Len(a)]
  BY <1>1, LenProperties, ConcatProperties
<1>3. SubSeq(a, 1, Len(a)) = a BY SubSeqFull
<1>4. SubSeq(b, 1, Len(a)) = a
  <2>1. \A i \in 1 .. Len(a) : b[i] = a[i] /\ a[i] \in Token BY <1>2, ElementOfSeq
  <2> DEFINE n == Len(a) c == SubSeq(b, 1, n)
  <2>2. /\ c \in Seq(Token) /\ Len(c) = IF 1 <= n THEN n - 1 + 1 ELSE 0
        /\ \A i \in 1 .. n - 1 + 1 : c[i] = b[1 + i - 1]
    <3>1. \A i \in 1 .. n : b[i] \in Token BY <2>1
    <3>2. 1 \in Int /\ n \in Int BY <1>2
    <3> HIDE DEF n
    <3> QED BY <3>1, <3>2, SubSeqProperties
  <2>3. Len(c) = n /\ \A i \in 1 .. n : c[i] = a[i] BY <1>2, <2>1, <2>2
  <2> HIDE DEF c
  <2> QED BY <2>2, <2>3, SeqEqual
<1> QED BY <1>2, <1>3, <1>4 DEF IsPrefix

LEMMA VorSelbst == ASSUME NEW a \in Seq(Token) PROVE Vor(a, a)
<1>1. a = a \o << >> /\ << >> \in Seq(Token) BY ConcatEmptySeq
<1> QED BY <1>1 DEF Vor

LEMMA VorLeer == ASSUME NEW a \in Seq(Token) PROVE Vor(<< >>, a)
<1>1. a = << >> \o a BY ConcatEmptySeq
<1> QED BY <1>1 DEF Vor

LEMMA VorMehr ==
    ASSUME NEW a \in Seq(Token), NEW b \in Seq(Token), Vor(a, b), NEW c \in Seq(Token)
    PROVE  Vor(a, b \o c)
<1>1. PICK u \in Seq(Token) : b = a \o u BY DEF Vor
<1>2. (a \o u) \o c = a \o (u \o c) /\ u \o c \in Seq(Token) BY ConcatAssociative, ConcatProperties
<1> QED BY <1>1, <1>2 DEF Vor

LEMMA VorWeniger ==
    ASSUME NEW a \in Seq(Token), NEW b \in Seq(Token), NEW c, Vor(a \o b, c)
    PROVE  Vor(a, c)
<1>1. PICK u \in Seq(Token) : c = (a \o b) \o u BY DEF Vor
<1>2. (a \o b) \o u = a \o (b \o u) /\ b \o u \in Seq(Token) BY ConcatAssociative, ConcatProperties
<1> QED BY <1>1, <1>2 DEF Vor

LEMMA VorDurch ==
    ASSUME NEW a \in Seq(Token), NEW b \in Seq(Token), NEW c, Vor(a, b), Vor(b, c)
    PROVE  Vor(a, c)
<1>1. PICK u \in Seq(Token) : b = a \o u BY DEF Vor
<1> QED BY <1>1, VorWeniger

(***************************************************************************)
(* Constants and types.                                                    *)
(***************************************************************************)
Text == ElZeichen \ {"zl"}
Zeilen == {"html", "lang", "zeile"}

LEMMA Groessen ==
    /\ ElInMax \in Nat /\ ElInMax >= 2 /\ ElDruckMax \in Nat /\ ElDruckMax >= 2
    /\ ElMaxSitzungen \in Nat /\ ElMaxStoerungen \in Nat
    /\ Len(ElText) \in Nat /\ \A i \in 1 .. Len(ElText) : ElText[i] \in ElZeichen
    /\ ElZeichen \subseteq Token /\ ElZeichen \cap Marken = {}
<1>1. ElInMax \in Nat /\ ElInMax >= 2 /\ ElDruckMax \in Nat /\ ElDruckMax >= 2 BY ElAnnahme
<1>2. ElMaxSitzungen \in Nat /\ ElMaxStoerungen \in Nat BY ElAnnahme
<1>3. ElText \in Seq(STRING) BY ElAnnahme
<1>4. Len(ElText) \in Nat /\ \A i \in 1 .. Len(ElText) : ElText[i] \in ElZeichen BY <1>3 DEF ElZeichen
<1>5. \A i \in DOMAIN ElText : ElText[i] \notin Marken BY ElAnnahme DEF Marken
<1>6. ElZeichen \cap Marken = {} BY <1>5 DEF ElZeichen
<1>7. ElZeichen \subseteq Token BY DEF Token
<1> QED BY <1>1, <1>2, <1>4, <1>6, <1>7

LEMMA TextGilt == Text \subseteq ElZeichen /\ Text \subseteq Token /\ Text \cap Marken = {}
BY Groessen DEF Text

Anfang == {"HalloSagen", "AnmeldungStarten", "AnmeldungName", "AnmeldungKennwort", "EingabeMailTo", "MailFrom", "MailTo",
           "StartData"}
Dabei == {"WarteStart", "MailSubject", "MailData"}
Spaet == {"Abmelden", "WarteEnde"}
PopFrueh == {"AnmeldungName", "AnmeldungKennwort", "StartData", "WarteStart"}

Phasen == Anfang \cup Dabei \cup Spaet \cup PopFrueh \cup {"MailWarteEinschaltungDruck"}

Station == [modus : ElModi, verb : BOOLEAN, handle : BOOLEAN, geplant : BOOLEAN, prot : {"POP3", "SMTP"},
            phase : Phasen, ok : BOOLEAN, in : Seq(Token), out : Seq(Token), druck : Nat, ein : Seq(ElZeichen),
            anfang : BOOLEAN, weg : BOOLEAN, frage : BOOLEAN, um : SUBSET ElUhren,
            verworfen : BOOLEAN]
Netz == [offen : BOOLEAN, hin : Seq(Token), her : Seq(Token), bus : BOOLEAN]
Server == [imText : BOOLEAN, text : Seq(Token), angenommen : Seq(Token), mail : ElMails \cup {<< >>},
           markiert : BOOLEAN, geloescht : BOOLEAN]
Geist == [getippt : Seq(ElZeichen), gedruckt : Seq(Token), gekuerzt : BOOLEAN, gestoert : BOOLEAN]

Phasengerecht(s) ==
    /\ s.prot = "SMTP" => s.phase \in Anfang \cup Dabei \cup Spaet
    /\ s.prot = "POP3" => s.phase \in PopFrueh \cup {"MailWarteEinschaltungDruck", "MailData"} \cup Spaet
Passend(s) ==
    /\ Phasengerecht(s)
    /\ Len(s.in) <= ElInMax
    /\ s.druck <= IF s.prot = "POP3" /\ s.phase = "MailData" THEN ElDruckMax ELSE ElDruckMax + 1
    /\ s.handle => s.verb
    /\ s.verb => s.modus # "Ruhe"
Art(s, n, v, g) == s \in Station /\ n \in Netz /\ v \in Server /\ g \in Geist /\ Passend(s)

LEMMA Stationsteile ==
    ASSUME NEW s \in Station
    PROVE  /\ s.modus \in ElModi /\ s.verb \in BOOLEAN /\ s.handle \in BOOLEAN /\ s.geplant \in BOOLEAN
           /\ s.prot \in {"POP3", "SMTP"} /\ s.phase \in Phasen /\ s.ok \in BOOLEAN /\ s.in \in Seq(Token)
           /\ s.out \in Seq(Token) /\ s.druck \in Nat /\ s.ein \in Seq(ElZeichen) /\ s.ein \in Seq(Token)
           /\ s.anfang \in BOOLEAN /\ s.weg \in BOOLEAN /\ s.frage \in BOOLEAN /\ s.um \subseteq ElUhren
           /\ s.verworfen \in BOOLEAN
<1>1. s.ein \in Seq(ElZeichen) BY DEF Station
<1>2. s.ein \in Seq(Token) BY <1>1, Groessen, SeqMonotonic
<1> QED BY <1>2 DEF Station

LEMMA Netzteile ==
    ASSUME NEW n \in Netz
    PROVE  n.offen \in BOOLEAN /\ n.hin \in Seq(Token) /\ n.her \in Seq(Token) /\ n.bus \in BOOLEAN
BY DEF Netz

LEMMA Serverteile ==
    ASSUME NEW v \in Server
    PROVE  /\ v.imText \in BOOLEAN /\ v.text \in Seq(Token) /\ v.angenommen \in Seq(Token)
           /\ v.mail \in ElMails \cup {<< >>} /\ v.markiert \in BOOLEAN /\ v.geloescht \in BOOLEAN
BY DEF Server

LEMMA Geistteile ==
    ASSUME NEW g \in Geist
    PROVE  /\ g.getippt \in Seq(ElZeichen) /\ g.getippt \in Seq(Token) /\ g.gedruckt \in Seq(Token)
           /\ g.gekuerzt \in BOOLEAN /\ g.gestoert \in BOOLEAN
<1>1. g.getippt \in Seq(ElZeichen) BY DEF Geist
<1>2. g.getippt \in Seq(Token) BY <1>1, Groessen, SeqMonotonic
<1> QED BY <1>2 DEF Geist

(***************************************************************************)
(* The text on its way to the server.                                      *)
(***************************************************************************)
Ohne(q, X) == \A i \in 1 .. Len(q) : q[i] \notin X

LEMMA OhneVerkettet ==
    ASSUME NEW a \in Seq(Token), NEW b \in Seq(Token), NEW X
    PROVE  Ohne(a \o b, X) <=> Ohne(a, X) /\ Ohne(b, X)
<1>1. /\ Len(a) \in Nat /\ Len(b) \in Nat /\ Len(a \o b) = Len(a) + Len(b)
      /\ \A i \in 1 .. Len(a) + Len(b) : (a \o b)[i] = IF i <= Len(a) THEN a[i] ELSE b[i - Len(a)]
  BY LenProperties, ConcatProperties
<1>2. ASSUME Ohne(a \o b, X) PROVE Ohne(a, X) /\ Ohne(b, X)
  <2>1. ASSUME NEW i \in 1 .. Len(a) PROVE a[i] \notin X
    <3>1. i \in 1 .. Len(a) + Len(b) /\ i <= Len(a) BY <1>1
    <3> QED BY <1>1, <1>2, <3>1 DEF Ohne
  <2>2. ASSUME NEW i \in 1 .. Len(b) PROVE b[i] \notin X
    <3>1. i + Len(a) \in 1 .. Len(a) + Len(b) /\ ~(i + Len(a) <= Len(a)) /\ (i + Len(a)) - Len(a) = i BY <1>1
    <3>2. (a \o b)[i + Len(a)] = b[(i + Len(a)) - Len(a)] BY <1>1, <3>1
    <3> QED BY <1>1, <1>2, <3>1, <3>2 DEF Ohne
  <2> QED BY <2>1, <2>2 DEF Ohne
<1>3. ASSUME Ohne(a, X), Ohne(b, X) PROVE Ohne(a \o b, X)
  <2> SUFFICES ASSUME NEW i \in 1 .. Len(a) + Len(b) PROVE (a \o b)[i] \notin X BY <1>1 DEF Ohne
  <2>1. CASE i <= Len(a)
    <3>1. i \in 1 .. Len(a) BY <1>1, <2>1
    <3> QED BY <1>1, <1>3, <2>1, <3>1 DEF Ohne
  <2>2. CASE ~(i <= Len(a))
    <3>1. i - Len(a) \in 1 .. Len(b) BY <1>1, <2>2
    <3> QED BY <1>1, <1>3, <2>2, <3>1 DEF Ohne
  <2> QED BY <2>1, <2>2
<1> QED BY <1>2, <1>3

LEMMA OhneEines == ASSUME NEW x \in Token, NEW X, x \notin X PROVE Ohne(<<x>>, X)
<1> DEFINE q == <<x>>
<1>1. Len(q) = 1 /\ q[1] = x BY Eines
<1> HIDE DEF q
<1>2. \A i \in 1 .. Len(q) : i = 1 BY <1>1
<1>3. \A i \in 1 .. Len(q) : q[i] \notin X BY <1>1, <1>2
<1> QED BY <1>3 DEF q, Ohne

LEMMA OhneWeniger == ASSUME NEW q, NEW X, NEW Y, Ohne(q, X), Y \subseteq X PROVE Ohne(q, Y)
BY DEF Ohne

LEMMA Kopf ==
    ASSUME NEW q \in Seq(Token), q # << >>
    PROVE  Head(q) \in Token /\ Tail(q) \in Seq(Token) /\ q = <<Head(q)>> \o Tail(q) /\ q[1] = Head(q)
<1>1. Len(q) \in Nat \ {0} /\ Head(q) = q[1] /\ 1 \in 1 .. Len(q) BY EmptySeq
<1>2. q[1] \in Token BY <1>1, ElementOfSeq
<1>3. /\ Tail(q) \in Seq(Token) /\ Len(Tail(q)) = Len(q) - 1
      /\ \A i \in 1 .. Len(Tail(q)) : Tail(q)[i] = q[i + 1]
  BY HeadTailProperties
<1> DEFINE k == Head(q) t == Tail(q) r == <<k>> \o t
<1>4. k \in Token /\ <<k>> \in Seq(Token) /\ Len(<<k>>) = 1 /\ <<k>>[1] = k BY <1>1, <1>2, Eines
<1>5. /\ r \in Seq(Token) /\ Len(r) = 1 + Len(t)
      /\ \A i \in 1 .. 1 + Len(t) : r[i] = IF i <= 1 THEN <<k>>[i] ELSE t[i - 1]
  <2> HIDE DEF k, t
  <2>1. t \in Seq(Token) BY <1>3 DEF t
  <2>2. /\ <<k>> \o t \in Seq(Token) /\ Len(<<k>> \o t) = Len(<<k>>) + Len(t)
        /\ \A i \in 1 .. Len(<<k>>) + Len(t) : (<<k>> \o t)[i] = IF i <= Len(<<k>>) THEN <<k>>[i] ELSE t[i - Len(<<k>>)]
    BY <1>4, <2>1, ConcatProperties
  <2> QED BY <1>4, <2>2
<1>6. Len(r) = Len(q) BY <1>1, <1>3, <1>5
<1>7. ASSUME NEW i \in 1 .. Len(q) PROVE q[i] = r[i]
  <2>1. CASE i = 1 BY <1>1, <1>3, <1>4, <1>5, <2>1
  <2>2. CASE i # 1
    <3>1. i - 1 \in 1 .. Len(t) /\ ~(i <= 1) /\ (i - 1) + 1 = i /\ i \in 1 .. 1 + Len(t) BY <1>1, <1>3, <2>2
    <3>2. r[i] = t[i - 1] /\ t[i - 1] = q[(i - 1) + 1] BY <1>3, <1>5, <3>1
    <3> QED BY <3>1, <3>2
  <2> QED BY <2>1, <2>2
<1>8. q = r
  <2> HIDE DEF r, t, k
  <2> QED BY <1>5, <1>6, <1>7, SeqEqual
<1> QED BY <1>1, <1>2, <1>3, <1>8

LEMMA BuchstabenGilt ==
    /\ Buchstaben(<< >>) = << >>
    /\ \A q \in Seq(Token) : Buchstaben(q) \in Seq(Token) /\ Buchstaben(q) \in Seq(Text)
    /\ \A q, r \in Seq(Token) : Buchstaben(q \o r) = Buchstaben(q) \o Buchstaben(r)
    /\ \A q \in Seq(Token) : Ohne(q, Text) => Buchstaben(q) = << >>
    /\ \A q \in Seq(Token) : Buchstaben(Buchstaben(q)) = Buchstaben(q)
<1>1. \A q : Buchstaben(q) = Auswahl(q, Text) BY DEF Buchstaben, Text
<1>2. Buchstaben(<< >>) = << >> BY <1>1, AuswahlLeer
<1>3. ASSUME NEW q \in Seq(Token) PROVE Buchstaben(q) \in Seq(Token) /\ Buchstaben(q) \in Seq(Text) BY <1>1, AuswahlArt
<1>4. ASSUME NEW q \in Seq(Token), NEW r \in Seq(Token) PROVE Buchstaben(q \o r) = Buchstaben(q) \o Buchstaben(r)
  BY <1>1, AuswahlVerkettet
<1>5. ASSUME NEW q \in Seq(Token), Ohne(q, Text) PROVE Buchstaben(q) = << >> BY <1>1, <1>5, AuswahlOhne DEF Ohne
<1>6. ASSUME NEW q \in Seq(Token) PROVE Buchstaben(Buchstaben(q)) = Buchstaben(q)
  <2> DEFINE r == Buchstaben(q)
  <2>1. r \in Seq(Token) /\ r \in Seq(Text) BY <1>3
  <2>2. \A i \in 1 .. Len(r) : r[i] \in Text BY <2>1, ElementOfSeq
  <2> HIDE DEF r
  <2>3. Auswahl(r, Text) = r BY <2>1, <2>2, AuswahlAlle
  <2> QED BY <1>1, <2>3 DEF r
<1> QED BY <1>2, <1>3, <1>4, <1>5, <1>6

(* A letter in q comes before a final "." and, unless the server is in the *)
(* text already, after DATA, which is there once and before any text.      *)
Geordnet(im, q) ==
    \A j \in 1 .. Len(q) : q[j] \in Text => /\ \A i \in 1 .. j - 1 : q[i] # "PUNKT"
                                            /\ im \/ \E i \in 1 .. j - 1 : q[i] = "DATA"
Daten(v, q) ==
    /\ \A i, j \in 1 .. Len(q) : q[i] = "DATA" /\ q[j] = "DATA" => i = j
    /\ v.imText => Ohne(q, {"DATA"})
    /\ Ohne(q, {"DATA"}) \/ Buchstaben(v.text) = << >>
Fluss(v, q) == Geordnet(v.imText, q) /\ Daten(v, q)
Empfaenglich(v, q) == Ohne(q, {"PUNKT"}) /\ (v.imText \/ ~Ohne(q, {"DATA"}))
Abgelehnt(v, q) == ~v.imText /\ Ohne(q, {"DATA"}) /\ Buchstaben(v.text) = << >>
Angekommen(v, q) == Buchstaben(v.text) \o Buchstaben(q)

LEMMA FlussKuerzer ==
    ASSUME NEW v, NEW a \in Seq(Token), NEW b \in Seq(Token), Fluss(v, a \o b)
    PROVE  Fluss(v, a)
<1>1. /\ Len(a) \in Nat /\ Len(b) \in Nat /\ Len(a \o b) = Len(a) + Len(b)
      /\ \A i \in 1 .. Len(a) + Len(b) : (a \o b)[i] = IF i <= Len(a) THEN a[i] ELSE b[i - Len(a)]
  BY LenProperties, ConcatProperties
<1>2. \A i \in 1 .. Len(a) : i \in 1 .. Len(a \o b) /\ (a \o b)[i] = a[i] BY <1>1
<1>3. Geordnet(v.imText, a)
  <2> SUFFICES ASSUME NEW j \in 1 .. Len(a), a[j] \in Text
               PROVE  /\ \A i \in 1 .. j - 1 : a[i] # "PUNKT"
                      /\ v.imText \/ \E i \in 1 .. j - 1 : a[i] = "DATA"
    BY DEF Geordnet
  <2>1. /\ \A i \in 1 .. j - 1 : (a \o b)[i] # "PUNKT"
        /\ v.imText \/ \E i \in 1 .. j - 1 : (a \o b)[i] = "DATA"
    BY <1>2 DEF Fluss, Geordnet
  <2>2. \A i \in 1 .. j - 1 : i \in 1 .. Len(a) BY <1>1
  <2> QED BY <1>2, <2>1, <2>2
<1>4. Daten(v, a)
  <2>1. \A i, j \in 1 .. Len(a) : a[i] = "DATA" /\ a[j] = "DATA" => i = j BY <1>2 DEF Fluss, Daten
  <2>2. Ohne(a \o b, {"DATA"}) => Ohne(a, {"DATA"}) BY OhneVerkettet
  <2> QED BY <2>1, <2>2 DEF Fluss, Daten
<1> QED BY <1>3, <1>4 DEF Fluss

(* More at the end: what is no text, or text that the server will take.    *)
LEMMA FlussMehr ==
    ASSUME NEW v, NEW a \in Seq(Token), NEW b \in Seq(Token), Fluss(v, a), Ohne(b, {"DATA"}),
           Ohne(b, Text) \/ (Empfaenglich(v, a) /\ Ohne(b, {"PUNKT"}))
    PROVE  Fluss(v, a \o b)
<1>1. /\ Len(a) \in Nat /\ Len(b) \in Nat /\ Len(a \o b) = Len(a) + Len(b)
      /\ \A i \in 1 .. Len(a) + Len(b) : (a \o b)[i] = IF i <= Len(a) THEN a[i] ELSE b[i - Len(a)]
  BY LenProperties, ConcatProperties
<1>2. \A i \in 1 .. Len(a) : i \in 1 .. Len(a \o b) /\ (a \o b)[i] = a[i] BY <1>1
<1>3. \A i \in 1 .. Len(a \o b) : i \notin 1 .. Len(a) => i - Len(a) \in 1 .. Len(b) /\ (a \o b)[i] = b[i - Len(a)] /\ i > Len(a)
  BY <1>1
<1>4. Geordnet(v.imText, a \o b)
  <2> SUFFICES ASSUME NEW j \in 1 .. Len(a \o b), (a \o b)[j] \in Text
               PROVE  /\ \A i \in 1 .. j - 1 : (a \o b)[i] # "PUNKT"
                      /\ v.imText \/ \E i \in 1 .. j - 1 : (a \o b)[i] = "DATA"
    BY DEF Geordnet
  <2>1. CASE j \in 1 .. Len(a)
    <3>1. /\ \A i \in 1 .. j - 1 : a[i] # "PUNKT"
          /\ v.imText \/ \E i \in 1 .. j - 1 : a[i] = "DATA"
      BY <1>2, <2>1 DEF Fluss, Geordnet
    <3>2. \A i \in 1 .. j - 1 : i \in 1 .. Len(a) BY <1>1, <2>1
    <3> QED BY <1>2, <3>1, <3>2
  <2>2. CASE j \notin 1 .. Len(a)
    <3>1. j - Len(a) \in 1 .. Len(b) /\ b[j - Len(a)] \in Text /\ j > Len(a) BY <1>3, <2>2
    <3>2. ~Ohne(b, Text) BY <3>1 DEF Ohne
    <3>3. Empfaenglich(v, a) /\ Ohne(b, {"PUNKT"}) BY <3>2
    <3>4. Ohne(a \o b, {"PUNKT"}) BY <3>3, OhneVerkettet DEF Empfaenglich
    <3>5. \A i \in 1 .. j - 1 : i \in 1 .. Len(a \o b) BY <1>1
    <3>6. \A i \in 1 .. j - 1 : (a \o b)[i] # "PUNKT" BY <3>4, <3>5 DEF Ohne
    <3>7. ASSUME ~v.imText PROVE \E i \in 1 .. j - 1 : (a \o b)[i] = "DATA"
      <4>1. PICK i \in 1 .. Len(a) : a[i] = "DATA" BY <3>3, <3>7 DEF Empfaenglich, Ohne
      <4>2. i \in 1 .. j - 1 BY <1>1, <3>1
      <4> QED BY <1>2, <4>1, <4>2
    <3> QED BY <3>6, <3>7
  <2> QED BY <2>1, <2>2
<1>5. Daten(v, a \o b)
  <2>1. ASSUME NEW i \in 1 .. Len(a \o b), (a \o b)[i] = "DATA" PROVE i \in 1 .. Len(a)
    BY <1>3, <2>1 DEF Ohne
  <2>2. \A i, j \in 1 .. Len(a \o b) : (a \o b)[i] = "DATA" /\ (a \o b)[j] = "DATA" => i = j
    BY <1>2, <2>1 DEF Fluss, Daten
  <2>3. Ohne(a, {"DATA"}) => Ohne(a \o b, {"DATA"}) BY OhneVerkettet
  <2> QED BY <2>2, <2>3 DEF Fluss, Daten
<1> QED BY <1>4, <1>5 DEF Fluss

LEMMA EmpfaenglichMehr ==
    ASSUME NEW v, NEW a \in Seq(Token), NEW b \in Seq(Token), Empfaenglich(v, a), Ohne(b, {"PUNKT"})
    PROVE  Empfaenglich(v, a \o b)
<1>1. Ohne(a \o b, {"PUNKT"}) BY OhneVerkettet DEF Empfaenglich
<1>2. ~Ohne(a, {"DATA"}) => ~Ohne(a \o b, {"DATA"}) BY OhneVerkettet
<1> QED BY <1>1, <1>2 DEF Empfaenglich

LEMMA AngekommenMehr ==
    ASSUME NEW v \in Server, NEW a \in Seq(Token), NEW b \in Seq(Token)
    PROVE  /\ Angekommen(v, a) \in Seq(Token)
           /\ Angekommen(v, a \o b) = Angekommen(v, a) \o Buchstaben(b)
           /\ Ohne(b, Text) => Angekommen(v, a \o b) = Angekommen(v, a)
<1> DEFINE x == Buchstaben(v.text) y == Buchstaben(a) z == Buchstaben(b)
<1>1. x \in Seq(Token) /\ y \in Seq(Token) /\ z \in Seq(Token) BY Serverteile, BuchstabenGilt
<1>2. Buchstaben(a \o b) = y \o z BY BuchstabenGilt
<1>3. Ohne(b, Text) => z = << >> BY BuchstabenGilt
<1>4. Angekommen(v, a) = x \o y /\ Angekommen(v, a \o b) = x \o (y \o z) BY <1>2 DEF Angekommen
<1> HIDE DEF x, y, z
<1>5. x \o y \in Seq(Token) /\ x \o (y \o z) = (x \o y) \o z
  <2>1. x \o y \in Seq(Token) BY <1>1, ConcatProperties
  <2>2. (x \o y) \o z = x \o (y \o z) BY ONLY <1>1, ConcatAssociative
  <2> QED BY <2>1, <2>2
<1>6. z = << >> => (x \o y) \o z = x \o y BY <1>5, ConcatEmptySeq
<1> QED BY <1>3, <1>4, <1>5, <1>6 DEF z

LEMMA AngehaengtGilt ==
    ASSUME NEW a \in Seq(Token), NEW b \in Seq(Token)
    PROVE  /\ Angehaengt(a, b) \in Seq(Token)
           /\ Angehaengt(a, b) = a \o b \/ (b = <<"ENDE">> /\ Angehaengt(a, b) = a)
           /\ Buchstaben(Angehaengt(a, b)) = Buchstaben(a \o b)
<1>1. a \o b \in Seq(Token) BY ConcatProperties
<1>2. Angehaengt(a, b) = a \o b \/ (b = <<"ENDE">> /\ Angehaengt(a, b) = a) BY DEF Angehaengt
<1>3. ASSUME b = <<"ENDE">> PROVE Buchstaben(a \o b) = Buchstaben(a)
  <2>1. "ENDE" \notin Text BY TextGilt DEF Marken
  <2>2. Ohne(b, Text) BY <1>3, <2>1, OhneEines
  <2>3. Buchstaben(b) = << >> /\ Buchstaben(a \o b) = Buchstaben(a) \o Buchstaben(b) BY <2>2, BuchstabenGilt
  <2>4. Buchstaben(a) \o << >> = Buchstaben(a) BY BuchstabenGilt, ConcatEmptySeq
  <2> QED BY <2>3, <2>4
<1> QED BY <1>1, <1>2, <1>3

(* The server takes the first token. *)
LEMMA ServerNimmt ==
    ASSUME NEW v \in Server, NEW w \in Server, NEW q \in Seq(Token), q # << >>, NEW ja \in BOOLEAN,
           w.imText = (IF v.imText THEN Head(q) # "PUNKT" ELSE Head(q) = "DATA" /\ ja),
           w.text = (IF v.imText /\ Head(q) # "PUNKT" THEN Angehaengt(v.text, <<Head(q)>>) ELSE v.text),
           Fluss(v, q)
    PROVE  \/ Abgelehnt(w, Tail(q))
           \/ /\ Fluss(w, Tail(q)) /\ Angekommen(w, Tail(q)) = Angekommen(v, q)
              /\ Empfaenglich(v, q) => Empfaenglich(w, Tail(q))
<1> DEFINE k == Head(q) t == Tail(q)
<1>1. k \in Token /\ t \in Seq(Token) /\ q = <<k>> \o t /\ q[1] = k /\ <<k>> \in Seq(Token) BY Kopf, Eines
<1>2. /\ Len(q) \in Nat /\ Len(t) = Len(q) - 1 /\ 1 \in 1 .. Len(q)
      /\ \A i \in 1 .. Len(t) : t[i] = q[i + 1] /\ i + 1 \in 1 .. Len(q)
  <2>1. Len(q) \in Nat \ {0} BY EmptySeq
  <2>2. Len(t) = Len(q) - 1 /\ \A i \in 1 .. Len(t) : t[i] = q[i + 1] BY HeadTailProperties
  <2> QED BY <2>1, <2>2
<1>3. \A X : Ohne(q, X) <=> k \notin X /\ Ohne(t, X)
  <2> SUFFICES ASSUME NEW X PROVE Ohne(q, X) <=> k \notin X /\ Ohne(t, X) OBVIOUS
  <2>1. Ohne(<<k>>, X) <=> k \notin X BY <1>1, Eines DEF Ohne
  <2> HIDE DEF k, t
  <2> QED BY <1>1, <2>1, OhneVerkettet
<1>4. v.text \in Seq(Token) /\ v.imText \in BOOLEAN BY Serverteile
<1> HIDE DEF k, t
<1>5. k \in Text => v.imText BY <1>1, <1>2 DEF Fluss, Geordnet
<1>6. "PUNKT" \notin Text /\ "DATA" \notin Text BY TextGilt DEF Marken
<1>7. CASE ~v.imText /\ k = "DATA" /\ ~ja
  <2>1. ~w.imText /\ w.text = v.text BY <1>7 DEF k
  <2>2. ~Ohne(q, {"DATA"}) BY <1>3, <1>7
  <2>3. Buchstaben(w.text) = << >> BY <2>1, <2>2 DEF Fluss, Daten
  <2>4. Ohne(t, {"DATA"})
    <3> SUFFICES ASSUME NEW i \in 1 .. Len(t), t[i] = "DATA" PROVE FALSE BY DEF Ohne
    <3>1. q[i + 1] = "DATA" /\ i + 1 \in 1 .. Len(q) /\ i + 1 # 1 BY <1>2
    <3> QED BY <1>1, <1>2, <1>7, <3>1 DEF Fluss, Daten
  <2> QED BY <2>1, <2>3, <2>4 DEF Abgelehnt, t
<1>8. CASE ~(~v.imText /\ k = "DATA" /\ ~ja)
  <2>1. Angekommen(w, t) = Angekommen(v, q)
    <3> DEFINE x == Buchstaben(v.text) y == Buchstaben(<<k>>) z == Buchstaben(t)
    <3>1. x \in Seq(Token) /\ y \in Seq(Token) /\ z \in Seq(Token) BY <1>1, <1>4, BuchstabenGilt
    <3>2. Buchstaben(q) = y \o z BY <1>1, BuchstabenGilt
    <3>3. Buchstaben(w.text) = x \o y
      <4>1. CASE v.imText /\ k # "PUNKT"
        <5>1. w.text = Angehaengt(v.text, <<k>>) BY <4>1 DEF k
        <5>2. Buchstaben(w.text) = Buchstaben(v.text \o <<k>>)
          <6> DEFINE a == v.text b == <<k>>
          <6>1. a \in Seq(Token) /\ b \in Seq(Token) BY <1>1, <1>4
          <6> HIDE DEF a, b
          <6>2. Buchstaben(Angehaengt(a, b)) = Buchstaben(a \o b) BY <6>1, AngehaengtGilt
          <6> QED BY <5>1, <6>2 DEF a, b
        <5> QED BY <1>1, <1>4, <5>2, BuchstabenGilt
      <4>2. CASE ~(v.imText /\ k # "PUNKT")
        <5>1. w.text = v.text BY <4>2 DEF k
        <5>2. k \notin Text BY <1>5, <1>6, <4>2
        <5>3. y = << >> BY <1>1, <5>2, OhneEines, BuchstabenGilt
        <5>4. x \o << >> = x BY <3>1, ConcatEmptySeq
        <5> QED BY <5>1, <5>3, <5>4
      <4> QED BY <4>1, <4>2
    <3> HIDE DEF x, y, z
    <3>4. (x \o y) \o z = x \o (y \o z) BY <3>1, ConcatAssociative
    <3> QED BY <3>2, <3>3, <3>4 DEF Angekommen, x, z
  <2>2. Daten(w, t)
    <3>1. \A i, j \in 1 .. Len(t) : t[i] = "DATA" /\ t[j] = "DATA" => i = j
      <4> SUFFICES ASSUME NEW i \in 1 .. Len(t), NEW j \in 1 .. Len(t), t[i] = "DATA", t[j] = "DATA" PROVE i = j OBVIOUS
      <4>1. i + 1 = j + 1 BY <1>2 DEF Fluss, Daten
      <4> QED BY <4>1
    <3>2. w.imText => Ohne(t, {"DATA"})
      <4>1. CASE v.imText BY <1>3, <4>1 DEF Fluss, Daten
      <4>2. CASE ~v.imText
        <5> SUFFICES ASSUME w.imText, NEW i \in 1 .. Len(t), t[i] = "DATA" PROVE FALSE BY DEF Ohne
        <5>1. k = "DATA" BY <4>2 DEF k
        <5>2. q[i + 1] = "DATA" /\ i + 1 \in 1 .. Len(q) /\ i + 1 # 1 BY <1>2
        <5> QED BY <1>1, <1>2, <5>1, <5>2 DEF Fluss, Daten
      <4> QED BY <4>1, <4>2
    <3>3. Ohne(t, {"DATA"}) \/ Buchstaben(w.text) = << >>
      <4>1. CASE Ohne(q, {"DATA"}) BY <1>3, <4>1
      <4>2. CASE ~Ohne(q, {"DATA"})
        <5>1. ~v.imText /\ Buchstaben(v.text) = << >> BY <4>2 DEF Fluss, Daten
        <5>2. w.text = v.text BY <5>1
        <5> QED BY <5>1, <5>2
      <4> QED BY <4>1, <4>2
    <3> QED BY <3>1, <3>2, <3>3 DEF Daten
  <2>3. Geordnet(w.imText, t)
    <3> SUFFICES ASSUME NEW j \in 1 .. Len(t), t[j] \in Text
                 PROVE  /\ \A i \in 1 .. j - 1 : t[i] # "PUNKT"
                        /\ w.imText \/ \E i \in 1 .. j - 1 : t[i] = "DATA"
      BY DEF Geordnet
    <3>1. j + 1 \in 1 .. Len(q) /\ q[j + 1] \in Text BY <1>2
    <3>2. (j + 1) - 1 = j /\ Len(t) \in Nat BY <1>2
    <3>3. /\ \A i \in 1 .. j : q[i] # "PUNKT"
          /\ v.imText \/ \E i \in 1 .. j : q[i] = "DATA"
      BY <3>1, <3>2 DEF Fluss, Geordnet
    <3>4. \A i \in 1 .. j - 1 : i \in 1 .. Len(t) /\ i + 1 \in 1 .. j BY <3>2
    <3>5. \A i \in 1 .. j - 1 : t[i] # "PUNKT" BY <1>2, <3>3, <3>4
    <3>6. k # "PUNKT" BY <1>1, <3>2, <3>3
    <3>7. ASSUME ~w.imText PROVE \E i \in 1 .. j - 1 : t[i] = "DATA"
      <4>1. ~v.imText /\ k # "DATA" BY <1>8, <3>6, <3>7 DEF k
      <4>2. PICK i \in 1 .. j : q[i] = "DATA" BY <3>3, <4>1
      <4>3. i # 1 BY <1>1, <4>1, <4>2
      <4>4. i - 1 \in 1 .. j - 1 /\ (i - 1) + 1 = i BY <3>2, <4>3
      <4>5. t[i - 1] = "DATA" BY <1>2, <3>4, <4>2, <4>4
      <4> QED BY <4>4, <4>5
    <3> QED BY <3>5, <3>7
  <2>4. Empfaenglich(v, q) => Empfaenglich(w, t)
    <3> SUFFICES ASSUME Empfaenglich(v, q) PROVE Empfaenglich(w, t) OBVIOUS
    <3>1. k # "PUNKT" /\ Ohne(t, {"PUNKT"}) BY <1>3 DEF Empfaenglich
    <3>2. CASE v.imText BY <3>1, <3>2 DEF Empfaenglich, k
    <3>3. CASE ~v.imText
      <4>1. ~Ohne(q, {"DATA"}) BY <3>3 DEF Empfaenglich
      <4>2. k = "DATA" \/ ~Ohne(t, {"DATA"}) BY <1>3, <4>1
      <4>3. k = "DATA" => w.imText BY <1>8, <3>3 DEF k
      <4> QED BY <3>1, <4>2, <4>3 DEF Empfaenglich
    <3> QED BY <3>2, <3>3
  <2> QED BY <2>1, <2>2, <2>3, <2>4 DEF Fluss, t
<1> QED BY <1>7, <1>8

(***************************************************************************)
(* The invariant.                                                          *)
(***************************************************************************)
(* What the server may still get. *)
Zu(s, n) == ~s.handle \/ ~n.offen
Post(s, n) == IF Zu(s, n) THEN n.hin ELSE n.hin \o s.out

(* Sending: before DATA, in the mail, after it.  x has been taken out of   *)
(* what is typed.                                                          *)
Leer(v) == ~v.imText /\ Buchstaben(v.text) = << >>
Unbegonnen(s, n, v, g) == Leer(v) /\ s.ein = g.getippt /\ Ohne(Post(s, n), Text \cup {"DATA", "PUNKT"})
Stand(zu, q, v, x) ==
    /\ Fluss(v, q)
    /\ IF zu THEN Vor(Angekommen(v, q), Buchstaben(x))
       ELSE Empfaenglich(v, q) /\ Angekommen(v, q) = Buchstaben(x)
ImGange(s, n, v, g) ==
    \E x \in Seq(ElZeichen) : g.getippt = x \o s.ein /\ Stand(Zu(s, n), Post(s, n), v, x)
Beendet(s, n, v, g) == Fluss(v, Post(s, n)) /\ Vor(Angekommen(v, Post(s, n)), Buchstaben(g.getippt))
Smtp(s, n, v, g) ==
    /\ Vor(Buchstaben(v.angenommen), Buchstaben(v.text))
    /\ s.prot = "POP3" => Leer(v) /\ Ohne(Post(s, n), Text \cup {"DATA"})
    /\ s.prot = "SMTP" /\ s.phase \in Anfang => Unbegonnen(s, n, v, g)
    /\ s.prot = "SMTP" /\ s.phase \in Dabei => Abgelehnt(v, Post(s, n)) \/ ImGange(s, n, v, g)
    /\ s.prot = "SMTP" /\ s.phase \in Spaet => Abgelehnt(v, Post(s, n)) \/ Beendet(s, n, v, g)

(* Fetching: one command or answer is on its way during the log-in, none   *)
(* while the terminal is switched on; then come the lines of the mail, of  *)
(* which the first k of the answer W have been used.                       *)
Einer(s, n) ==
    \/ s.in \in {<< >>, <<"halb">>} /\ Len(s.out) + Len(n.hin) + Len(n.her) <= 1
    \/ Len(s.in) = 1 /\ s.out = << >> /\ n.hin = << >> /\ n.her = << >>
Fruehe == {"EHLO", "RETR", "DELE", "QUIT"}
Frueh(s, n, g) ==
    /\ s.modus = "EmailPOPVerbunden" /\ Einer(s, n) /\ g.gedruckt = << >>
    /\ Ohne(n.hin, Fruehe) /\ Ohne(s.out, Fruehe)
Stille(s, n) == s.in = << >> /\ s.out = << >> /\ n.hin = << >> /\ n.her = << >>
Wartet(s, n, g) ==
    g.gedruckt = << >> /\ (s.modus \in {"EmailPOPWarteEinQuitt", "EmailPOPDruckend"} => Stille(s, n))
Antwort(v) == {<<"ok">> \o v.mail \o <<"punkt">>, <<"err">>}
Passt(q, W, k) == k + Len(q) <= Len(W) /\ \A i \in 1 .. Len(q) : q[i] = W[k + i]
Gepuffert(b, q, W, k) ==
    \/ b = q
    \/ b = Append(q, "halb") /\ k + Len(q) < Len(W) /\ (q = << >> \/ q[Len(q)] # "lang")
Gelesen(b, her, W, k, gedruckt) ==
    /\ gedruckt = Auswahl(SubSeq(W, 1, k), Zeilen)
    /\ \E q \in Seq(Token) : Gepuffert(b, q, W, k) /\ Passt(q \o her, W, k)
Angefordert(s, n, g) == n.hin \o s.out = <<"RETR">> /\ s.in = << >> /\ n.her = << >> /\ g.gedruckt = << >>
Kommt(s, n, v, g) ==
    /\ n.hin = << >> /\ s.out = << >>
    /\ \E W \in Antwort(v) : \E k \in 0 .. Len(W) : Gelesen(s.in, n.her, W, k, g.gedruckt)
Gestoert(s, g) == g.gestoert \/ g.gekuerzt \/ s.weg \/ s.verworfen
Druckt(s, n, v, g) ==
    Gestoert(s, g) \/ (s.modus = "EmailPOPDruckend" /\ (Angefordert(s, n, g) \/ Kommt(s, n, v, g)))
Holt(s) == s.verb /\ s.prot = "POP3"
Pop(s, n, v, g) ==
    /\ Holt(s) /\ s.phase \in PopFrueh => Frueh(s, n, g)
    /\ Holt(s) /\ s.phase = "MailWarteEinschaltungDruck" => Wartet(s, n, g)
    /\ Holt(s) /\ s.phase = "MailData" => Druckt(s, n, v, g)

Bestellt(s, n, v) == v.markiert \/ v.geloescht \/ ~Ohne(n.hin, {"DELE"}) \/ ~Ohne(s.out, {"DELE"})
Gut(s, v, g) == Gestoert(s, g) \/ g.gedruckt = Auswahl(v.mail, Zeilen)
Loeschen(s, n, v, g) ==
    Bestellt(s, n, v) => Gut(s, v, g) /\ (~s.verb \/ (s.prot = "POP3" /\ s.phase \in Spaet))
Bus(s, n, g) == s.modus = "EmailPOPDruckend" => n.bus \/ g.gestoert

Fast(s, n, v, g) == Art(s, n, v, g) /\ Smtp(s, n, v, g) /\ Loeschen(s, n, v, g) /\ Bus(s, n, g)
Stimmt(s, n, v, g) == Fast(s, n, v, g) /\ Pop(s, n, v, g)

(***************************************************************************)
(* Sending.                                                                *)
(***************************************************************************)
LEMMA PostGilt == ASSUME NEW s \in Station, NEW n \in Netz PROVE Post(s, n) \in Seq(Token)
<1>1. s.out \in Seq(Token) /\ n.hin \in Seq(Token) BY Stationsteile, Netzteile
<1>2. n.hin \o s.out \in Seq(Token) BY <1>1, ConcatProperties
<1> QED BY <1>1, <1>2 DEF Post

LEMMA SmtpGleich ==
    ASSUME NEW s, NEW t, NEW n, NEW m, NEW v, NEW g, Smtp(s, n, v, g),
           t.prot = s.prot, t.phase = s.phase, t.ein = s.ein, Post(t, m) = Post(s, n), Zu(t, m) = Zu(s, n)
    PROVE  Smtp(t, m, v, g)
<1>1. ImGange(s, n, v, g) => ImGange(t, m, v, g) BY DEF ImGange
<1> QED BY <1>1 DEF Smtp, Unbegonnen, Beendet

(* The connection is lost, with the end of what is on its way. *)
LEMMA SmtpZu ==
    ASSUME NEW s, NEW t, NEW n, NEW m, NEW v \in Server, NEW g \in Geist, Smtp(s, n, v, g),
           t.prot = s.prot, t.phase = s.phase, t.ein = s.ein,
           NEW a \in Seq(Token), NEW b \in Seq(Token), Post(t, m) = a, Post(s, n) = a \o b, Zu(t, m)
    PROVE  Smtp(t, m, v, g)
<1>1. \A X : Ohne(a \o b, X) => Ohne(a, X) BY OhneVerkettet
<1>2. Fluss(v, a \o b) => Fluss(v, a) BY FlussKuerzer
<1>3. Vor(Angekommen(v, a), Angekommen(v, a \o b)) /\ Angekommen(v, a) \in Seq(Token) /\ Angekommen(v, a \o b) \in Seq(Token)
  <2> DEFINE p == Angekommen(v, a) r == Buchstaben(b)
  <2>1. p \in Seq(Token) /\ r \in Seq(Token) /\ Angekommen(v, a \o b) = p \o r BY AngekommenMehr, BuchstabenGilt
  <2> HIDE DEF p, r
  <2>2. p \o r \in Seq(Token) /\ Vor(p, p \o r) BY <2>1, VorSelbst, VorMehr, ConcatProperties
  <2> QED BY <2>1, <2>2 DEF p
<1>4. \A y : Vor(Angekommen(v, a \o b), y) => Vor(Angekommen(v, a), y) BY <1>3, VorDurch
<1>5. Abgelehnt(v, a \o b) => Abgelehnt(v, a) BY <1>1 DEF Abgelehnt
<1>6. ImGange(s, n, v, g) => ImGange(t, m, v, g)
  <2> SUFFICES ASSUME ImGange(s, n, v, g) PROVE ImGange(t, m, v, g) OBVIOUS
  <2>1. PICK x \in Seq(ElZeichen) : g.getippt = x \o s.ein /\ Stand(Zu(s, n), a \o b, v, x) BY DEF ImGange
  <2>2. Fluss(v, a) /\ Vor(Angekommen(v, a), Buchstaben(x))
    <3>1. CASE Zu(s, n) BY <1>2, <1>4, <2>1, <3>1 DEF Stand
    <3>2. CASE ~Zu(s, n) BY <1>2, <1>3, <2>1, <3>2 DEF Stand
    <3> QED BY <3>1, <3>2
  <2>3. Stand(Zu(t, m), Post(t, m), v, x) BY <2>2 DEF Stand
  <2> QED BY <2>1, <2>3 DEF ImGange
<1>7. Beendet(s, n, v, g) => Beendet(t, m, v, g) BY <1>2, <1>4 DEF Beendet
<1>8. Unbegonnen(s, n, v, g) => Unbegonnen(t, m, v, g) BY <1>1 DEF Unbegonnen
<1> QED BY <1>1, <1>5, <1>6, <1>7, <1>8 DEF Smtp

(* Something else than text, DATA or a "." comes behind it. *)
LEMMA SmtpMehr ==
    ASSUME NEW s, NEW t, NEW n, NEW m, NEW v \in Server, NEW g \in Geist, Smtp(s, n, v, g),
           t.prot = s.prot, t.phase = s.phase, t.ein = s.ein, Zu(t, m) = Zu(s, n),
           NEW a \in Seq(Token), NEW b \in Seq(Token), Ohne(b, Text \cup {"DATA", "PUNKT"}),
           Post(s, n) = a, Post(t, m) = a \o b
    PROVE  Smtp(t, m, v, g)
<1>1. Ohne(b, Text) /\ Ohne(b, {"DATA"}) /\ Ohne(b, {"PUNKT"}) /\ Ohne(b, Text \cup {"DATA"}) BY OhneWeniger
<1>2. Ohne(a, Text \cup {"DATA"}) => Ohne(a \o b, Text \cup {"DATA"}) BY <1>1, OhneVerkettet
<1>3. Ohne(a, Text \cup {"DATA", "PUNKT"}) => Ohne(a \o b, Text \cup {"DATA", "PUNKT"}) BY OhneVerkettet
<1>4. Fluss(v, a) => Fluss(v, a \o b) BY <1>1, FlussMehr
<1>5. Empfaenglich(v, a) => Empfaenglich(v, a \o b) BY <1>1, EmpfaenglichMehr
<1>6. Angekommen(v, a \o b) = Angekommen(v, a) BY <1>1, AngekommenMehr
<1>7. Abgelehnt(v, a) => Abgelehnt(v, a \o b)
  <2>1. Ohne(a, {"DATA"}) => Ohne(a \o b, {"DATA"}) BY <1>1, OhneVerkettet
  <2> QED BY <2>1 DEF Abgelehnt
<1>8. ImGange(s, n, v, g) => ImGange(t, m, v, g)
  <2>1. \A x : Stand(Zu(s, n), a, v, x) => Stand(Zu(t, m), a \o b, v, x) BY <1>4, <1>5, <1>6 DEF Stand
  <2> QED BY <2>1 DEF ImGange
<1> QED BY <1>2, <1>3, <1>4, <1>6, <1>7, <1>8 DEF Smtp, Unbegonnen, Beendet

Ende == <<"ENDE">>
LEMMA EndeGilt == Ende \in Seq(Token) /\ Ohne(Ende, Text \cup {"DATA", "PUNKT"}) /\ Ohne(Ende, {"DELE"})
<1> DEFINE x == "ENDE" X == Text \cup {"DATA", "PUNKT"} Y == {"DELE"}
<1>1. x \in Token BY DEF Token, Marken
<1>2. x \notin X
  <2>1. x \notin Text BY TextGilt DEF Marken
  <2> QED BY <2>1
<1>3. x \notin Y OBVIOUS
<1> HIDE DEF x, X, Y
<1>4. <<x>> \in Seq(Token) /\ Ohne(<<x>>, X) /\ Ohne(<<x>>, Y) BY <1>1, <1>2, <1>3, Eines, OhneEines
<1> QED BY <1>4 DEF Ende, x, X, Y

(* The code that is sent in every pass is counted once. *)
LEMMA SmtpWeniger ==
    ASSUME NEW s, NEW t, NEW n, NEW m, NEW v \in Server, NEW g \in Geist, Smtp(s, n, v, g),
           t.prot = s.prot, t.phase = s.phase, t.ein = s.ein, ~Zu(t, m), ~Zu(s, n),
           NEW a \in Seq(Token), Post(s, n) = a \o Ende, Post(t, m) = a
    PROVE  Smtp(t, m, v, g)
<1> DEFINE b == Ende
<1>1. b \in Seq(Token) /\ Ohne(b, Text) /\ Ohne(b, {"DATA"}) BY EndeGilt, OhneWeniger
<1> HIDE DEF b
<1>2. \A X : Ohne(a \o b, X) => Ohne(a, X) BY <1>1, OhneVerkettet
<1>3. Ohne(a, {"DATA"}) => Ohne(a \o b, {"DATA"}) BY <1>1, OhneVerkettet
<1>4. Fluss(v, a \o b) => Fluss(v, a) BY <1>1, FlussKuerzer
<1>5. Empfaenglich(v, a \o b) => Empfaenglich(v, a) BY <1>2, <1>3 DEF Empfaenglich
<1>6. Angekommen(v, a \o b) = Angekommen(v, a) BY <1>1, AngekommenMehr
<1>7. Abgelehnt(v, a \o b) => Abgelehnt(v, a) BY <1>2 DEF Abgelehnt
<1>8. Post(s, n) = a \o b BY DEF b
<1>9. ImGange(s, n, v, g) => ImGange(t, m, v, g)
  <2>1. \A x : Stand(Zu(s, n), a \o b, v, x) => Stand(Zu(t, m), a, v, x) BY <1>4, <1>5, <1>6 DEF Stand
  <2> QED BY <1>8, <2>1 DEF ImGange
<1> QED BY <1>2, <1>4, <1>6, <1>7, <1>8, <1>9 DEF Smtp, Unbegonnen, Beendet

(***************************************************************************)
(* Steps that change little.                                               *)
(***************************************************************************)
(* Another mode, another clock, fewer lines to print. *)
Wie(s, t) ==
    /\ t \in Station
    /\ t.verb = s.verb /\ t.handle = s.handle /\ t.prot = s.prot /\ t.phase = s.phase
    /\ t.in = s.in /\ t.out = s.out /\ t.ein = s.ein /\ t.weg = s.weg /\ t.verworfen = s.verworfen
    /\ t.druck <= s.druck
Frei(s) == ~s.verb \/ s.prot = "SMTP" \/ s.phase \in Spaet
Erlaubt(s, t, n, g) ==
    /\ t.verb => t.modus # "Ruhe"
    /\ \/ t.modus = s.modus
       \/ Frei(s) /\ t.modus # "EmailPOPDruckend"
       \/ /\ s.modus # "EmailPOPVerbunden" /\ (s.modus = "EmailPOPDruckend" => g.gestoert)
          /\ t.modus \in {"EmailPOPWarteEinQuitt", "EmailPOPDruckend"} => s.modus = "EmailPOPWarteEinQuitt" /\ n.bus

LEMMA WieArt ==
    ASSUME NEW s, NEW t, NEW n, NEW v, NEW g, Wie(s, t), t.verb => t.modus # "Ruhe", Art(s, n, v, g)
    PROVE  Art(t, n, v, g)
<1>1. s.druck \in Nat /\ t.druck \in Nat BY Stationsteile DEF Art, Wie
<1>2. Phasengerecht(t) BY DEF Art, Wie, Passend, Phasengerecht
<1>3. Passend(t) BY <1>1, <1>2, Groessen DEF Art, Wie, Passend
<1> QED BY <1>3 DEF Art, Wie

LEMMA WieFast ==
    ASSUME NEW s, NEW t, NEW n, NEW v, NEW g, Wie(s, t), t.verb => t.modus # "Ruhe", Fast(s, n, v, g),
           t.modus = "EmailPOPDruckend" => s.modus = "EmailPOPDruckend" \/ n.bus
    PROVE  Fast(t, n, v, g)
<1>1. Art(t, n, v, g) BY WieArt DEF Fast
<1>2. Smtp(t, n, v, g)
  <2>1. Zu(t, n) = Zu(s, n) /\ Post(t, n) = Post(s, n) BY DEF Wie, Zu, Post
  <2> QED BY <2>1, SmtpGleich DEF Fast, Wie
<1>3. Loeschen(t, n, v, g)
  <2>1. Bestellt(t, n, v) => Bestellt(s, n, v) BY DEF Wie, Bestellt
  <2> QED BY <2>1 DEF Fast, Wie, Loeschen, Gut, Gestoert
<1>4. Bus(t, n, g) BY DEF Fast, Bus
<1> QED BY <1>1, <1>2, <1>3, <1>4 DEF Fast

LEMMA WieGilt ==
    ASSUME NEW s, NEW t, NEW n, NEW v, NEW g, Wie(s, t), Erlaubt(s, t, n, g), Stimmt(s, n, v, g)
    PROVE  Stimmt(t, n, v, g)
<1>4. Fast(t, n, v, g) BY WieFast DEF Stimmt, Erlaubt
<1>5. Pop(t, n, v, g)
  <2>0. Frei(s) /\ Holt(t) => t.phase \in Spaet BY DEF Frei, Holt, Wie
  <2>1. ASSUME Holt(t), t.phase \in PopFrueh PROVE Frueh(t, n, g)
    <3>1. Frueh(s, n, g) /\ t.phase \notin Spaet BY <2>1 DEF Stimmt, Fast, Pop, Holt, Wie, PopFrueh, Spaet
    <3>2. t.modus = s.modus BY <2>0, <2>1, <3>1 DEF Erlaubt, Frueh
    <3> QED BY <3>1, <3>2 DEF Frueh, Einer, Wie
  <2>2. ASSUME Holt(t), t.phase = "MailWarteEinschaltungDruck" PROVE Wartet(t, n, g)
    <3>1. Wartet(s, n, g) /\ t.phase \notin Spaet BY <2>2 DEF Stimmt, Fast, Pop, Holt, Wie, Spaet
    <3>2. t.modus \in {"EmailPOPWarteEinQuitt", "EmailPOPDruckend"} => s.modus \in {"EmailPOPWarteEinQuitt", "EmailPOPDruckend"}
      BY <2>0, <2>2, <3>1 DEF Erlaubt
    <3> QED BY <3>1, <3>2 DEF Wartet, Stille, Wie
  <2>3. ASSUME Holt(t), t.phase = "MailData" PROVE Druckt(t, n, v, g)
    <3>1. Druckt(s, n, v, g) /\ t.phase \notin Spaet BY <2>3 DEF Stimmt, Fast, Pop, Holt, Wie, Spaet
    <3>2. t.modus = s.modus \/ s.modus # "EmailPOPDruckend" \/ g.gestoert BY <2>0, <2>3, <3>1 DEF Erlaubt
    <3>3. Angefordert(s, n, g) => Angefordert(t, n, g) BY DEF Angefordert, Wie
    <3>4. Kommt(s, n, v, g) => Kommt(t, n, v, g) BY DEF Kommt, Wie
    <3>5. Gestoert(s, g) => Gestoert(t, g) BY DEF Gestoert, Wie
    <3>6. g.gestoert => Gestoert(t, g) BY DEF Gestoert
    <3> QED BY <3>1, <3>2, <3>3, <3>4, <3>5, <3>6 DEF Druckt
  <2> QED BY <2>1, <2>2, <2>3 DEF Pop
<1> QED BY <1>4, <1>5 DEF Stimmt

LEMMA ModusWechselGilt ==
    ASSUME NEW s \in Station, NEW m \in ElModi \ {"EmailPOPWarteEinQuitt"}
    PROVE  Wie(s, ModusWechsel(s, m)) /\ ModusWechsel(s, m).modus = m
<1> DEFINE t == ModusWechsel(s, m)
<1>1. s.um \subseteq ElUhren /\ s.druck \in Nat /\ s.ein \in Seq(ElZeichen) BY Stationsteile
<1>2. \E d \in {0, s.druck} : \E u \in SUBSET ElUhren : t = [s EXCEPT !.modus = m, !.um = u, !.druck = d]
  <2> DEFINE ruhig == m \in {"GehendVerbunden", "EmailPOPWarteEinQuitt", "PufferDruckUndSchluss"}
             u == s.um \ ((IF ruhig THEN {"Ruhig"} ELSE {}) \cup (IF m = "WarteSchlussQuitt" THEN {"Quittung"} ELSE {}))
             d == IF m \in {"Ruhe", "WarteGrundstellung", "EmailPOPVerbunden"} THEN 0 ELSE s.druck
  <2>1. t = [s EXCEPT !.modus = m, !.um = u, !.druck = d, !.ein = IF m = "EmailPOPWarteEinQuitt" THEN << >> ELSE s.ein]
    BY DEF ModusWechsel
  <2>2. u \in SUBSET ElUhren /\ d \in {0, s.druck} BY <1>1
  <2> HIDE DEF u, d
  <2>3. t = [s EXCEPT !.modus = m, !.um = u, !.druck = d] BY <2>1 DEF Station
  <2> QED BY <2>2, <2>3
<1>3. PICK d \in {0, s.druck}, u \in SUBSET ElUhren : t = [s EXCEPT !.modus = m, !.um = u, !.druck = d] BY <1>2
<1> HIDE DEF t
<1>4. t \in Station
  <2>1. m \in ElModi /\ u \subseteq ElUhren /\ d \in Nat BY <1>1
  <2>2. [s EXCEPT !.modus = m] \in Station BY <2>1 DEF Station
  <2>3. [s EXCEPT !.modus = m, !.um = u] \in Station BY <2>1 DEF Station
  <2> QED BY <1>3, <2>1 DEF Station
<1>5. Wie(s, t) /\ t.modus = m BY <1>1, <1>3, <1>4 DEF Wie, Station
<1> QED BY <1>5 DEF t

(* A step outside of the stages of Pop. *)
Abseits(s) == s.modus \notin {"EmailPOPVerbunden", "EmailPOPWarteEinQuitt", "EmailPOPDruckend"}

LEMMA FreiGilt ==
    ASSUME NEW s, NEW t, NEW n, NEW m \in Netz, NEW v, NEW g, NEW h \in Geist, Fast(s, n, v, g),
           t \in Station, Passend(t), t.prot = s.prot, t.weg = s.weg, t.verworfen = s.verworfen, m.bus = n.bus,
           h.gedruckt = g.gedruckt, h.gekuerzt = g.gekuerzt, h.gestoert = g.gestoert,
           t.modus = s.modus \/ t.modus # "EmailPOPDruckend",
           t.verb => s.verb,
           Frei(t) \/ (t.phase = s.phase /\ t.modus = s.modus /\ Abseits(s) /\ Pop(s, n, v, g)),
           t.verb /\ s.prot = "POP3" /\ s.phase \in Spaet => t.phase \in Spaet,
           Bestellt(t, m, v) => Bestellt(s, n, v),
           Smtp(t, m, v, h)
    PROVE  Stimmt(t, m, v, h)
<1>1. Art(t, m, v, h) BY DEF Stimmt, Fast, Art
<1>2. Loeschen(t, m, v, h)
  <2>1. Gut(s, v, g) => Gut(t, v, h) BY DEF Gut, Gestoert
  <2> QED BY <2>1 DEF Stimmt, Fast, Loeschen
<1>3. Bus(t, m, h) BY DEF Stimmt, Fast, Bus
<1>4. Pop(t, m, v, h)
  <2>1. CASE Frei(t) BY <2>1 DEF Pop, Holt, Frei, Spaet, PopFrueh
  <2>2. CASE t.phase = s.phase /\ t.modus = s.modus /\ Abseits(s) /\ Pop(s, n, v, g)
    <3>1. Holt(t) => Holt(s) BY DEF Holt
    <3>2. ~(Holt(t) /\ t.phase \in PopFrueh) BY <2>2, <3>1 DEF Stimmt, Fast, Pop, Frueh, Abseits
    <3>3. Holt(t) /\ t.phase = "MailWarteEinschaltungDruck" => Wartet(t, m, h)
      BY <2>2, <3>1 DEF Stimmt, Fast, Pop, Wartet, Abseits
    <3>4. Holt(t) /\ t.phase = "MailData" => Druckt(t, m, v, h)
      BY <2>2, <3>1 DEF Stimmt, Fast, Pop, Druckt, Abseits, Gestoert
    <3> QED BY <3>2, <3>3, <3>4 DEF Pop
  <2> QED BY <2>1, <2>2
<1> QED BY <1>1, <1>2, <1>3, <1>4 DEF Stimmt, Fast

LEMMA FreiPop == ASSUME NEW s, NEW n, NEW v, NEW g, Frei(s) PROVE Pop(s, n, v, g)
BY DEF Pop, Holt, Frei, Spaet, PopFrueh

(* The other side is not told: its connection is the same, or closed. *)
LEMMA GetrenntGilt ==
    ASSUME NEW s, NEW n, NEW m \in Netz, NEW v, NEW g, Fast(s, n, v, g), s.handle => Zu(s, n) \/ s.out = << >>,
           m.hin = n.hin, m.bus = n.bus
    PROVE  Stimmt(Getrennt(s), m, v, g)
<1> DEFINE t == Getrennt(s) e == << >>
<1>1. s \in Station /\ n \in Netz /\ v \in Server /\ g \in Geist /\ Passend(s) BY DEF Fast, Art
<1>2. /\ t \in Station /\ t.handle = FALSE /\ t.verb = FALSE /\ t.in = e /\ t.out = e
      /\ t.prot = s.prot /\ t.phase = s.phase /\ t.ein = s.ein /\ t.weg = s.weg /\ t.verworfen = s.verworfen /\ t.modus = s.modus /\ t.druck = s.druck
  <2>1. t = [s EXCEPT !.handle = FALSE, !.verb = FALSE, !.geplant = FALSE, !.in = e, !.out = e] BY DEF Getrennt
  <2>2. e \in Seq(Token) BY EmptySeq
  <2> HIDE DEF e, t
  <2>3. t \in Station BY <1>1, <2>1, <2>2 DEF Station
  <2> QED BY <1>1, <2>1, <2>3 DEF Station
<1>0. e \in Seq(Token) /\ Len(e) = 0 /\ \A X : Ohne(e, X) BY EmptySeq DEF Ohne
<1> HIDE DEF t, e
<1>3. Passend(t) BY <1>0, <1>1, <1>2, Groessen DEF Passend, Phasengerecht
<1>4. n.hin \in Seq(Token) /\ s.out \in Seq(Token) BY <1>1, Stationsteile, Netzteile
<1>5. Post(s, n) = n.hin
  <2>1. CASE Zu(s, n) BY <2>1 DEF Post
  <2>2. CASE ~Zu(s, n)
    <3>1. s.out = << >> BY <2>2 DEF Zu
    <3>2. n.hin \o << >> = n.hin BY <1>4, ConcatEmptySeq
    <3> QED BY <2>2, <3>1, <3>2 DEF Post
  <2> QED BY <2>1, <2>2
<1>6. Zu(t, m) /\ Post(t, m) = n.hin BY <1>2 DEF Zu, Post
<1>7. n.hin = n.hin \o e BY <1>4, ConcatEmptySeq DEF e
<1>8. Smtp(t, m, v, g)
  <2>1. Smtp(s, n, v, g) BY DEF Fast
  <2> QED BY <1>0, <1>1, <1>2, <1>4, <1>5, <1>6, <1>7, <2>1, SmtpZu
<1>9. Bestellt(t, m, v) => Bestellt(s, n, v) BY <1>0, <1>2 DEF Bestellt
<1>10. Frei(t) BY <1>2 DEF Frei
<1>11. Stimmt(t, m, v, g) BY <1>1, <1>2, <1>3, <1>8, <1>9, <1>10, FreiGilt
<1> QED BY <1>11 DEF t

(***************************************************************************)
(* The mode machine in a pass.                                             *)
(***************************************************************************)
LEMMA InterneGilt ==
    ASSUME NEW s \in Station
    PROVE  /\ Wie(s, InterneVerbindungBeenden(s))
           /\ InterneVerbindungBeenden(s).modus = s.modus \/ InterneVerbindungBeenden(s).modus \in {"WarteGrundstellung", "PufferDruckUndSchluss"}
           /\ Abseits(InterneVerbindungBeenden(s))
<1> DEFINE t == InterneVerbindungBeenden(s)
<1>1. CASE s.modus \in {"EmailPOPVerbunden", "EmailPOPWarteEinQuitt"}
  <2>1. t = ModusWechsel(s, "WarteGrundstellung") BY <1>1 DEF InterneVerbindungBeenden
  <2>2. Wie(s, t) /\ t.modus = "WarteGrundstellung" BY <2>1, ModusWechselGilt DEF ElModi
  <2> QED BY <2>2 DEF Abseits
<1>2. CASE s.modus \in {"GehendVerbunden", "EmailPOPDruckend"}
  <2>1. t = ModusWechsel(s, "PufferDruckUndSchluss") BY <1>2 DEF InterneVerbindungBeenden
  <2>2. Wie(s, t) /\ t.modus = "PufferDruckUndSchluss" BY <2>1, ModusWechselGilt DEF ElModi
  <2> QED BY <2>2 DEF Abseits
<1>3. CASE s.modus \notin {"EmailPOPVerbunden", "EmailPOPWarteEinQuitt", "GehendVerbunden", "EmailPOPDruckend"}
  <2>1. t = s BY <1>3 DEF InterneVerbindungBeenden
  <2>2. Wie(s, s) BY Stationsteile DEF Wie
  <2> QED BY <1>3, <2>1, <2>2 DEF Abseits
<1> QED BY <1>1, <1>2, <1>3

(* The code that is sent without the two-wire bus. *)
LEMMA MitEndeGilt ==
    ASSUME NEW s, NEW n, NEW v, NEW g, Stimmt(s, n, v, g), Abseits(s)
    PROVE  Stimmt([s EXCEPT !.geplant = TRUE, !.out = Angehaengt(@, Ende)], n, v, g)
<1> DEFINE o == Angehaengt(s.out, Ende) t == [s EXCEPT !.geplant = TRUE, !.out = o]
<1>1. s \in Station /\ n \in Netz /\ v \in Server /\ g \in Geist /\ Passend(s) BY DEF Stimmt, Fast, Art
<1>2. s.out \in Seq(Token) /\ n.hin \in Seq(Token) BY <1>1, Stationsteile, Netzteile
<1>3. o \in Seq(Token) /\ (o = s.out \/ o = s.out \o Ende) BY <1>2, EndeGilt, AngehaengtGilt
<1> HIDE DEF o
<1>4. t \in Station BY <1>1, <1>3 DEF Station
<1>5. /\ t.modus = s.modus /\ t.verb = s.verb /\ t.handle = s.handle /\ t.prot = s.prot /\ t.phase = s.phase /\ t.in = s.in
      /\ t.out = o /\ t.ein = s.ein /\ t.weg = s.weg /\ t.verworfen = s.verworfen /\ t.druck = s.druck
  BY <1>1 DEF Station
<1> HIDE DEF t
<1>6. Passend(t) BY <1>1, <1>5 DEF Passend, Phasengerecht
<1>7. Smtp(t, n, v, g)
  <2>0. Zu(t, n) = Zu(s, n) /\ Smtp(s, n, v, g) BY <1>5 DEF Zu, Stimmt, Fast
  <2>1. CASE Post(t, n) = Post(s, n) BY <1>5, <2>0, <2>1, SmtpGleich
  <2>2. CASE Post(t, n) # Post(s, n)
    <3>1. ~Zu(s, n) /\ o = s.out \o Ende BY <1>3, <1>5, <2>0, <2>2 DEF Post
    <3>2. n.hin \o (s.out \o Ende) = (n.hin \o s.out) \o Ende
      <4> DEFINE a == n.hin b == s.out c == Ende
      <4>1. a \in Seq(Token) /\ b \in Seq(Token) /\ c \in Seq(Token) BY <1>2, EndeGilt
      <4> HIDE DEF a, b, c
      <4>2. (a \o b) \o c = a \o (b \o c) BY <4>1, ConcatAssociative
      <4> QED BY <4>2 DEF a, b, c
    <3>3. Post(s, n) = n.hin \o s.out /\ Post(t, n) = (n.hin \o s.out) \o Ende BY <1>5, <2>0, <3>1, <3>2 DEF Post
    <3>4. n.hin \o s.out \in Seq(Token) BY <1>2, ConcatProperties
    <3> QED BY <1>1, <1>5, <2>0, <3>3, <3>4, EndeGilt, SmtpMehr
  <2> QED BY <2>1, <2>2
<1>8. Ohne(s.out, {"DELE"}) => Ohne(o, {"DELE"})
  <2> DEFINE a == s.out c == Ende X == {"DELE"}
  <2>1. a \in Seq(Token) /\ c \in Seq(Token) /\ Ohne(c, X) BY <1>2, EndeGilt
  <2> HIDE DEF a, c, X
  <2>2. Ohne(a, X) => Ohne(a \o c, X) BY <2>1, OhneVerkettet
  <2> QED BY <1>3, <2>2 DEF a, c, X
<1>9. Bestellt(t, n, v) => Bestellt(s, n, v) BY <1>5, <1>8 DEF Bestellt
<1>10. Stimmt(t, n, v, g) BY <1>1, <1>4, <1>5, <1>6, <1>7, <1>9, FreiGilt DEF Stimmt
<1> QED BY <1>10 DEF t, o

LEMMA TwiWacheGilt ==
    ASSUME NEW s, NEW v, NEW g, Stimmt(s, elNetz, v, g)
    PROVE  Stimmt(TwiWache(s), elNetz, v, g)
<1> DEFINE u == InterneVerbindungBeenden(s)
<1>1. s \in Station BY DEF Stimmt, Fast, Art
<1>2. CASE ~(ModusTwiVerbunden(s) /\ ~elNetz.bus) BY <1>2 DEF TwiWache
<1>3. CASE ModusTwiVerbunden(s) /\ ~elNetz.bus
  <2>1. Wie(s, u) /\ Abseits(u) /\ u.modus \in {s.modus, "WarteGrundstellung", "PufferDruckUndSchluss"} BY <1>1, InterneGilt
  <2>2. s.modus # "EmailPOPVerbunden" /\ s.modus # "Ruhe" BY <1>3 DEF ModusTwiVerbunden
  <2>3. s.modus = "EmailPOPDruckend" => g.gestoert BY <1>3 DEF Stimmt, Fast, Bus
  <2> HIDE DEF u
  <2>4. Erlaubt(s, u, elNetz, g) BY <2>1, <2>2, <2>3 DEF Erlaubt, Abseits
  <2>5. Stimmt(u, elNetz, v, g) BY <2>1, <2>4, WieGilt
  <2>6. Stimmt([u EXCEPT !.geplant = TRUE, !.out = Angehaengt(@, Ende)], elNetz, v, g) BY <2>1, <2>5, MitEndeGilt
  <2>7. TwiWache(s) = [u EXCEPT !.geplant = TRUE, !.out = Angehaengt(@, Ende)] BY <1>3 DEF TwiWache, Ende, u
  <2> QED BY <2>6, <2>7
<1> QED BY <1>2, <1>3

LEMMA EingangGilt ==
    ASSUME NEW s, NEW n, NEW v, NEW g, Stimmt(s, n, v, g), Abseits(s) \/ Frei(s)
    PROVE  Stimmt([s EXCEPT !.in = << >>], n, v, g)
<1> DEFINE t == [s EXCEPT !.in = << >>]
<1>1. s \in Station /\ n \in Netz /\ g \in Geist /\ Passend(s) BY DEF Stimmt, Fast, Art
<1>2. /\ t \in Station
      /\ t.modus = s.modus /\ t.verb = s.verb /\ t.handle = s.handle /\ t.prot = s.prot /\ t.phase = s.phase /\ Len(t.in) = 0
      /\ t.out = s.out /\ t.ein = s.ein /\ t.weg = s.weg /\ t.verworfen = s.verworfen /\ t.druck = s.druck
  <2>1. << >> \in Seq(Token) /\ Len(<< >>) = 0 BY EmptySeq
  <2> QED BY <1>1, <2>1 DEF Station
<1> HIDE DEF t
<1>3. Passend(t) BY <1>1, <1>2, Groessen DEF Passend, Phasengerecht
<1>4. Smtp(t, n, v, g)
  <2>1. Zu(t, n) = Zu(s, n) /\ Post(t, n) = Post(s, n) BY <1>2 DEF Zu, Post
  <2> QED BY <1>2, <2>1, SmtpGleich DEF Stimmt, Fast
<1>5. Bestellt(t, n, v) => Bestellt(s, n, v) BY <1>2 DEF Bestellt
<1>6. Frei(t) \/ (t.phase = s.phase /\ t.modus = s.modus /\ Abseits(s) /\ Pop(s, n, v, g)) BY <1>2 DEF Frei, Stimmt
<1>7. Stimmt(t, n, v, g) BY <1>1, <1>2, <1>3, <1>4, <1>5, <1>6, FreiGilt DEF Stimmt
<1> QED BY <1>7 DEF t

LEMMA EingangLoeschenGilt ==
    ASSUME NEW s, NEW n, NEW v, NEW g, Stimmt(s, n, v, g)
    PROVE  Stimmt(EingangLoeschen(s), n, v, g)
<1>1. s.modus = "WarteGrundstellung" => Abseits(s) BY DEF Abseits
<1> QED BY <1>1, EingangGilt DEF EingangLoeschen

(***************************************************************************)
(* The end of a session.                                                   *)
(***************************************************************************)
LEMMA Voran ==
    ASSUME NEW x \in Seq(ElZeichen), NEW y \in Seq(ElZeichen)
    PROVE  Vor(Buchstaben(x), Buchstaben(x \o y)) /\ Buchstaben(x) \in Seq(Token)
<1>1. x \in Seq(Token) /\ y \in Seq(Token) BY Groessen, SeqMonotonic
<1> DEFINE a == Buchstaben(x) b == Buchstaben(y)
<1>2. Buchstaben(x \o y) = a \o b /\ a \in Seq(Token) /\ b \in Seq(Token) BY <1>1, BuchstabenGilt
<1> HIDE DEF a, b
<1>3. Vor(a, a \o b) BY <1>2, VorSelbst, VorMehr
<1> QED BY <1>2, <1>3 DEF a

LEMMA SmtpStand ==
    ASSUME NEW s, NEW n, NEW v, NEW g, Art(s, n, v, g), Smtp(s, n, v, g), s.prot = "SMTP"
    PROVE  Abgelehnt(v, Post(s, n)) \/ Beendet(s, n, v, g)
<1> DEFINE q == Post(s, n)
<1>1. s \in Station /\ n \in Netz /\ v \in Server /\ g \in Geist BY DEF Art
<1>2. s.phase \in Anfang \cup Dabei \cup Spaet BY DEF Art, Passend, Phasengerecht
<1>3. q \in Seq(Token) BY <1>1, PostGilt
<1> HIDE DEF q
<1>4. Unbegonnen(s, n, v, g) => Abgelehnt(v, q)
  <2>1. Ohne(q, Text \cup {"DATA", "PUNKT"}) => Ohne(q, {"DATA"}) BY OhneWeniger
  <2> QED BY <2>1 DEF Unbegonnen, Leer, Abgelehnt, q
<1>5. ImGange(s, n, v, g) => Beendet(s, n, v, g)
  <2> SUFFICES ASSUME ImGange(s, n, v, g) PROVE Beendet(s, n, v, g) OBVIOUS
  <2>1. PICK x \in Seq(ElZeichen) : g.getippt = x \o s.ein /\ Stand(Zu(s, n), q, v, x) BY DEF ImGange, q
  <2> DEFINE a == Angekommen(v, q) b == Buchstaben(x) c == Buchstaben(g.getippt)
  <2>2. s.ein \in Seq(ElZeichen) BY <1>1, Stationsteile
  <2>3. Vor(b, c) /\ b \in Seq(Token) BY <2>1, <2>2, Voran
  <2>4. a \in Seq(Token) BY <1>1, <1>3, AngekommenMehr
  <2>5. Fluss(v, q) /\ (Vor(a, b) \/ a = b) BY <2>1 DEF Stand
  <2> HIDE DEF a, b, c
  <2>6. Vor(a, c) BY <2>3, <2>4, <2>5, VorDurch
  <2> QED BY <2>5, <2>6 DEF Beendet, a, c, q
<1> QED BY <1>2, <1>4, <1>5 DEF Smtp, q

(* Something else than text is written instead of what is not sent yet.    *)
LEMMA SmtpSchluss ==
    ASSUME NEW s, NEW t, NEW n, NEW v, NEW g, Art(s, n, v, g), Smtp(s, n, v, g), s.prot = "SMTP",
           t.prot = s.prot, t.phase \in Spaet, t.handle = s.handle,
           t.out \in Seq(Token), Ohne(t.out, Text \cup {"DATA"})
    PROVE  Smtp(t, n, v, g)
<1> DEFINE q == Post(s, n) p == Post(t, n) a == n.hin b == t.out c == s.out z == Zu(s, n)
<1>1. s \in Station /\ n \in Netz /\ v \in Server /\ g \in Geist BY DEF Art
<1>2. a \in Seq(Token) /\ b \in Seq(Token) /\ c \in Seq(Token) BY <1>1, Stationsteile, Netzteile
<1>3. p = (IF z THEN a ELSE a \o b) /\ q = (IF z THEN a ELSE a \o c) BY DEF Zu, Post
<1>4. Abgelehnt(v, q) \/ (Fluss(v, q) /\ Vor(Angekommen(v, q), Buchstaben(g.getippt))) BY SmtpStand DEF Beendet
<1>5. Ohne(b, Text) /\ Ohne(b, {"DATA"}) BY OhneWeniger
<1> HIDE DEF q, p, a, b, c, z
<1>6. Abgelehnt(v, a) \/ (Fluss(v, a) /\ Vor(Angekommen(v, a), Buchstaben(g.getippt)))
  <2>1. CASE z BY <1>3, <1>4, <2>1
  <2>2. CASE ~z
    <3>1. Ohne(a \o c, {"DATA"}) => Ohne(a, {"DATA"}) BY <1>2, OhneVerkettet
    <3>2. Fluss(v, a \o c) => Fluss(v, a) BY <1>2, FlussKuerzer
    <3> DEFINE x == Angekommen(v, a) y == Buchstaben(c) w == Buchstaben(g.getippt)
    <3>3. x \in Seq(Token) /\ y \in Seq(Token) /\ Angekommen(v, a \o c) = x \o y
      BY <1>1, <1>2, AngekommenMehr, BuchstabenGilt
    <3> HIDE DEF x, y, w
    <3>4. Vor(x \o y, w) => Vor(x, w) BY <3>3, VorWeniger
    <3> QED BY <1>3, <1>4, <2>2, <3>1, <3>2, <3>3, <3>4 DEF Abgelehnt, x, w
  <2> QED BY <2>1, <2>2
<1>7. Abgelehnt(v, p) \/ (Fluss(v, p) /\ Vor(Angekommen(v, p), Buchstaben(g.getippt)))
  <2>1. CASE z BY <1>3, <1>6, <2>1
  <2>2. CASE ~z
    <3>1. Ohne(a, {"DATA"}) => Ohne(a \o b, {"DATA"}) BY <1>2, <1>5, OhneVerkettet
    <3>2. Fluss(v, a) => Fluss(v, a \o b) BY <1>2, <1>5, FlussMehr
    <3>3. Angekommen(v, a \o b) = Angekommen(v, a) BY <1>1, <1>2, <1>5, AngekommenMehr
    <3> QED BY <1>3, <1>6, <2>2, <3>1, <3>2, <3>3 DEF Abgelehnt
  <2> QED BY <2>1, <2>2
<1>8. t.phase \notin Anfang /\ t.phase \notin Dabei BY DEF Spaet, Anfang, Dabei
<1> QED BY <1>7, <1>8 DEF Smtp, Beendet, p

LEMMA MarkeGilt ==
    ASSUME NEW x \in Marken \ {"DATA"}, NEW o, o = <<x>>
    PROVE  o \in Seq(Token) /\ Ohne(o, Text \cup {"DATA"}) /\ (x # "DELE" => Ohne(o, {"DELE"}))
<1> DEFINE X == Text \cup {"DATA"} Y == {"DELE"}
<1>1. x \in Token BY DEF Token
<1>2. x \notin X BY TextGilt
<1>3. x # "DELE" => x \notin Y OBVIOUS
<1> HIDE DEF X, Y
<1>4. Ohne(<<x>>, X) /\ (x # "DELE" => Ohne(<<x>>, Y)) /\ <<x>> \in Seq(Token) BY <1>1, <1>2, <1>3, OhneEines, Eines
<1> QED BY <1>4 DEF X, Y

LEMMA SMTPSchliessenGilt ==
    ASSUME NEW s, NEW n, NEW v, NEW g, Fast(s, n, v, g), s.prot = "SMTP"
    PROVE  /\ Stimmt(SMTPSchliessen(s), n, v, g) /\ SMTPSchliessen(s).prot = "SMTP" /\ SMTPSchliessen(s).modus = s.modus
<1> DEFINE t == SMTPSchliessen(s)
<1>1. s \in Station /\ n \in Netz /\ v \in Server /\ g \in Geist /\ Passend(s) /\ Smtp(s, n, v, g) /\ Art(s, n, v, g)
  BY DEF Stimmt, Fast, Art
<1>2. PICK x \in {"PUNKT", "QUIT"}, p \in Spaet, e \in BOOLEAN : t = [s EXCEPT !.out = <<x>>, !.phase = p, !.geplant = e]
  <2>1. s.geplant \in BOOLEAN BY <1>1, Stationsteile
  <2>2. CASE s.phase \in {"MailData", "MailSubject"}
    <3>1. t = [s EXCEPT !.out = <<"PUNKT">>, !.phase = "Abmelden", !.geplant = s.geplant]
      BY <1>1, <2>2 DEF SMTPSchliessen, Station
    <3> QED BY <2>1, <3>1 DEF Spaet
  <2>3. CASE s.phase \notin {"MailData", "MailSubject"}
    <3>1. t = [s EXCEPT !.out = <<"QUIT">>, !.phase = "WarteEnde", !.geplant = TRUE] BY <2>3 DEF SMTPSchliessen
    <3> QED BY <3>1 DEF Spaet
  <2> QED BY <2>2, <2>3
<1> DEFINE o == <<x>>
<1>3. o \in Seq(Token) /\ Ohne(o, Text \cup {"DATA"}) /\ Ohne(o, {"DELE"})
  <2>1. x \in Marken \ {"DATA"} /\ x # "DELE" BY DEF Marken
  <2> QED BY <2>1, MarkeGilt
<1> HIDE DEF t, o
<1>4. p \in Phasen BY DEF Phasen
<1>5. t \in Station BY <1>1, <1>2, <1>3, <1>4 DEF Station, o
<1>6. /\ t.modus = s.modus /\ t.verb = s.verb /\ t.handle = s.handle /\ t.prot = s.prot /\ t.phase = p /\ t.in = s.in
      /\ t.out = o /\ t.ein = s.ein /\ t.weg = s.weg /\ t.verworfen = s.verworfen /\ t.druck = s.druck
  BY <1>1, <1>2 DEF Station, o
<1>7. Passend(t) BY <1>1, <1>6 DEF Passend, Phasengerecht
<1>8. Smtp(t, n, v, g) BY <1>1, <1>3, <1>6, SmtpSchluss
<1>9. Bestellt(t, n, v) => Bestellt(s, n, v) BY <1>3, <1>6 DEF Bestellt
<1>10. Frei(t) BY <1>6 DEF Frei
<1>11. Stimmt(t, n, v, g) BY <1>1, <1>5, <1>6, <1>7, <1>8, <1>9, <1>10, FreiGilt
<1> QED BY <1>6, <1>11 DEF t

LEMMA POP3AbbrechenGilt ==
    ASSUME NEW s, NEW n, NEW v, NEW g, Fast(s, n, v, g), s.prot = "POP3"
    PROVE  /\ Stimmt(POP3Abbrechen(s), n, v, g) /\ POP3Abbrechen(s).phase \in Spaet /\ POP3Abbrechen(s).modus = s.modus
<1> DEFINE t == POP3Abbrechen(s) e == << >> X == Text \cup {"DATA"}
           k == Ueberschrieben(s.out[1])
           o == IF s.out = e THEN e ELSE <<k>>
           w == s.verworfen \/ (s.out # e /\ s.out[1] = "RETR")
<1>1. s \in Station /\ n \in Netz /\ v \in Server /\ g \in Geist /\ Passend(s) /\ Smtp(s, n, v, g) BY DEF Stimmt, Fast, Art
<1>2. CASE s.phase = "Abmelden" BY <1>2, FreiPop DEF POP3Abbrechen, Spaet, Stimmt, Frei
<1>3. CASE s.phase # "Abmelden"
  <2>1. t = [s EXCEPT !.in = e, !.druck = 0, !.phase = "Abmelden", !.out = o, !.verworfen = w]
    BY <1>1, <1>3 DEF POP3Abbrechen, Station
  <2>2. e \in Seq(Token) /\ Len(e) = 0 /\ \A Y : Ohne(e, Y)
    <3>1. e \in Seq(Token) /\ Len(e) = 0 BY EmptySeq
    <3>2. \A i \in 1 .. Len(e) : FALSE BY <3>1
    <3> QED BY <3>1, <3>2 DEF Ohne
  <2>3. "Abmelden" \in Phasen /\ "Abmelden" \in Spaet BY DEF Phasen, Spaet
  <2>4. w \in BOOLEAN /\ (s.verworfen => w) BY <1>1, Stationsteile
  <2>5. o \in Seq(Token) /\ Ohne(o, X) /\ (Ohne(o, {"DELE"}) \/ w)
    <3>1. k \in Marken \ {"DATA"} /\ (s.out[1] # "RETR" => k # "DELE") BY DEF Ueberschrieben, Marken
    <3> HIDE DEF k
    <3>2. <<k>> \in Seq(Token) /\ Ohne(<<k>>, X) /\ (k # "DELE" => Ohne(<<k>>, {"DELE"})) BY <3>1, MarkeGilt
    <3> HIDE DEF e, X
    <3>3. CASE s.out = e BY <2>2, <3>3
    <3>4. CASE s.out # e BY <3>1, <3>2, <3>4
    <3> QED BY <3>3, <3>4
  <2> HIDE DEF t, o, w, e
  <2>6. t \in Station
    <3>1. e \in Seq(Token) /\ o \in Seq(Token) /\ w \in BOOLEAN /\ 0 \in Nat /\ "Abmelden" \in Phasen BY <2>2, <2>3, <2>4, <2>5
    <3> QED BY <1>1, <2>1, <3>1 DEF Station
  <2>7. /\ t.modus = s.modus /\ t.verb = s.verb /\ t.handle = s.handle /\ t.prot = s.prot /\ t.phase = "Abmelden"
        /\ t.in = e /\ t.out = o /\ t.ein = s.ein /\ t.weg = s.weg /\ t.verworfen = w /\ t.druck = 0
    BY <1>1, <2>1 DEF Station
  <2>8. Passend(t) BY <1>1, <2>2, <2>3, <2>7, Groessen DEF Passend, Phasengerecht
  <2>9. Smtp(t, n, v, g)
    <3>1. n.hin \in Seq(Token) /\ s.out \in Seq(Token) BY <1>1, Netzteile, Stationsteile
    <3>2. Leer(v) /\ Ohne(Post(s, n), X) /\ Vor(Buchstaben(v.angenommen), Buchstaben(v.text)) BY <1>1 DEF Smtp
    <3> HIDE DEF X
    <3>3. Ohne(n.hin, X)
      <4>1. CASE Zu(s, n) BY <3>2, <4>1 DEF Post
      <4>2. CASE ~Zu(s, n)
        <5>1. Ohne(n.hin \o s.out, X) BY <3>2, <4>2 DEF Post
        <5> QED BY <3>1, <5>1, OhneVerkettet
      <4> QED BY <4>1, <4>2
    <3>4. Ohne(n.hin \o o, X) BY <2>5, <3>1, <3>3, OhneVerkettet
    <3>5. Ohne(Post(t, n), X) BY <2>7, <3>3, <3>4 DEF Post
    <3> QED BY <2>7, <3>2, <3>5 DEF Smtp, X
  <2>10. Loeschen(t, n, v, g)
    <3>1. Bestellt(t, n, v) => Bestellt(s, n, v) \/ w BY <2>5, <2>7 DEF Bestellt
    <3>2. Gut(s, v, g) \/ w => Gut(t, v, g) BY <2>4, <2>7 DEF Gut, Gestoert
    <3>3. Bestellt(s, n, v) => Gut(s, v, g) BY DEF Fast, Loeschen
    <3> QED BY <2>3, <2>7, <3>1, <3>2, <3>3 DEF Loeschen
  <2>11. Bus(t, n, g) BY <2>7 DEF Fast, Bus
  <2>12. Frei(t) BY <2>3, <2>7 DEF Frei
  <2>13. Pop(t, n, v, g) BY <2>12, FreiPop
  <2>14. Stimmt(t, n, v, g) BY <1>1, <2>6, <2>8, <2>9, <2>10, <2>11, <2>13 DEF Stimmt, Fast, Art
  <2> QED BY <2>3, <2>7, <2>14 DEF t
<1> QED BY <1>2, <1>3

LEMMA ExterneGilt ==
    ASSUME NEW s, NEW n, NEW v, NEW g, Fast(s, n, v, g)
    PROVE  /\ Stimmt(ExterneVerbindungBeenden(s), n, v, g) /\ Frei(ExterneVerbindungBeenden(s))
           /\ ExterneVerbindungBeenden(s).modus = s.modus
<1> DEFINE u == IF ~s.verb THEN s ELSE IF s.prot = "SMTP" THEN SMTPSchliessen(s) ELSE POP3Abbrechen(s)
           t == [u EXCEPT !.druck = 0]
<1>1. s \in Station BY DEF Stimmt, Fast, Art
<1>2. Stimmt(u, n, v, g) /\ Frei(u) /\ u.modus = s.modus
  <2>1. CASE ~s.verb BY <2>1, FreiPop DEF Frei, Stimmt
  <2>2. CASE s.verb /\ s.prot = "SMTP" BY <2>2, SMTPSchliessenGilt DEF Frei
  <2>3. CASE s.verb /\ s.prot # "SMTP"
    <3>1. s.prot = "POP3" BY <1>1, <2>3, Stationsteile
    <3> QED BY <2>3, <3>1, POP3AbbrechenGilt DEF Frei
  <2> QED BY <2>1, <2>2, <2>3
<1> HIDE DEF u
<1>3. u \in Station /\ (u.verb => u.modus # "Ruhe") BY <1>2 DEF Stimmt, Fast, Art, Passend
<1>4. Wie(u, t) /\ t.modus = u.modus
  <2>1. u.druck \in Nat BY <1>3, Stationsteile
  <2>2. t \in Station BY <1>3 DEF Station
  <2>3. /\ t.modus = u.modus /\ t.verb = u.verb /\ t.handle = u.handle /\ t.prot = u.prot /\ t.phase = u.phase
        /\ t.in = u.in /\ t.out = u.out /\ t.ein = u.ein /\ t.weg = u.weg /\ t.verworfen = u.verworfen /\ t.druck = 0
    BY <1>3 DEF Station
  <2> HIDE DEF t
  <2>4. t.druck <= u.druck BY <2>1, <2>3
  <2> QED BY <2>2, <2>3, <2>4 DEF Wie
<1>5. Erlaubt(u, t, n, g) BY <1>3, <1>4 DEF Erlaubt, Wie
<1>6. Stimmt(t, n, v, g) BY <1>2, <1>4, <1>5, WieGilt
<1>7. Frei(t) BY <1>2, <1>4 DEF Frei, Wie
<1> QED BY <1>2, <1>4, <1>6, <1>7 DEF ExterneVerbindungBeenden, t, u

(* A mode that ends what has been ended outside. *)
LEMMA FreierWechselGilt ==
    ASSUME NEW s, NEW n, NEW v, NEW g, NEW m \in {"WarteGrundstellung", "WarteSchlussQuitt"},
           Stimmt(s, n, v, g), Frei(s) \/ (Abseits(s) /\ s.modus # "Ruhe")
    PROVE  Stimmt(ModusWechsel(s, m), n, v, g)
<1>1. s \in Station BY DEF Stimmt, Fast, Art
<1>2. m \in ElModi \ {"EmailPOPWarteEinQuitt"} BY DEF ElModi
<1> DEFINE t == ModusWechsel(s, m)
<1>3. Wie(s, t) /\ t.modus = m BY <1>1, <1>2, ModusWechselGilt
<1> HIDE DEF t
<1>4. Erlaubt(s, t, n, g) BY <1>3 DEF Erlaubt, Abseits
<1> QED BY <1>3, <1>4, WieGilt DEF t

LEMMA CodesGilt ==
    ASSUME NEW c \in Codes, Stimmt(elSt, elNetz, elServer, elGeist)
    PROVE  Stimmt(c, elNetz, elServer, elGeist)
<1>1. elSt \in Station BY DEF Stimmt, Fast, Art
<1>2. c = elSt \/ (elNetz.bus /\ c \in BusQuittEin(elSt) \cup BusQuittSchluss(elSt) \cup BusKdoSchluss(elSt)) BY DEF Codes
<1>3. CASE elNetz.bus /\ c \in BusQuittEin(elSt)
  <2>1. elSt.modus = "EmailPOPWarteEinQuitt" /\ c = ModusWechsel(elSt, "EmailPOPDruckend") BY <1>3 DEF BusQuittEin
  <2>2. Wie(elSt, c) /\ c.modus = "EmailPOPDruckend" BY <1>1, <2>1, ModusWechselGilt DEF ElModi
  <2>3. Erlaubt(elSt, c, elNetz, elGeist) BY <1>3, <2>1, <2>2 DEF Erlaubt
  <2> QED BY <2>2, <2>3, WieGilt
<1>4. CASE c \in BusQuittSchluss(elSt)
  <2>1. elSt.modus = "WarteSchlussQuitt" /\ c = ModusWechsel(elSt, "WarteGrundstellung") BY <1>4 DEF BusQuittSchluss
  <2>2. Abseits(elSt) /\ elSt.modus # "Ruhe" BY <2>1 DEF Abseits
  <2> QED BY <2>1, <2>2, FreierWechselGilt
<1>5. CASE c \in BusKdoSchluss(elSt)
  <2> DEFINE u == ExterneVerbindungBeenden(elSt)
  <2>1. c = ModusWechsel(u, "WarteGrundstellung") BY <1>5 DEF BusKdoSchluss
  <2>2. Stimmt(u, elNetz, elServer, elGeist) /\ Frei(u) BY ExterneGilt DEF Stimmt
  <2> HIDE DEF u
  <2> QED BY <2>1, <2>2, FreierWechselGilt
<1> QED BY <1>2, <1>3, <1>4, <1>5

LEMMA FristenGilt ==
    ASSUME NEW s, NEW n, NEW v, NEW g, Stimmt(s, n, v, g)
    PROVE  Stimmt(Fristen(s), n, v, g)
<1> DEFINE a == IF s.modus = "WarteSchlussQuitt" /\ "Quittung" \in s.um THEN ModusWechsel(s, "WarteGrundstellung") ELSE s
           b == InterneVerbindungBeenden(a)
           c == ExterneVerbindungBeenden(b)
<1>1. Fristen(s) = IF ModusTwiVerbunden(a) /\ "Ruhig" \in a.um THEN ModusWechsel(c, "WarteGrundstellung") ELSE a
  BY DEF Fristen
<1>2. Stimmt(a, n, v, g)
  <2>1. s.modus = "WarteSchlussQuitt" => Abseits(s) /\ s.modus # "Ruhe" BY DEF Abseits
  <2> QED BY <2>1, FreierWechselGilt
<1> HIDE DEF a
<1>3. ASSUME ModusTwiVerbunden(a), "Ruhig" \in a.um PROVE Stimmt(ModusWechsel(c, "WarteGrundstellung"), n, v, g)
  <2>1. Stimmt(c, n, v, g) /\ Frei(c)
    <3>1. a \in Station /\ a.modus # "Ruhe" BY <1>2, <1>3 DEF Stimmt, Fast, Art, ModusTwiVerbunden
    <3>2. Wie(a, b) /\ b.modus \in {a.modus, "WarteGrundstellung", "PufferDruckUndSchluss"} /\ Abseits(b) BY <3>1, InterneGilt
    <3>3. Fast(b, n, v, g)
      <4> HIDE DEF b
      <4>1. b.modus # "Ruhe" /\ b.modus # "EmailPOPDruckend" BY <3>1, <3>2 DEF Abseits
      <4> QED BY <1>2, <3>2, <4>1, WieFast DEF Stimmt
    <3> HIDE DEF b
    <3> QED BY <3>3, ExterneGilt
  <2> HIDE DEF c
  <2> QED BY <2>1, FreierWechselGilt
<1> QED BY <1>1, <1>2, <1>3

LEMMA GrundstellungGilt ==
    ASSUME NEW s, NEW n, NEW v, NEW g, Stimmt(s, n, v, g)
    PROVE  Stimmt(Grundstellung(s), n, v, g)
<1> DEFINE a == IF s.modus = "PufferDruckUndSchluss" /\ s.druck = 0 THEN ModusWechsel(s, "WarteSchlussQuitt") ELSE s
<1>1. Grundstellung(s) = IF a.modus = "WarteGrundstellung" /\ ~a.handle /\ ~a.verb THEN ModusWechsel(a, "Ruhe") ELSE a
  BY DEF Grundstellung
<1>2. Stimmt(a, n, v, g)
  <2>1. s.modus = "PufferDruckUndSchluss" => Abseits(s) /\ s.modus # "Ruhe" BY DEF Abseits
  <2> QED BY <2>1, FreierWechselGilt
<1> HIDE DEF a
<1>3. ASSUME ~a.verb PROVE Stimmt(ModusWechsel(a, "Ruhe"), n, v, g)
  <2> DEFINE t == ModusWechsel(a, "Ruhe")
  <2>1. a \in Station BY <1>2 DEF Stimmt, Fast, Art
  <2>2. Wie(a, t) /\ t.modus = "Ruhe" BY <2>1, ModusWechselGilt DEF ElModi
  <2> HIDE DEF t
  <2>3. Erlaubt(a, t, n, g) BY <1>3, <2>2 DEF Erlaubt, Frei, Wie
  <2>4. Stimmt(t, n, v, g) BY <1>2, <2>2, <2>3, WieGilt
  <2> QED BY <2>4 DEF t
<1> QED BY <1>1, <1>2, <1>3

(***************************************************************************)
(* SocketBearbeiten.                                                       *)
(***************************************************************************)
LEMMA Geteilt ==
    ASSUME NEW q \in Seq(Token), NEW k \in 0 .. Len(q)
    PROVE  /\ SubSeq(q, 1, k) \in Seq(Token) /\ Len(SubSeq(q, 1, k)) = k
           /\ SubSeq(q, k + 1, Len(q)) \in Seq(Token) /\ Len(SubSeq(q, k + 1, Len(q))) = Len(q) - k
           /\ \A i \in 1 .. k : SubSeq(q, 1, k)[i] = q[i]
           /\ \A i \in 1 .. Len(q) - k : SubSeq(q, k + 1, Len(q))[i] = q[k + i]
           /\ SubSeq(q, 1, k) \o SubSeq(q, k + 1, Len(q)) = q
<1>1. Len(q) \in Nat /\ k \in Nat /\ k <= Len(q) BY LenProperties
<1>2. SubSeq(q, 1, k) \in Seq(Token) /\ Len(SubSeq(q, 1, k)) = k /\ \A i \in 1 .. k : SubSeq(q, 1, k)[i] = q[i] BY <1>1
<1>3. /\ SubSeq(q, k + 1, Len(q)) \in Seq(Token) /\ Len(SubSeq(q, k + 1, Len(q))) = Len(q) - k
      /\ \A i \in 1 .. Len(q) - k : SubSeq(q, k + 1, Len(q))[i] = q[k + i]
  BY <1>1
<1> DEFINE a == SubSeq(q, 1, k) b == SubSeq(q, k + 1, Len(q)) c == a \o b
<1>4. a \in Seq(Token) /\ b \in Seq(Token) /\ Len(a) = k /\ Len(b) = Len(q) - k BY <1>2, <1>3
<1>5. \A i \in 1 .. k : a[i] = q[i] BY <1>2
<1>6. \A i \in 1 .. Len(q) - k : b[i] = q[k + i] BY <1>3
<1>7. c = q
  <2> HIDE DEF a, b
  <2>1. /\ c \in Seq(Token) /\ Len(c) = Len(a) + Len(b)
        /\ \A i \in 1 .. Len(a) + Len(b) : c[i] = IF i <= Len(a) THEN a[i] ELSE b[i - Len(a)]
    BY <1>4, ConcatProperties
  <2> HIDE DEF c
  <2>2. Len(c) = Len(q) BY <1>1, <1>4, <2>1
  <2>3. ASSUME NEW i \in 1 .. Len(q) PROVE c[i] = q[i]
    <3>1. CASE i <= k
      <4>1. i \in 1 .. k /\ c[i] = a[i] BY <1>1, <1>4, <2>1, <2>2, <3>1
      <4> QED BY <1>5, <4>1
    <3>2. CASE ~(i <= k)
      <4>1. i - k \in 1 .. Len(q) - k /\ k + (i - k) = i BY <1>1, <3>2
      <4>2. c[i] = b[i - k] BY <1>1, <1>4, <2>1, <2>2, <3>2
      <4>3. b[i - k] = q[k + (i - k)] BY <1>6, <4>1
      <4> QED BY <4>1, <4>2, <4>3
    <3> QED BY <3>1, <3>2
  <2> QED BY <2>1, <2>2, <2>3, SeqEqual
<1> QED BY <1>2, <1>3, <1>7

LEMMA Angefuegt ==
    ASSUME NEW q \in Seq(Token), NEW x \in Token
    PROVE  /\ Append(q, x) \in Seq(Token) /\ Len(Append(q, x)) = Len(q) + 1 /\ Append(q, x) # << >>
           /\ Last(Append(q, x)) = x /\ Front(Append(q, x)) = q
<1> DEFINE p == Append(q, x)
<1>1. p \in Seq(Token) BY AppendProperties
<1>2. Len(p) = Len(q) + 1 /\ p[Len(q) + 1] = x BY AppendProperties
<1>3. \A i \in 1 .. Len(q) : p[i] = q[i] BY AppendProperties
<1>4. Len(q) \in Nat BY LenProperties
<1> HIDE DEF p
<1>5. p # << >> BY <1>1, <1>2, <1>4, EmptySeq
<1>6. Last(p) = x BY <1>2 DEF Last
<1>7. Front(p) = q
  <2> DEFINE n == Len(q) f == SubSeq(p, 1, n)
  <2>1. n \in 0 .. Len(p) /\ Len(p) - 1 = n BY <1>2, <1>4
  <2>2. f \in Seq(Token) /\ Len(f) = n /\ \A i \in 1 .. n : f[i] = p[i]
    <3> HIDE DEF n
    <3> QED BY <1>1, <2>1, Geteilt
  <2>3. f = q
    <3> HIDE DEF f
    <3> QED BY <1>3, <2>2, SeqEqual
  <2> QED BY <2>1, <2>3 DEF Front
<1> QED BY <1>1, <1>2, <1>5, <1>6, <1>7 DEF p

LEMMA VorratGilt ==
    ASSUME NEW s \in Station
    PROVE  /\ Vorrat(s) \in Seq(Token) /\ Len(Vorrat(s)) <= Len(s.in)
           /\ s.in \in {<< >>, <<"halb">>} => Vorrat(s) = << >>
<1>1. s.in \in Seq(Token) /\ Len(s.in) \in Nat BY Stationsteile, LenProperties
<1>2. CASE s.in = << >> BY <1>1, <1>2 DEF Vorrat, EndetMit
<1>3. CASE s.in # << >>
  <2> DEFINE q == s.in n == Len(q) - 1 f == SubSeq(q, 1, n)
  <2>1. Len(q) # 0 BY <1>1, <1>3, EmptySeq
  <2>2. n \in 0 .. Len(q) /\ n \in Nat /\ n <= Len(q) BY <1>1, <2>1
  <2>3. f \in Seq(Token) /\ Len(f) = n
    <3> HIDE DEF n, q
    <3>1. q \in Seq(Token) BY <1>1 DEF q
    <3> QED BY <2>2, <3>1, Geteilt
  <2>4. Vorrat(s) \in {f, s.in} /\ (Last(s.in) = "halb" => Vorrat(s) = f) BY <1>3 DEF Vorrat, EndetMit, Front
  <2>5. ASSUME s.in = <<"halb">> PROVE f = << >>
    <3>1. Len(q) = 1 BY <2>5
    <3> HIDE DEF f
    <3> QED BY <2>3, <3>1, EmptySeq
  <2>6. s.in = <<"halb">> => Last(s.in) = "halb" BY DEF Last
  <2> HIDE DEF f
  <2> QED BY <1>1, <1>3, <2>2, <2>3, <2>4, <2>5, <2>6
<1> QED BY <1>2, <1>3

(***************************************************************************)
(* What a POP server answers to RETR.                                      *)
(***************************************************************************)
MailGanz(v) == <<"ok">> \o v.mail \o <<"punkt">>

LEMMA MailGilt ==
    ASSUME NEW v \in Server
    PROVE  /\ v.mail \in Seq(Token)
           /\ \A i \in 1 .. Len(v.mail) : v.mail[i] \in {"kopf", "html", "lang", "zeile"}
           /\ \A i \in 1 .. Len(v.mail) : v.mail[i] = "lang" => i < Len(v.mail) /\ v.mail[i + 1] \in {"lang", "zeile"}
<1> DEFINE m == v.mail Z == {"kopf", "html", "lang", "zeile"}
<1>1. m = << >> \/ m \in ElMails BY Serverteile
<1>2. m \in Seq(Z) /\ \A i \in DOMAIN m : m[i] = "lang" => i < Len(m) /\ m[i + 1] \in {"lang", "zeile"}
  <2>1. CASE m = << >>
    <3>1. << >> \in Seq(Z) /\ DOMAIN << >> = {} BY EmptySeq
    <3> QED BY <2>1, <3>1
  <2>2. CASE m \in ElMails BY <2>2, ElAnnahme
  <2> QED BY <1>1, <2>1, <2>2
<1>3. Z \subseteq Token BY DEF Token
<1> HIDE DEF m, Z
<1>4. m \in Seq(Token) /\ DOMAIN m = 1 .. Len(m) /\ \A i \in 1 .. Len(m) : m[i] \in Z BY <1>2, <1>3, SeqMonotonic, LenProperties, ElementOfSeq
<1> QED BY <1>2, <1>4 DEF m, Z

LEMMA MailGanzGilt ==
    ASSUME NEW v \in Server
    PROVE  /\ MailGanz(v) \in Seq(Token) /\ Len(MailGanz(v)) = Len(v.mail) + 2 /\ MailGanz(v)[1] = "ok"
           /\ \A i \in 1 .. Len(v.mail) : MailGanz(v)[i + 1] = v.mail[i]
           /\ MailGanz(v)[Len(v.mail) + 2] = "punkt"
           /\ Len(v.mail) \in Nat
<1> DEFINE m == v.mail a == <<"ok">> z == <<"punkt">> u == a \o m W == u \o z
<1>1. m \in Seq(Token) /\ Len(m) \in Nat BY MailGilt, LenProperties
<1>2. "ok" \in Token /\ "punkt" \in Token BY DEF Token
<1>3. a \in Seq(Token) /\ z \in Seq(Token) /\ Len(a) = 1 /\ a[1] = "ok" /\ Len(z) = 1 /\ z[1] = "punkt" BY <1>2, Eines
<1> HIDE DEF m, a, z
<1>4. /\ u \in Seq(Token) /\ Len(u) = Len(a) + Len(m)
      /\ \A i \in 1 .. Len(a) + Len(m) : u[i] = IF i <= Len(a) THEN a[i] ELSE m[i - Len(a)]
  BY <1>1, <1>3, ConcatProperties
<1> HIDE DEF u
<1>5. /\ W \in Seq(Token) /\ Len(W) = Len(u) + Len(z)
      /\ \A i \in 1 .. Len(u) + Len(z) : W[i] = IF i <= Len(u) THEN u[i] ELSE z[i - Len(u)]
  <2>1. u \in Seq(Token) /\ z \in Seq(Token) BY <1>3, <1>4
  <2> QED BY <2>1, ConcatProperties
<1> HIDE DEF W
<1>6. Len(u) = Len(m) + 1 /\ Len(W) = Len(m) + 2 BY <1>1, <1>3, <1>4, <1>5
<1>7. W[1] = "ok"
  <2>1. 1 \in 1 .. Len(u) + Len(z) /\ 1 <= Len(u) /\ 1 \in 1 .. Len(a) + Len(m) /\ 1 <= Len(a) BY <1>1, <1>3, <1>6
  <2> QED BY <1>3, <1>4, <1>5, <2>1
<1>8. ASSUME NEW i \in 1 .. Len(m) PROVE W[i + 1] = m[i]
  <2>1. /\ i + 1 \in 1 .. Len(u) + Len(z) /\ i + 1 <= Len(u) /\ i + 1 \in 1 .. Len(a) + Len(m) /\ ~(i + 1 <= Len(a))
        /\ (i + 1) - Len(a) = i
    BY <1>1, <1>3, <1>6
  <2>2. W[i + 1] = u[i + 1] /\ u[i + 1] = m[(i + 1) - Len(a)] BY <1>4, <1>5, <2>1
  <2> QED BY <2>1, <2>2
<1>9. W[Len(m) + 2] = "punkt"
  <2>1. /\ Len(m) + 2 \in 1 .. Len(u) + Len(z) /\ ~(Len(m) + 2 <= Len(u)) /\ (Len(m) + 2) - Len(u) = 1 BY <1>1, <1>3, <1>6
  <2>2. W[Len(m) + 2] = z[(Len(m) + 2) - Len(u)] BY <1>5, <2>1
  <2> QED BY <1>3, <2>1, <2>2
<1>10. W = MailGanz(v) BY DEF MailGanz, W, u, a, m, z
<1> QED BY <1>1, <1>5, <1>6, <1>7, <1>8, <1>9, <1>10 DEF m

LEMMA AntwortGilt ==
    ASSUME NEW v \in Server, NEW W \in Antwort(v)
    PROVE  /\ W \in Seq(Token) /\ Len(W) \in Nat
           /\ \A i \in 1 .. Len(W) : W[i] \in {"ok", "err", "kopf", "html", "lang", "zeile", "punkt"}
           /\ \A i \in 1 .. Len(W) : W[i] = "punkt" => i = Len(W) /\ W = MailGanz(v)
           /\ \A i \in 1 .. Len(W) : W[i] = "lang" => i < Len(W) /\ W[i + 1] \in {"lang", "zeile"}
<1>1. W = MailGanz(v) \/ W = <<"err">> BY DEF Antwort, MailGanz
<1>2. CASE W = <<"err">>
  <2>1. "err" \in Token BY DEF Token
  <2>2. W \in Seq(Token) /\ Len(W) = 1 /\ W[1] = "err" BY <1>2, <2>1, Eines
  <2>3. \A i \in 1 .. Len(W) : i = 1 BY <2>2
  <2> QED BY <2>2, <2>3
<1>3. CASE W = MailGanz(v)
  <2> DEFINE m == v.mail
  <2>1. /\ W \in Seq(Token) /\ Len(W) = Len(m) + 2 /\ W[1] = "ok" /\ \A i \in 1 .. Len(m) : W[i + 1] = m[i]
        /\ W[Len(m) + 2] = "punkt" /\ Len(m) \in Nat
    BY <1>3, MailGanzGilt
  <2>2. /\ \A i \in 1 .. Len(m) : m[i] \in {"kopf", "html", "lang", "zeile"}
        /\ \A i \in 1 .. Len(m) : m[i] = "lang" => i < Len(m) /\ m[i + 1] \in {"lang", "zeile"}
    BY MailGilt
  <2> HIDE DEF m
  <2>3. ASSUME NEW i \in 1 .. Len(W)
        PROVE  /\ W[i] \in {"ok", "err", "kopf", "html", "lang", "zeile", "punkt"}
               /\ W[i] = "punkt" => i = Len(W)
               /\ W[i] = "lang" => i < Len(W) /\ W[i + 1] \in {"lang", "zeile"}
    <3>1. CASE i = 1 BY <2>1, <3>1
    <3>2. CASE i = Len(m) + 2 BY <2>1, <3>2
    <3>3. CASE i # 1 /\ i # Len(m) + 2
      <4>1. i - 1 \in 1 .. Len(m) /\ (i - 1) + 1 = i BY <2>1, <3>3
      <4>2. W[i] = m[i - 1] BY <2>1, <4>1
      <4>3. m[i - 1] = "lang" => i - 1 < Len(m) /\ m[(i - 1) + 1] \in {"lang", "zeile"} BY <2>2, <4>1
      <4>4. i - 1 < Len(m) => i \in 1 .. Len(m) /\ W[i + 1] = m[i] BY <2>1, <4>1
      <4>5. m[i - 1] \in {"kopf", "html", "lang", "zeile"} BY <2>2, <4>1
      <4>6. W[i] # "punkt" BY <4>2, <4>5
      <4>7. W[i] = "lang" => i < Len(W) /\ W[i + 1] \in {"lang", "zeile"}
        <5> SUFFICES ASSUME W[i] = "lang" PROVE i < Len(W) /\ W[i + 1] \in {"lang", "zeile"} OBVIOUS
        <5>1. i - 1 < Len(m) /\ m[i] \in {"lang", "zeile"} BY <4>1, <4>2, <4>3
        <5>2. W[i + 1] = m[i] /\ i < Len(W) BY <2>1, <4>4, <5>1
        <5> QED BY <5>1, <5>2
      <4> QED BY <4>2, <4>5, <4>6, <4>7
    <3> QED BY <3>1, <3>2, <3>3
  <2>4. Len(W) \in Nat BY <2>1
  <2> QED BY <1>3, <2>1, <2>3, <2>4
<1> QED BY <1>1, <1>2, <1>3

(***************************************************************************)
(* Receiving.                                                              *)
(***************************************************************************)
LEMMA EingangNeuGilt ==
    ASSUME NEW s, NEW n, NEW v, NEW g, Stimmt(s, n, v, g), NEW b \in Seq(Token), NEW h \in Seq(Token), Len(b) <= ElInMax,
           NEW t, NEW m, t = [s EXCEPT !.in = b], m = [n EXCEPT !.her = h],
           Einer(s, n) => Einer(t, m), Stille(s, n) => Stille(t, m), Angefordert(s, n, g) => Angefordert(t, m, g),
           Kommt(s, n, v, g) => Kommt(t, m, v, g)
    PROVE  Stimmt(t, m, v, g)
<1>1. s \in Station /\ n \in Netz /\ v \in Server /\ g \in Geist /\ Passend(s) BY DEF Stimmt, Fast, Art
<1>2. t \in Station /\ m \in Netz BY <1>1 DEF Station, Netz
<1>3. /\ t.modus = s.modus /\ t.verb = s.verb /\ t.handle = s.handle /\ t.prot = s.prot /\ t.phase = s.phase /\ t.in = b
      /\ t.out = s.out /\ t.ein = s.ein /\ t.weg = s.weg /\ t.verworfen = s.verworfen /\ t.druck = s.druck
  BY <1>1 DEF Station
<1>4. m.offen = n.offen /\ m.hin = n.hin /\ m.her = h /\ m.bus = n.bus BY <1>1 DEF Netz
<1>5. Passend(t) BY <1>1, <1>3 DEF Passend, Phasengerecht
<1>6. Smtp(t, m, v, g)
  <2>1. Zu(t, m) = Zu(s, n) /\ Post(t, m) = Post(s, n) BY <1>3, <1>4 DEF Zu, Post
  <2> QED BY <1>3, <2>1, SmtpGleich DEF Stimmt, Fast
<1>7. Loeschen(t, m, v, g)
  <2>1. Bestellt(t, m, v) => Bestellt(s, n, v) BY <1>3, <1>4 DEF Bestellt
  <2> QED BY <1>3, <2>1 DEF Stimmt, Fast, Loeschen, Gut, Gestoert
<1>8. Bus(t, m, g) BY <1>3, <1>4 DEF Stimmt, Fast, Bus
<1>9. Fast(t, m, v, g) BY <1>1, <1>2, <1>5, <1>6, <1>7, <1>8 DEF Fast, Art
<1>10. Pop(t, m, v, g)
  <2>1. Frueh(s, n, g) => Frueh(t, m, g) BY <1>3, <1>4 DEF Frueh
  <2>2. Wartet(s, n, g) => Wartet(t, m, g) BY <1>3 DEF Wartet
  <2>3. Druckt(s, n, v, g) => Druckt(t, m, v, g) BY <1>3 DEF Druckt, Gestoert
  <2> QED BY <1>3, <2>1, <2>2, <2>3 DEF Stimmt, Pop, Holt
<1> QED BY <1>9, <1>10 DEF Stimmt

(* The lines that have been read are in the buffer, without the beginning  *)
(* of the next one.                                                        *)
LEMMA PufferGilt ==
    ASSUME NEW s \in Station, NEW v \in Server, NEW W \in Antwort(v), NEW k \in 0 .. Len(W), NEW q \in Seq(Token),
           NEW h \in Seq(Token), Gepuffert(s.in, q, W, k), Passt(q \o h, W, k)
    PROVE  /\ Vorrat(s) = q
           /\ ~EndetMit(s.in, {"halb", "lang"}) => s.in = q /\ (q = << >> \/ q[Len(q)] # "lang")
<1>1. /\ Len(q) \in Nat /\ Len(h) \in Nat /\ Len(q \o h) = Len(q) + Len(h)
      /\ \A i \in 1 .. Len(q) + Len(h) : (q \o h)[i] = IF i <= Len(q) THEN q[i] ELSE h[i - Len(q)]
  BY LenProperties, ConcatProperties
<1>2. \A i \in 1 .. Len(W) : W[i] # "halb" BY AntwortGilt
<1>3. Len(W) \in Nat /\ k \in Nat BY AntwortGilt
<1>4. q # << >> => Last(q) # "halb"
  <2> SUFFICES ASSUME q # << >> PROVE q[Len(q)] # "halb" BY DEF Last
  <2> DEFINE j == Len(q)
  <2>1. j # 0 BY EmptySeq
  <2>2. j \in 1 .. Len(q) + Len(h) /\ j <= Len(q) /\ k + j \in 1 .. Len(W) BY <1>1, <1>3, <2>1 DEF Passt
  <2>3. (q \o h)[j] = q[j] BY <1>1, <2>2
  <2>4. (q \o h)[j] = W[k + j] BY <1>1, <2>2 DEF Passt
  <2> QED BY <1>2, <2>2, <2>3, <2>4
<1>5. CASE s.in = q
  <2>1. ~EndetMit(q, {"halb"}) BY <1>4 DEF EndetMit
  <2>2. ~EndetMit(q, {"halb", "lang"}) => q = << >> \/ q[Len(q)] # "lang" BY DEF EndetMit, Last
  <2> QED BY <1>5, <2>1, <2>2 DEF Vorrat
<1>6. CASE s.in = Append(q, "halb")
  <2> DEFINE x == "halb" b == Append(q, x)
  <2>1. x \in Token BY DEF Token
  <2>2. b # << >> /\ Last(b) = x /\ Front(b) = q
    <3> HIDE DEF x
    <3> QED BY <2>1, Angefuegt
  <2> HIDE DEF b
  <2>3. EndetMit(b, {"halb"}) /\ EndetMit(b, {"halb", "lang"}) BY <2>2 DEF EndetMit
  <2>4. s.in = b BY <1>6 DEF b
  <2> QED BY <2>2, <2>3, <2>4 DEF Vorrat
<1> QED BY <1>5, <1>6 DEF Gepuffert

(* Some lines more. *)
Genommen(s, n, k, t, m) ==
    /\ t = [s EXCEPT !.in = Vorrat(s) \o SubSeq(n.her, 1, k)]
    /\ m = [n EXCEPT !.her = SubSeq(n.her, k + 1, Len(n.her))]

LEMMA GenommenGilt ==
    ASSUME NEW s, NEW n, NEW v, NEW g, Stimmt(s, n, v, g), NEW k \in 1 .. Len(n.her), Len(Vorrat(s)) + k <= ElInMax,
           NEW t, NEW m, Genommen(s, n, k, t, m)
    PROVE  Stimmt(t, m, v, g)
<1> DEFINE her == n.her a == SubSeq(her, 1, k) h == SubSeq(her, k + 1, Len(her)) w == Vorrat(s) b == w \o a
<1>1. s \in Station /\ n \in Netz /\ v \in Server /\ g \in Geist /\ Passend(s) BY DEF Stimmt, Fast, Art
<1>2. her \in Seq(Token) /\ Len(her) \in Nat BY <1>1, Netzteile, LenProperties
<1>3. a \in Seq(Token) /\ Len(a) = k /\ h \in Seq(Token) /\ Len(h) = Len(her) - k /\ a \o h = her
  <2> HIDE DEF her
  <2>1. k \in 0 .. Len(her) BY <1>2 DEF her
  <2> QED BY <1>2, <2>1, Geteilt
<1>4. w \in Seq(Token) /\ Len(w) \in Nat /\ (s.in \in {<< >>, <<"halb">>} => w = << >>) BY <1>1, VorratGilt, LenProperties
<1>5. t = [s EXCEPT !.in = b] /\ m = [n EXCEPT !.her = h] BY DEF Genommen
<1>6. t.in = b /\ t.out = s.out /\ m.hin = n.hin /\ m.her = h BY <1>1, <1>5 DEF Station, Netz
<1> HIDE DEF her, a, h, w
<1>7. b \in Seq(Token) /\ Len(b) = Len(w) + k BY <1>3, <1>4, ConcatProperties
<1>8. b \o h = w \o her
  <2>0. w \in Seq(Token) /\ a \in Seq(Token) /\ h \in Seq(Token) BY <1>3, <1>4
  <2>1. (w \o a) \o h = w \o (a \o h) BY ONLY <2>0, ConcatAssociative
  <2> QED BY <1>3, <2>1
<1> HIDE DEF b
<1>9. k \in Nat \ {0} /\ k <= Len(her) /\ Len(her) # 0 BY <1>2 DEF her
<1>10. her # << >> /\ n.her = her BY <1>9, EmptySeq DEF her
<1>11. Einer(s, n) => Einer(t, m)
  <2> SUFFICES ASSUME Einer(s, n) PROVE Einer(t, m) OBVIOUS
  <2>1. s.in \in {<< >>, <<"halb">>} /\ Len(s.out) + Len(n.hin) + Len(her) <= 1 BY <1>10 DEF Einer
  <2>2. s.out \in Seq(Token) /\ n.hin \in Seq(Token) BY <1>1, Stationsteile, Netzteile
  <2>3. Len(s.out) \in Nat /\ Len(n.hin) \in Nat BY <2>2, LenProperties
  <2>4. Len(her) = 1 /\ k = 1 /\ Len(s.out) = 0 /\ Len(n.hin) = 0
    <3> DEFINE x == Len(s.out) y == Len(n.hin) z == Len(her)
    <3>1. x \in Nat /\ y \in Nat /\ z \in Nat /\ x + y + z <= 1 /\ k <= z /\ z # 0 BY <1>2, <1>9, <2>1, <2>3
    <3> HIDE DEF x, y, z
    <3>2. z = 1 /\ k = 1 /\ x = 0 /\ y = 0 BY <1>9, <3>1
    <3> QED BY <3>2 DEF x, y, z
  <2>5. s.out = << >> /\ n.hin = << >> BY <2>2, <2>4, EmptySeq
  <2>6. Len(h) = 0 BY <1>3, <2>4
  <2>7. h = << >> BY <1>3, <2>6, EmptySeq
  <2>8. Len(w) = 0 BY <1>4, <2>1, EmptySeq
  <2>9. Len(b) = 1 BY <1>7, <2>4, <2>8
  <2> QED BY <1>6, <2>5, <2>7, <2>9 DEF Einer
<1>12. ~Stille(s, n) /\ ~Angefordert(s, n, g) BY <1>10 DEF Stille, Angefordert
<1>13. Kommt(s, n, v, g) => Kommt(t, m, v, g)
  <2> SUFFICES ASSUME Kommt(s, n, v, g) PROVE Kommt(t, m, v, g) OBVIOUS
  <2>0. PICK W \in Antwort(v) : \E j \in 0 .. Len(W) : Gelesen(s.in, n.her, W, j, g.gedruckt) BY DEF Kommt
  <2>1. PICK j \in 0 .. Len(W) : Gelesen(s.in, n.her, W, j, g.gedruckt) BY <2>0
  <2>2. PICK q \in Seq(Token) : Gepuffert(s.in, q, W, j) /\ Passt(q \o her, W, j) BY <2>1 DEF Gelesen, her
  <2>3. w = q BY <1>1, <1>2, <2>2, PufferGilt DEF w
  <2>4. Gepuffert(b, b, W, j) BY DEF Gepuffert
  <2>5. Passt(b \o h, W, j) BY <1>8, <2>2, <2>3
  <2>6. Gelesen(t.in, m.her, W, j, g.gedruckt) BY <1>6, <1>7, <2>1, <2>4, <2>5 DEF Gelesen
  <2> QED BY <1>6, <2>6 DEF Kommt
<1>14. Len(b) <= ElInMax BY <1>7 DEF w
<1> QED BY <1>3, <1>5, <1>7, <1>11, <1>12, <1>13, <1>14, EingangNeuGilt

(* The beginning of the next line. *)
LEMMA HalbGilt ==
    ASSUME NEW s, NEW n, NEW v, NEW g, Stimmt(s, n, v, g), n.her # << >>, Len(Vorrat(s)) + 1 <= ElInMax,
           ~EndetMit(s.in, {"halb", "lang"})
    PROVE  Stimmt([s EXCEPT !.in = Append(@, "halb")], n, v, g)
<1> DEFINE x == "halb" b == Append(s.in, x) t == [s EXCEPT !.in = b] her == n.her
<1>1. s \in Station /\ n \in Netz /\ v \in Server /\ g \in Geist /\ Passend(s) BY DEF Stimmt, Fast, Art
<1>2. s.in \in Seq(Token) /\ her \in Seq(Token) BY <1>1, Stationsteile, Netzteile
<1>3. x \in Token BY DEF Token
<1>4. b \in Seq(Token) /\ Len(b) = Len(s.in) + 1
  <2> HIDE DEF x
  <2> QED BY <1>2, <1>3, Angefuegt
<1>5. Vorrat(s) = s.in
  <2>1. ~EndetMit(s.in, {"halb"}) BY DEF EndetMit
  <2> QED BY <2>1 DEF Vorrat
<1>6. n = [n EXCEPT !.her = her] BY <1>1 DEF Netz
<1>7. t.in = b /\ t.out = s.out BY <1>1 DEF Station
<1>8. Len(her) \in Nat /\ Len(her) # 0 BY <1>2, EmptySeq, LenProperties
<1> HIDE DEF t
<1>9. Einer(s, n) => Einer(t, n)
  <2> SUFFICES ASSUME Einer(s, n) PROVE Einer(t, n) OBVIOUS
  <2>1. s.in \in {<< >>, <<"halb">>} /\ Len(s.out) + Len(n.hin) + Len(n.her) <= 1 BY DEF Einer
  <2>2. s.in # <<"halb">>
    <3>1. EndetMit(<<"halb">>, {"halb", "lang"}) BY DEF EndetMit, Last
    <3> QED BY <3>1
  <2>3. b = <<"halb">>
    <3>1. s.in = << >> BY <2>1, <2>2
    <3>2. Append(<< >>, "halb") = <<"halb">> OBVIOUS
    <3> QED BY <3>1, <3>2
  <2> QED BY <1>7, <2>1, <2>3 DEF Einer
<1>10. ~Stille(s, n) /\ ~Angefordert(s, n, g) BY DEF Stille, Angefordert
<1>11. Kommt(s, n, v, g) => Kommt(t, n, v, g)
  <2> SUFFICES ASSUME Kommt(s, n, v, g) PROVE Kommt(t, n, v, g) OBVIOUS
  <2>0. PICK W \in Antwort(v) : \E j \in 0 .. Len(W) : Gelesen(s.in, n.her, W, j, g.gedruckt) BY DEF Kommt
  <2>1. PICK j \in 0 .. Len(W) : Gelesen(s.in, n.her, W, j, g.gedruckt) BY <2>0
  <2>2. PICK q \in Seq(Token) : Gepuffert(s.in, q, W, j) /\ Passt(q \o her, W, j) BY <2>1 DEF Gelesen
  <2>3. s.in = q /\ (q = << >> \/ q[Len(q)] # "lang")
    <3> HIDE DEF her
    <3> QED BY <1>1, <1>2, <2>2, PufferGilt
  <2>4. Len(q \o her) = Len(q) + Len(her) /\ Len(q) \in Nat BY <1>2, ConcatProperties, LenProperties
  <2>5. Len(W) \in Nat /\ j \in Nat BY <1>1, AntwortGilt
  <2>6. j + Len(q) < Len(W) BY <1>8, <2>2, <2>4, <2>5 DEF Passt
  <2>7. Gepuffert(b, q, W, j) BY <2>3, <2>6 DEF Gepuffert
  <2>8. Gelesen(t.in, n.her, W, j, g.gedruckt) BY <1>7, <2>1, <2>2, <2>7 DEF Gelesen
  <2> QED BY <1>7, <2>8 DEF Kommt
<1>12. Len(b) <= ElInMax BY <1>4, <1>5
<1>13. Stimmt(t, n, v, g)
  <2>1. t = [s EXCEPT !.in = b] BY DEF t
  <2> HIDE DEF b, her
  <2> QED BY <1>2, <1>4, <1>6, <1>9, <1>10, <1>11, <1>12, <2>1, EingangNeuGilt
<1> QED BY <1>13 DEF t, b

LEMMA EmpfangenGilt ==
    ASSUME NEW s, NEW n, NEW v, NEW g, Stimmt(s, n, v, g), NEW e \in Empfangen(s, n)
    PROVE  Stimmt(e[1], e[2], v, g) /\ e[1].handle = s.handle
<1> DEFINE her == n.her da == Len(her) w == Vorrat(s) platz == ElInMax - Len(w)
           ganze == {k \in {1, da, platz} : k >= 1 /\ k <= da /\ k <= platz}
<1>1. s \in Station /\ n \in Netz BY DEF Stimmt, Fast, Art
<1>2. her \in Seq(Token) /\ da \in Nat /\ Len(w) \in Nat /\ platz \in Int
  <2>1. her \in Seq(Token) /\ w \in Seq(Token) BY <1>1, Netzteile, VorratGilt
  <2> QED BY <2>1, LenProperties, Groessen
<1>3. CASE e = <<s, n>> BY <1>3
<1>4. CASE e # <<s, n>> /\ \E k \in ganze : e = <<[s EXCEPT !.in = w \o SubSeq(n.her, 1, k)], [n EXCEPT !.her = SubSeq(@, k + 1, da)]>>
  <2>1. PICK k \in ganze : e = <<[s EXCEPT !.in = w \o SubSeq(n.her, 1, k)], [n EXCEPT !.her = SubSeq(@, k + 1, da)]>> BY <1>4
  <2>2. k \in 1 .. da /\ Len(w) + k <= ElInMax BY <1>2, <2>1, Groessen
  <2>3. Genommen(s, n, k, e[1], e[2]) BY <2>1 DEF Genommen
  <2>4. e[1].handle = s.handle BY <1>1, <2>1 DEF Station
  <2> QED BY <2>2, <2>3, <2>4, GenommenGilt
<1>5. CASE e # <<s, n>> /\ ~EndetMit(s.in, {"halb", "lang"}) /\ ganze # {} /\ e = <<[s EXCEPT !.in = Append(@, "halb")], n>>
  <2>1. PICK k \in ganze : TRUE BY <1>5
  <2>2. da # 0 /\ Len(w) + 1 <= ElInMax BY <1>2, <2>1, Groessen
  <2>3. n.her # << >> BY <1>2, <2>2, EmptySeq
  <2>4. e[1].handle = s.handle BY <1>1, <1>5 DEF Station
  <2> QED BY <1>5, <2>2, <2>3, <2>4, HalbGilt
<1>6. \/ e = <<s, n>>
      \/ \E k \in ganze : e = <<[s EXCEPT !.in = w \o SubSeq(n.her, 1, k)], [n EXCEPT !.her = SubSeq(@, k + 1, da)]>>
      \/ ~EndetMit(s.in, {"halb", "lang"}) /\ ganze # {} /\ e = <<[s EXCEPT !.in = Append(@, "halb")], n>>
  BY DEF Empfangen
<1> QED BY <1>3, <1>4, <1>5, <1>6

(***************************************************************************)
(* Losing what is on its way, and sending.                                 *)
(***************************************************************************)
LEMMA PasstKuerzer ==
    ASSUME NEW q \in Seq(Token), NEW h \in Seq(Token), NEW W, Len(W) \in Nat, NEW k \in Nat, Passt(q \o h, W, k)
    PROVE  Passt(q, W, k)
<1>1. /\ Len(q) \in Nat /\ Len(h) \in Nat /\ Len(q \o h) = Len(q) + Len(h)
      /\ \A i \in 1 .. Len(q) + Len(h) : (q \o h)[i] = IF i <= Len(q) THEN q[i] ELSE h[i - Len(q)]
  BY LenProperties, ConcatProperties
<1>2. k + Len(q) <= Len(W) BY <1>1 DEF Passt
<1>3. ASSUME NEW i \in 1 .. Len(q) PROVE q[i] = W[k + i]
  <2>1. i \in 1 .. Len(q) + Len(h) /\ i <= Len(q) BY <1>1
  <2>2. (q \o h)[i] = q[i] BY <1>1, <2>1
  <2>3. (q \o h)[i] = W[k + i] BY <1>1, <2>1 DEF Passt
  <2> QED BY <2>2, <2>3
<1> QED BY <1>2, <1>3 DEF Passt

LEMMA AnfangKommt ==
    ASSUME NEW s, NEW n, NEW v \in Server, NEW g, s.in = << >>, s.out = << >>, n.hin = << >>, n.her = << >>,
           g.gedruckt = << >>
    PROVE  Kommt(s, n, v, g)
<1> DEFINE W == MailGanz(v) e == << >>
<1>1. W \in Antwort(v) BY DEF Antwort, MailGanz
<1>2. Len(W) \in Nat /\ W \in Seq(Token) BY <1>1, AntwortGilt
<1>3. e \in Seq(Token) /\ Len(e) = 0 /\ e \o e = e BY EmptySeq, ConcatEmptySeq
<1>4. SubSeq(W, 1, 0) = e
  <2> HIDE DEF W, e
  <2>1. 0 \in 0 .. Len(W) BY <1>2
  <2>2. SubSeq(W, 1, 0) \in Seq(Token) /\ Len(SubSeq(W, 1, 0)) = 0 BY <1>2, <2>1, Geteilt
  <2> QED BY <2>2, EmptySeq DEF e
<1>5. Auswahl(SubSeq(W, 1, 0), Zeilen) = e BY <1>4, AuswahlLeer
<1> HIDE DEF W
<1>6. Passt(e \o e, W, 0) BY <1>2, <1>3 DEF Passt
<1>7. Gepuffert(e, e, W, 0) BY DEF Gepuffert
<1>8. Gelesen(s.in, n.her, W, 0, g.gedruckt)
  <2> HIDE DEF e
  <2>1. s.in = e /\ n.her = e /\ g.gedruckt = e BY DEF e
  <2> QED BY <1>3, <1>5, <1>6, <1>7, <2>1 DEF Gelesen
<1>9. 0 \in 0 .. Len(W) BY <1>2
<1>10. \E j \in 0 .. Len(W) : Gelesen(s.in, n.her, W, j, g.gedruckt) BY <1>8, <1>9
<1> QED BY <1>1, <1>10 DEF Kommt

Gekappt(s, n, t, m) ==
    /\ t \in Station /\ m \in Netz
    /\ t.modus = s.modus /\ t.verb = s.verb /\ t.prot = s.prot /\ t.phase = s.phase /\ t.in = s.in /\ t.out = s.out
    /\ t.ein = s.ein /\ t.weg = s.weg /\ t.verworfen = s.verworfen /\ t.druck = s.druck
    /\ t.handle => s.handle
    /\ m.hin = n.hin \/ m.hin = << >>
    /\ m.her = n.her \/ m.her = << >>
    /\ m.bus = n.bus /\ Zu(t, m)

LEMMA GekapptGilt ==
    ASSUME NEW s, NEW t, NEW n, NEW m, NEW v, NEW g, Stimmt(s, n, v, g), Gekappt(s, n, t, m)
    PROVE  Stimmt(t, m, v, g)
<1> DEFINE e == << >>
<1>1. s \in Station /\ n \in Netz /\ v \in Server /\ g \in Geist /\ Passend(s) BY DEF Stimmt, Fast, Art
<1>2. t \in Station /\ m \in Netz BY DEF Gekappt
<1>3. n.hin \in Seq(Token) /\ n.her \in Seq(Token) /\ s.out \in Seq(Token) /\ m.her \in Seq(Token) BY <1>1, <1>2, Netzteile, Stationsteile
<1>4. e \in Seq(Token) /\ Len(e) = 0 /\ \A X : Ohne(e, X) BY EmptySeq DEF Ohne
<1>5. Passend(t) BY <1>1 DEF Gekappt, Passend, Phasengerecht
<1>6. Smtp(t, m, v, g)
  <2> DEFINE p == Post(s, n) a == m.hin
  <2>1. p \in Seq(Token) /\ a \in Seq(Token) BY <1>1, <1>2, PostGilt, Netzteile
  <2>2. PICK b \in Seq(Token) : p = a \o b
    <3>1. CASE a = e
      <4>1. p = e \o p BY <2>1, ConcatEmptySeq DEF e
      <4> QED BY <2>1, <3>1, <4>1
    <3>2. CASE a # e
      <4>1. a = n.hin BY <3>2 DEF Gekappt
      <4>2. n.hin = n.hin \o e BY <1>3, ConcatEmptySeq DEF e
      <4> QED BY <1>3, <1>4, <4>1, <4>2 DEF Post
    <3> QED BY <3>1, <3>2
  <2>3. Post(t, m) = a BY DEF Gekappt, Post
  <2> HIDE DEF p, a
  <2>4. Post(s, n) = a \o b BY <2>2 DEF p
  <2>5. Smtp(s, n, v, g) BY DEF Stimmt, Fast
  <2>6. t.prot = s.prot /\ t.phase = s.phase /\ t.ein = s.ein /\ Zu(t, m) BY DEF Gekappt
  <2> QED BY <1>1, <2>1, <2>3, <2>4, <2>5, <2>6, SmtpZu
<1>7. Loeschen(t, m, v, g)
  <2>1. Bestellt(t, m, v) => Bestellt(s, n, v) BY <1>4 DEF Gekappt, Bestellt
  <2> QED BY <2>1 DEF Stimmt, Fast, Loeschen, Gut, Gestoert, Gekappt
<1>8. Bus(t, m, g) BY DEF Stimmt, Fast, Bus, Gekappt
<1>9. Fast(t, m, v, g) BY <1>1, <1>2, <1>5, <1>6, <1>7, <1>8 DEF Fast, Art
<1>10. Stille(s, n) => Stille(t, m) BY DEF Stille, Gekappt
<1>11. Einer(s, n) => Einer(t, m)
  <2>1. Len(m.hin) \in Nat /\ Len(m.hin) <= Len(n.hin) /\ Len(n.hin) \in Nat BY <1>3, <1>4, LenProperties DEF Gekappt
  <2>2. Len(m.her) \in Nat /\ Len(m.her) <= Len(n.her) /\ Len(n.her) \in Nat BY <1>3, <1>4, LenProperties DEF Gekappt
  <2>3. Len(s.out) \in Nat /\ t.out = s.out /\ t.in = s.in BY <1>3, LenProperties DEF Gekappt
  <2>4. Len(s.out) + Len(n.hin) + Len(n.her) <= 1 => Len(t.out) + Len(m.hin) + Len(m.her) <= 1
    <3> DEFINE x == Len(s.out) y == Len(n.hin) z == Len(n.her) c == Len(m.hin) d == Len(m.her)
    <3>1. x \in Nat /\ y \in Nat /\ z \in Nat /\ c \in Nat /\ d \in Nat /\ c <= y /\ d <= z BY <2>1, <2>2, <2>3
    <3> HIDE DEF x, y, z, c, d
    <3>2. x + y + z <= 1 => x + c + d <= 1 BY <3>1
    <3> QED BY <2>3, <3>2 DEF x, y, z, c, d
  <2>5. (n.hin = << >> => m.hin = << >>) /\ (n.her = << >> => m.her = << >>) BY DEF Gekappt
  <2> QED BY <2>3, <2>4, <2>5 DEF Einer
<1>12. Frueh(s, n, g) => Frueh(t, m, g) BY <1>4, <1>11 DEF Frueh, Gekappt
<1>13. Kommt(s, n, v, g) => Kommt(t, m, v, g)
  <2> SUFFICES ASSUME Kommt(s, n, v, g) PROVE Kommt(t, m, v, g) OBVIOUS
  <2>0. PICK W \in Antwort(v) : \E j \in 0 .. Len(W) : Gelesen(s.in, n.her, W, j, g.gedruckt) BY DEF Kommt
  <2>1. PICK j \in 0 .. Len(W) : Gelesen(s.in, n.her, W, j, g.gedruckt) BY <2>0
  <2>2. PICK q \in Seq(Token) : Gepuffert(s.in, q, W, j) /\ Passt(q \o n.her, W, j) BY <2>1 DEF Gelesen
  <2>3. Passt(q \o m.her, W, j)
    <3>1. CASE m.her = n.her BY <2>2, <3>1
    <3>2. CASE m.her = << >>
      <4>1. Len(W) \in Nat /\ j \in Nat BY <1>1, AntwortGilt
      <4>2. Passt(q, W, j) BY <1>3, <2>2, <4>1, PasstKuerzer
      <4>3. q \o << >> = q BY ConcatEmptySeq
      <4> QED BY <3>2, <4>2, <4>3
    <3> QED BY <3>1, <3>2 DEF Gekappt
  <2>4. Gelesen(t.in, m.her, W, j, g.gedruckt) BY <2>1, <2>2, <2>3 DEF Gelesen, Gekappt
  <2> QED BY <2>4 DEF Kommt, Gekappt
<1>14. Angefordert(s, n, g) => Angefordert(t, m, g) \/ Kommt(t, m, v, g)
  <2> SUFFICES ASSUME Angefordert(s, n, g), ~Angefordert(t, m, g) PROVE Kommt(t, m, v, g) OBVIOUS
  <2>1. t.in = e /\ m.her = e /\ g.gedruckt = e BY DEF Angefordert, Gekappt
  <2>2. m.hin = e /\ n.hin # e BY <2>1 DEF Angefordert, Gekappt
  <2>3. s.out = e
    <3>1. Len(n.hin \o s.out) = Len(n.hin) + Len(s.out) BY <1>3, ConcatProperties
    <3>2. Len(n.hin \o s.out) = 1 BY DEF Angefordert
    <3>3. Len(n.hin) # 0 /\ Len(n.hin) \in Nat /\ Len(s.out) \in Nat BY <1>3, <2>2, EmptySeq, LenProperties
    <3>4. Len(s.out) = 0
      <4> DEFINE x == Len(s.out) y == Len(n.hin)
      <4>1. x \in Nat /\ y \in Nat /\ y # 0 /\ y + x = 1 BY <3>1, <3>2, <3>3
      <4> HIDE DEF x, y
      <4>2. x = 0 BY <4>1
      <4> QED BY <4>2 DEF x
    <3> QED BY <1>3, <3>4, EmptySeq
  <2> QED BY <1>1, <2>1, <2>2, <2>3, AnfangKommt DEF Gekappt
<1>15. Pop(t, m, v, g)
  <2>1. Wartet(s, n, g) => Wartet(t, m, g) BY <1>10 DEF Wartet, Gekappt
  <2>2. Druckt(s, n, v, g) => Druckt(t, m, v, g) BY <1>13, <1>14 DEF Druckt, Gestoert, Gekappt
  <2> QED BY <1>12, <2>1, <2>2 DEF Stimmt, Pop, Holt, Gekappt
<1> QED BY <1>9, <1>15 DEF Stimmt

(* Sent. *)
LEMMA AbgesandtGilt ==
    ASSUME NEW s, NEW n, NEW v, NEW g, Stimmt(s, n, v, g), s.handle, s.out # << >>, n.offen,
           NEW u \in SUBSET ElUhren
    PROVE  Stimmt([s EXCEPT !.out = << >>, !.um = u], [n EXCEPT !.hin = Angehaengt(@, s.out)], v, g)
<1> DEFINE e == << >> o == s.out a == n.hin b == Angehaengt(a, o)
           t == [s EXCEPT !.out = e, !.um = u] m == [n EXCEPT !.hin = b]
<1>1. s \in Station /\ n \in Netz /\ v \in Server /\ g \in Geist /\ Passend(s) BY DEF Stimmt, Fast, Art
<1>2. o \in Seq(Token) /\ a \in Seq(Token) /\ n.her \in Seq(Token) BY <1>1, Netzteile, Stationsteile
<1>3. e \in Seq(Token) /\ Len(e) = 0 /\ \A X : Ohne(e, X) BY EmptySeq DEF Ohne
<1> HIDE DEF o, a, e
<1>4. b \in Seq(Token) /\ (b = a \o o \/ (o = Ende /\ b = a)) BY <1>2, AngehaengtGilt DEF Ende
<1>5. Len(a \o o) = Len(a) + Len(o) /\ Len(a) \in Nat /\ Len(o) \in Nat /\ a \o o \in Seq(Token)
  BY <1>2, ConcatProperties, LenProperties
<1> HIDE DEF b
<1>6. t \in Station /\ m \in Netz
  <2>1. t \in Station BY <1>1, <1>3 DEF Station
  <2>2. m \in Netz BY <1>1, <1>4 DEF Netz
  <2> QED BY <2>1, <2>2
<1>7. /\ t.modus = s.modus /\ t.verb = s.verb /\ t.handle = s.handle /\ t.prot = s.prot /\ t.phase = s.phase /\ t.in = s.in
      /\ t.out = e /\ t.ein = s.ein /\ t.weg = s.weg /\ t.verworfen = s.verworfen /\ t.druck = s.druck
  BY <1>1 DEF Station
<1>8. m.offen = n.offen /\ m.hin = b /\ m.her = n.her /\ m.bus = n.bus BY <1>1 DEF Netz
<1> HIDE DEF t, m
<1>9. Passend(t) BY <1>1, <1>7 DEF Passend, Phasengerecht
<1>10. ASSUME NEW X, Ohne(a, X), Ohne(o, X) PROVE Ohne(b, X)
  <2>1. Ohne(a \o o, X) BY <1>2, <1>10, OhneVerkettet
  <2> QED BY <1>4, <1>10, <2>1
<1>11. Smtp(t, m, v, g)
  <2>1. ~Zu(s, n) /\ ~Zu(t, m) BY <1>7, <1>8 DEF Zu
  <2>2. Post(s, n) = a \o o BY <2>1 DEF Post, a, o
  <2>3. b \o e = b BY <1>4, ConcatEmptySeq DEF e
  <2>4. Post(t, m) = b BY <1>7, <1>8, <2>1, <2>3 DEF Post
  <2>5. Smtp(s, n, v, g) BY DEF Stimmt, Fast
  <2>8. Zu(t, m) = Zu(s, n) BY <1>7, <1>8 DEF Zu
  <2>6. CASE b = a \o o BY <1>7, <2>8, <2>2, <2>4, <2>5, <2>6, SmtpGleich
  <2>7. CASE o = Ende /\ b = a BY <1>1, <1>2, <1>7, <2>1, <2>2, <2>4, <2>5, <2>7, SmtpWeniger
  <2> QED BY <1>4, <2>6, <2>7
<1>12. Loeschen(t, m, v, g)
  <2>1. Bestellt(t, m, v) => Bestellt(s, n, v) BY <1>3, <1>7, <1>8, <1>10 DEF Bestellt, a, o
  <2> QED BY <1>7, <2>1 DEF Stimmt, Fast, Loeschen, Gut, Gestoert
<1>13. Bus(t, m, g) BY <1>7, <1>8 DEF Stimmt, Fast, Bus
<1>14. Fast(t, m, v, g) BY <1>1, <1>6, <1>9, <1>11, <1>12, <1>13 DEF Fast, Art
<1>15. o # << >> BY DEF o
<1>16. Frueh(s, n, g) => Frueh(t, m, g)
  <2> SUFFICES ASSUME Frueh(s, n, g) PROVE Frueh(t, m, g) OBVIOUS
  <2>1. s.in \in {<< >>, <<"halb">>} /\ Len(o) + Len(a) + Len(n.her) <= 1 BY <1>15 DEF Frueh, Einer, o, a
  <2>2. Len(b) <= Len(a) + Len(o) /\ Len(b) \in Nat BY <1>4, <1>5
  <2>3. Len(n.her) \in Nat BY <1>2, LenProperties
  <2>4. Len(e) + Len(b) + Len(n.her) <= 1
    <3> DEFINE x == Len(o) y == Len(a) z == Len(n.her) c == Len(b) d == Len(e)
    <3>1. x \in Nat /\ y \in Nat /\ z \in Nat /\ c \in Nat /\ d = 0 /\ x + y + z <= 1 /\ c <= y + x
      BY <1>3, <1>5, <2>1, <2>2, <2>3
    <3> HIDE DEF x, y, z, c, d
    <3>2. d + c + z <= 1 BY <3>1
    <3> QED BY <3>2 DEF x, y, z, c, d
  <2>5. Einer(t, m) BY <1>7, <1>8, <2>1, <2>4 DEF Einer
  <2> QED BY <1>3, <1>7, <1>8, <1>10, <2>5 DEF Frueh, a, o
<1>17. Wartet(s, n, g) => Wartet(t, m, g) BY <1>7, <1>15 DEF Wartet, Stille, o
<1>18. Angefordert(s, n, g) => Angefordert(t, m, g)
  <2> SUFFICES ASSUME Angefordert(s, n, g) PROVE Angefordert(t, m, g) OBVIOUS
  <2>1. a \o o = <<"RETR">> BY DEF Angefordert, a, o
  <2>2. b = a \o o
    <3> SUFFICES ASSUME o = Ende PROVE FALSE BY <1>4
    <3>1. Len(o) = 1 /\ o[1] = "ENDE" BY DEF Ende
    <3>2. Len(a) = 0
      <4> DEFINE x == Len(o) y == Len(a) z == Len(a \o o)
      <4>1. x = 1 /\ y \in Nat /\ z = y + x /\ z = 1 BY <1>5, <2>1, <3>1
      <4> HIDE DEF x, y, z
      <4>2. y = 0 BY <4>1
      <4> QED BY <4>2 DEF y
    <3>3. a = << >> BY <1>2, <3>2, EmptySeq
    <3>4. a \o o = o BY <1>2, <3>3, ConcatEmptySeq
    <3>5. <<"RETR">>[1] = "RETR" OBVIOUS
    <3> HIDE DEF e
    <3> QED BY <2>1, <3>1, <3>4, <3>5
  <2>3. b \o e = b BY <1>4, ConcatEmptySeq DEF e
  <2> QED BY <1>7, <1>8, <2>1, <2>2, <2>3 DEF Angefordert
<1>19. ~Kommt(s, n, v, g) BY <1>15 DEF Kommt, o
<1>20. Pop(t, m, v, g)
  <2>1. Druckt(s, n, v, g) => Druckt(t, m, v, g) BY <1>7, <1>18, <1>19 DEF Druckt, Gestoert
  <2> QED BY <1>7, <1>16, <1>17, <2>1 DEF Stimmt, Pop, Holt
<1>21. Stimmt(t, m, v, g) BY <1>14, <1>20 DEF Stimmt
<1> QED BY <1>21 DEF t, m, b, o, a, e

LEMMA HandleWeg ==
    ASSUME NEW s \in Station, NEW n \in Netz, ~n.offen, NEW u \in SUBSET ElUhren
    PROVE  Gekappt(s, n, [s EXCEPT !.handle = FALSE, !.um = u], [n EXCEPT !.her = << >>])
<1> DEFINE t == [s EXCEPT !.handle = FALSE, !.um = u] m == [n EXCEPT !.her = << >>]
<1>1. << >> \in Seq(Token) BY EmptySeq
<1>2. t \in Station BY DEF Station
<1>3. m \in Netz /\ m.hin = n.hin /\ m.her = << >> /\ m.bus = n.bus BY <1>1 DEF Netz
<1>4. /\ t.modus = s.modus /\ t.verb = s.verb /\ t.handle = FALSE /\ t.prot = s.prot /\ t.phase = s.phase /\ t.in = s.in
      /\ t.out = s.out /\ t.ein = s.ein /\ t.weg = s.weg /\ t.verworfen = s.verworfen /\ t.druck = s.druck
  BY DEF Station
<1> HIDE DEF t, m
<1>5. Gekappt(s, n, t, m) BY <1>2, <1>3, <1>4 DEF Gekappt, Zu
<1> QED BY <1>5 DEF t, m

LEMMA OhneHer == ASSUME NEW n \in Netz PROVE [n EXCEPT !.her = << >>] \in Netz
<1>1. << >> \in Seq(Token) BY EmptySeq
<1> QED BY <1>1 DEF Netz

LEMMA GesendetGilt ==
    ASSUME NEW s, NEW n, NEW v, NEW g, Stimmt(s, n, v, g), NEW e \in Gesendet(s, n)
    PROVE  Stimmt(e[1], e[2], v, g)
<1>1. s \in Station /\ n \in Netz /\ v \in Server /\ g \in Geist BY DEF Stimmt, Fast, Art
<1>2. s.um \subseteq ElUhren BY <1>1, Stationsteile
<1>3. CASE e = <<s, n>> BY <1>3
<1>4. CASE s.handle /\ s.out # << >> /\ n.offen /\ e # <<s, n>>
  <2> DEFINE u == s.um \ {"Abbau", "Fehler"}
  <2>1. e = <<[s EXCEPT !.out = << >>, !.um = u], [n EXCEPT !.hin = Angehaengt(@, s.out)]>> BY <1>1, <1>4 DEF Gesendet, Station
  <2>2. u \in SUBSET ElUhren BY <1>2
  <2> HIDE DEF u
  <2> QED BY <1>4, <2>1, <2>2, AbgesandtGilt
<1>5. CASE s.handle /\ s.out # << >> /\ ~n.offen /\ "Fehler" \in s.um
  <2> DEFINE m == [n EXCEPT !.her = << >>] u == s.um \ {"Fehler", "Abbruch"} t == [s EXCEPT !.handle = FALSE, !.um = u]
  <2>1. e = <<IF s.geplant THEN Getrennt(s) ELSE t, m>> BY <1>1, <1>5 DEF Gesendet, Station
  <2>2. Stimmt(Getrennt(s), m, v, g)
    <3>1. m \in Netz /\ m.hin = n.hin /\ m.bus = n.bus BY <1>1, OhneHer DEF Netz
    <3>2. Zu(s, n) BY <1>5 DEF Zu
    <3> HIDE DEF m
    <3> QED BY <3>1, <3>2, GetrenntGilt DEF Stimmt
  <2>3. Stimmt(t, m, v, g)
    <3>1. u \in SUBSET ElUhren BY <1>2
    <3> HIDE DEF u
    <3>2. Gekappt(s, n, t, m) BY <1>1, <1>5, <3>1, HandleWeg
    <3> HIDE DEF t, m
    <3> QED BY <3>2, GekapptGilt
  <2> HIDE DEF t, m
  <2> QED BY <2>1, <2>2, <2>3
<1>6. CASE s.verb /\ ~s.handle /\ e = <<Getrennt(s), n>> BY <1>1, <1>6, GetrenntGilt DEF Stimmt
<1>7. e = <<s, n>> \/ (s.handle /\ s.out # << >> /\ n.offen /\ e # <<s, n>>)
      \/ (s.handle /\ s.out # << >> /\ ~n.offen /\ "Fehler" \in s.um) \/ (s.verb /\ ~s.handle /\ e = <<Getrennt(s), n>>)
  BY DEF Gesendet
<1> QED BY <1>3, <1>4, <1>5, <1>6, <1>7

LEMMA VerlorenGilt ==
    ASSUME NEW s, NEW n, NEW v, NEW g, Stimmt(s, n, v, g), IstVerloren(s), n = elNetz
    PROVE  Stimmt(Verloren(s), [n EXCEPT !.her = << >>], v, g)
<1> DEFINE m == [n EXCEPT !.her = << >>]
           a == IF s.modus = "EmailPOPVerbunden" THEN ModusWechsel(s, "WarteGrundstellung") ELSE s
           b == Getrennt(a) t == [b EXCEPT !.um = @ \ {"Abbruch"}]
<1>1. s \in Station /\ n \in Netz /\ v \in Server /\ g \in Geist BY DEF Stimmt, Fast, Art
<1>2. m \in Netz /\ m.hin = n.hin /\ m.bus = n.bus BY <1>1, OhneHer DEF Netz
<1>3. Fast(a, n, v, g) /\ a.handle = s.handle
  <2> DEFINE c == ModusWechsel(s, "WarteGrundstellung")
  <2>1. Wie(s, c) /\ c.modus = "WarteGrundstellung" BY <1>1, ModusWechselGilt DEF ElModi
  <2> HIDE DEF c
  <2>2. Fast(c, n, v, g) /\ c.handle = s.handle BY <2>1, WieFast DEF Stimmt, Wie
  <2> QED BY <2>2 DEF Stimmt, c
<1>4. Zu(a, n) BY <1>3 DEF IstVerloren, Zu
<1> HIDE DEF a, m
<1>5. Stimmt(b, m, v, g) BY <1>2, <1>3, <1>4, GetrenntGilt
<1>6. b \in Station /\ b.verb = FALSE
  <2>1. b \in Station /\ a \in Station BY <1>3, <1>5 DEF Stimmt, Fast, Art
  <2> QED BY <2>1 DEF Getrennt, Station
<1> HIDE DEF b
<1>7. Wie(b, t) /\ t.modus = b.modus
  <2>1. b.um \subseteq ElUhren /\ b.druck \in Nat BY <1>6, Stationsteile
  <2>2. t \in Station BY <1>6, <2>1 DEF Station
  <2>3. /\ t.modus = b.modus /\ t.verb = b.verb /\ t.handle = b.handle /\ t.prot = b.prot /\ t.phase = b.phase
        /\ t.in = b.in /\ t.out = b.out /\ t.ein = b.ein /\ t.weg = b.weg /\ t.verworfen = b.verworfen /\ t.druck = b.druck
    BY <1>6 DEF Station
  <2> HIDE DEF t
  <2> QED BY <2>1, <2>2, <2>3 DEF Wie
<1> HIDE DEF t
<1>8. Erlaubt(b, t, m, g) BY <1>6, <1>7 DEF Erlaubt, Wie
<1>9. Stimmt(t, m, v, g) BY <1>5, <1>7, <1>8, WieGilt
<1> QED BY <1>9 DEF Verloren, t, b, a, m

LEMMA SocketGilt ==
    ASSUME NEW s, Stimmt(s, elNetz, elServer, elGeist), NEW e \in SocketBearbeiten(s)
    PROVE  Stimmt(e[1], e[2], elServer, elGeist)
<1>1. s \in Station /\ elNetz \in Netz BY DEF Stimmt, Fast, Art
<1>2. CASE IstVerloren(s)
  <2>1. e = <<Verloren(s), [elNetz EXCEPT !.her = << >>]>> BY <1>2 DEF SocketBearbeiten
  <2>2. Stimmt(Verloren(s), [elNetz EXCEPT !.her = << >>], elServer, elGeist) BY <1>2, VerlorenGilt
  <2> QED BY <2>1, <2>2
<1>3. CASE ~IstVerloren(s) /\ IstAbzubauen(s)
  <2> DEFINE m == [elNetz EXCEPT !.offen = FALSE, !.her = << >>]
  <2>1. e = <<Getrennt(s), m>> BY <1>3 DEF SocketBearbeiten
  <2>2. << >> \in Seq(Token) BY EmptySeq
  <2>3. m \in Netz /\ m.hin = elNetz.hin /\ m.bus = elNetz.bus BY <1>1, <2>2 DEF Netz
  <2>4. s.out = << >> BY <1>3 DEF IstAbzubauen
  <2> HIDE DEF m
  <2>5. Stimmt(Getrennt(s), m, elServer, elGeist) BY <2>3, <2>4, GetrenntGilt DEF Stimmt
  <2> QED BY <2>1, <2>5
<1>4. CASE ~IstVerloren(s) /\ ~IstAbzubauen(s)
  <2>1. SocketBearbeiten(s) = UNION {Gesendet(d[1], d[2]) : d \in Empfangen(s, elNetz)} BY <1>4 DEF SocketBearbeiten
  <2>2. PICK d \in Empfangen(s, elNetz) : e \in Gesendet(d[1], d[2]) BY <2>1
  <2>3. Stimmt(d[1], d[2], elServer, elGeist) BY EmpfangenGilt
  <2> DEFINE a == d[1] b == d[2]
  <2>4. e \in Gesendet(a, b) /\ Stimmt(a, b, elServer, elGeist) BY <2>2, <2>3
  <2> HIDE DEF a, b
  <2> QED BY <2>4, GesendetGilt
<1> QED BY <1>2, <1>3, <1>4

(***************************************************************************)
(* SMTPDatenVerarbeiten.                                                   *)
(***************************************************************************)
(* Smtp, said of the phase p, what is left to send (a) of what is typed    *)
(* (y), and what the server still gets (r).                                *)
Versand(p, a, y, zu, r, v) ==
    /\ p \in Anfang => Leer(v) /\ a = y /\ Ohne(r, Text \cup {"DATA", "PUNKT"})
    /\ p \in Dabei => Abgelehnt(v, r) \/ \E x \in Seq(ElZeichen) : y = x \o a /\ Stand(zu, r, v, x)
    /\ p \in Spaet => Abgelehnt(v, r) \/ (Fluss(v, r) /\ Vor(Angekommen(v, r), Buchstaben(y)))
Danach(zu, q, o) == IF zu THEN q ELSE q \o o

LEMMA VersandGilt ==
    ASSUME NEW s, NEW n, NEW v, NEW g, Art(s, n, v, g), Smtp(s, n, v, g), s.prot = "SMTP", s.out = << >>
    PROVE  Versand(s.phase, s.ein, g.getippt, Zu(s, n), n.hin, v)
<1>1. n.hin \in Seq(Token) BY Netzteile DEF Art
<1>2. n.hin \o << >> = n.hin BY <1>1, ConcatEmptySeq
<1>3. Post(s, n) = n.hin BY <1>2 DEF Post
<1> QED BY <1>3 DEF Smtp, Versand, Unbegonnen, ImGange, Beendet

(* The next step of sending: the phase p, a left to send, o to be sent.    *)
Fortgang(s, t, g, h, a, p, o, y) ==
    /\ t \in Station /\ h \in Geist
    /\ t.modus = s.modus /\ t.verb = s.verb /\ t.handle = s.handle /\ t.prot = s.prot /\ t.in = s.in /\ t.weg = s.weg /\ t.verworfen = s.verworfen
    /\ t.phase = p /\ t.out = o /\ t.ein = a /\ (t.druck <= s.druck \/ t.druck = 1)
    /\ h.getippt = y /\ h.gedruckt = g.gedruckt /\ h.gekuerzt = g.gekuerzt /\ h.gestoert = g.gestoert

LEMMA FortgangGilt ==
    ASSUME NEW s \in Station, NEW g \in Geist,
           NEW a \in Seq(ElZeichen), NEW b \in BOOLEAN, NEW p \in Anfang \cup Dabei \cup Spaet, NEW o \in Seq(Token),
           NEW d \in Nat, d <= s.druck \/ d = 1, NEW e \in BOOLEAN, NEW y \in Seq(ElZeichen),
           NEW t, t = [s EXCEPT !.ein = a, !.anfang = b, !.phase = p, !.out = o, !.druck = d, !.geplant = e],
           NEW h, h = [g EXCEPT !.getippt = y]
    PROVE  Fortgang(s, t, g, h, a, p, o, y)
<1>1. p \in Phasen BY DEF Phasen
<1>2. t \in Station BY <1>1 DEF Station
<1>3. h \in Geist BY DEF Geist
<1>4. /\ t.modus = s.modus /\ t.verb = s.verb /\ t.handle = s.handle /\ t.prot = s.prot /\ t.phase = p /\ t.in = s.in
      /\ t.out = o /\ t.ein = a /\ t.weg = s.weg /\ t.verworfen = s.verworfen /\ t.druck = d
  BY DEF Station
<1>5. h.getippt = y /\ h.gedruckt = g.gedruckt /\ h.gekuerzt = g.gekuerzt /\ h.gestoert = g.gestoert BY DEF Geist
<1> QED BY <1>2, <1>3, <1>4, <1>5 DEF Fortgang

LEMMA SchrittGilt ==
    ASSUME NEW s, NEW n, NEW v, NEW g, Stimmt(s, n, v, g), s.prot = "SMTP", NEW a, NEW p \in Anfang \cup Dabei \cup Spaet,
           NEW o, Ohne(o, {"DELE"}), NEW y, NEW t, NEW h, Fortgang(s, t, g, h, a, p, o, y),
           Versand(p, a, y, Zu(s, n), Danach(Zu(s, n), n.hin, o), v)
    PROVE  Stimmt(t, n, v, h)
<1>1. s \in Station /\ n \in Netz /\ v \in Server /\ g \in Geist /\ Passend(s) /\ Fast(s, n, v, g)
  BY DEF Stimmt, Fast, Art
<1>3. t \in Station /\ h \in Geist BY DEF Fortgang
<1>5. /\ t.modus = s.modus /\ t.verb = s.verb /\ t.handle = s.handle /\ t.prot = s.prot /\ t.phase = p /\ t.in = s.in
      /\ t.out = o /\ t.ein = a /\ t.weg = s.weg /\ t.verworfen = s.verworfen /\ (t.druck <= s.druck \/ t.druck = 1)
  BY DEF Fortgang
<1>6. h.getippt = y /\ h.gedruckt = g.gedruckt /\ h.gekuerzt = g.gekuerzt /\ h.gestoert = g.gestoert BY DEF Fortgang
<1>7. Passend(t)
  <2>1. s.druck \in Nat /\ t.druck \in Nat BY <1>1, <1>3, Stationsteile
  <2>2. t.druck <= ElDruckMax + 1
    <3>1. s.druck <= ElDruckMax + 1 BY <1>1 DEF Passend
    <3> QED BY <1>5, <2>1, <3>1, Groessen
  <2> QED BY <1>1, <1>5, <2>2 DEF Passend, Phasengerecht
<1>8. Zu(t, n) = Zu(s, n) /\ Post(t, n) = Danach(Zu(s, n), n.hin, o) BY <1>5 DEF Zu, Post, Danach
<1>9. Smtp(t, n, v, h)
  <2>1. Vor(Buchstaben(v.angenommen), Buchstaben(v.text)) BY DEF Stimmt, Fast, Smtp
  <2> QED BY <1>5, <1>6, <1>8, <2>1 DEF Smtp, Versand, Unbegonnen, ImGange, Beendet
<1>10. Bestellt(t, n, v) => Bestellt(s, n, v) BY <1>5 DEF Bestellt
<1>11. Frei(t) BY <1>5 DEF Frei
<1> QED BY <1>1, <1>3, <1>5, <1>6, <1>7, <1>9, <1>10, <1>11, FreiGilt

(* More of the text: y is taken out of what is typed, o is sent for it. *)
LEMMA TextFolgt ==
    ASSUME NEW v \in Server, NEW zu \in BOOLEAN, NEW q \in Seq(Token), NEW o \in Seq(Token), NEW x \in Seq(ElZeichen),
           NEW y \in Seq(ElZeichen), Ohne(o, {"DATA"}), Ohne(o, {"PUNKT"}), Buchstaben(o) = Buchstaben(y), Stand(zu, q, v, x)
    PROVE  Stand(zu, Danach(zu, q, o), v, x \o y)
<1>1. x \in Seq(Token) /\ y \in Seq(Token) BY Groessen, SeqMonotonic
<1>2. Buchstaben(x \o y) = Buchstaben(x) \o Buchstaben(y) /\ Buchstaben(x) \in Seq(Token) /\ Buchstaben(y) \in Seq(Token)
  BY <1>1, BuchstabenGilt
<1>3. CASE zu
  <2> DEFINE a == Angekommen(v, q) b == Buchstaben(x) c == Buchstaben(y)
  <2>1. Fluss(v, q) /\ Vor(a, b) BY <1>3 DEF Stand
  <2>2. a \in Seq(Token) BY AngekommenMehr
  <2> HIDE DEF a, b, c
  <2>3. b \in Seq(Token) /\ c \in Seq(Token) BY <1>2 DEF b, c
  <2>4. Vor(a, b \o c) BY <2>1, <2>2, <2>3, VorMehr
  <2> QED BY <1>2, <1>3, <2>1, <2>4 DEF Stand, Danach, a, b, c
<1>4. CASE ~zu
  <2>1. Fluss(v, q) /\ Empfaenglich(v, q) /\ Angekommen(v, q) = Buchstaben(x) BY <1>4 DEF Stand
  <2>2. Fluss(v, q \o o) BY <2>1, FlussMehr
  <2>3. Empfaenglich(v, q \o o) BY <2>1, EmpfaenglichMehr
  <2>4. Angekommen(v, q \o o) = Buchstaben(x) \o Buchstaben(y) BY <2>1, AngekommenMehr
  <2> QED BY <1>2, <1>4, <2>2, <2>3, <2>4 DEF Stand, Danach
<1> QED BY <1>3, <1>4

LEMMA AbgelehntBleibt ==
    ASSUME NEW v, NEW zu \in BOOLEAN, NEW q \in Seq(Token), NEW o \in Seq(Token), Ohne(o, {"DATA"}), Abgelehnt(v, q)
    PROVE  Abgelehnt(v, Danach(zu, q, o))
<1>1. Ohne(q, {"DATA"}) BY DEF Abgelehnt
<1>2. Ohne(q \o o, {"DATA"}) BY <1>1, OhneVerkettet
<1> QED BY <1>2 DEF Abgelehnt, Danach

LEMMA DreiVerkettet ==
    ASSUME NEW a \in Seq(ElZeichen), NEW b \in Seq(ElZeichen), NEW c \in Seq(ElZeichen)
    PROVE  (a \o b) \o c = a \o (b \o c)
BY ConcatAssociative

(* The text that has been typed but not sent is sent. *)
LEMMA VersandText ==
    ASSUME NEW v \in Server, NEW zu \in BOOLEAN, NEW q \in Seq(Token), NEW o \in Seq(Token), NEW w \in Seq(ElZeichen),
           NEW y \in Seq(ElZeichen), NEW a \in Seq(ElZeichen), NEW b \in Seq(ElZeichen), a \o b = w,
           NEW p \in Dabei, NEW r \in Dabei, Ohne(o, {"DATA"}), Ohne(o, {"PUNKT"}), Buchstaben(o) = Buchstaben(a),
           Versand(p, w, y, zu, q, v)
    PROVE  /\ Versand(r, b, y, zu, Danach(zu, q, o), v)
           /\ y \in Seq(ElZeichen) => Versand(r, << >>, SubSeq(y, 1, Len(y) - Len(b)), zu, Danach(zu, q, o), v)
<1>1. r \notin Anfang /\ r \notin Spaet BY DEF Dabei, Anfang, Spaet
<1>2. CASE Abgelehnt(v, q) BY <1>1, <1>2, AbgelehntBleibt DEF Versand
<1>3. CASE ~Abgelehnt(v, q)
  <2>1. PICK x \in Seq(ElZeichen) : y = x \o w /\ Stand(zu, q, v, x) BY <1>3 DEF Versand
  <2> DEFINE u == x \o a e == << >>
  <2>2. u \in Seq(ElZeichen) BY ConcatProperties
  <2>3. y = u \o b
    <3>0. x \in Seq(ElZeichen) /\ a \in Seq(ElZeichen) /\ b \in Seq(ElZeichen) OBVIOUS
    <3>1. (x \o a) \o b = x \o (a \o b)
      <4> HIDE DEF u, e
      <4> QED BY ONLY <3>0, DreiVerkettet
    <3> QED BY <2>1, <3>1
  <2>4. Stand(zu, Danach(zu, q, o), v, u) BY <2>1, TextFolgt
  <2> HIDE DEF u
  <2>5. u \o e = u BY <2>2, ConcatEmptySeq
  <2>6. SubSeq(y, 1, Len(y) - Len(b)) = u
    <3>1. /\ Len(u) \in Nat /\ Len(b) \in Nat /\ y \in Seq(ElZeichen) /\ Len(y) = Len(u) + Len(b)
          /\ \A i \in 1 .. Len(u) + Len(b) : y[i] = IF i <= Len(u) THEN u[i] ELSE b[i - Len(u)]
      BY <2>2, <2>3, ConcatProperties, LenProperties
    <3>2. Len(y) - Len(b) = Len(u) BY <3>1
    <3> DEFINE k == Len(u) z == SubSeq(y, 1, k)
    <3>3. y \in Seq(Token) /\ k \in 0 .. Len(y) /\ u \in Seq(Token) BY <2>2, <3>1, Groessen, SeqMonotonic
    <3>4. z \in Seq(Token) /\ Len(z) = k /\ \A i \in 1 .. k : z[i] = y[i]
      <4> HIDE DEF k
      <4> QED BY <3>3, Geteilt
    <3>5. \A i \in 1 .. k : y[i] = u[i] BY <3>1
    <3> HIDE DEF z
    <3>6. z = u BY <3>3, <3>4, <3>5, SeqEqual
    <3> QED BY <3>2, <3>6 DEF z
  <2> HIDE DEF e
  <2>7. u = u \o e BY <2>5
  <2>8. Versand(r, e, u, zu, Danach(zu, q, o), v)
    <3>1. r \in Dabei => \E z \in Seq(ElZeichen) : u = z \o e /\ Stand(zu, Danach(zu, q, o), v, z) BY <2>2, <2>4, <2>7
    <3> QED BY <1>1, <3>1 DEF Versand
  <2>9. Versand(r, b, y, zu, Danach(zu, q, o), v)
    <3>1. \E z \in Seq(ElZeichen) : y = z \o b /\ Stand(zu, Danach(zu, q, o), v, z) BY <2>2, <2>3, <2>4
    <3> QED BY <1>1, <3>1 DEF Versand
  <2> QED BY <2>6, <2>8, <2>9 DEF e
<1> QED BY <1>2, <1>3

(* A command before DATA, and DATA. *)
Einleitend(r, x) ==
    \/ r \in Anfang /\ x \notin {"DATA", "PUNKT"}
    \/ r = "WarteStart" /\ x = "DATA"
LEMMA VersandAnfang ==
    ASSUME NEW v \in Server, NEW zu \in BOOLEAN, NEW q \in Seq(Token), NEW p \in Anfang, NEW w \in Seq(ElZeichen),
           Versand(p, w, w, zu, q, v), NEW x \in Marken, NEW r, NEW y \in Seq(ElZeichen),
           Einleitend(r, x)
    PROVE  Versand(r, y, y, zu, Danach(zu, q, <<x>>), v)
<1> DEFINE o == <<x>> X == Text \cup {"DATA", "PUNKT"}
<1>1. Leer(v) /\ Ohne(q, X) BY DEF Versand
<1>2. x \in Token /\ x \notin Text BY TextGilt DEF Token
<1>3. o \in Seq(Token) /\ Len(o) = 1 /\ o[1] = x BY <1>2, Eines
<1> HIDE DEF o
<1>4. CASE r \in Anfang /\ x \notin {"DATA", "PUNKT"}
  <2>1. x \notin X BY <1>2, <1>4
  <2>2. Ohne(o, X) BY <1>2, <2>1, OhneEines DEF o
  <2>3. Ohne(q \o o, X)
    <3> HIDE DEF X
    <3> QED BY <1>1, <1>3, <2>2, OhneVerkettet
  <2>4. r \notin Dabei /\ r \notin Spaet BY <1>4 DEF Anfang, Dabei, Spaet
  <2> QED BY <1>1, <2>3, <2>4 DEF Versand, Danach, o
<1>5. CASE r = "WarteStart" /\ x = "DATA"
  <2> DEFINE e == << >> u == q \o o
  <2>0. Ohne(q, Text) /\ Ohne(q, {"DATA"}) /\ Ohne(q, {"PUNKT"})
    <3> HIDE DEF X
    <3>1. Text \subseteq X /\ {"DATA"} \subseteq X /\ {"PUNKT"} \subseteq X BY DEF X
    <3> QED BY <1>1, <3>1, OhneWeniger
  <2>1. Ohne(o, Text) /\ Ohne(o, {"PUNKT"})
    <3>1. x \notin {"PUNKT"} BY <1>5
    <3> QED BY <1>2, <3>1, OhneEines DEF o
  <2>2. /\ Len(q) \in Nat /\ u \in Seq(Token) /\ Len(u) = Len(q) + 1
        /\ \A i \in 1 .. Len(q) + 1 : u[i] = IF i <= Len(q) THEN q[i] ELSE o[i - Len(q)]
    <3>1. /\ q \o o \in Seq(Token) /\ Len(q \o o) = Len(q) + Len(o)
          /\ \A i \in 1 .. Len(q) + Len(o) : (q \o o)[i] = IF i <= Len(q) THEN q[i] ELSE o[i - Len(q)]
      BY <1>3, ConcatProperties
    <3>2. Len(q) \in Nat BY LenProperties
    <3> HIDE DEF X, e
    <3> QED BY <1>3, <3>1, <3>2
  <2>3. Ohne(u, Text) /\ Ohne(u, {"PUNKT"}) BY <1>3, <2>0, <2>1, OhneVerkettet
  <2> HIDE DEF u
  <2>4. u[Len(q) + 1] = "DATA"
    <3>1. Len(q) + 1 \in 1 .. Len(q) + 1 /\ ~(Len(q) + 1 <= Len(q)) /\ (Len(q) + 1) - Len(q) = 1 BY <2>2
    <3>2. u[Len(q) + 1] = o[(Len(q) + 1) - Len(q)] BY <2>2, <3>1
    <3> QED BY <1>3, <1>5, <3>1, <3>2
  <2>5. \A i \in 1 .. Len(u) : u[i] = "DATA" => i = Len(q) + 1
    <3> SUFFICES ASSUME NEW i \in 1 .. Len(u), i # Len(q) + 1 PROVE u[i] # "DATA" OBVIOUS
    <3>1. i \in 1 .. Len(q) /\ i <= Len(q) BY <2>2
    <3>2. u[i] = q[i] BY <2>2, <3>1
    <3> QED BY <2>0, <3>1, <3>2 DEF Ohne
  <2>6. ~Ohne(u, {"DATA"})
    <3>1. Len(q) + 1 \in 1 .. Len(u) BY <2>2
    <3> QED BY <2>4, <3>1 DEF Ohne
  <2>7. v.imText = FALSE /\ Buchstaben(v.text) = e BY <1>1, Serverteile DEF Leer
  <2>8. Fluss(v, q)
    <3>1. Geordnet(v.imText, q) BY <2>0 DEF Geordnet, Ohne
    <3>2. Daten(v, q) BY <2>0, <2>7 DEF Daten, Ohne
    <3> QED BY <3>1, <3>2 DEF Fluss
  <2>9. Fluss(v, u)
    <3>1. Geordnet(v.imText, u) BY <2>3 DEF Geordnet, Ohne
    <3>2. Daten(v, u) BY <2>5, <2>7 DEF Daten
    <3> QED BY <3>1, <3>2 DEF Fluss
  <2>10. Empfaenglich(v, u) BY <2>3, <2>6 DEF Empfaenglich
  <2>11. e \in Seq(Token) /\ e \in Seq(ElZeichen) /\ e \o e = e /\ e \o y = y /\ Buchstaben(e) = e
    BY EmptySeq, ConcatEmptySeq, BuchstabenGilt
  <2>12. Angekommen(v, q) = e /\ Angekommen(v, u) = e
    <3>1. Buchstaben(q) = e /\ Buchstaben(u) = e BY <2>0, <2>2, <2>3, BuchstabenGilt
    <3> QED BY <2>7, <2>11, <3>1 DEF Angekommen
  <2> HIDE DEF e
  <2>13. Vor(e, e) BY <2>11, VorSelbst
  <2>14. Stand(zu, Danach(zu, q, o), v, e) BY <2>8, <2>9, <2>10, <2>11, <2>12, <2>13 DEF Stand, Danach, u
  <2>15. r \notin Anfang /\ r \notin Spaet BY <1>5 DEF Anfang, Spaet
  <2>16. y = e \o y BY <2>11
  <2>17. \E z \in Seq(ElZeichen) : y = z \o y /\ Stand(zu, Danach(zu, q, o), v, z) BY <2>11, <2>14, <2>16
  <2> QED BY <2>15, <2>17 DEF Versand, o
<1> QED BY <1>4, <1>5 DEF Einleitend

(* Where the first line that is typed ends. *)
LEMMA BisGilt == ASSUME NEW s \in Station PROVE Bis(s) \in 0 .. Len(s.ein)
<1> DEFINE Z == Zeilenende(s)
<1>1. s.ein \in Seq(ElZeichen) /\ Len(s.ein) \in Nat /\ DOMAIN s.ein = 1 .. Len(s.ein) BY Stationsteile, LenProperties
<1>2. Z \subseteq 1 .. Len(s.ein) BY <1>1 DEF Zeilenende
<1> HIDE DEF Z
<1>3. CASE Z = {} BY <1>1, <1>3 DEF Bis, Z
<1>4. CASE Z # {}
  <2>1. Z \subseteq Nat BY <1>1, <1>2
  <2>2. \E i \in Z : \A j \in Z : i <= j BY <1>4, <2>1, Kleinste
  <2>3. (CHOOSE i \in Z : \A j \in Z : i <= j) \in Z BY <2>2
  <2>4. Bis(s) = CHOOSE i \in Z : \A j \in Z : i <= j BY <1>4 DEF Bis, Z
  <2>5. Bis(s) \in 1 .. Len(s.ein) BY <1>2, <2>3, <2>4
  <2> QED BY <1>1, <2>5
<1> QED BY <1>3, <1>4

(* What is typed is divided at any place. *)
LEMMA TextGeteilt ==
    ASSUME NEW w \in Seq(ElZeichen), NEW k \in 0 .. Len(w)
    PROVE  /\ SubSeq(w, 1, k) \in Seq(ElZeichen) /\ Rest(w, k) \in Seq(ElZeichen) /\ SubSeq(w, 1, k) \o Rest(w, k) = w
           /\ SubSeq(w, 1, k) \in Seq(Token) /\ w \in Seq(Token)
<1>1. w \in Seq(Token) /\ Len(w) \in Nat BY Groessen, SeqMonotonic, LenProperties
<1>2. SubSeq(w, 1, k) \in Seq(Token) /\ SubSeq(w, 1, k) \o SubSeq(w, k + 1, Len(w)) = w BY <1>1, Geteilt
<1>3. SubSeq(w, 1, k) \in Seq(ElZeichen) /\ SubSeq(w, k + 1, Len(w)) \in Seq(ElZeichen) BY <1>1
<1> QED BY <1>1, <1>2, <1>3 DEF Rest

(* Text is none of the commands. *)
LEMMA TextMarken ==
    ASSUME NEW q, q \in Seq(ElZeichen)
    PROVE  q \in Seq(Token) /\ \A x \in Marken : Ohne(q, {x})
<1>1. q \in Seq(Token) BY Groessen, SeqMonotonic
<1>2. \A i \in 1 .. Len(q) : q[i] \in ElZeichen BY ElementOfSeq
<1> QED BY <1>1, <1>2, Groessen DEF Ohne

LEMMA LeerzeileGilt ==
    ASSUME NEW q \in Seq(Token), Ohne(q, {"DATA"}), Ohne(q, {"PUNKT"}), Ohne(q, {"DELE"})
    PROVE  LET o == Append(q, "LEERZEILE")
           IN  /\ o \in Seq(Token) /\ Buchstaben(o) = Buchstaben(q)
               /\ Ohne(o, {"DATA"}) /\ Ohne(o, {"PUNKT"}) /\ Ohne(o, {"DELE"})
<1> DEFINE x == "LEERZEILE" c == <<x>> o == Append(q, x)
<1>1. x \in Token BY DEF Token, Marken
<1>2. x \notin Text /\ x \notin {"DATA"} /\ x \notin {"PUNKT"} /\ x \notin {"DELE"} BY TextGilt DEF Marken
<1> HIDE DEF x
<1>3. c \in Seq(Token) /\ Ohne(c, Text) /\ Ohne(c, {"DATA"}) /\ Ohne(c, {"PUNKT"}) /\ Ohne(c, {"DELE"})
  BY <1>1, <1>2, Eines, OhneEines
<1>4. o = q \o c BY <1>1, AppendIsConcat
<1> HIDE DEF c, o
<1>5. o \in Seq(Token) BY <1>3, <1>4, ConcatProperties
<1>6. Buchstaben(o) = Buchstaben(q)
  <2>1. Buchstaben(c) = << >> /\ Buchstaben(q) \in Seq(Token) BY <1>3, BuchstabenGilt
  <2>2. Buchstaben(q) \o << >> = Buchstaben(q) BY <2>1, ConcatEmptySeq
  <2>3. q \in Seq(Token) /\ c \in Seq(Token) BY <1>3
  <2>4. Buchstaben(q \o c) = Buchstaben(q) \o Buchstaben(c) BY ONLY <2>3, BuchstabenGilt
  <2> QED BY <1>4, <2>1, <2>2, <2>4
<1>7. Ohne(o, {"DATA"}) /\ Ohne(o, {"PUNKT"}) /\ Ohne(o, {"DELE"}) BY <1>3, <1>4, OhneVerkettet
<1> QED BY <1>5, <1>6, <1>7 DEF o, x

LEMMA OhneAlles == << >> \in Seq(Token) /\ << >> \in Seq(ElZeichen) /\ \A X : Ohne(<< >>, X)
BY EmptySeq DEF Ohne

(* One line that is typed, or one command; nothing is waiting to be sent.  *)
LEMMA SMTPSchrittGilt ==
    ASSUME NEW s, NEW n, NEW v, Stimmt(s, n, v, elGeist), s.prot = "SMTP", s.out = << >>
    PROVE  Stimmt(SMTPSchritt(s)[1], n, v, SMTPSchritt(s)[2])
<1> DEFINE g == elGeist zu == Zu(s, n) q == n.hin w == s.ein y == g.getippt k == Bis(s)
           a == SubSeq(w, 1, k) b == Rest(w, k) neu == Buchstaben(a) e == << >>
           ganz == Zeilenende(s) # {} c == s.anfang /\ neu = << >>
           r == SMTPSchritt(s) t == r[1] h == r[2]
<1> SUFFICES Stimmt(t, n, v, h) OBVIOUS
<1>1. s \in Station /\ n \in Netz /\ v \in Server /\ g \in Geist /\ Passend(s) /\ Art(s, n, v, g) /\ Smtp(s, n, v, g)
  BY DEF Stimmt, Fast, Art
<1>2. s.phase \in Anfang \cup Dabei \cup Spaet BY <1>1 DEF Passend, Phasengerecht
<1>3. q \in Seq(Token) /\ w \in Seq(ElZeichen) /\ y \in Seq(ElZeichen) /\ zu \in BOOLEAN
  BY <1>1, Stationsteile, Netzteile, Geistteile DEF Zu
<1>4. /\ s.geplant \in BOOLEAN /\ s.anfang \in BOOLEAN /\ s.druck \in Nat /\ s.frage \in BOOLEAN
  BY <1>1, Stationsteile
<1>5. a \in Seq(ElZeichen) /\ a \in Seq(Token) /\ b \in Seq(ElZeichen) /\ a \o b = w
  <2>1. k \in 0 .. Len(w) BY <1>1, BisGilt
  <2> HIDE DEF k, w
  <2> QED BY <1>3, <2>1, TextGeteilt
<1>6. Versand(s.phase, w, y, zu, q, v) BY <1>1, VersandGilt
<1>7. neu \in Seq(Token) /\ neu \in Seq(ElZeichen) /\ Buchstaben(neu) = Buchstaben(a)
  <2>1. neu \in Seq(Token) /\ neu \in Seq(Text) /\ Buchstaben(neu) = Buchstaben(a) BY <1>5, BuchstabenGilt
  <2> HIDE DEF neu
  <2>2. neu \in Seq(ElZeichen) BY <2>1, TextGilt, SeqMonotonic
  <2> QED BY <2>1, <2>2 DEF neu
<1>8. c \in BOOLEAN OBVIOUS
<1>9. s.out = e /\ e \in Seq(Token) /\ e \in Seq(ElZeichen) /\ \A X : Ohne(e, X) BY OhneAlles
<1>10. g = [g EXCEPT !.getippt = y] BY <1>1 DEF Geist
<1>11. Danach(zu, q, e) = q
  <2>1. q \o e = q BY <1>3, ConcatEmptySeq
  <2> QED BY <2>1 DEF Danach
<1>12. CASE s.phase = "WarteEnde"
  <2>1. t = [s EXCEPT !.geplant = TRUE] /\ h = g BY <1>12 DEF SMTPSchritt
  <2> HIDE DEF t, h
  <2>2. Fortgang(s, t, g, h, w, s.phase, e, y)
    <3>1. t \in Station BY <1>1, <2>1 DEF Station
    <3>2. /\ t.modus = s.modus /\ t.verb = s.verb /\ t.handle = s.handle /\ t.prot = s.prot /\ t.phase = s.phase
          /\ t.in = s.in /\ t.out = s.out /\ t.ein = s.ein /\ t.weg = s.weg /\ t.verworfen = s.verworfen /\ t.druck = s.druck
      BY <1>1, <2>1 DEF Station
    <3>3. t.druck <= s.druck BY <1>4, <3>2
    <3> QED BY <1>1, <1>9, <2>1, <3>1, <3>2, <3>3 DEF Fortgang
  <2> HIDE DEF g, q, w, y, k, a, b, e, c, r, zu, t, h
  <2>5. Stimmt(s, n, v, g) BY DEF g
  <2>6. Versand(s.phase, w, y, Zu(s, n), Danach(Zu(s, n), n.hin, e), v) BY <1>6, <1>11 DEF zu, q
  <2> QED BY <1>2, <1>9, <2>2, <2>5, <2>6, SchrittGilt
<1>13. CASE s.phase = "EingabeMailTo"
  <2> DEFINE p == IF ganz THEN "MailFrom" ELSE "EingabeMailTo"
  <2>1. t = [s EXCEPT !.ein = b, !.anfang = c, !.phase = p, !.out = e, !.druck = s.druck, !.geplant = s.geplant]
    BY <1>1, <1>9, <1>13 DEF SMTPSchritt, Station
  <2>2. h = [g EXCEPT !.getippt = Rest(y, k)] BY <1>13 DEF SMTPSchritt
  <2>3. y = w /\ Leer(v) /\ Ohne(q, Text \cup {"DATA", "PUNKT"}) BY <1>6, <1>13 DEF Versand, Anfang
  <2>4. h = [g EXCEPT !.getippt = b] BY <2>2, <2>3
  <2>5. p \in Anfang /\ p \notin Dabei /\ p \notin Spaet BY DEF Anfang, Dabei, Spaet
  <2> HIDE DEF g, q, w, y, k, a, b, e, c, r, zu, t, h, p
  <2>6. s.druck <= s.druck BY <1>4
  <2>7. Stimmt(s, n, v, g) BY DEF g
  <2>8. Versand(p, b, b, Zu(s, n), Danach(Zu(s, n), n.hin, e), v) BY <1>11, <2>3, <2>5 DEF Versand, zu, q
  <2>9. Fortgang(s, t, g, h, b, p, e, b) BY <1>1, <1>4, <1>5, <1>8, <1>9, <2>1, <2>4, <2>5, <2>6, FortgangGilt
  <2> QED BY <1>9, <2>5, <2>7, <2>8, <2>9, SchrittGilt
<1>14. CASE s.phase = "MailSubject" /\ ~ganz
  <2>1. t = [s EXCEPT !.ein = b, !.anfang = c, !.phase = "MailSubject", !.out = neu, !.druck = s.druck, !.geplant = s.geplant]
    BY <1>1, <1>14 DEF SMTPSchritt, Station
  <2>2. h = [g EXCEPT !.getippt = y] BY <1>10, <1>14 DEF SMTPSchritt
  <2>3. "MailSubject" \in Dabei BY DEF Dabei
  <2> HIDE DEF g, q, w, y, k, a, b, e, c, r, zu, t, h, neu, ganz
  <2>4. Ohne(neu, {"DATA"}) /\ Ohne(neu, {"PUNKT"}) /\ Ohne(neu, {"DELE"}) BY <1>7, TextMarken DEF Marken
  <2>5. s.druck <= s.druck BY <1>4
  <2>6. Stimmt(s, n, v, g) BY DEF g
  <2>7. Versand("MailSubject", w, y, zu, q, v) BY <1>6, <1>14
  <2>8. Versand("MailSubject", b, y, zu, Danach(zu, q, neu), v) BY <1>1, <1>3, <1>5, <1>7, <2>3, <2>4, <2>7, VersandText
  <2>9. Versand("MailSubject", b, y, Zu(s, n), Danach(Zu(s, n), n.hin, neu), v) BY <2>8 DEF zu, q
  <2>10. "MailSubject" \in Anfang \cup Dabei \cup Spaet BY <2>3
  <2>11. Fortgang(s, t, g, h, b, "MailSubject", neu, y)
    BY <1>1, <1>3, <1>4, <1>5, <1>7, <1>8, <2>1, <2>2, <2>5, <2>10, FortgangGilt
  <2> QED BY <2>4, <2>6, <2>9, <2>10, <2>11, SchrittGilt
<1>15. CASE s.phase = "MailSubject" /\ ganz
  <2> DEFINE o == Append(neu, "LEERZEILE") z == SubSeq(y, 1, Len(y) - Len(b))
  <2>1. t = [s EXCEPT !.ein = e, !.anfang = c, !.phase = "MailData", !.out = o, !.druck = 1, !.geplant = s.geplant]
    BY <1>1, <1>15 DEF SMTPSchritt, Station
  <2>2. h = [g EXCEPT !.getippt = z]
    <3> DEFINE m == [s EXCEPT !.ein = b, !.anfang = c]
    <3>1. h = [g EXCEPT !.getippt = OhneVorgriff(m, y)] BY <1>15 DEF SMTPSchritt
    <3>2. m.ein = b BY <1>1 DEF Station
    <3> HIDE DEF m, b, y
    <3>3. OhneVorgriff(m, y) = z BY <3>2 DEF OhneVorgriff
    <3> QED BY <3>1, <3>3
  <2>3. "MailSubject" \in Dabei /\ "MailData" \in Dabei BY DEF Dabei
  <2>4. Ohne(neu, {"DATA"}) /\ Ohne(neu, {"PUNKT"}) /\ Ohne(neu, {"DELE"})
    <3> HIDE DEF neu
    <3> QED BY <1>7, TextMarken DEF Marken
  <2>5. o \in Seq(Token) /\ Buchstaben(o) = Buchstaben(neu) /\ Ohne(o, {"DATA"}) /\ Ohne(o, {"PUNKT"}) /\ Ohne(o, {"DELE"})
    <3> HIDE DEF neu
    <3> QED BY <1>7, <2>4, LeerzeileGilt
  <2>6. z \in Seq(ElZeichen)
    <3>1. Len(y) \in Nat /\ Len(b) \in Nat BY <1>3, <1>5, LenProperties
    <3> DEFINE j == Len(y) - Len(b)
    <3>2. j \in Int /\ j <= Len(y)
      <4> DEFINE m == Len(y) i == Len(b)
      <4>1. m \in Nat /\ i \in Nat BY <3>1
      <4> HIDE DEF m, i
      <4>2. m - i \in Int /\ m - i <= m BY <4>1
      <4> QED BY <4>2 DEF m, i
    <3>4. j = Len(y) - Len(b) OBVIOUS
    <3> HIDE DEF j
    <3>3. SubSeq(y, 1, j) \in Seq(ElZeichen)
      <4> HIDE DEF y
      <4>1. \A i \in 1 .. j : i \in 1 .. Len(y) BY <3>1, <3>2 DEF y
      <4>2. \A i \in 1 .. j : y[i] \in ElZeichen BY <1>3, <4>1, ElementOfSeq
      <4> QED BY <3>2, <4>2, SubSeqProperties
    <3> QED BY <3>3 DEF j
  <2> HIDE DEF g, q, w, y, k, a, b, c, r, zu, t, h, neu, ganz, o
  <2>7. Stimmt(s, n, v, g) BY DEF g
  <2>8. Versand("MailSubject", w, y, zu, q, v) BY <1>6, <1>15
  <2>9. Versand("MailData", e, z, zu, Danach(zu, q, o), v)
    BY <1>1, <1>3, <1>5, <1>7, <2>3, <2>5, <2>8, VersandText
  <2> HIDE DEF e, z
  <2>10. Versand("MailData", e, z, Zu(s, n), Danach(Zu(s, n), n.hin, o), v) BY <2>9 DEF zu, q
  <2>11. "MailData" \in Anfang \cup Dabei \cup Spaet /\ 1 \in Nat BY <2>3
  <2>12. Fortgang(s, t, g, h, e, "MailData", o, z)
    BY <1>1, <1>4, <1>8, <1>9, <2>1, <2>2, <2>5, <2>6, <2>11, FortgangGilt
  <2> QED BY <2>5, <2>7, <2>10, <2>11, <2>12, SchrittGilt
<1>16. CASE s.phase = "MailData"
  <2>1. t = [s EXCEPT !.ein = e, !.anfang = s.anfang, !.phase = "MailData", !.out = w, !.druck = s.druck, !.geplant = s.geplant]
    BY <1>1, <1>16 DEF SMTPSchritt, Station
  <2>2. h = [g EXCEPT !.getippt = y] BY <1>10, <1>16 DEF SMTPSchritt
  <2>3. "MailData" \in Dabei BY DEF Dabei
  <2> HIDE DEF g, q, w, y, k, a, b, e, c, r, zu, t, h, neu, ganz
  <2>4. w \in Seq(Token) /\ Ohne(w, {"DATA"}) /\ Ohne(w, {"PUNKT"}) /\ Ohne(w, {"DELE"}) BY <1>3, TextMarken DEF Marken
  <2>5. s.druck <= s.druck BY <1>4
  <2>6. Stimmt(s, n, v, g) BY DEF g
  <2>7. Versand("MailData", w, y, zu, q, v) BY <1>6, <1>16
  <2>8. w \o e = w BY <1>3, ConcatEmptySeq DEF e
  <2>9. Versand("MailData", e, y, zu, Danach(zu, q, w), v) BY <1>1, <1>3, <1>9, <2>3, <2>4, <2>7, <2>8, VersandText
  <2>10. Versand("MailData", e, y, Zu(s, n), Danach(Zu(s, n), n.hin, w), v) BY <2>9 DEF zu, q
  <2>11. "MailData" \in Anfang \cup Dabei \cup Spaet BY <2>3
  <2>12. Fortgang(s, t, g, h, e, "MailData", w, y)
    BY <1>1, <1>3, <1>4, <1>9, <2>1, <2>2, <2>4, <2>5, <2>11, FortgangGilt
  <2> QED BY <2>4, <2>6, <2>10, <2>11, <2>12, SchrittGilt
<1>17. CASE s.phase = "AnmeldungKennwort" /\ s.frage
  <2> DEFINE x == "KENNWORT" o == <<x>> z == SubSeq(y, 1, Len(y) - Len(w)) p == "EingabeMailTo"
  <2>1. t = [s EXCEPT !.ein = e, !.anfang = TRUE, !.phase = p, !.out = o, !.druck = 1, !.geplant = s.geplant]
    BY <1>1, <1>17 DEF SMTPSchritt, Station
  <2>2. h = [g EXCEPT !.getippt = z] BY <1>17 DEF SMTPSchritt, OhneVorgriff
  <2>3. y = w /\ Versand(s.phase, w, w, zu, q, v) /\ s.phase \in Anfang BY <1>6, <1>17 DEF Versand, Anfang
  <2>4. z = e
    <3>1. Len(y) \in Nat BY <1>3, LenProperties
    <3>2. Len(y) - Len(w) = 0 BY <2>3, <3>1
    <3> HIDE DEF y
    <3>3. SubSeq(y, 1, 0) = << >> OBVIOUS
    <3> QED BY <3>2, <3>3
  <2>5. x \in Marken /\ x \notin {"DATA", "PUNKT"} /\ x # "DELE" /\ p \in Anfang BY DEF Marken, Anfang
  <2> HIDE DEF g, q, w, y, k, a, b, e, c, r, zu, t, h, neu, ganz, z, x, p
  <2>6. o \in Seq(Token) /\ Ohne(o, {"DELE"})
    <3>1. x \in Marken \ {"DATA"} BY <2>5
    <3> QED BY <2>5, <3>1, MarkeGilt
  <2>7. Stimmt(s, n, v, g) BY DEF g
  <2>8. Versand(p, e, e, zu, Danach(zu, q, o), v)
    <3> DEFINE f == s.phase
    <3>1. /\ v \in Server /\ zu \in BOOLEAN /\ q \in Seq(Token) /\ f \in Anfang /\ w \in Seq(ElZeichen)
          /\ Versand(f, w, w, zu, q, v) /\ x \in Marken /\ e \in Seq(ElZeichen)
          /\ Einleitend(p, x)
      BY <1>1, <1>3, <1>9, <2>3, <2>5 DEF Einleitend
    <3> HIDE DEF f
    <3> QED BY <3>1, VersandAnfang
  <2>9. Versand(p, e, z, Zu(s, n), Danach(Zu(s, n), n.hin, o), v) BY <2>4, <2>8 DEF zu, q
  <2>10. p \in Anfang \cup Dabei \cup Spaet /\ z \in Seq(ElZeichen) /\ 1 \in Nat BY <1>9, <2>4, <2>5
  <2>11. TRUE \in BOOLEAN OBVIOUS
  <2>12. Fortgang(s, t, g, h, e, p, o, z)
    <3> HIDE DEF o
    <3> QED BY <1>1, <1>4, <1>9, <2>1, <2>2, <2>6, <2>10, <2>11, FortgangGilt
  <2> QED BY <2>6, <2>7, <2>9, <2>10, <2>12, SchrittGilt
<1>18. CASE /\ s.phase \notin {"WarteEnde", "EingabeMailTo", "MailSubject", "MailData"}
            /\ ~(s.phase = "AnmeldungKennwort" /\ s.frage)
  <2> DEFINE P == {"HalloSagen", "AnmeldungStarten", "AnmeldungName", "AnmeldungKennwort", "MailFrom", "MailTo", "StartData",
                   "WarteStart", "Abmelden"}
             x == SMTPFolge[s.phase][1] p == SMTPFolge[s.phase][2] o == <<x>>
             f == s.geplant \/ s.phase = "Abmelden"
             d == IF s.phase = "WarteStart" THEN 1 ELSE s.druck
             j == s.anfang \/ s.phase = "WarteStart"
  <2>1. s.phase \in P BY <1>2, <1>18 DEF Anfang, Dabei, Spaet
  <2>2. t = [s EXCEPT !.ein = w, !.anfang = j, !.phase = p, !.out = o, !.druck = d, !.geplant = f]
    <3>1. t = [s EXCEPT !.out = o, !.phase = p, !.geplant = f, !.druck = d, !.anfang = j]
      <4> HIDE DEF P
      <4> QED BY <1>18 DEF SMTPSchritt
    <3>2. s = [s EXCEPT !.ein = w] BY <1>1 DEF Station
    <3> HIDE DEF x, p, f, d, j, t, k, a, b, neu, c, g, y, zu, q, ganz
    <3>3. [[s EXCEPT !.ein = w] EXCEPT !.out = o, !.phase = p, !.geplant = f, !.druck = d, !.anfang = j]
          = [s EXCEPT !.ein = w, !.anfang = j, !.phase = p, !.out = o, !.druck = d, !.geplant = f]
      BY <1>1 DEF Station
    <3> QED BY <3>1, <3>2, <3>3
  <2>3. h = [g EXCEPT !.getippt = y]
    <3>1. h = g BY <1>18 DEF SMTPSchritt
    <3> QED BY <1>10, <3>1
  <2>4. f \in BOOLEAN /\ d \in Nat /\ (d <= s.druck \/ d = 1) /\ j \in BOOLEAN BY <1>4
  <2> HIDE DEF g, q, w, y, k, a, b, e, c, r, zu, t, h, neu, ganz, f, d, j
  <2>5. Stimmt(s, n, v, g) BY DEF g
  <2>6. /\ s.phase \in Anfang => /\ x \in Marken
                                 /\ \/ p \in Anfang /\ x \notin {"DATA", "PUNKT"}
                                    \/ p = "WarteStart" /\ x = "DATA"
        /\ s.phase = "WarteStart" => x = "KOPF" /\ p = "MailSubject"
        /\ s.phase = "Abmelden" => x = "QUIT" /\ p = "WarteEnde"
        /\ s.phase \in Anfang \/ s.phase = "WarteStart" \/ s.phase = "Abmelden"
    BY <2>1 DEF SMTPFolge, Marken, Anfang
  <2> HIDE DEF P, x, p
  <2>7. x \in Marken /\ x # "DELE" /\ (x = "DATA" => s.phase \in Anfang) BY <2>1, <2>6 DEF Marken, x, P, SMTPFolge
  <2>8. o \in Seq(Token) /\ Ohne(o, {"DELE"}) /\ (x # "DATA" => Ohne(o, Text \cup {"DATA"}))
    <3>1. x \in Token BY <2>7 DEF Token
    <3>2. x \notin {"DELE"} BY <2>7
    <3>3. x # "DATA" => x \notin Text \cup {"DATA"} BY <2>7, TextGilt
    <3> DEFINE X == Text \cup {"DATA"}
    <3> HIDE DEF X
    <3>4. x # "DATA" => Ohne(o, X) BY <3>1, <3>3, OhneEines DEF X
    <3>5. Ohne(o, {"DELE"}) BY <3>1, <3>2, OhneEines
    <3> QED BY <3>1, <3>4, <3>5, Eines DEF X
  <2> HIDE DEF o
  <2>9. p \in Anfang \cup Dabei \cup Spaet BY <2>6 DEF Dabei, Spaet
  <2>10. Versand(p, w, y, zu, Danach(zu, q, o), v)
    <3>1. CASE s.phase \in Anfang
      <4>1. y = w /\ Versand(s.phase, w, w, zu, q, v) BY <1>6, <3>1 DEF Versand
      <4>2. Versand(p, w, w, zu, Danach(zu, q, <<x>>), v)
        <5> DEFINE i == s.phase
        <5>1. /\ v \in Server /\ zu \in BOOLEAN /\ q \in Seq(Token) /\ i \in Anfang /\ w \in Seq(ElZeichen)
              /\ Versand(i, w, w, zu, q, v) /\ x \in Marken
              /\ Einleitend(p, x)
          BY <1>1, <1>3, <2>6, <3>1, <4>1 DEF Einleitend
        <5> HIDE DEF i
        <5> QED BY <5>1, VersandAnfang
      <4> QED BY <4>1, <4>2 DEF o
    <3>2. CASE s.phase = "WarteStart"
      <4>1. s.phase \in Dabei /\ p \in Dabei BY <2>6, <3>2 DEF Dabei
      <4>2. Ohne(o, Text) /\ Ohne(o, {"DATA"}) /\ Ohne(o, {"PUNKT"})
        <5>1. Ohne(o, Text \cup {"DATA"}) BY <2>6, <2>8, <3>2
        <5>2. x \in Token /\ x \notin {"PUNKT"} BY <2>6, <2>7, <3>2 DEF Token
        <5>3. Ohne(o, {"PUNKT"}) BY <5>2, OhneEines DEF o
        <5>4. Text \subseteq Text \cup {"DATA"} /\ {"DATA"} \subseteq Text \cup {"DATA"} OBVIOUS
        <5> QED BY <5>1, <5>3, <5>4, OhneWeniger
      <4>3. Buchstaben(o) = e /\ Buchstaben(e) = e BY <2>8, <4>2, BuchstabenGilt DEF e
      <4>4. e \o w = w BY <1>3, ConcatEmptySeq DEF e
      <4> QED BY <1>1, <1>3, <1>6, <1>9, <2>8, <4>1, <4>2, <4>3, <4>4, VersandText
    <3>3. CASE s.phase = "Abmelden"
      <4>1. p \notin Anfang /\ p \notin Dabei BY <2>6, <3>3 DEF Anfang, Dabei
      <4>2. Abgelehnt(v, q) \/ (Fluss(v, q) /\ Vor(Angekommen(v, q), Buchstaben(y))) BY <1>6, <3>3 DEF Versand, Spaet
      <4>3. Ohne(o, Text) /\ Ohne(o, {"DATA"})
        <5>1. Ohne(o, Text \cup {"DATA"}) BY <2>6, <2>8, <3>3
        <5>2. Text \subseteq Text \cup {"DATA"} /\ {"DATA"} \subseteq Text \cup {"DATA"} OBVIOUS
        <5> QED BY <5>1, <5>2, OhneWeniger
      <4>4. Abgelehnt(v, q) => Abgelehnt(v, Danach(zu, q, o)) BY <1>3, <2>8, <4>3, AbgelehntBleibt
      <4>5. Fluss(v, q) => Fluss(v, q \o o) BY <1>3, <2>8, <4>3, FlussMehr
      <4>6. Angekommen(v, q \o o) = Angekommen(v, q) BY <1>1, <1>3, <2>8, <4>3, AngekommenMehr
      <4>7. Danach(zu, q, o) \in {q, q \o o} BY DEF Danach
      <4> QED BY <4>1, <4>2, <4>4, <4>5, <4>6, <4>7 DEF Versand
    <3> QED BY <2>6, <3>1, <3>2, <3>3
  <2>11. Versand(p, w, y, Zu(s, n), Danach(Zu(s, n), n.hin, o), v) BY <2>10 DEF zu, q
  <2>12. t = [s EXCEPT !.ein = w, !.anfang = j, !.phase = p, !.out = o, !.druck = d, !.geplant = f] BY <2>2 DEF o
  <2>13. Fortgang(s, t, g, h, w, p, o, y) BY <1>1, <1>3, <2>3, <2>4, <2>8, <2>9, <2>12, FortgangGilt
  <2> QED BY <2>5, <2>8, <2>9, <2>11, <2>13, SchrittGilt
<1> QED BY <1>12, <1>13, <1>14, <1>15, <1>16, <1>17, <1>18

(* Only the clocks or the planned end change. *)
LEMMA NebenGilt ==
    ASSUME NEW s, NEW n, NEW v, NEW g, Stimmt(s, n, v, g), NEW u \in SUBSET ElUhren, NEW e \in BOOLEAN
    PROVE  Stimmt([s EXCEPT !.um = u], n, v, g) /\ Stimmt([s EXCEPT !.geplant = e], n, v, g)
<1> DEFINE a == [s EXCEPT !.um = u] b == [s EXCEPT !.geplant = e]
<1>1. s \in Station /\ (s.verb => s.modus # "Ruhe") BY DEF Stimmt, Fast, Art, Passend
<1>2. s.druck \in Nat BY <1>1, Stationsteile
<1>3. a \in Station /\ b \in Station BY <1>1 DEF Station
<1>4. /\ a.modus = s.modus /\ a.verb = s.verb /\ a.handle = s.handle /\ a.prot = s.prot /\ a.phase = s.phase /\ a.in = s.in
      /\ a.out = s.out /\ a.ein = s.ein /\ a.weg = s.weg /\ a.verworfen = s.verworfen /\ a.druck = s.druck
  BY <1>1 DEF Station
<1>5. /\ b.modus = s.modus /\ b.verb = s.verb /\ b.handle = s.handle /\ b.prot = s.prot /\ b.phase = s.phase /\ b.in = s.in
      /\ b.out = s.out /\ b.ein = s.ein /\ b.weg = s.weg /\ b.verworfen = s.verworfen /\ b.druck = s.druck
  BY <1>1 DEF Station
<1> HIDE DEF a, b
<1>6. Wie(s, a) /\ Erlaubt(s, a, n, g) BY <1>1, <1>2, <1>3, <1>4 DEF Wie, Erlaubt
<1>7. Wie(s, b) /\ Erlaubt(s, b, n, g) BY <1>1, <1>2, <1>3, <1>5 DEF Wie, Erlaubt
<1>8. Stimmt(a, n, v, g) /\ Stimmt(b, n, v, g) BY <1>6, <1>7, WieGilt
<1> QED BY <1>8 DEF a, b

LEMMA FreiInterneGilt ==
    ASSUME NEW s, NEW n, NEW v, NEW g, Stimmt(s, n, v, g), Frei(s)
    PROVE  /\ Stimmt(InterneVerbindungBeenden(s), n, v, g) /\ Frei(InterneVerbindungBeenden(s))
<1> DEFINE u == InterneVerbindungBeenden(s)
<1>1. s \in Station /\ (s.verb => s.modus # "Ruhe") BY DEF Stimmt, Fast, Art, Passend
<1>2. Wie(s, u) /\ Abseits(u) /\ u.modus \in {s.modus, "WarteGrundstellung", "PufferDruckUndSchluss"} BY <1>1, InterneGilt
<1> HIDE DEF u
<1>3. Erlaubt(s, u, n, g) BY <1>1, <1>2 DEF Erlaubt, Abseits, Wie
<1>4. Stimmt(u, n, v, g) BY <1>2, <1>3, WieGilt
<1>5. Frei(u) BY <1>2 DEF Frei, Wie
<1> QED BY <1>4, <1>5 DEF u

LEMMA SMTPDatenGilt ==
    ASSUME NEW s, NEW n, NEW v, Stimmt(s, n, v, elGeist), s.prot = "SMTP"
    PROVE  Stimmt(SMTPDatenVerarbeiten(s)[1], n, v, SMTPDatenVerarbeiten(s)[2])
<1>1. s \in Station /\ Frei(s) BY DEF Stimmt, Fast, Art, Frei
<1>2. CASE s.out # << >> \/ AntwortFehlt(s) BY <1>2 DEF SMTPDatenVerarbeiten
<1>3. CASE ~(s.out # << >> \/ AntwortFehlt(s)) /\ WartetAufAntwort(s) /\ s.in[1] = "err"
  <2> DEFINE u == InterneVerbindungBeenden(s) w == [u EXCEPT !.geplant = TRUE] e == << >> t == [w EXCEPT !.in = e]
  <2>1. SMTPDatenVerarbeiten(s) = <<[u EXCEPT !.geplant = TRUE, !.in = e], elGeist>>
    BY <1>3 DEF SMTPDatenVerarbeiten, SMTPWeiter
  <2>2. Stimmt(u, n, v, elGeist) /\ Frei(u) BY <1>1, FreiInterneGilt
  <2> HIDE DEF u
  <2>3. u \in Station BY <2>2 DEF Stimmt, Fast, Art
  <2>4. TRUE \in BOOLEAN /\ {} \in SUBSET ElUhren OBVIOUS
  <2>5. Stimmt(w, n, v, elGeist) BY <2>2, <2>4, NebenGilt
  <2>6. Frei(w) BY <2>2, <2>3 DEF Frei, Station
  <2>7. t = [u EXCEPT !.geplant = TRUE, !.in = e] BY <2>3 DEF Station
  <2>8. Stimmt(t, n, v, elGeist)
    <3> HIDE DEF w
    <3> QED BY <2>5, <2>6, EingangGilt
  <2> HIDE DEF t
  <2> QED BY <2>1, <2>7, <2>8
<1>4. CASE ~(s.out # << >> \/ AntwortFehlt(s)) /\ ~(WartetAufAntwort(s) /\ s.in[1] = "err")
  <2> DEFINE a == IF WartetAufAntwort(s) THEN [s EXCEPT !.in = << >>] ELSE s
             r == SMTPSchritt(a) x == r[1] h == r[2] u == x.um \ {"Vollstaendig"} t == [x EXCEPT !.um = u]
  <2>1. Stimmt(a, n, v, elGeist)
    <3>1. Stimmt([s EXCEPT !.in = << >>], n, v, elGeist) BY <1>1, EingangGilt
    <3> QED BY <3>1
  <2>2. a.prot = "SMTP" /\ a.out = << >> BY <1>1, <1>4 DEF Station
  <2>3. SMTPDatenVerarbeiten(s) = <<[x EXCEPT !.um = @ \ {"Vollstaendig"}], h>>
    BY <1>4 DEF SMTPDatenVerarbeiten, SMTPWeiter
  <2> HIDE DEF a
  <2>4. Stimmt(x, n, v, h) BY <2>1, <2>2, SMTPSchrittGilt
  <2> HIDE DEF r, x, h
  <2>5. x \in Station BY <2>4 DEF Stimmt, Fast, Art
  <2>6. u \in SUBSET ElUhren /\ TRUE \in BOOLEAN BY <2>5, Stationsteile
  <2>7. [x EXCEPT !.um = @ \ {"Vollstaendig"}] = t OBVIOUS
  <2>8. Stimmt(t, n, v, h)
    <3> HIDE DEF u
    <3> QED BY <2>4, <2>6, NebenGilt
  <2> HIDE DEF t
  <2> QED BY <2>3, <2>7, <2>8
<1> QED BY <1>2, <1>3, <1>4

(***************************************************************************)
(* POP3DatenVerarbeiten.                                                   *)
(***************************************************************************)
(* Nothing that a mail server would take for text is sent.                 *)
LEMMA PopSmtp ==
    ASSUME NEW s, NEW t, NEW n \in Netz, NEW v, NEW g, NEW h, Smtp(s, n, v, g), s.prot = "POP3", s.out = << >>,
           t.prot = "POP3", t.handle = s.handle, t.out \in Seq(Token), Ohne(t.out, Text \cup {"DATA"})
    PROVE  Smtp(t, n, v, h)
<1> DEFINE a == n.hin b == t.out X == Text \cup {"DATA"}
<1>1. a \in Seq(Token) /\ b \in Seq(Token) /\ Ohne(b, X) BY Netzteile
<1>2. Post(s, n) = a
  <2>1. a \o << >> = a BY <1>1, ConcatEmptySeq
  <2> QED BY <2>1 DEF Post
<1>3. Ohne(a, X) /\ Leer(v) BY <1>2 DEF Smtp
<1>4. Post(t, n) = a \/ Post(t, n) = a \o b BY DEF Post
<1> HIDE DEF a, b, X
<1>5. Ohne(a \o b, X) BY <1>1, <1>3, OhneVerkettet
<1>6. Ohne(Post(t, n), X) BY <1>3, <1>4, <1>5
<1> QED BY <1>3, <1>6 DEF Smtp, X

(* The next step of fetching. *)
LEMMA PopSchritt ==
    ASSUME NEW s, NEW t, NEW n, NEW v, NEW g, NEW h \in Geist, Stimmt(s, n, v, g), s.prot = "POP3", s.out = << >>,
           t \in Station, Passend(t), t.prot = "POP3", t.handle = s.handle, Ohne(t.out, Text \cup {"DATA"}),
           Loeschen(t, n, v, h), t.modus = s.modus \/ t.modus # "EmailPOPDruckend", h.gestoert = g.gestoert,
           Pop(t, n, v, h)
    PROVE  Stimmt(t, n, v, h)
<1>1. n \in Netz /\ v \in Server /\ Smtp(s, n, v, g) BY DEF Stimmt, Fast, Art
<1>2. t.out \in Seq(Token) BY Stationsteile
<1>3. Smtp(t, n, v, h) BY <1>1, <1>2, PopSmtp
<1>4. Art(t, n, v, h) BY <1>1 DEF Art
<1>5. Bus(t, n, h) BY DEF Stimmt, Fast, Bus
<1> QED BY <1>3, <1>4, <1>5 DEF Stimmt, Fast

(* Before the end nothing has been ordered. *)
LEMMA Unbestellt ==
    ASSUME NEW s, NEW n, NEW v, NEW g, Loeschen(s, n, v, g), Holt(s), s.phase \notin Spaet
    PROVE  ~Bestellt(s, n, v)
BY DEF Loeschen, Holt

LEMMA KommandoGilt ==
    ASSUME NEW s \in Station, NEW p \in Phasen, NEW k \in Marken \ {"DATA"}
    PROVE  LET t == Kommando(s, p, k)
           IN  /\ t \in Station
               /\ t.modus = s.modus /\ t.verb = s.verb /\ t.handle = s.handle /\ t.prot = s.prot /\ t.phase = p
               /\ t.in = << >> /\ t.out = <<k>> /\ t.ein = s.ein /\ t.weg = s.weg /\ t.verworfen = s.verworfen /\ t.druck = s.druck
               /\ Ohne(t.out, Text \cup {"DATA"}) /\ (k # "DELE" => Ohne(t.out, {"DELE"}))
<1> DEFINE t == Kommando(s, p, k) o == <<k>> e == << >>
<1>1. o \in Seq(Token) /\ Ohne(o, Text \cup {"DATA"}) /\ (k # "DELE" => Ohne(o, {"DELE"})) BY MarkeGilt
<1>2. e \in Seq(Token) BY OhneAlles
<1>3. t = [s EXCEPT !.phase = p, !.out = o, !.ok = FALSE, !.in = e] BY DEF Kommando
<1> HIDE DEF t, o, e
<1>4. t \in Station BY <1>1, <1>2, <1>3 DEF Station
<1>5. /\ t.modus = s.modus /\ t.verb = s.verb /\ t.handle = s.handle /\ t.prot = s.prot /\ t.phase = p
      /\ t.in = e /\ t.out = o /\ t.ein = s.ein /\ t.weg = s.weg /\ t.verworfen = s.verworfen /\ t.druck = s.druck
  BY <1>3 DEF Station
<1> QED BY <1>1, <1>4, <1>5 DEF t, o, e

LEMMA PopAbmeldenGilt ==
    ASSUME NEW s, NEW n, NEW v, NEW g, Stimmt(s, n, v, g), s.prot = "POP3", s.out = << >>
    PROVE  Stimmt(PopAbmelden(s), n, v, g)
<1> DEFINE t == Kommando(s, "WarteEnde", "QUIT")
<1>1. s \in Station /\ g \in Geist /\ Passend(s) BY DEF Stimmt, Fast, Art
<1>2. "WarteEnde" \in Phasen /\ "WarteEnde" \in Spaet /\ "QUIT" \in Marken \ {"DATA"} BY DEF Phasen, Spaet, Marken
<1>3. /\ t \in Station
      /\ t.modus = s.modus /\ t.verb = s.verb /\ t.handle = s.handle /\ t.prot = s.prot /\ t.phase = "WarteEnde"
      /\ t.in = << >> /\ t.ein = s.ein /\ t.weg = s.weg /\ t.verworfen = s.verworfen /\ t.druck = s.druck
      /\ Ohne(t.out, Text \cup {"DATA"}) /\ Ohne(t.out, {"DELE"})
  <2>1. s \in Station /\ "WarteEnde" \in Phasen /\ "QUIT" \in Marken \ {"DATA"} BY <1>1, <1>2
  <2>2. /\ t \in Station
        /\ t.modus = s.modus /\ t.verb = s.verb /\ t.handle = s.handle /\ t.prot = s.prot /\ t.phase = "WarteEnde"
        /\ t.in = << >> /\ t.ein = s.ein /\ t.weg = s.weg /\ t.verworfen = s.verworfen /\ t.druck = s.druck
        /\ Ohne(t.out, Text \cup {"DATA"})
    BY ONLY <2>1, KommandoGilt
  <2>3. "QUIT" # "DELE" => Ohne(t.out, {"DELE"}) BY ONLY <2>1, KommandoGilt
  <2> QED BY <2>2, <2>3
<1> HIDE DEF t
<1>4. Passend(t)
  <2>1. Len(t.in) = 0 BY <1>3, EmptySeq
  <2>2. s.druck <= ElDruckMax + 1
    <3>1. s.druck \in Nat BY <1>1, Stationsteile
    <3> QED BY <1>1, <3>1, Groessen DEF Passend
  <2> QED BY <1>1, <1>2, <1>3, <2>1, <2>2, Groessen DEF Passend, Phasengerecht
<1>5. Loeschen(t, n, v, g)
  <2>1. Bestellt(t, n, v) => Bestellt(s, n, v) BY <1>3 DEF Bestellt
  <2>2. Gut(s, v, g) => Gut(t, v, g) BY <1>3 DEF Gut, Gestoert
  <2> QED BY <1>2, <1>3, <2>1, <2>2 DEF Loeschen, Stimmt, Fast
<1>6. Pop(t, n, v, g)
  <2>1. Frei(t) BY <1>2, <1>3 DEF Frei
  <2> QED BY <2>1, FreiPop
<1>7. Stimmt(t, n, v, g) BY <1>1, <1>3, <1>4, <1>5, <1>6, PopSchritt
<1>8. PopAbmelden(s) = [t EXCEPT !.geplant = TRUE] BY DEF PopAbmelden, t
<1> DEFINE e == TRUE u == {}
<1>9. e \in BOOLEAN /\ u \in SUBSET ElUhren OBVIOUS
<1> HIDE DEF e, u
<1>10. Stimmt([t EXCEPT !.geplant = e], n, v, g) BY <1>7, <1>9, NebenGilt
<1> QED BY <1>8, <1>10 DEF e

(* The terminal is on: the mail is asked for. *)
LEMMA AbrufGilt ==
    ASSUME NEW s, NEW n, NEW v, NEW g, Stimmt(s, n, v, g), Holt(s), s.out = << >>,
           s.phase = "MailWarteEinschaltungDruck", s.modus = "EmailPOPDruckend"
    PROVE  Stimmt([s EXCEPT !.druck = 1, !.weg = FALSE, !.out = <<"RETR">>, !.phase = "MailData"], n, v, g)
<1> DEFINE x == "RETR" o == <<x>> t == [s EXCEPT !.druck = 1, !.weg = FALSE, !.out = o, !.phase = "MailData"]
<1>1. s \in Station /\ n \in Netz /\ g \in Geist /\ Passend(s) /\ s.prot = "POP3" BY DEF Stimmt, Fast, Art, Holt
<1>2. x \in Marken \ {"DATA"} /\ x # "DELE" BY DEF Marken
<1>3. o \in Seq(Token) /\ Ohne(o, Text \cup {"DATA"}) /\ Ohne(o, {"DELE"}) BY <1>2, MarkeGilt
<1>4. "MailData" \in Phasen /\ "MailData" \notin PopFrueh /\ s.phase \notin Spaet BY DEF Phasen, Dabei, PopFrueh, Spaet
<1> HIDE DEF x, o
<1>5. t \in Station BY <1>1, <1>3, <1>4 DEF Station
<1>6. /\ t.modus = s.modus /\ t.verb = s.verb /\ t.handle = s.handle /\ t.prot = s.prot /\ t.phase = "MailData"
      /\ t.in = s.in /\ t.out = o /\ t.ein = s.ein /\ t.weg = FALSE /\ t.verworfen = s.verworfen /\ t.druck = 1
  BY <1>1 DEF Station
<1> HIDE DEF t
<1>7. Passend(t) BY <1>1, <1>6, Groessen DEF Passend, Phasengerecht
<1>8. ~Bestellt(s, n, v) BY <1>4, Unbestellt DEF Stimmt, Fast
<1>9. Loeschen(t, n, v, g)
  <2>1. Bestellt(t, n, v) => Bestellt(s, n, v) BY <1>3, <1>6 DEF Bestellt
  <2> QED BY <1>8, <2>1 DEF Loeschen
<1>10. Pop(t, n, v, g)
  <2>1. g.gedruckt = << >> /\ s.in = << >> /\ n.hin = << >> /\ n.her = << >> BY DEF Stimmt, Pop, Wartet, Stille
  <2>2. << >> \o o = o BY <1>3, ConcatEmptySeq
  <2>3. Angefordert(t, n, g) BY <1>6, <2>1, <2>2 DEF Angefordert, o, x
  <2>4. Druckt(t, n, v, g) BY <1>6, <2>3 DEF Druckt
  <2> QED BY <1>4, <1>6, <2>4 DEF Pop
<1>11. Stimmt(t, n, v, g) BY <1>1, <1>3, <1>6, <1>5, <1>7, <1>9, <1>10, PopSchritt
<1> QED BY <1>11 DEF t, o, x

(* The log-in: the answer is all there is, the next command is too. *)
LEMMA AnmeldungGilt ==
    ASSUME NEW s, NEW n, NEW v, NEW g, Stimmt(s, n, v, g), Holt(s), s.out = << >>, s.in \notin {<< >>, <<"halb">>},
           s.phase \in PopFrueh, NEW p \in PopFrueh, NEW k \in {"USER", "PASS", "STAT"}
    PROVE  Stimmt(Kommando(s, p, k), n, v, g)
<1> DEFINE t == Kommando(s, p, k) e == << >>
<1>1. s \in Station /\ n \in Netz /\ g \in Geist /\ Passend(s) /\ s.prot = "POP3" BY DEF Stimmt, Fast, Art, Holt
<1>2. p \in Phasen /\ k \in Marken \ {"DATA"} /\ k # "DELE" /\ k \notin Fruehe BY DEF Phasen, Marken, Fruehe
<1> HIDE DEF e
<1>3. /\ t \in Station
      /\ t.modus = s.modus /\ t.verb = s.verb /\ t.handle = s.handle /\ t.prot = s.prot /\ t.phase = p
      /\ t.in = e /\ t.out = <<k>> /\ t.ein = s.ein /\ t.weg = s.weg /\ t.verworfen = s.verworfen /\ t.druck = s.druck
      /\ Ohne(t.out, Text \cup {"DATA"}) /\ Ohne(t.out, {"DELE"})
  <2>1. k \in Marken \ {"DATA"} /\ k # "DELE" /\ p \in Phasen /\ s \in Station BY <1>1, <1>2
  <2>2. /\ t \in Station
        /\ t.modus = s.modus /\ t.verb = s.verb /\ t.handle = s.handle /\ t.prot = s.prot /\ t.phase = p
        /\ t.in = << >> /\ t.out = <<k>> /\ t.ein = s.ein /\ t.weg = s.weg /\ t.verworfen = s.verworfen /\ t.druck = s.druck
        /\ Ohne(t.out, Text \cup {"DATA"})
    BY ONLY <2>1, KommandoGilt
  <2>3. k # "DELE" => Ohne(t.out, {"DELE"}) BY ONLY <2>1, KommandoGilt
  <2> QED BY <2>1, <2>2, <2>3 DEF e
<1> HIDE DEF t
<1>4. Len(e) = 0 /\ \A X : Ohne(e, X) BY OhneAlles, EmptySeq DEF e
<1>5. p \notin Spaet /\ p # "MailWarteEinschaltungDruck" /\ p # "MailData" /\ s.phase \notin Spaet BY DEF PopFrueh, Spaet
<1>6. s.modus = "EmailPOPVerbunden" /\ n.hin = e /\ n.her = e /\ g.gedruckt = e BY DEF Stimmt, Pop, Frueh, Einer, e
<1>7. Passend(t)
  <2>1. s.druck <= ElDruckMax + 1
    <3>1. s.druck \in Nat BY <1>1, Stationsteile
    <3> QED BY <1>1, <3>1, Groessen DEF Passend
  <2> QED BY <1>1, <1>3, <1>4, <1>5, <2>1, Groessen DEF Passend, Phasengerecht
<1>8. ~Bestellt(s, n, v) BY <1>5, Unbestellt DEF Stimmt, Fast
<1>9. Loeschen(t, n, v, g)
  <2>1. Bestellt(t, n, v) => Bestellt(s, n, v) BY <1>3 DEF Bestellt
  <2> QED BY <1>8, <2>1 DEF Loeschen
<1>10. Pop(t, n, v, g)
  <2>1. k \in Token BY <1>2 DEF Token
  <2>2. Len(t.out) = 1 /\ Ohne(t.out, Fruehe) BY <1>2, <1>3, <2>1, Eines, OhneEines
  <2>3. Einer(t, n)
    <3>1. Len(t.out) + Len(n.hin) + Len(n.her) <= 1 BY <1>4, <1>6, <2>2
    <3> QED BY <1>3, <3>1 DEF Einer, e
  <2>4. Frueh(t, n, g) BY <1>3, <1>4, <1>6, <2>2, <2>3 DEF Frueh, e
  <2> QED BY <1>3, <1>5, <2>4 DEF Pop
<1>11. Stimmt(t, n, v, g) BY <1>1, <1>3, <1>7, <1>9, <1>10, PopSchritt
<1> QED BY <1>11 DEF t

(* There are mails: the terminal is switched on. *)
LEMMA EinschaltungGilt ==
    ASSUME NEW s, NEW n, NEW v, NEW g, Stimmt(s, n, v, g), Holt(s), s.out = << >>, s.in \notin {<< >>, <<"halb">>},
           s.phase \in PopFrueh
    PROVE  Stimmt(ModusWechsel([s EXCEPT !.phase = "MailWarteEinschaltungDruck", !.in = << >>], "EmailPOPWarteEinQuitt"),
                  n, v, g)
<1> DEFINE e == << >> m == "EmailPOPWarteEinQuitt" p == "MailWarteEinschaltungDruck"
           a == [s EXCEPT !.phase = p, !.in = e] u == a.um \ ({"Ruhig"} \cup {})
           t == ModusWechsel(a, m)
<1>1. s \in Station /\ n \in Netz /\ g \in Geist /\ Passend(s) /\ s.prot = "POP3" BY DEF Stimmt, Fast, Art, Holt
<1>2. e \in Seq(Token) /\ e \in Seq(ElZeichen) /\ Len(e) = 0 /\ \A X : Ohne(e, X) BY OhneAlles, EmptySeq
<1>3. p \in Phasen /\ m \in ElModi /\ p \notin PopFrueh /\ p \notin Spaet /\ s.phase \notin Spaet
  BY DEF Phasen, ElModi, PopFrueh, Spaet
<1>4. t = [a EXCEPT !.modus = m, !.um = u, !.druck = a.druck, !.ein = e] BY DEF ModusWechsel
<1> HIDE DEF e, t
<1>5. a \in Station BY <1>1, <1>2, <1>3 DEF Station
<1>6. /\ a.verb = s.verb /\ a.handle = s.handle /\ a.prot = s.prot /\ a.phase = p
      /\ a.in = e /\ a.out = s.out /\ a.weg = s.weg /\ a.verworfen = s.verworfen /\ a.druck = s.druck
  BY <1>1 DEF Station
<1> HIDE DEF a
<1>7. u \in SUBSET ElUhren /\ a.druck \in Nat BY <1>5, Stationsteile
<1> HIDE DEF u
<1>8. t \in Station BY <1>2, <1>3, <1>4, <1>5, <1>7 DEF Station
<1>9. /\ t.modus = m /\ t.verb = a.verb /\ t.handle = a.handle /\ t.prot = a.prot /\ t.phase = a.phase
      /\ t.in = a.in /\ t.out = a.out /\ t.weg = a.weg /\ t.verworfen = a.verworfen /\ t.druck = a.druck
  BY <1>4, <1>5 DEF Station
<1>10. n.hin = e /\ n.her = e /\ g.gedruckt = e /\ s.out = e BY DEF Stimmt, Pop, Frueh, Einer, e
<1>11. Passend(t)
  <2>1. s.druck <= ElDruckMax + 1
    <3>1. s.druck \in Nat BY <1>1, Stationsteile
    <3> QED BY <1>1, <3>1, Groessen DEF Passend
  <2> QED BY <1>1, <1>2, <1>6, <1>9, <2>1, Groessen DEF Passend, Phasengerecht
<1>12. ~Bestellt(s, n, v) BY <1>3, Unbestellt DEF Stimmt, Fast
<1>13. Loeschen(t, n, v, g)
  <2>1. Bestellt(t, n, v) => Bestellt(s, n, v) BY <1>6, <1>9 DEF Bestellt
  <2> QED BY <1>12, <2>1 DEF Loeschen
<1>14. Pop(t, n, v, g)
  <2>1. Wartet(t, n, g) BY <1>6, <1>9, <1>10 DEF Wartet, Stille, e
  <2> QED BY <1>3, <1>6, <1>9, <2>1 DEF Pop
<1>15. Ohne(t.out, Text \cup {"DATA"}) BY <1>2, <1>6, <1>9, <1>10
<1>16. t.prot = "POP3" /\ t.handle = s.handle /\ t.modus # "EmailPOPDruckend" BY <1>1, <1>6, <1>9
<1>17. Stimmt(t, n, v, g) BY <1>1, <1>8, <1>11, <1>13, <1>14, <1>15, <1>16, PopSchritt
<1> QED BY <1>17 DEF t, a, e

(***************************************************************************)
(* The lines of the mail.                                                  *)
(***************************************************************************)
LEMMA Stueck ==
    ASSUME NEW W \in Seq(Token), NEW k \in Nat, NEW a \in Seq(Token), k + Len(a) <= Len(W),
           \A i \in 1 .. Len(a) : a[i] = W[k + i]
    PROVE  SubSeq(W, 1, k + Len(a)) = SubSeq(W, 1, k) \o a
<1> DEFINE m == Len(a) N == Len(W) j == k + m c == SubSeq(W, 1, k) d == SubSeq(W, 1, j) f == c \o a
<1>1. m \in Nat /\ N \in Nat /\ k + m <= N BY LenProperties
<1> HIDE DEF m, N
<1>2. k \in 0 .. N /\ j \in 0 .. N BY <1>1
<1> HIDE DEF j
<1>3. c \in Seq(Token) /\ Len(c) = k /\ \A i \in 1 .. k : c[i] = W[i] BY <1>2, Geteilt DEF N
<1>4. d \in Seq(Token) /\ Len(d) = j /\ \A i \in 1 .. j : d[i] = W[i] BY <1>2, Geteilt DEF N
<1> HIDE DEF c, d
<1>5. f \in Seq(Token) /\ Len(f) = Len(c) + m /\ \A i \in 1 .. Len(c) + m : f[i] = IF i <= Len(c) THEN c[i] ELSE a[i - Len(c)]
  BY <1>3, ConcatProperties DEF m
<1> HIDE DEF f
<1>6. Len(f) = Len(d) BY <1>3, <1>4, <1>5 DEF j
<1>7. ASSUME NEW i \in 1 .. Len(d) PROVE d[i] = f[i]
  <2>1. i \in 1 .. j /\ i \in 1 .. Len(c) + m BY <1>3, <1>4 DEF j
  <2>2. d[i] = W[i] BY <1>4, <2>1
  <2>3. CASE i <= k
    <3>1. i \in 1 .. k BY <1>2, <2>1, <2>3 DEF j
    <3>2. f[i] = c[i] /\ c[i] = W[i] BY <1>3, <1>5, <2>1, <2>3, <3>1
    <3> QED BY <2>2, <3>2
  <2>4. CASE ~(i <= k)
    <3>1. i - k \in 1 .. m /\ k + (i - k) = i BY <1>1, <2>1, <2>4 DEF j
    <3>2. f[i] = a[i - k] BY <1>3, <1>5, <2>1, <2>4
    <3>3. a[i - k] = W[k + (i - k)] BY <3>1 DEF m
    <3> QED BY <2>2, <3>1, <3>2, <3>3
  <2> QED BY <2>3, <2>4
<1>8. d = f BY <1>4, <1>5, <1>6, <1>7, SeqEqual
<1> QED BY <1>8 DEF d, f, c, j, m

LEMMA PasstRest ==
    ASSUME NEW q \in Seq(Token), NEW h \in Seq(Token), NEW W, Len(W) \in Nat, NEW k \in Nat, NEW m \in 0 .. Len(q),
           Passt(q \o h, W, k)
    PROVE  Passt(SubSeq(q, m + 1, Len(q)) \o h, W, k + m)
<1> DEFINE r == SubSeq(q, m + 1, Len(q)) f == q \o h e == r \o h
<1>1. r \in Seq(Token) /\ Len(r) = Len(q) - m /\ \A i \in 1 .. Len(q) - m : r[i] = q[m + i] BY Geteilt
<1>2. /\ Len(q) \in Nat /\ Len(h) \in Nat /\ Len(f) = Len(q) + Len(h)
      /\ \A i \in 1 .. Len(q) + Len(h) : f[i] = IF i <= Len(q) THEN q[i] ELSE h[i - Len(q)]
  BY LenProperties, ConcatProperties
<1> HIDE DEF r
<1>3. /\ Len(e) = Len(r) + Len(h)
      /\ \A i \in 1 .. Len(r) + Len(h) : e[i] = IF i <= Len(r) THEN r[i] ELSE h[i - Len(r)]
  BY <1>1, ConcatProperties
<1>4. k + Len(f) <= Len(W) /\ \A i \in 1 .. Len(f) : f[i] = W[k + i] BY DEF Passt
<1> HIDE DEF f, e
<1>5. Len(e) = Len(f) - m /\ Len(f) \in Nat BY <1>1, <1>2, <1>3
<1>6. (k + m) + Len(e) <= Len(W) BY <1>4, <1>5
<1>7. ASSUME NEW i \in 1 .. Len(e) PROVE e[i] = W[(k + m) + i]
  <2>1. m + i \in 1 .. Len(f) /\ k + (m + i) = (k + m) + i BY <1>5
  <2>2. f[m + i] = W[(k + m) + i] BY <1>4, <2>1
  <2>3. m + i \in 1 .. Len(q) + Len(h) /\ i \in 1 .. Len(r) + Len(h) BY <1>2, <1>3, <2>1
  <2>4. CASE i <= Len(r)
    <3>1. m + i <= Len(q) /\ i \in 1 .. Len(q) - m BY <1>1, <1>2, <2>4
    <3>2. e[i] = r[i] /\ r[i] = q[m + i] BY <1>1, <1>3, <2>3, <2>4, <3>1
    <3>3. f[m + i] = q[m + i] BY <1>2, <2>3, <3>1
    <3> QED BY <2>2, <3>2, <3>3
  <2>5. CASE ~(i <= Len(r))
    <3>1. ~(m + i <= Len(q)) /\ (m + i) - Len(q) = i - Len(r) BY <1>1, <1>2, <2>5
    <3>2. e[i] = h[i - Len(r)] BY <1>3, <2>3, <2>5
    <3>3. f[m + i] = h[(m + i) - Len(q)] BY <1>2, <2>3, <3>1
    <3> QED BY <2>2, <3>1, <3>2, <3>3
  <2> QED BY <2>4, <2>5
<1> QED BY <1>6, <1>7 DEF Passt, e, r

(* The first line is complete in what has been received. *)
LEMMA ErsteZeile ==
    ASSUME NEW v \in Server, NEW W \in Antwort(v), NEW k \in 0 .. Len(W), NEW b, NEW q \in Seq(Token),
           Gepuffert(b, q, W, k), Passt(q, W, k), ~Fertig(b), ~IstEnde(b)
    PROVE  LET m == Zeilenlaenge(b)
           IN  /\ m \in 1 .. Len(q) /\ b[1] = q[1] /\ q[1] = W[k + 1] /\ q[1] # "punkt"
               /\ m = 2 => q[1] = "lang" /\ q[2] = W[k + 2] /\ q[2] \in {"lang", "zeile"}
               /\ m \in {1, 2}
               /\ SubSeq(b, 1, m) = SubSeq(q, 1, m)
               /\ Gepuffert(SubSeq(b, m + 1, Len(b)), SubSeq(q, m + 1, Len(q)), W, k + m)
               /\ Len(b) \in Nat /\ m <= Len(b) /\ b \in Seq(Token)
<1> DEFINE m == Zeilenlaenge(b) N == Len(W) l == Len(q) halb == "halb"
           a == SubSeq(q, 1, m) r == SubSeq(q, m + 1, l)
<1>1. N \in Nat /\ k \in Nat /\ l \in Nat BY AntwortGilt, LenProperties
<1>2. /\ \A i \in 1 .. N : W[i] = "punkt" => i = N
      /\ \A i \in 1 .. N : W[i] = "lang" => i < N /\ W[i + 1] \in {"lang", "zeile"}
  BY AntwortGilt
<1>3. k + l <= N /\ \A i \in 1 .. l : q[i] = W[k + i] BY DEF Passt
<1>4. q # << >>
  <2> SUFFICES ASSUME q = << >> PROVE FALSE OBVIOUS
  <2>1. Append(<< >>, "halb") = <<"halb">> OBVIOUS
  <2> QED BY <2>1 DEF Gepuffert, Fertig
<1>5. l \in Nat \ {0} BY <1>4, EmptySeq
<1>6. 1 \in 1 .. l /\ k + 1 \in 1 .. N BY <1>1, <1>3, <1>5
<1>7. q[1] = W[k + 1] BY <1>3, <1>6
<1>8. halb \in Token BY DEF Token
<1>9. b = q \/ (b = Append(q, halb) /\ k + l < N /\ q[l] # "lang") BY <1>4 DEF Gepuffert
<1>10. b[1] = q[1] /\ b \in Seq(Token) /\ Len(b) \in {l, l + 1} /\ \A i \in 1 .. l : b[i] = q[i]
  <2> HIDE DEF halb
  <2>1. /\ Append(q, halb) \in Seq(Token) /\ Len(Append(q, halb)) = l + 1
        /\ \A i \in 1 .. l : Append(q, halb)[i] = q[i]
    BY <1>8, AppendProperties DEF l
  <2> QED BY <1>6, <1>9, <2>1 DEF l
<1>11. q[1] # "punkt"
  <2> SUFFICES ASSUME q[1] = "punkt" PROVE FALSE OBVIOUS
  <2>1. k + 1 = N BY <1>2, <1>6, <1>7
  <2>2. l = 1
    <3> HIDE DEF l, N
    <3>1. k + l <= N /\ k + 1 = N /\ l # 0 BY <1>3, <1>5, <2>1
    <3> QED BY <1>1, <3>1
  <2>3. b = q BY <1>1, <1>9, <2>1, <2>2
  <2>4. "punkt" \in Token BY DEF Token
  <2>5. <<"punkt">> \in Seq(Token) /\ Len(<<"punkt">>) = 1 /\ <<"punkt">>[1] = "punkt" BY <2>4, Eines
  <2>6. q = <<"punkt">>
    <3> DEFINE p == <<"punkt">>
    <3>1. p \in Seq(Token) /\ Len(q) = Len(p) /\ \A i \in 1 .. Len(q) : q[i] = p[i] BY <2>2, <2>5
    <3> HIDE DEF p
    <3>2. q = p BY <3>1, SeqEqual
    <3> QED BY <3>2 DEF p
  <2> QED BY <2>3, <2>6 DEF IstEnde
<1>12. m \in {1, 2} /\ (m = 2 <=> b[1] = "lang" /\ Len(b) > 1) BY DEF Zeilenlaenge
<1> HIDE DEF m
<1>13. m \in 1 .. l
  <2> HIDE DEF l
  <2> SUFFICES ASSUME m = 2, l = 1 PROVE FALSE BY <1>5, <1>12
  <2>1. q[l] = "lang" BY <1>10, <1>12
  <2>2. Len(b) > 1 BY <1>12
  <2>3. b # q
    <3>1. ~(l > 1) OBVIOUS
    <3> QED BY <2>2, <3>1 DEF l
  <2> QED BY <1>9, <2>1, <2>3
<1>14. m = 2 => q[1] = "lang" /\ q[2] = W[k + 2] /\ q[2] \in {"lang", "zeile"}
  <2> SUFFICES ASSUME m = 2 PROVE q[1] = "lang" /\ q[2] = W[k + 2] /\ q[2] \in {"lang", "zeile"} OBVIOUS
  <2>1. 2 \in 1 .. l /\ (k + 1) + 1 = k + 2 BY <1>1, <1>13
  <2>2. q[1] = "lang" BY <1>10, <1>12
  <2>3. W[k + 2] \in {"lang", "zeile"} BY <1>2, <1>6, <1>7, <2>1, <2>2
  <2> QED BY <1>3, <2>1, <2>2, <2>3
<1> HIDE DEF l
<1>15. m \in 0 .. l /\ m \in Nat BY <1>1, <1>13
<1>16. /\ a \in Seq(Token) /\ Len(a) = m /\ r \in Seq(Token) /\ Len(r) = l - m
       /\ \A i \in 1 .. m : a[i] = q[i]
       /\ \A i \in 1 .. l - m : r[i] = q[m + i]
  BY <1>15, Geteilt DEF l
<1>17. m \in 0 .. Len(b) /\ Len(b) \in Nat BY <1>1, <1>10, <1>15
<1> DEFINE c == SubSeq(b, 1, m) d == SubSeq(b, m + 1, Len(b))
<1>18. /\ c \in Seq(Token) /\ Len(c) = m /\ d \in Seq(Token) /\ Len(d) = Len(b) - m
       /\ \A i \in 1 .. m : c[i] = b[i]
       /\ \A i \in 1 .. Len(b) - m : d[i] = b[m + i]
  BY <1>10, <1>17, Geteilt
<1> HIDE DEF a, r, c, d
<1>19. c = a
  <2>1. \A i \in 1 .. m : i \in 1 .. l BY <1>1, <1>15
  <2>2. \A i \in 1 .. Len(c) : c[i] = a[i] BY <1>10, <1>16, <1>18, <2>1
  <2> QED BY <1>16, <1>18, <2>2, SeqEqual
<1>20. Gepuffert(d, r, W, k + m)
  <2>1. CASE b = q BY <2>1 DEF Gepuffert, d, r, l
  <2>2. CASE b = Append(q, halb) /\ k + l < N /\ q[l] # "lang"
    <3> HIDE DEF halb
    <3>1. /\ Len(b) = l + 1 /\ (\A i \in 1 .. l : b[i] = q[i]) /\ b[l + 1] = halb
      BY <1>8, <2>2, AppendProperties DEF l
    <3> DEFINE f == Append(r, halb)
    <3>2. /\ f \in Seq(Token) /\ Len(f) = Len(r) + 1 /\ (\A i \in 1 .. Len(r) : f[i] = r[i]) /\ f[Len(r) + 1] = halb
      BY <1>8, <1>16, AppendProperties
    <3> HIDE DEF f
    <3>3. Len(d) = Len(f) BY <1>1, <1>15, <1>16, <1>18, <3>1, <3>2
    <3>4. ASSUME NEW i \in 1 .. Len(d) PROVE d[i] = f[i]
      <4>1. i \in 1 .. Len(b) - m /\ d[i] = b[m + i] BY <1>18
      <4>2. CASE i <= l - m
        <5>1. i \in 1 .. l - m /\ m + i \in 1 .. l BY <1>1, <1>15, <4>1, <4>2
        <5>2. f[i] = r[i] /\ r[i] = q[m + i] BY <1>16, <3>2, <5>1
        <5> QED BY <3>1, <4>1, <5>1, <5>2
      <4>3. CASE ~(i <= l - m)
        <5>1. m + i = l + 1 /\ i = Len(r) + 1 BY <1>1, <1>15, <1>16, <3>1, <4>1, <4>3
        <5> QED BY <3>1, <3>2, <4>1, <5>1
      <4> QED BY <4>2, <4>3
    <3>5. d = f BY <1>18, <3>2, <3>3, <3>4, SeqEqual
    <3>6. (k + m) + Len(r) < Len(W) BY <1>1, <1>15, <1>16, <2>2
    <3>7. r = << >> \/ r[Len(r)] # "lang"
      <4> SUFFICES ASSUME r # << >> PROVE r[Len(r)] # "lang" OBVIOUS
      <4>1. Len(r) \in Nat \ {0} BY <1>16, EmptySeq
      <4>2. Len(r) \in 1 .. l - m /\ m + Len(r) = l BY <1>1, <1>15, <1>16, <4>1
      <4>3. r[Len(r)] = q[l] BY <1>16, <4>2
      <4> QED BY <2>2, <4>3
    <3> QED BY <3>5, <3>6, <3>7 DEF Gepuffert, f, halb
  <2> QED BY <1>9, <2>1, <2>2
<1>21. m <= Len(b) BY <1>17
<1> QED BY <1>7, <1>10, <1>11, <1>12, <1>13, <1>14, <1>17, <1>19, <1>20, <1>21 DEF m, a, c, d, r, l

(* What is printed of it is what is to be printed of the answer. *)
LEMMA ErsteZeileGedruckt ==
    ASSUME NEW v \in Server, NEW W \in Antwort(v), NEW k \in 0 .. Len(W), NEW b, NEW q \in Seq(Token),
           Gepuffert(b, q, W, k), Passt(q, W, k), ~Fertig(b), ~IstEnde(b), b[1] # "html"
    PROVE  LET m == Zeilenlaenge(b)
           IN  Auswahl(SubSeq(W, 1, k + m), Zeilen)
                   = Auswahl(SubSeq(W, 1, k), Zeilen) \o (IF b[1] \in {"kopf", "ok", "err"} THEN << >> ELSE SubSeq(b, 1, m))
<1> DEFINE m == Zeilenlaenge(b) a == SubSeq(b, 1, m) c == SubSeq(W, 1, k) e == << >>
<1>1. W \in Seq(Token) /\ Len(W) \in Nat /\ k \in Nat BY AntwortGilt
<1>2. \A i \in 1 .. Len(W) : W[i] \in {"ok", "err", "kopf", "html", "lang", "zeile", "punkt"} BY AntwortGilt
<1>3. /\ m \in 1 .. Len(q) /\ b[1] = q[1] /\ q[1] = W[k + 1] /\ q[1] # "punkt"
      /\ m = 2 => q[1] = "lang" /\ q[2] = W[k + 2] /\ q[2] \in {"lang", "zeile"}
      /\ m \in {1, 2} /\ SubSeq(b, 1, m) = SubSeq(q, 1, m)
  BY ErsteZeile
<1>4. Len(q) \in Nat /\ k + Len(q) <= Len(W) /\ \A i \in 1 .. Len(q) : q[i] = W[k + i] BY LenProperties DEF Passt
<1> HIDE DEF m
<1>5. m \in 0 .. Len(q) /\ m \in Nat BY <1>3, <1>4
<1>6. a = SubSeq(q, 1, m) BY <1>3
<1> HIDE DEF a
<1>7. a \in Seq(Token) /\ Len(a) = m /\ \A i \in 1 .. m : a[i] = q[i] BY <1>5, <1>6, Geteilt
<1>8. k + Len(a) <= Len(W) BY <1>1, <1>4, <1>5, <1>7
<1>9. \A i \in 1 .. Len(a) : a[i] = W[k + i]
  <2>1. \A i \in 1 .. m : i \in 1 .. Len(q) BY <1>4, <1>5
  <2> QED BY <1>4, <1>7, <2>1
<1>10. SubSeq(W, 1, k + m) = c \o a BY <1>1, <1>7, <1>8, <1>9, Stueck
<1>11. c \in Seq(Token)
  <2>1. k \in 0 .. Len(W) OBVIOUS
  <2> QED BY <1>1, <2>1, Geteilt
<1> HIDE DEF c
<1>12. Auswahl(c \o a, Zeilen) = Auswahl(c, Zeilen) \o Auswahl(a, Zeilen) BY <1>7, <1>11, AuswahlVerkettet
<1>13. a[1] = q[1] /\ k + 1 \in 1 .. Len(W) /\ q[1] \in {"ok", "err", "kopf", "lang", "zeile"}
  <2>1. 1 \in 1 .. m /\ k + 1 \in 1 .. Len(W) BY <1>1, <1>3, <1>4
  <2> QED BY <1>2, <1>3, <1>7, <2>1
<1>14. \A i \in 1 .. Len(a) : i = 1 \/ (i = 2 /\ m = 2) BY <1>3, <1>7
<1>15. CASE q[1] \in {"ok", "err", "kopf"}
  <2>1. m # 2 BY <1>3, <1>15
  <2>2. \A i \in 1 .. Len(a) : a[i] \notin Zeilen BY <1>13, <1>14, <1>15, <2>1 DEF Zeilen
  <2>3. Auswahl(a, Zeilen) = e BY <1>7, <2>2, AuswahlOhne
  <2> QED BY <1>3, <1>10, <1>12, <1>15, <2>3 DEF m, c
<1>16. CASE q[1] \in {"lang", "zeile"}
  <2>1. \A i \in 1 .. Len(a) : a[i] \in Zeilen
    <3> SUFFICES ASSUME NEW i \in 1 .. Len(a) PROVE a[i] \in Zeilen OBVIOUS
    <3>1. CASE i = 1 BY <1>13, <1>16, <3>1 DEF Zeilen
    <3>2. CASE i = 2 /\ m = 2
      <4>1. a[i] = q[2] BY <1>7, <3>2
      <4> QED BY <1>3, <3>2, <4>1 DEF Zeilen
    <3> QED BY <1>14, <3>1, <3>2
  <2>2. Auswahl(a, Zeilen) = a BY <1>7, <2>1, AuswahlAlle
  <2>3. q[1] \notin {"kopf", "ok", "err"} BY <1>16
  <2> QED BY <1>3, <1>10, <1>12, <2>2, <2>3 DEF m, a, c
<1> QED BY <1>13, <1>15, <1>16

(* A line leaves the rest of the answer as it was. *)
Zustand == [b : Seq(Token), druck : Nat, weg : BOOLEAN, gedruckt : Seq(Token), voll : BOOLEAN]

LEMMA MailZeileGelesen ==
    ASSUME NEW v \in Server, NEW W \in Antwort(v), NEW h \in Seq(Token), NEW z \in Zustand, ~z.weg,
           NEW k \in 0 .. Len(W), Gelesen(z.b, h, W, k, z.gedruckt), ~Fertig(z.b), ~IstEnde(z.b)
    PROVE  LET y == MailZeile(z)
           IN  y.weg \/ \E j \in 0 .. Len(W) : Gelesen(y.b, h, W, j, y.gedruckt)
<1> DEFINE y == MailZeile(z) b == z.b m == Zeilenlaenge(b)
           x == IF b[1] \in {"kopf", "ok", "err"} THEN << >> ELSE SubSeq(b, 1, m)
           d == SubSeq(b, m + 1, Len(b))
<1>1. PICK q \in Seq(Token) : Gepuffert(b, q, W, k) /\ Passt(q \o h, W, k) BY DEF Gelesen
<1>2. Len(W) \in Nat /\ k \in Nat BY AntwortGilt
<1>3. Passt(q, W, k) BY <1>1, <1>2, PasstKuerzer
<1>4. m \in 1 .. Len(q) /\ Gepuffert(d, SubSeq(q, m + 1, Len(q)), W, k + m) BY <1>1, <1>3, ErsteZeile
<1>5. b[1] # "html" => Auswahl(SubSeq(W, 1, k + m), Zeilen) = z.gedruckt \o x
  <2>1. z.gedruckt = Auswahl(SubSeq(W, 1, k), Zeilen) BY DEF Gelesen
  <2>2. b[1] # "html" => Auswahl(SubSeq(W, 1, k + m), Zeilen) = Auswahl(SubSeq(W, 1, k), Zeilen) \o x
    BY <1>1, <1>3, ErsteZeileGedruckt
  <2> QED BY <2>1, <2>2
<1>6. \/ y = [z EXCEPT !.voll = TRUE]
      \/ y.b = d /\ y.gedruckt = z.gedruckt \o x /\ y.weg = (z.weg \/ b[1] = "html")
  BY DEF MailZeile, Zustand
<1>7. CASE y = [z EXCEPT !.voll = TRUE]
  <2>1. y.b = z.b /\ y.gedruckt = z.gedruckt BY <1>7 DEF Zustand
  <2> QED BY <2>1
<1>8. CASE y.b = d /\ y.gedruckt = z.gedruckt \o x /\ y.weg = (z.weg \/ b[1] = "html")
  <2> SUFFICES ASSUME b[1] # "html" PROVE \E j \in 0 .. Len(W) : Gelesen(y.b, h, W, j, y.gedruckt) BY <1>8
  <2> HIDE DEF m, x, d, y
  <2>1. Len(q) \in Nat /\ k + Len(q) <= Len(W) BY <1>3, LenProperties DEF Passt
  <2>2. m \in 0 .. Len(q) /\ k + m \in 0 .. Len(W) BY <1>2, <1>4, <2>1
  <2> DEFINE r == SubSeq(q, m + 1, Len(q))
  <2>3. Passt(r \o h, W, k + m) BY <1>1, <1>2, <2>2, PasstRest
  <2>4. r \in Seq(Token) BY <2>2, Geteilt
  <2>5. Gepuffert(y.b, r, W, k + m) BY <1>4, <1>8
  <2> HIDE DEF r
  <2>6. Gelesen(y.b, h, W, k + m, y.gedruckt) BY <1>5, <1>8, <2>3, <2>4, <2>5 DEF Gelesen
  <2> QED BY <2>2, <2>6
<1> QED BY <1>6, <1>7, <1>8

LEMMA MailZeileArt ==
    ASSUME NEW z \in Zustand, z.druck <= ElDruckMax, ~Fertig(z.b)
    PROVE  LET y == MailZeile(z)
           IN  y \in Zustand /\ y.druck <= ElDruckMax /\ Len(y.b) <= Len(z.b) /\ (z.weg => y.weg)
<1> DEFINE y == MailZeile(z) b == z.b m == Zeilenlaenge(b) e == << >> a == SubSeq(b, 1, m) w == z.weg \/ b[1] = "html"
           x == IF z.weg \/ b[1] \in {"kopf", "ok", "err"} THEN e ELSE a
           c == SubSeq(b, m + 1, Len(b)) g == z.gedruckt \o x d == IF x # e THEN z.druck + 1 ELSE z.druck
<1>1. b \in Seq(Token) /\ z.druck \in Nat /\ z.weg \in BOOLEAN /\ z.gedruckt \in Seq(Token) /\ z.voll \in BOOLEAN
  BY DEF Zustand
<1>2. e \in Seq(Token) BY EmptySeq
<1>3. b # e BY DEF Fertig
<1>4. Len(b) \in Nat \ {0} BY <1>1, <1>3, EmptySeq
<1>5. m = 1 \/ (m = 2 /\ Len(b) > 1) BY DEF Zeilenlaenge
<1>6. y = IF x # e /\ z.druck >= ElDruckMax THEN [z EXCEPT !.voll = TRUE]
          ELSE [z EXCEPT !.b = c, !.gedruckt = g, !.druck = d, !.weg = w]
  BY DEF MailZeile
<1> HIDE DEF b, m, e
<1>7. m \in 0 .. Len(b) /\ m \in Nat BY <1>4, <1>5
<1>8. a \in Seq(Token) /\ c \in Seq(Token) /\ Len(c) = Len(b) - m BY <1>1, <1>7, Geteilt
<1>9. Len(c) <= Len(b) BY <1>4, <1>7, <1>8
<1> HIDE DEF a, c
<1>10. x \in Seq(Token) BY <1>2, <1>8
<1>11. g \in Seq(Token) BY <1>1, <1>10, ConcatProperties
<1>12. w \in BOOLEAN /\ (z.weg => w) BY <1>1
<1> HIDE DEF x, g, w
<1>13. d \in Nat BY <1>1
<1>14. CASE x # e /\ z.druck >= ElDruckMax
  <2>1. y = [z EXCEPT !.voll = TRUE] BY <1>6, <1>14
  <2> HIDE DEF y
  <2>2. y \in Zustand BY <2>1 DEF Zustand
  <2>3. y.b = b /\ y.druck = z.druck /\ y.weg = z.weg BY <2>1 DEF Zustand, b
  <2>4. Len(y.b) <= Len(b) BY <1>4, <2>3
  <2> QED BY <2>2, <2>3, <2>4 DEF y, b
<1>15. CASE ~(x # e /\ z.druck >= ElDruckMax)
  <2>1. y = [z EXCEPT !.b = c, !.gedruckt = g, !.druck = d, !.weg = w] BY <1>6, <1>15
  <2>2. d <= ElDruckMax BY <1>1, <1>15, Groessen
  <2> HIDE DEF y, d
  <2>3. y \in Zustand BY <1>8, <1>11, <1>12, <1>13, <2>1 DEF Zustand
  <2>4. y.b = c /\ y.druck = d /\ y.weg = w BY <2>1 DEF Zustand
  <2> QED BY <1>9, <1>12, <2>2, <2>3, <2>4 DEF y, b
<1> QED BY <1>14, <1>15

InArbeit(z, s, h, W, frei) ==
    /\ z \in Zustand /\ z.druck <= ElDruckMax /\ Len(z.b) <= Len(s.in)
    /\ s.weg => z.weg
    /\ frei \/ z.weg \/ \E k \in 0 .. Len(W) : Gelesen(z.b, h, W, k, z.gedruckt)

LEMMA WeiterGilt ==
    ASSUME NEW v \in Server, NEW W \in Antwort(v), NEW h \in Seq(Token), NEW s \in Station, NEW frei, NEW z,
           InArbeit(z, s, h, W, frei)
    PROVE  InArbeit(Weiter(z), s, h, W, frei)
<1>1. CASE z.voll \/ Fertig(z.b) \/ IstEnde(z.b) BY <1>1 DEF Weiter
<1>2. CASE ~(z.voll \/ Fertig(z.b) \/ IstEnde(z.b))
  <2> DEFINE y == MailZeile(z)
  <2>1. Weiter(z) = y BY <1>2 DEF Weiter
  <2>2. z \in Zustand /\ z.druck <= ElDruckMax /\ ~Fertig(z.b) /\ ~IstEnde(z.b) BY <1>2 DEF InArbeit
  <2>3. y \in Zustand /\ y.druck <= ElDruckMax /\ Len(y.b) <= Len(z.b) /\ (z.weg => y.weg) BY <2>2, MailZeileArt
  <2>4. ~z.weg /\ (\E k \in 0 .. Len(W) : Gelesen(z.b, h, W, k, z.gedruckt)) =>
            y.weg \/ \E k \in 0 .. Len(W) : Gelesen(y.b, h, W, k, y.gedruckt)
    BY <2>2, MailZeileGelesen
  <2> HIDE DEF y
  <2>5. Len(y.b) <= Len(s.in)
    <3> DEFINE i == Len(y.b) j == Len(z.b) k == Len(s.in)
    <3>1. y.b \in Seq(Token) /\ z.b \in Seq(Token) /\ s.in \in Seq(Token) BY <2>2, <2>3, Stationsteile DEF Zustand
    <3>2. i \in Nat /\ j \in Nat /\ k \in Nat /\ i <= j /\ j <= k BY <2>3, <3>1, LenProperties DEF InArbeit
    <3> HIDE DEF i, j, k
    <3>3. i <= k BY <3>2
    <3> QED BY <3>3 DEF i, k
  <2>6. InArbeit(y, s, h, W, frei) BY <2>3, <2>4, <2>5 DEF InArbeit
  <2> QED BY <2>1, <2>6
<1> QED BY <1>1, <1>2

LEMMA MailZeilenGilt ==
    ASSUME NEW v \in Server, NEW W \in Antwort(v), NEW h \in Seq(Token), NEW s \in Station, NEW frei, elGeist \in Geist,
           s.druck <= ElDruckMax,
           frei \/ s.weg \/ \E k \in 0 .. Len(W) : Gelesen(s.in, h, W, k, elGeist.gedruckt)
    PROVE  InArbeit(MailZeilen(s), s, h, W, frei)
<1> DEFINE N == ElInMax
           a == [b |-> s.in, druck |-> s.druck, weg |-> s.weg, gedruckt |-> elGeist.gedruckt, voll |-> FALSE]
           R(f) == f = [i \in 0 .. N |-> IF i = 0 THEN a ELSE Weiter(f[i - 1])]
           S == {z \in Zustand : InArbeit(z, s, h, W, frei)}
           F == [p \in (1 .. N) \X S |-> Weiter(p[2])]
<1>1. N \in Nat BY Groessen
<1> HIDE DEF N
<1>2. a \in Zustand /\ a.b = s.in /\ a.druck = s.druck /\ a.weg = s.weg /\ a.gedruckt = elGeist.gedruckt
  <2>1. s.in \in Seq(Token) /\ s.druck \in Nat /\ s.weg \in BOOLEAN BY Stationsteile
  <2>2. elGeist.gedruckt \in Seq(Token) BY Geistteile
  <2> QED BY <2>1, <2>2 DEF Zustand
<1> HIDE DEF a
<1>3. a \in S
  <2>1. Len(s.in) \in Nat BY Stationsteile, LenProperties
  <2> QED BY <1>2, <2>1 DEF InArbeit
<1>4. \A z \in S : Weiter(z) \in S
  <2> SUFFICES ASSUME NEW z \in S PROVE InArbeit(Weiter(z), s, h, W, frei) BY DEF InArbeit
  <2> QED BY WeiterGilt
<1> HIDE DEF S
<1>5. PICK f : IstLauf(f, N, a, F) BY <1>1, LaufVorhanden
<1>6. f[0] = a /\ \A i \in 1 .. N : f[i] = F[<<i, f[i - 1]>>]
  <2>1. \A i \in 0 .. N : f[i] = IF i = 0 THEN a ELSE F[<<i, f[i - 1]>>] BY <1>5 DEF IstLauf
  <2>2. 0 \in 0 .. N /\ \A i \in 1 .. N : i \in 0 .. N /\ i # 0 BY <1>1
  <2> HIDE DEF F
  <2> QED BY <2>1, <2>2
<1>7. ASSUME NEW i \in 1 .. N, NEW z \in S PROVE F[<<i, z>>] = Weiter(z)
  <2>1. <<i, z>> \in (1 .. N) \X S OBVIOUS
  <2> QED BY <2>1
<1> HIDE DEF F
<1>8. \A i \in 0 .. N : f[i] \in S
  <2>1. f[0] \in S BY <1>3, <1>6
  <2>2. \A i \in 1 .. N : f[i - 1] \in S => f[i] \in S BY <1>4, <1>6, <1>7
  <2> QED BY <1>1, <2>1, <2>2, Bleibt
<1>9. \A i \in 1 .. N : f[i] = Weiter(f[i - 1])
  <2> SUFFICES ASSUME NEW i \in 1 .. N PROVE f[i] = Weiter(f[i - 1]) OBVIOUS
  <2>1. i - 1 \in 0 .. N BY <1>1
  <2> QED BY <1>6, <1>7, <1>8, <2>1
<1>10. R(f)
  <2> DEFINE g == [i \in 0 .. N |-> IF i = 0 THEN a ELSE Weiter(f[i - 1])]
  <2>1. f = [i \in 0 .. N |-> f[i]] BY <1>5 DEF IstLauf
  <2>2. \A i \in 0 .. N : i = 0 \/ i \in 1 .. N BY <1>1
  <2>3. \A i \in 0 .. N : f[i] = g[i] BY <1>6, <1>9, <2>2
  <2>4. g = [i \in 0 .. N |-> g[i]] OBVIOUS
  <2>5. f = g
    <3> HIDE DEF g
    <3> QED BY <2>1, <2>3, <2>4
  <2> QED BY <2>5
<1> DEFINE y == CHOOSE f_1 : R(f_1)
<1>11. R(y) BY <1>10
<1>12. MailZeilen(s) = y[N] BY DEF MailZeilen, N, a
<1> HIDE DEF y
<1>13. y[0] = a /\ \A i \in 1 .. N : y[i] = Weiter(y[i - 1])
  <2>1. \A i \in 0 .. N : y[i] = IF i = 0 THEN a ELSE Weiter(y[i - 1]) BY <1>11
  <2>2. 0 \in 0 .. N /\ \A i \in 1 .. N : i \in 0 .. N /\ i # 0 BY <1>1
  <2> QED BY <2>1, <2>2
<1>14. \A i \in 0 .. N : y[i] \in S
  <2>1. y[0] \in S BY <1>3, <1>13
  <2>2. \A i \in 1 .. N : y[i - 1] \in S => y[i] \in S BY <1>4, <1>13
  <2> QED BY <1>1, <2>1, <2>2, Bleibt
<1>15. N \in 0 .. N BY <1>1
<1>16. y[N] \in S BY <1>14, <1>15
<1> QED BY <1>12, <1>16 DEF S

(* A first token that is not selected does not matter. *)
LEMMA AuswahlOhneErstes ==
    ASSUME NEW x \in Token, NEW m \in Seq(Token), NEW S, x \notin S
    PROVE  Auswahl(<<x>> \o m, S) = Auswahl(m, S)
<1> DEFINE a == <<x>>
<1>1. a \in Seq(Token) BY Eines
<1>2. Auswahl(a, S) = << >> BY AuswahlEines
<1> HIDE DEF a
<1>3. Auswahl(a \o m, S) = Auswahl(a, S) \o Auswahl(m, S) BY <1>1, AuswahlVerkettet
<1>4. Auswahl(m, S) \in Seq(Token) BY AuswahlArt
<1>5. << >> \o Auswahl(m, S) = Auswahl(m, S) BY <1>4, ConcatEmptySeq
<1> QED BY <1>2, <1>3, <1>5 DEF a

(* The final "." comes after the whole mail. *)
LEMMA EndeGelesen ==
    ASSUME NEW v \in Server, NEW W \in Antwort(v), NEW h \in Seq(Token), NEW p, NEW k \in 0 .. Len(W), NEW b, IstEnde(b),
           Gelesen(b, h, W, k, p)
    PROVE  p = Auswahl(v.mail, Zeilen)
<1> DEFINE x == "punkt" y == "ok" a == <<y>> m == v.mail c == SubSeq(W, 1, k) f == a \o m
<1>1. x \in Token /\ y \in Token /\ y \notin Zeilen BY DEF Token, Zeilen
<1>2. Len(W) \in Nat /\ k \in Nat /\ W \in Seq(Token) BY AntwortGilt
<1>3. PICK q \in Seq(Token) : Gepuffert(b, q, W, k) /\ Passt(q \o h, W, k) BY DEF Gelesen
<1>4. b = <<x>> BY DEF IstEnde
<1>5. <<x>> \in Seq(Token) /\ Len(<<x>>) = 1 /\ <<x>>[1] = x
  <2> HIDE DEF x
  <2> QED BY <1>1, Eines
<1>6. q = b
  <2> SUFFICES ASSUME b = Append(q, "halb") PROVE FALSE BY <1>3 DEF Gepuffert
  <2> DEFINE z == "halb"
  <2>1. z \in Token /\ z # x BY DEF Token
  <2>2. b = Append(q, z) OBVIOUS
  <2> HIDE DEF z
  <2>3. Len(b) = Len(q) + 1 /\ b[Len(q) + 1] = z BY <2>1, <2>2, AppendProperties
  <2>4. Len(q) \in Nat BY LenProperties
  <2> HIDE DEF x
  <2>5. Len(q) + 1 = 1 BY <1>4, <1>5, <2>3
  <2> QED BY <1>4, <1>5, <2>1, <2>3, <2>5
<1>7. Passt(q, W, k) BY <1>2, <1>3, PasstKuerzer
<1>8. k + 1 <= Len(W) /\ W[k + 1] = x
  <2> HIDE DEF x
  <2>1. Len(q) = 1 /\ q[1] = x BY <1>4, <1>5, <1>6
  <2> QED BY <2>1, <1>7 DEF Passt
<1>9. k + 1 = Len(W) /\ W = MailGanz(v)
  <2>1. k + 1 \in 1 .. Len(W) BY <1>2, <1>8
  <2> QED BY <1>8, <2>1, AntwortGilt
<1>10. /\ Len(W) = Len(m) + 2 /\ W[1] = y /\ (\A i \in 1 .. Len(m) : W[i + 1] = m[i]) /\ Len(m) \in Nat
  BY <1>9, MailGanzGilt
<1>11. m \in Seq(Token) BY MailGilt
<1> HIDE DEF x, y, m
<1>12. a \in Seq(Token) /\ Len(a) = 1 /\ a[1] = y BY <1>1, Eines
<1> HIDE DEF a
<1>13. f \in Seq(Token) /\ Len(f) = 1 + Len(m) /\ \A i \in 1 .. 1 + Len(m) : f[i] = IF i <= 1 THEN a[i] ELSE m[i - 1]
  <2> DEFINE l == Len(a)
  <2>1. /\ f \in Seq(Token) /\ Len(f) = l + Len(m)
        /\ \A i \in 1 .. l + Len(m) : f[i] = IF i <= l THEN a[i] ELSE m[i - l]
    BY <1>11, <1>12, ConcatProperties
  <2>2. l = 1 BY <1>12
  <2> HIDE DEF l, f
  <2> QED BY <2>1, <2>2
<1>14. c \in Seq(Token) /\ Len(c) = k /\ \A i \in 1 .. k : c[i] = W[i]
  <2>1. k \in 0 .. Len(W) OBVIOUS
  <2> QED BY <1>2, <2>1, Geteilt
<1> HIDE DEF c, f
<1>15. Len(c) = Len(f) BY <1>2, <1>9, <1>10, <1>13, <1>14
<1>16. ASSUME NEW i \in 1 .. Len(c) PROVE c[i] = f[i]
  <2>1. c[i] = W[i] /\ i \in 1 .. 1 + Len(m) BY <1>13, <1>14, <1>15
  <2>2. CASE i = 1 BY <1>10, <1>12, <1>13, <2>1, <2>2
  <2>3. CASE i # 1
    <3>1. i - 1 \in 1 .. Len(m) /\ (i - 1) + 1 = i /\ ~(i <= 1) BY <1>10, <2>1, <2>3
    <3>2. W[i] = m[i - 1] BY <1>10, <3>1
    <3> QED BY <1>13, <2>1, <3>1, <3>2
  <2> QED BY <2>2, <2>3
<1>17. c = f BY <1>13, <1>14, <1>15, <1>16, SeqEqual
<1>18. Auswahl(f, Zeilen) = Auswahl(m, Zeilen)
  <2> HIDE DEF a, m, y
  <2>1. f = a \o m BY DEF f
  <2>2. a = <<y>> BY DEF a
  <2>3. y \in Token /\ m \in Seq(Token) /\ y \notin Zeilen BY <1>1, <1>11, <1>12
  <2>4. f = <<y>> \o m BY <2>1, <2>2
  <2> QED BY ONLY <2>3, <2>4, AuswahlOhneErstes
<1>19. p = Auswahl(c, Zeilen) BY DEF Gelesen, c
<1> QED BY <1>17, <1>18, <1>19 DEF m

LEMMA OhneVorletzteGilt ==
    ASSUME NEW b \in Seq(Token), Len(b) >= 2
    PROVE  OhneVorletzte(b) \in Seq(Token) /\ Len(OhneVorletzte(b)) = Len(b) - 1
<1> DEFINE n == Len(b) a == SubSeq(b, 1, n - 2) x == b[n] c == <<x>>
<1>1. n \in Nat /\ n >= 2 BY LenProperties
<1> HIDE DEF n
<1>2. n - 2 \in 0 .. n /\ n \in 1 .. n BY <1>1
<1>3. a \in Seq(Token) /\ Len(a) = n - 2
  <2> DEFINE k == n - 2
  <2>1. k \in 0 .. Len(b) BY <1>2 DEF n
  <2> HIDE DEF k
  <2>2. SubSeq(b, 1, k) \in Seq(Token) /\ Len(SubSeq(b, 1, k)) = k BY <2>1, Geteilt
  <2> QED BY <2>2 DEF k
<1>4. x \in Token BY <1>2, ElementOfSeq DEF n
<1> HIDE DEF a, x
<1>5. c \in Seq(Token) /\ Len(c) = 1 BY <1>4, Eines
<1> HIDE DEF c
<1>6. a \o c \in Seq(Token) /\ Len(a \o c) = Len(a) + Len(c) BY <1>3, <1>5, ConcatProperties
<1>7. OhneVorletzte(b) = a \o c BY DEF OhneVorletzte, a, c, x, n, Last
<1>8. Len(a) + Len(c) = n - 1 BY <1>1, <1>3, <1>5
<1> QED BY <1>6, <1>7, <1>8 DEF n

(* What is in the buffer is printed, as far as there is room for it. *)
LEMMA MailDataGilt ==
    ASSUME NEW s, NEW n, NEW v, Stimmt(s, n, v, elGeist), Holt(s), s.phase = "MailData", s.out = << >>, s.in # << >>,
           NEW e \in MailData(s)
    PROVE  Stimmt(e[1], n, v, e[2])
<1> DEFINE z == MailZeilen(s) b == z.b d == z.druck w == z.weg p == z.gedruckt
           t == [s EXCEPT !.druck = d, !.weg = w] g == [elGeist EXCEPT !.gedruckt = p]
           frei == Gestoert(s, elGeist) h == n.her
<1>1. s \in Station /\ n \in Netz /\ v \in Server /\ elGeist \in Geist /\ Passend(s) /\ s.prot = "POP3"
  BY DEF Stimmt, Fast, Art, Holt
<1>2. s.druck <= ElDruckMax /\ h \in Seq(Token) /\ s.in \in Seq(Token) BY <1>1, Netzteile, Stationsteile DEF Passend
<1>3. ~Bestellt(s, n, v)
  <2>1. s.phase \notin Spaet BY DEF Spaet
  <2> QED BY <2>1, Unbestellt DEF Stimmt, Fast
<1>4. frei \/ (s.modus = "EmailPOPDruckend" /\ Kommt(s, n, v, elGeist)) BY DEF Stimmt, Pop, Druckt, Angefordert
<1> HIDE DEF frei
<1>5. PICK W \in Antwort(v) : frei \/ \E k \in 0 .. Len(W) : Gelesen(s.in, h, W, k, elGeist.gedruckt)
  <2>1. CASE frei BY <2>1 DEF Antwort
  <2>2. CASE Kommt(s, n, v, elGeist) BY <2>2 DEF Kommt
  <2> QED BY <1>4, <2>1, <2>2
<1>6. /\ e = IF IstEnde(b) THEN <<[Kommando(t, "Abmelden", "DELE") EXCEPT !.druck = @ + 1], g>>
             ELSE IF z.voll /\ b = s.in /\ Len(s.in) >= ElInMax
                  THEN <<[t EXCEPT !.in = OhneVorletzte(@)], [g EXCEPT !.gekuerzt = TRUE]>>
                  ELSE <<[t EXCEPT !.in = b], g>>
  BY DEF MailData
<1>7. InArbeit(z, s, h, W, frei)
  <2> HIDE DEF h
  <2> QED BY <1>1, <1>2, <1>5, MailZeilenGilt
<1> HIDE DEF z
<1>8. /\ b \in Seq(Token) /\ d \in Nat /\ w \in BOOLEAN /\ p \in Seq(Token) /\ d <= ElDruckMax
      /\ Len(b) <= Len(s.in) /\ (s.weg => w)
  BY <1>7 DEF InArbeit, Zustand
<1>9. frei \/ w \/ \E k \in 0 .. Len(W) : Gelesen(b, h, W, k, p) BY <1>7 DEF InArbeit
<1> HIDE DEF b, d, w, p, h
<1>10. t \in Station /\ g \in Geist
  <2>1. t \in Station BY <1>1, <1>8 DEF Station
  <2>2. g \in Geist BY <1>1, <1>8 DEF Geist
  <2> QED BY <2>1, <2>2
<1>11. /\ t.modus = s.modus /\ t.verb = s.verb /\ t.handle = s.handle /\ t.prot = s.prot /\ t.phase = s.phase
       /\ t.in = s.in /\ t.out = s.out /\ t.weg = w /\ t.verworfen = s.verworfen /\ t.druck = d
  BY <1>1 DEF Station
<1>12. g.gedruckt = p /\ g.gekuerzt = elGeist.gekuerzt /\ g.gestoert = elGeist.gestoert BY <1>1 DEF Geist
<1> HIDE DEF t, g
<1>13. frei \/ w => Gestoert(t, g) BY <1>8, <1>11, <1>12 DEF frei, Gestoert
<1>14. Ohne(s.out, Text \cup {"DATA"}) BY OhneAlles
<1>15. Len(s.in) \in Nat /\ Len(b) \in Nat /\ Len(s.in) <= ElInMax BY <1>1, <1>2, <1>8, LenProperties DEF Passend
<1>16. CASE IstEnde(b)
  <2> DEFINE c == Kommando(t, "Abmelden", "DELE") u == [c EXCEPT !.druck = c.druck + 1]
  <2>1. "Abmelden" \in Phasen /\ "DELE" \in Marken \ {"DATA"} /\ "Abmelden" \in Spaet BY DEF Phasen, Spaet, Marken
  <2>2. /\ c \in Station
        /\ c.modus = t.modus /\ c.verb = t.verb /\ c.handle = t.handle /\ c.prot = t.prot /\ c.phase = "Abmelden"
        /\ c.in = << >> /\ c.out = <<"DELE">> /\ c.weg = t.weg /\ c.verworfen = t.verworfen /\ c.druck = t.druck
        /\ Ohne(c.out, Text \cup {"DATA"})
    <3>1. t \in Station /\ "Abmelden" \in Phasen /\ "DELE" \in Marken \ {"DATA"} BY <1>10, <2>1
    <3> QED BY ONLY <3>1, KommandoGilt
  <2>3. e = <<u, g>> BY <1>6, <1>16
  <2> HIDE DEF c
  <2>4. c.druck + 1 \in Nat BY <1>8, <1>11, <2>2
  <2>5. u \in Station BY <2>2, <2>4 DEF Station
  <2>6. /\ u.modus = c.modus /\ u.verb = c.verb /\ u.handle = c.handle /\ u.prot = c.prot /\ u.phase = c.phase
        /\ u.in = c.in /\ u.out = c.out /\ u.weg = c.weg /\ u.verworfen = c.verworfen /\ u.druck = c.druck + 1
    BY <2>2 DEF Station
  <2> HIDE DEF u
  <2>7. Passend(u)
    <3>1. Len(u.in) = 0 BY <2>2, <2>6, EmptySeq
    <3>2. u.druck <= ElDruckMax + 1 BY <1>8, <1>11, <2>2, <2>6, Groessen
    <3>3. u.phase # "MailData" /\ u.phase \in Spaet BY <2>1, <2>2, <2>6
    <3>4. Phasengerecht(u) BY <1>1, <1>11, <2>2, <2>6, <3>3 DEF Phasengerecht
    <3>5. (u.handle => u.verb) /\ (u.verb => u.modus # "Ruhe") BY <1>1, <1>11, <2>2, <2>6 DEF Passend
    <3> QED BY <3>1, <3>2, <3>3, <3>4, <3>5, Groessen DEF Passend
  <2>8. Gut(u, v, g)
    <3>1. ASSUME NEW k \in 0 .. Len(W), Gelesen(b, h, W, k, p) PROVE p = Auswahl(v.mail, Zeilen)
      BY <1>1, <1>2, <1>16, <3>1, EndeGelesen DEF h
    <3>2. Gestoert(t, g) => Gestoert(u, g) BY <2>2, <2>6 DEF Gestoert
    <3> QED BY <1>9, <1>12, <1>13, <3>1, <3>2 DEF Gut
  <2>9. Loeschen(u, n, v, g) BY <1>1, <1>11, <2>1, <2>2, <2>6, <2>8 DEF Loeschen
  <2>10. Pop(u, n, v, g)
    <3>1. Frei(u) BY <2>1, <2>2, <2>6 DEF Frei
    <3> QED BY <3>1, FreiPop
  <2>11. Stimmt(u, n, v, g)
    <3>1. /\ Stimmt(s, n, v, elGeist) /\ s.prot = "POP3" /\ s.out = << >>
          /\ u \in Station /\ Passend(u) /\ u.prot = "POP3" /\ u.handle = s.handle /\ u.modus = s.modus
      BY <1>1, <1>11, <2>2, <2>5, <2>6, <2>7
    <3>2. g \in Geist /\ g.gestoert = elGeist.gestoert BY <1>10, <1>12
    <3>3. Ohne(u.out, Text \cup {"DATA"}) /\ Loeschen(u, n, v, g) /\ Pop(u, n, v, g) BY <2>2, <2>6, <2>9, <2>10
    <3> QED BY ONLY <3>1, <3>2, <3>3, PopSchritt
  <2> QED BY <2>3, <2>11
<1>17. CASE ~IstEnde(b)
  <2> SUFFICES ASSUME NEW a, NEW f, a \in Seq(Token), Len(a) <= ElInMax, f \in BOOLEAN,
                      Gestoert(t, [g EXCEPT !.gekuerzt = f]) \/ a = b,
                      elGeist.gekuerzt => f, a = b => f = g.gekuerzt
               PROVE  Stimmt([t EXCEPT !.in = a], n, v, [g EXCEPT !.gekuerzt = f])
    <3>1. CASE z.voll /\ b = s.in /\ Len(s.in) >= ElInMax
      <4> DEFINE a == OhneVorletzte(s.in) f == TRUE
      <4>1. e = <<[t EXCEPT !.in = a], [g EXCEPT !.gekuerzt = f]>> BY <1>6, <1>11, <1>17, <3>1
      <4>2. Len(s.in) >= 2 BY <1>15, <3>1, Groessen
      <4>3. a \in Seq(Token) /\ Len(a) = Len(s.in) - 1 BY <1>2, <4>2, OhneVorletzteGilt
      <4>4. a # b /\ Len(a) <= ElInMax
        <5>1. Len(a) # Len(s.in) /\ Len(a) <= ElInMax BY <1>15, <4>3, Groessen
        <5> QED BY <3>1, <5>1
      <4>5. Gestoert(t, [g EXCEPT !.gekuerzt = f]) BY <1>10 DEF Gestoert, Geist
      <4> HIDE DEF a
      <4>6. Stimmt([t EXCEPT !.in = a], n, v, [g EXCEPT !.gekuerzt = f]) BY <4>3, <4>4, <4>5
      <4> QED BY <4>1, <4>6
    <3>2. CASE ~(z.voll /\ b = s.in /\ Len(s.in) >= ElInMax)
      <4>1. e = <<[t EXCEPT !.in = b], g>> BY <1>6, <1>17, <3>2
      <4> DEFINE f == g.gekuerzt
      <4>2. f \in BOOLEAN /\ (elGeist.gekuerzt => f) BY <1>10, <1>12, Geistteile
      <4>3. g = [g EXCEPT !.gekuerzt = f] BY <1>10 DEF Geist
      <4>4. Len(b) <= ElInMax BY <1>8, <1>15, Groessen
      <4> HIDE DEF f
      <4>5. f = g.gekuerzt BY DEF f
      <4>6. Stimmt([t EXCEPT !.in = b], n, v, [g EXCEPT !.gekuerzt = f]) BY <1>8, <4>2, <4>4, <4>5
      <4> QED BY <4>1, <4>3, <4>6
    <3> QED BY <3>1, <3>2
  <2> DEFINE u == [t EXCEPT !.in = a] y == [g EXCEPT !.gekuerzt = f]
  <2>1. u \in Station BY <1>10 DEF Station
  <2>2. y \in Geist BY <1>10 DEF Geist
  <2>3. /\ u.modus = s.modus /\ u.verb = s.verb /\ u.handle = s.handle /\ u.prot = s.prot /\ u.phase = s.phase
        /\ u.in = a /\ u.out = s.out /\ u.weg = w /\ u.verworfen = s.verworfen /\ u.druck = d
    BY <1>10, <1>11 DEF Station
  <2>4. y.gedruckt = p /\ y.gekuerzt = f /\ y.gestoert = elGeist.gestoert BY <1>10, <1>12 DEF Geist
  <2> HIDE DEF u, y
  <2>5. Passend(u) BY <1>1, <1>8, <2>3 DEF Passend, Phasengerecht
  <2>6. Loeschen(u, n, v, y)
    <3>1. Bestellt(u, n, v) => Bestellt(s, n, v) BY <2>3 DEF Bestellt
    <3> QED BY <1>3, <3>1 DEF Loeschen
  <2>7. Druckt(u, n, v, y)
    <3>1. CASE Gestoert(u, y) BY <3>1 DEF Druckt
    <3>2. CASE ~Gestoert(u, y)
      <4>1. ~(frei \/ w) /\ a = b
        <5>1. frei => Gestoert(u, y) BY <1>8, <2>3, <2>4 DEF Gestoert, frei
        <5>2. w => Gestoert(u, y) BY <2>3 DEF Gestoert
        <5>3. Gestoert(t, y) => Gestoert(u, y) BY <1>11, <2>3 DEF Gestoert
        <5>4. Gestoert(t, y) \/ a = b BY DEF y
        <5> QED BY <3>2, <5>1, <5>2, <5>3, <5>4
      <4>2. PICK k \in 0 .. Len(W) : Gelesen(b, h, W, k, p) BY <1>9, <4>1
      <4>3. s.modus = "EmailPOPDruckend" /\ n.hin = << >> BY <1>4, <4>1 DEF Kommt
      <4>4. Kommt(u, n, v, y) BY <2>3, <2>4, <4>1, <4>2, <4>3 DEF Kommt, h
      <4> QED BY <2>3, <4>3, <4>4 DEF Druckt
    <3> QED BY <3>1, <3>2
  <2>8. Pop(u, n, v, y)
    <3>1. "MailData" \notin PopFrueh BY DEF PopFrueh
    <3> QED BY <2>3, <2>7, <3>1 DEF Pop
  <2>9. Stimmt(u, n, v, y) BY <1>1, <1>14, <2>1, <2>2, <2>3, <2>4, <2>5, <2>6, <2>8, PopSchritt
  <2> QED BY <2>9 DEF u, y
<1> QED BY <1>16, <1>17

(* A line of an answer. *)
LEMMA POPZeileGilt ==
    ASSUME NEW s, NEW n, NEW v, Stimmt(s, n, v, elGeist), Holt(s), s.out = << >>, s.in \notin {<< >>, <<"halb">>},
           NEW e \in POPZeile(s)
    PROVE  Stimmt(e[1], n, v, e[2])
<1> DEFINE ok == s.ok \/ s.in[1] \in {"ok", "mails", "keine"} o == [s EXCEPT !.ok = ok]
           p == IF o.ok \/ o.phase = "WarteEnde" THEN o.phase ELSE "Abmelden"
<1>1. s \in Station /\ Passend(s) /\ s.prot = "POP3" BY DEF Stimmt, Fast, Art, Holt
<1>2. ok \in BOOLEAN BY <1>1, Stationsteile
<1> HIDE DEF ok
<1>3. o \in Station BY <1>1, <1>2 DEF Station
<1>4. /\ o.modus = s.modus /\ o.verb = s.verb /\ o.handle = s.handle /\ o.prot = s.prot /\ o.phase = s.phase /\ o.in = s.in
      /\ o.out = s.out /\ o.ein = s.ein /\ o.weg = s.weg /\ o.verworfen = s.verworfen /\ o.druck = s.druck
  BY <1>1 DEF Station
<1>5. p = "Abmelden" \/ p = s.phase BY <1>4
<1>6. \/ p = "AnmeldungName" /\ e = <<Kommando(o, "AnmeldungKennwort", "USER"), elGeist>>
      \/ p = "AnmeldungKennwort" /\ e = <<Kommando(o, "StartData", "PASS"), elGeist>>
      \/ p = "StartData" /\ e = <<Kommando(o, "WarteStart", "STAT"), elGeist>>
      \/ p = "WarteStart" /\ e = <<PopAbmelden(o), elGeist>>
      \/ p = "WarteStart" /\ e = <<ModusWechsel([o EXCEPT !.phase = "MailWarteEinschaltungDruck", !.in = << >>],
                                               "EmailPOPWarteEinQuitt"), elGeist>>
      \/ p = "MailData" /\ e \in MailData(o)
      \/ p = "Abmelden" /\ e = <<PopAbmelden(o), elGeist>>
      \/ p = "WarteEnde" /\ e = <<[o EXCEPT !.in = << >>], elGeist>>
      \/ e = <<o, elGeist>>
  BY DEF POPZeile, ok
<1> HIDE DEF o, p
<1>7. Stimmt(o, n, v, elGeist)
  <2>1. s.druck \in Nat BY <1>1, Stationsteile
  <2>2. Wie(s, o) BY <1>3, <1>4, <2>1 DEF Wie
  <2>3. Erlaubt(s, o, n, elGeist) BY <1>1, <1>4 DEF Erlaubt, Passend
  <2> QED BY <2>2, <2>3, WieGilt
<1>8. Holt(o) /\ o.out = << >> /\ o.in \notin {<< >>, <<"halb">>} BY <1>4 DEF Holt
<1>9. Stimmt(PopAbmelden(o), n, v, elGeist) BY <1>7, <1>8, PopAbmeldenGilt DEF Holt
<1>10. ASSUME NEW a \in PopFrueh, NEW r \in PopFrueh, NEW k \in {"USER", "PASS", "STAT"}, p = a
       PROVE  Stimmt(Kommando(o, r, k), n, v, elGeist)
  <2>1. a # "Abmelden" BY DEF PopFrueh
  <2>2. o.phase \in PopFrueh BY <1>4, <1>5, <1>10, <2>1
  <2> QED BY <1>7, <1>8, <2>2, AnmeldungGilt
<1>11. /\ "AnmeldungName" \in PopFrueh /\ "AnmeldungKennwort" \in PopFrueh /\ "StartData" \in PopFrueh
       /\ "WarteStart" \in PopFrueh
  BY DEF PopFrueh
<1>12. CASE p = "AnmeldungName" /\ e = <<Kommando(o, "AnmeldungKennwort", "USER"), elGeist>> BY <1>10, <1>11, <1>12
<1>13. CASE p = "AnmeldungKennwort" /\ e = <<Kommando(o, "StartData", "PASS"), elGeist>> BY <1>10, <1>11, <1>13
<1>14. CASE p = "StartData" /\ e = <<Kommando(o, "WarteStart", "STAT"), elGeist>> BY <1>10, <1>11, <1>14
<1>15. CASE p = "WarteStart" /\ e = <<ModusWechsel([o EXCEPT !.phase = "MailWarteEinschaltungDruck", !.in = << >>],
                                                  "EmailPOPWarteEinQuitt"), elGeist>>
  <2>1. o.phase \in PopFrueh BY <1>4, <1>5, <1>11, <1>15
  <2>2. Stimmt(ModusWechsel([o EXCEPT !.phase = "MailWarteEinschaltungDruck", !.in = << >>], "EmailPOPWarteEinQuitt"),
               n, v, elGeist)
    BY <1>7, <1>8, <2>1, EinschaltungGilt
  <2> QED BY <1>15, <2>2
<1>16. CASE p = "MailData" /\ e \in MailData(o)
  <2>1. o.phase = "MailData" /\ o.in # << >> BY <1>4, <1>5, <1>8, <1>16
  <2> QED BY <1>7, <1>8, <1>16, <2>1, MailDataGilt
<1>17. CASE e = <<PopAbmelden(o), elGeist>> BY <1>9, <1>17
<1>18. CASE p = "WarteEnde" /\ e = <<[o EXCEPT !.in = << >>], elGeist>>
  <2>1. Frei(o) BY <1>4, <1>5, <1>18 DEF Frei, Spaet
  <2>2. Stimmt([o EXCEPT !.in = << >>], n, v, elGeist) BY <1>7, <2>1, EingangGilt
  <2> QED BY <1>18, <2>2
<1>19. CASE e = <<o, elGeist>> BY <1>7, <1>19
<1> QED BY <1>6, <1>12, <1>13, <1>14, <1>15, <1>16, <1>17, <1>18, <1>19

LEMMA POP3DatenGilt ==
    ASSUME NEW s, NEW n, NEW v, Stimmt(s, n, v, elGeist), Holt(s), NEW e \in POP3DatenVerarbeiten(s)
    PROVE  Stimmt(e[1], n, v, e[2])
<1> DEFINE p == "MailWarteEinschaltungDruck"
           a == [s EXCEPT !.druck = 1, !.weg = FALSE, !.out = <<"RETR">>, !.phase = "MailData"]
<1>1. s \in Station BY DEF Stimmt, Fast, Art
<1>2. CASE e = <<s, elGeist>> BY <1>2
<1>3. CASE s.out = << >> /\ s.phase = p /\ s.modus = "EmailPOPDruckend" /\ e = <<a, elGeist>>
  <2>1. Stimmt(a, n, v, elGeist) BY <1>3, AbrufGilt
  <2> QED BY <1>3, <2>1
<1>4. CASE /\ s.out = << >> /\ e \in POPZeile(s)
           /\ ~((\A i \in DOMAIN s.in : s.in[i] \in {"halb", "lang"}) /\ Len(s.in) <= ElInMax \div 2)
  <2>1. s.in \notin {<< >>, <<"halb">>}
    <3>1. s.in # << >>
      <4> SUFFICES ASSUME s.in = << >> PROVE FALSE OBVIOUS
      <4>1. Len(s.in) = 0 /\ DOMAIN s.in = {} OBVIOUS
      <4>2. 0 <= ElInMax \div 2 BY Groessen
      <4> QED BY <1>4, <4>1, <4>2
    <3>2. s.in # <<"halb">>
      <4> SUFFICES ASSUME s.in = <<"halb">> PROVE FALSE OBVIOUS
      <4>1. Len(s.in) = 1 /\ DOMAIN s.in = {1} /\ s.in[1] = "halb" OBVIOUS
      <4>2. 1 <= ElInMax \div 2 BY Groessen
      <4> QED BY <1>4, <4>1, <4>2
    <3> QED BY <3>1, <3>2
  <2> QED BY <1>4, <2>1, POPZeileGilt
<1> QED BY <1>2, <1>3, <1>4 DEF POP3DatenVerarbeiten

(***************************************************************************)
(* The actions.                                                            *)
(***************************************************************************)
Rest0 == [sitzungen : Nat, getippt : Nat, stoerungen : Nat]
Gerecht == Stimmt(elSt, elNetz, elServer, elGeist) /\ elRest \in Rest0 /\ elRest.getippt <= Len(ElText)

LEMMA VerarbeitetGilt ==
    ASSUME NEW s, NEW n, Stimmt(s, n, elServer, elGeist), NEW r \in Verarbeitet(s)
    PROVE  Stimmt(r[1], n, elServer, r[2])
<1>1. s \in Station BY DEF Stimmt, Fast, Art
<1>2. CASE ~s.verb
  <2> DEFINE u == InterneVerbindungBeenden(s)
  <2>1. r \in {<<u, elGeist>>, <<s, elGeist>>} BY <1>2 DEF Verarbeitet
  <2>2. Frei(s) BY <1>2 DEF Frei
  <2>3. Stimmt(u, n, elServer, elGeist) BY <2>2, FreiInterneGilt
  <2> HIDE DEF u
  <2> QED BY <2>1, <2>3
<1>3. CASE s.verb /\ s.prot = "SMTP"
  <2>1. r = SMTPDatenVerarbeiten(s) BY <1>3 DEF Verarbeitet
  <2> QED BY <1>3, <2>1, SMTPDatenGilt
<1>4. CASE s.verb /\ s.prot # "SMTP"
  <2>1. Holt(s) BY <1>1, <1>4, Stationsteile DEF Holt
  <2>2. r \in POP3DatenVerarbeiten(s) BY <1>4 DEF Verarbeitet
  <2> QED BY <2>1, <2>2, POP3DatenGilt
<1> QED BY <1>2, <1>3, <1>4

LEMMA ElDurchlaufGilt == ASSUME Gerecht, ElDurchlauf PROVE Gerecht'
<1>0. Stimmt(elSt, elNetz, elServer, elGeist) BY DEF Gerecht
<1>1. PICK c \in Codes : \E s \in {EingangLoeschen(TwiWache(c))} : \E e \in SocketBearbeiten(s) :
          /\ elNetz' = e[2]
          /\ \E r \in Verarbeitet(e[1]) : elSt' = Grundstellung(Fristen(r[1])) /\ elGeist' = r[2]
  BY DEF ElDurchlauf
<1> DEFINE s == EingangLoeschen(TwiWache(c))
<1>2. PICK e \in SocketBearbeiten(s) :
          /\ elNetz' = e[2]
          /\ \E r \in Verarbeitet(e[1]) : elSt' = Grundstellung(Fristen(r[1])) /\ elGeist' = r[2]
  BY <1>1
<1>3. PICK r \in Verarbeitet(e[1]) : elSt' = Grundstellung(Fristen(r[1])) /\ elGeist' = r[2] BY <1>2
<1>4. Stimmt(c, elNetz, elServer, elGeist) BY <1>0, CodesGilt
<1>5. Stimmt(TwiWache(c), elNetz, elServer, elGeist) BY <1>4, TwiWacheGilt
<1>6. Stimmt(s, elNetz, elServer, elGeist) BY <1>5, EingangLoeschenGilt
<1> HIDE DEF s
<1>7. Stimmt(e[1], e[2], elServer, elGeist) BY <1>6, SocketGilt
<1>8. Stimmt(r[1], e[2], elServer, r[2]) BY <1>7, VerarbeitetGilt
<1>9. Stimmt(Fristen(r[1]), e[2], elServer, r[2]) BY <1>8, FristenGilt
<1>10. Stimmt(Grundstellung(Fristen(r[1])), e[2], elServer, r[2]) BY <1>9, GrundstellungGilt
<1>11. elServer' = elServer /\ elRest' = elRest BY DEF ElDurchlauf
<1> QED BY <1>2, <1>3, <1>10, <1>11 DEF Gerecht, Stimmt, Fast, Art, Pop, Smtp, Loeschen, Bus

(* A new session; at first there is none. *)
LEMMA NeuGilt ==
    ASSUME NEW s \in Station, Passend(s), s.out = << >>, s.modus # "EmailPOPDruckend",
           s.prot = "SMTP" => s.phase = "HalloSagen" /\ s.ein = << >>,
           NEW n \in Netz, n.hin = << >>, NEW mail \in ElMails \cup {<< >>}, NEW v, NEW g,
           v = [imText |-> FALSE, text |-> << >>, angenommen |-> << >>, mail |-> mail, markiert |-> FALSE, geloescht |-> FALSE],
           g = [getippt |-> << >>, gedruckt |-> << >>, gekuerzt |-> FALSE, gestoert |-> FALSE],
           Pop(s, n, v, g)
    PROVE  Stimmt(s, n, v, g)
<1> DEFINE e == << >>
<1>1. e \in Seq(Token) /\ e \in Seq(ElZeichen) /\ \A X : Ohne(e, X) BY OhneAlles
<1>2. e \o e = e /\ Vor(e, e) BY <1>1, ConcatEmptySeq, VorSelbst
<1>3. Buchstaben(e) = e BY BuchstabenGilt
<1>4. s.out = e /\ n.hin = e /\ (s.prot = "SMTP" => s.ein = e) OBVIOUS
<1>5. v = [imText |-> FALSE, text |-> e, angenommen |-> e, mail |-> mail, markiert |-> FALSE, geloescht |-> FALSE] OBVIOUS
<1>6. g = [getippt |-> e, gedruckt |-> e, gekuerzt |-> FALSE, gestoert |-> FALSE] OBVIOUS
<1> HIDE DEF e
<1>7. v \in Server BY <1>1, <1>5 DEF Server
<1>8. g \in Geist BY <1>1, <1>6 DEF Geist
<1>9. Post(s, n) = e BY <1>2, <1>4 DEF Post
<1>10. Leer(v) /\ Vor(Buchstaben(v.angenommen), Buchstaben(v.text)) BY <1>2, <1>3, <1>5 DEF Leer
<1>11. Smtp(s, n, v, g)
  <2>1. s.prot = "SMTP" => s.phase \notin Dabei /\ s.phase \notin Spaet BY DEF Dabei, Spaet
  <2>2. s.prot = "SMTP" => Unbegonnen(s, n, v, g) BY <1>1, <1>4, <1>6, <1>9, <1>10 DEF Unbegonnen
  <2> QED BY <1>1, <1>9, <1>10, <2>1, <2>2 DEF Smtp
<1>12. Loeschen(s, n, v, g)
  <2>1. ~Bestellt(s, n, v) BY <1>1, <1>4, <1>5 DEF Bestellt
  <2> QED BY <2>1 DEF Loeschen
<1> QED BY <1>7, <1>8, <1>11, <1>12 DEF Stimmt, Fast, Art, Bus

LEMMA BegonnenGilt ==
    ASSUME NEW s \in Station, NEW p \in {"POP3", "SMTP"}, NEW f \in Phasen, NEW m \in {"EmailPOPVerbunden", "GehendVerbunden"}
    PROVE  LET t == Begonnen(s, p, f, m)
           IN  /\ t \in Station /\ t.modus = m /\ t.verb /\ t.handle /\ t.prot = p /\ t.phase = f
               /\ t.in = << >> /\ t.out = << >> /\ t.ein = s.ein /\ t.druck <= s.druck
<1> DEFINE e == << >> u == {}
           a == [s EXCEPT !.verb = TRUE, !.handle = TRUE, !.geplant = FALSE, !.prot = p, !.phase = f, !.ok = FALSE,
                          !.in = e, !.out = e, !.um = u, !.verworfen = FALSE]
           t == ModusWechsel(a, m)
<1>1. e \in Seq(Token) /\ u \in SUBSET ElUhren BY OhneAlles
<1> HIDE DEF e, u
<1>2. a \in Station BY <1>1 DEF Station
<1>3. /\ a.verb = TRUE /\ a.handle = TRUE /\ a.prot = p /\ a.phase = f /\ a.in = e /\ a.out = e /\ a.ein = s.ein
      /\ a.druck = s.druck
  BY DEF Station
<1> HIDE DEF a
<1>4. m \in ElModi \ {"EmailPOPWarteEinQuitt"} BY DEF ElModi
<1>5. Wie(a, t) /\ t.modus = m BY <1>2, <1>4, ModusWechselGilt
<1> HIDE DEF t
<1>6. /\ t \in Station /\ t.modus = m /\ t.verb /\ t.handle /\ t.prot = p /\ t.phase = f
      /\ t.in = e /\ t.out = e /\ t.ein = s.ein /\ t.druck <= s.druck
  BY <1>3, <1>5 DEF Wie
<1> QED BY <1>6 DEF t, a, e, u, Begonnen

LEMMA NetzNeu ==
    ASSUME NEW n \in Netz, NEW m, m = [n EXCEPT !.offen = TRUE, !.hin = << >>, !.her = <<"ok">>]
    PROVE  m \in Netz /\ m.hin = << >> /\ Len(m.her) = 1
<1> DEFINE e == << >> x == "ok" h == <<x>>
<1>1. x \in Token BY DEF Token
<1>2. m = [n EXCEPT !.offen = TRUE, !.hin = e, !.her = h] OBVIOUS
<1> HIDE DEF x
<1>3. e \in Seq(Token) /\ h \in Seq(Token) /\ Len(h) = 1 BY <1>1, OhneAlles, Eines
<1> HIDE DEF e, h
<1>4. m \in Netz BY <1>2, <1>3 DEF Netz
<1>5. m.hin = e /\ m.her = h BY <1>2 DEF Netz
<1> QED BY <1>3, <1>4, <1>5 DEF e

LEMMA RestGilt ==
    ASSUME NEW r \in Rest0, NEW x \in Nat
    PROVE  /\ [r EXCEPT !.sitzungen = x] \in Rest0 /\ [r EXCEPT !.sitzungen = x].getippt = r.getippt
           /\ [r EXCEPT !.stoerungen = x] \in Rest0 /\ [r EXCEPT !.stoerungen = x].getippt = r.getippt
BY DEF Rest0

LEMMA POP3EinleitenGilt == ASSUME Gerecht, POP3Einleiten PROVE Gerecht'
<1>1. PICK mail \in ElMails : Angefangen(Begonnen(elSt, "POP3", "AnmeldungName", "EmailPOPVerbunden"), mail) BY DEF POP3Einleiten
<1> DEFINE t == Begonnen(elSt, "POP3", "AnmeldungName", "EmailPOPVerbunden")
<1>2. elSt \in Station /\ elNetz \in Netz /\ Passend(elSt) BY DEF Gerecht, Stimmt, Fast, Art
<1>3. "AnmeldungName" \in Phasen /\ "AnmeldungName" \in PopFrueh BY DEF Phasen, PopFrueh
<1>4. /\ t \in Station /\ t.modus = "EmailPOPVerbunden" /\ t.verb /\ t.handle /\ t.prot = "POP3" /\ t.phase = "AnmeldungName"
      /\ t.in = << >> /\ t.out = << >> /\ t.ein = elSt.ein /\ t.druck <= elSt.druck
  BY <1>2, <1>3, BegonnenGilt
<1>5. elSt' = t /\ elRest' = [elRest EXCEPT !.sitzungen = @ - 1] /\ elRest.sitzungen > 0
      /\ elNetz' = [elNetz EXCEPT !.offen = TRUE, !.hin = << >>, !.her = <<"ok">>]
      /\ elServer' = [imText |-> FALSE, text |-> << >>, angenommen |-> << >>, mail |-> mail, markiert |-> FALSE,
                      geloescht |-> FALSE]
      /\ elGeist' = [getippt |-> << >>, gedruckt |-> << >>, gekuerzt |-> FALSE, gestoert |-> FALSE]
  BY <1>1 DEF Angefangen
<1> HIDE DEF t
<1>6. elNetz' \in Netz /\ elNetz'.hin = << >> /\ Len(elNetz'.her) = 1 BY <1>2, <1>5, NetzNeu
<1>7. Passend(t)
  <2>1. t.druck \in Nat /\ elSt.druck \in Nat BY <1>2, <1>4, Stationsteile
  <2>2. elSt.druck <= ElDruckMax + 1 BY <1>2, <2>1, Groessen DEF Passend
  <2>3. t.druck <= ElDruckMax + 1
    <3> DEFINE a == t.druck b == elSt.druck
    <3>1. a \in Nat /\ b \in Nat /\ a <= b /\ b <= ElDruckMax + 1 BY <1>4, <2>1, <2>2
    <3> HIDE DEF a, b
    <3>2. a <= ElDruckMax + 1 BY <3>1, Groessen
    <3> QED BY <3>2 DEF a
  <2>4. Len(t.in) = 0 BY <1>4, EmptySeq
  <2> QED BY <1>3, <1>4, <2>3, <2>4, Groessen DEF Passend, Phasengerecht
<1>8. Pop(t, elNetz', elServer', elGeist')
  <2>1. Len(t.out) = 0 /\ Len(elNetz'.hin) = 0 BY <1>4, <1>6, EmptySeq
  <2>2. Einer(t, elNetz') BY <1>4, <1>6, <2>1 DEF Einer
  <2>3. Ohne(t.out, Fruehe) /\ Ohne(elNetz'.hin, Fruehe) /\ elGeist'.gedruckt = << >> BY <1>4, <1>5, <1>6, OhneAlles
  <2>4. Frueh(t, elNetz', elGeist') BY <1>4, <2>2, <2>3 DEF Frueh
  <2> QED BY <1>4, <2>4 DEF Pop
<1>9. t.modus # "EmailPOPDruckend" /\ t.prot # "SMTP" BY <1>4
<1>10. Stimmt(elSt', elNetz', elServer', elGeist') BY <1>4, <1>5, <1>6, <1>7, <1>8, <1>9, NeuGilt
<1>11. elRest' \in Rest0 /\ elRest'.getippt <= Len(ElText)
  <2> DEFINE x == elRest.sitzungen - 1
  <2>1. x \in Nat BY <1>5 DEF Gerecht, Rest0
  <2>2. elRest' = [elRest EXCEPT !.sitzungen = x] BY <1>5
  <2> HIDE DEF x
  <2> QED BY <2>1, <2>2, RestGilt DEF Gerecht
<1> QED BY <1>10, <1>11 DEF Gerecht

LEMMA SMTPOeffnenGilt == ASSUME Gerecht, SMTPOeffnen PROVE Gerecht'
<1>1. PICK f \in BOOLEAN :
          Angefangen(Begonnen([elSt EXCEPT !.frage = f, !.ein = << >>], "SMTP", "HalloSagen", "GehendVerbunden"), << >>)
  BY DEF SMTPOeffnen
<1> DEFINE e == << >> s == [elSt EXCEPT !.frage = f, !.ein = e] t == Begonnen(s, "SMTP", "HalloSagen", "GehendVerbunden")
<1>2. elSt \in Station /\ elNetz \in Netz /\ Passend(elSt) BY DEF Gerecht, Stimmt, Fast, Art
<1>3. "HalloSagen" \in Phasen /\ "HalloSagen" \in Anfang /\ e \in Seq(ElZeichen) BY OhneAlles DEF Phasen, Anfang
<1>4. elSt' = t /\ elRest' = [elRest EXCEPT !.sitzungen = @ - 1] /\ elRest.sitzungen > 0
      /\ elNetz' = [elNetz EXCEPT !.offen = TRUE, !.hin = << >>, !.her = <<"ok">>]
      /\ elServer' = [imText |-> FALSE, text |-> << >>, angenommen |-> << >>, mail |-> << >>, markiert |-> FALSE,
                      geloescht |-> FALSE]
      /\ elGeist' = [getippt |-> << >>, gedruckt |-> << >>, gekuerzt |-> FALSE, gestoert |-> FALSE]
  BY <1>1 DEF Angefangen
<1> HIDE DEF e
<1>5. s \in Station /\ s.ein = e /\ s.druck = elSt.druck BY <1>2, <1>3 DEF Station
<1> HIDE DEF s
<1>6. /\ t \in Station /\ t.modus = "GehendVerbunden" /\ t.verb /\ t.handle /\ t.prot = "SMTP" /\ t.phase = "HalloSagen"
      /\ t.in = << >> /\ t.out = << >> /\ t.ein = s.ein /\ t.druck <= s.druck
  BY <1>3, <1>5, BegonnenGilt
<1> HIDE DEF t
<1>7. elNetz' \in Netz /\ elNetz'.hin = << >> BY <1>2, <1>4, NetzNeu
<1>8. Passend(t)
  <2>1. t.druck \in Nat /\ elSt.druck \in Nat BY <1>2, <1>6, Stationsteile
  <2>2. elSt.druck <= ElDruckMax + 1 BY <1>2, <2>1, Groessen DEF Passend
  <2>3. t.druck <= ElDruckMax + 1
    <3> DEFINE a == t.druck b == elSt.druck
    <3>1. a \in Nat /\ b \in Nat /\ a <= b /\ b <= ElDruckMax + 1 BY <1>5, <1>6, <2>1, <2>2
    <3> HIDE DEF a, b
    <3>2. a <= ElDruckMax + 1 BY <3>1, Groessen
    <3> QED BY <3>2 DEF a
  <2>4. Len(t.in) = 0 BY <1>6, EmptySeq
  <2> QED BY <1>3, <1>6, <2>3, <2>4, Groessen DEF Passend, Phasengerecht
<1>9. Pop(t, elNetz', elServer', elGeist') BY <1>6 DEF Pop, Holt
<1>10. t.modus # "EmailPOPDruckend" /\ t.ein = << >> BY <1>5, <1>6 DEF e
<1>11. << >> \in ElMails \cup {<< >>} OBVIOUS
<1>12. Stimmt(elSt', elNetz', elServer', elGeist') BY <1>4, <1>6, <1>7, <1>8, <1>9, <1>10, <1>11, NeuGilt
<1>13. elRest' \in Rest0 /\ elRest'.getippt <= Len(ElText)
  <2> DEFINE x == elRest.sitzungen - 1
  <2>1. x \in Nat BY <1>4 DEF Gerecht, Rest0
  <2>2. elRest' = [elRest EXCEPT !.sitzungen = x] BY <1>4
  <2> HIDE DEF x
  <2> QED BY <2>1, <2>2, RestGilt DEF Gerecht
<1> QED BY <1>12, <1>13 DEF Gerecht

(***************************************************************************)
(* Time, the terminal, the net.                                            *)
(***************************************************************************)
LEMMA ElUhrGilt == ASSUME Gerecht, NEW u \in ElUhren, ElUhr(u) PROVE Gerecht'
<1> DEFINE w == elSt.um \cup {u} e == TRUE
<1>1. Stimmt(elSt, elNetz, elServer, elGeist) /\ elSt \in Station BY DEF Gerecht, Stimmt, Fast, Art
<1>2. w \in SUBSET ElUhren /\ e \in BOOLEAN BY <1>1, Stationsteile
<1>3. elSt' = [elSt EXCEPT !.um = w] BY DEF ElUhr
<1> HIDE DEF w, e
<1>4. Stimmt([elSt EXCEPT !.um = w], elNetz, elServer, elGeist) BY <1>1, <1>2, NebenGilt
<1>5. Stimmt(elSt', elNetz, elServer, elGeist) BY <1>3, <1>4
<1>6. elNetz' = elNetz /\ elServer' = elServer /\ elGeist' = elGeist /\ elRest' = elRest BY DEF ElUhr
<1>7. Stimmt(elSt', elNetz', elServer', elGeist') BY <1>5, <1>6
<1> QED BY <1>6, <1>7 DEF Gerecht

LEMMA DruckenGilt == ASSUME Gerecht, Drucken PROVE Gerecht'
<1> DEFINE s == elSt d == s.druck - 1 t == [s EXCEPT !.druck = d]
<1>1. Stimmt(s, elNetz, elServer, elGeist) /\ s \in Station /\ (s.verb => s.modus # "Ruhe")
  BY DEF Gerecht, Stimmt, Fast, Art, Passend
<1>2. d \in Nat /\ s.druck \in Nat /\ d <= s.druck
  <2>1. s.druck \in Nat /\ s.druck > 0 BY <1>1, Stationsteile DEF Drucken
  <2> QED BY <2>1
<1>3. elSt' = t /\ elNetz' = elNetz /\ elServer' = elServer /\ elGeist' = elGeist /\ elRest' = elRest BY DEF Drucken
<1> HIDE DEF d
<1>4. t \in Station BY <1>1, <1>2 DEF Station
<1>5. /\ t.modus = s.modus /\ t.verb = s.verb /\ t.handle = s.handle /\ t.prot = s.prot /\ t.phase = s.phase /\ t.in = s.in
      /\ t.out = s.out /\ t.ein = s.ein /\ t.weg = s.weg /\ t.verworfen = s.verworfen /\ t.druck = d
  BY <1>1 DEF Station
<1> HIDE DEF t, s
<1>6. Wie(s, t) BY <1>2, <1>4, <1>5 DEF Wie
<1>7. Erlaubt(s, t, elNetz, elGeist) BY <1>1, <1>5 DEF Erlaubt
<1>8. Stimmt(t, elNetz, elServer, elGeist) BY <1>1, <1>6, <1>7, WieGilt
<1>9. Stimmt(elSt', elNetz', elServer', elGeist') BY <1>3, <1>8
<1> QED BY <1>3, <1>9 DEF Gerecht

(* What is typed is behind what has been typed, and behind what is left of *)
(* it.                                                                     *)
LEMMA GetipptGilt ==
    ASSUME NEW s, NEW n, NEW v, NEW g, Stimmt(s, n, v, g), NEW x \in ElZeichen, NEW t, NEW h,
           t = [s EXCEPT !.ein = Append(@, x)], h = [g EXCEPT !.getippt = Append(@, x)]
    PROVE  Stimmt(t, n, v, h)
<1> DEFINE a == Append(s.ein, x) b == Append(g.getippt, x)
<1>1. s \in Station /\ n \in Netz /\ v \in Server /\ g \in Geist /\ Passend(s) BY DEF Stimmt, Fast, Art
<1>2. s.ein \in Seq(ElZeichen) /\ s.ein \in Seq(Token) /\ g.getippt \in Seq(ElZeichen) /\ g.getippt \in Seq(Token) /\ x \in Token
  BY <1>1, Stationsteile, Geistteile, Groessen
<1>3. a \in Seq(ElZeichen) /\ b \in Seq(ElZeichen) BY <1>2, AppendProperties
<1>4. t = [s EXCEPT !.ein = a] /\ h = [g EXCEPT !.getippt = b] OBVIOUS
<1> HIDE DEF a, b
<1>5. t \in Station /\ h \in Geist
  <2>1. t \in Station BY <1>1, <1>3, <1>4 DEF Station
  <2>2. h \in Geist BY <1>1, <1>3, <1>4 DEF Geist
  <2> QED BY <2>1, <2>2
<1>6. /\ t.modus = s.modus /\ t.verb = s.verb /\ t.handle = s.handle /\ t.prot = s.prot /\ t.phase = s.phase /\ t.in = s.in
      /\ t.out = s.out /\ t.ein = a /\ t.weg = s.weg /\ t.verworfen = s.verworfen /\ t.druck = s.druck
  BY <1>1, <1>4 DEF Station
<1>7. h.getippt = b /\ h.gedruckt = g.gedruckt /\ h.gekuerzt = g.gekuerzt /\ h.gestoert = g.gestoert
  BY <1>1, <1>4 DEF Geist
<1>8. Passend(t) BY <1>1, <1>6 DEF Passend, Phasengerecht
<1>9. Zu(t, n) = Zu(s, n) /\ Post(t, n) = Post(s, n) BY <1>6 DEF Zu, Post
<1>10. Smtp(s, n, v, g) BY DEF Stimmt, Fast
<1>11. Unbegonnen(s, n, v, g) => Unbegonnen(t, n, v, h) BY <1>6, <1>7, <1>9 DEF Unbegonnen, a, b
<1>12. ImGange(s, n, v, g) => ImGange(t, n, v, h)
  <2> SUFFICES ASSUME ImGange(s, n, v, g) PROVE ImGange(t, n, v, h) OBVIOUS
  <2>1. PICK y \in Seq(ElZeichen) : g.getippt = y \o s.ein /\ Stand(Zu(s, n), Post(s, n), v, y) BY DEF ImGange
  <2>2. y \in Seq(Token) BY TextMarken
  <2> DEFINE c == s.ein
  <2>3. c \in Seq(Token) BY <1>2
  <2> HIDE DEF c
  <2>4. Append(y \o c, x) = y \o Append(c, x) BY <1>2, <2>2, <2>3, VerkettetAnhang
  <2>5. b = y \o a BY <2>1, <2>4 DEF a, b, c
  <2> QED BY <1>6, <1>7, <1>9, <2>1, <2>5 DEF ImGange
<1>13. Beendet(s, n, v, g) => Beendet(t, n, v, h)
  <2> DEFINE p == Post(s, n) y == <<x>> c == g.getippt
  <2>1. p \in Seq(Token) BY <1>1, PostGilt
  <2>2. y \in Seq(Token) BY <1>2, Eines
  <2>3. b = c \o y BY <1>2, AppendIsConcat DEF b
  <2>4. c \in Seq(Token) BY <1>2
  <2> HIDE DEF p, y, c
  <2>5. Buchstaben(b) = Buchstaben(c) \o Buchstaben(y) BY <2>2, <2>3, <2>4, BuchstabenGilt
  <2>6. Buchstaben(c) \in Seq(Token) /\ Buchstaben(y) \in Seq(Token) BY <2>2, <2>4, BuchstabenGilt
  <2>7. Angekommen(v, p) \in Seq(Token) BY <1>1, <2>1, AngekommenMehr
  <2>8. Vor(Angekommen(v, p), Buchstaben(c)) => Vor(Angekommen(v, p), Buchstaben(b)) BY <2>5, <2>6, <2>7, VorMehr
  <2> QED BY <1>7, <1>9, <2>8 DEF Beendet, p, c
<1>14. Smtp(t, n, v, h) BY <1>6, <1>9, <1>10, <1>11, <1>12, <1>13 DEF Smtp
<1>15. Loeschen(t, n, v, h)
  <2>1. Bestellt(t, n, v) => Bestellt(s, n, v) BY <1>6 DEF Bestellt
  <2> QED BY <1>6, <1>7, <2>1 DEF Stimmt, Fast, Loeschen, Gut, Gestoert
<1>16. Bus(t, n, h) BY <1>6, <1>7 DEF Stimmt, Fast, Bus
<1>17. Pop(t, n, v, h)
  <2>1. Frueh(s, n, g) => Frueh(t, n, h) BY <1>6, <1>7 DEF Frueh, Einer
  <2>2. Wartet(s, n, g) => Wartet(t, n, h) BY <1>6, <1>7 DEF Wartet, Stille
  <2>3. Kommt(s, n, v, g) => Kommt(t, n, v, h) BY <1>6, <1>7 DEF Kommt
  <2>4. Druckt(s, n, v, g) => Druckt(t, n, v, h) BY <1>6, <1>7, <2>3 DEF Druckt, Gestoert, Angefordert
  <2> QED BY <1>6, <2>1, <2>2, <2>4 DEF Stimmt, Pop, Holt
<1> QED BY <1>1, <1>5, <1>8, <1>14, <1>15, <1>16, <1>17 DEF Stimmt, Fast, Art

LEMMA TippenGilt == ASSUME Gerecht, Tippen PROVE Gerecht'
<1> DEFINE i == elRest.getippt + 1 x == ElText[i]
<1>1. elRest.getippt \in Nat /\ elRest.getippt < Len(ElText) /\ elRest \in Rest0 BY DEF Gerecht, Rest0, Tippen
<1>2. i \in 1 .. Len(ElText) /\ i \in Nat /\ i <= Len(ElText) BY <1>1, Groessen
<1>3. elRest' = [elRest EXCEPT !.getippt = i] BY DEF Tippen
<1> HIDE DEF i
<1>4. elRest' \in Rest0 /\ elRest'.getippt = i BY <1>1, <1>2, <1>3 DEF Rest0
<1>5. x \in ElZeichen BY <1>2, Groessen
<1>6. /\ elSt' = [elSt EXCEPT !.ein = Append(@, x)] /\ elGeist' = [elGeist EXCEPT !.getippt = Append(@, x)]
      /\ elNetz' = elNetz /\ elServer' = elServer
  BY <1>4 DEF Tippen
<1> HIDE DEF x
<1>7. Stimmt(elSt', elNetz, elServer, elGeist') BY <1>5, <1>6, GetipptGilt DEF Gerecht
<1>8. Stimmt(elSt', elNetz', elServer', elGeist') BY <1>6, <1>7
<1> QED BY <1>2, <1>4, <1>8 DEF Gerecht

LEMMA BusGilt ==
    ASSUME NEW s, NEW n, NEW v, NEW g, Stimmt(s, n, v, g), NEW b \in BOOLEAN, NEW f \in BOOLEAN, NEW m, NEW h,
           m = [n EXCEPT !.bus = b], h = [g EXCEPT !.gestoert = f], g.gestoert => f, b \/ f
    PROVE  Stimmt(s, m, v, h)
<1>1. s \in Station /\ n \in Netz /\ v \in Server /\ g \in Geist /\ Passend(s) BY DEF Stimmt, Fast, Art
<1>2. m \in Netz BY <1>1 DEF Netz
<1>3. h \in Geist BY <1>1 DEF Geist
<1>4. m.offen = n.offen /\ m.hin = n.hin /\ m.her = n.her /\ m.bus = b BY <1>1 DEF Netz
<1>5. h.getippt = g.getippt /\ h.gedruckt = g.gedruckt /\ h.gekuerzt = g.gekuerzt /\ h.gestoert = f BY <1>1 DEF Geist
<1>6. Zu(s, m) = Zu(s, n) /\ Post(s, m) = Post(s, n) BY <1>4 DEF Zu, Post
<1>7. Gestoert(s, g) => Gestoert(s, h) BY <1>5 DEF Gestoert
<1>8. Smtp(s, m, v, h)
  <2>1. ImGange(s, n, v, g) => ImGange(s, m, v, h) BY <1>5, <1>6 DEF ImGange
  <2> QED BY <1>5, <1>6, <2>1 DEF Stimmt, Fast, Smtp, Unbegonnen, Beendet
<1>9. Loeschen(s, m, v, h)
  <2>1. Bestellt(s, m, v) => Bestellt(s, n, v) BY <1>4 DEF Bestellt
  <2>2. Gut(s, v, g) => Gut(s, v, h) BY <1>5, <1>7 DEF Gut
  <2> QED BY <2>1, <2>2 DEF Stimmt, Fast, Loeschen
<1>10. Bus(s, m, h) BY <1>4, <1>5 DEF Bus
<1>11. Pop(s, m, v, h)
  <2>1. Frueh(s, n, g) => Frueh(s, m, h) BY <1>4, <1>5 DEF Frueh, Einer
  <2>2. Wartet(s, n, g) => Wartet(s, m, h) BY <1>4, <1>5 DEF Wartet, Stille
  <2>3. Kommt(s, n, v, g) => Kommt(s, m, v, h) BY <1>4, <1>5 DEF Kommt
  <2>4. Druckt(s, n, v, g) => Druckt(s, m, v, h) BY <1>4, <1>5, <1>7, <2>3 DEF Druckt, Angefordert
  <2> QED BY <2>1, <2>2, <2>4 DEF Stimmt, Pop
<1> QED BY <1>1, <1>2, <1>3, <1>8, <1>9, <1>10, <1>11 DEF Stimmt, Fast, Art

LEMMA RestStoerung ==
    ASSUME elRest \in Rest0, elRest.stoerungen > 0, elRest' = [elRest EXCEPT !.stoerungen = @ - 1]
    PROVE  elRest' \in Rest0 /\ elRest'.getippt = elRest.getippt
<1> DEFINE x == elRest.stoerungen - 1
<1>1. x \in Nat BY DEF Rest0
<1>2. elRest' = [elRest EXCEPT !.stoerungen = x] OBVIOUS
<1> HIDE DEF x
<1>3. [elRest EXCEPT !.stoerungen = x] \in Rest0 /\ [elRest EXCEPT !.stoerungen = x].getippt = elRest.getippt
  BY <1>1, RestGilt
<1> QED BY <1>2, <1>3

LEMMA BusFaelltAusGilt == ASSUME Gerecht, BusFaelltAus PROVE Gerecht'
<1> DEFINE b == FALSE f == TRUE
<1>1. b \in BOOLEAN /\ f \in BOOLEAN /\ f OBVIOUS
<1>2. elNetz' = [elNetz EXCEPT !.bus = b] /\ elGeist' = [elGeist EXCEPT !.gestoert = f] /\ elSt' = elSt /\ elServer' = elServer
  BY DEF BusFaelltAus
<1> HIDE DEF b, f
<1>3. Stimmt(elSt, elNetz', elServer, elGeist') BY <1>1, <1>2, BusGilt DEF Gerecht
<1>4. Stimmt(elSt', elNetz', elServer', elGeist') BY <1>2, <1>3
<1>5. elRest' \in Rest0 /\ elRest'.getippt = elRest.getippt BY RestStoerung DEF Gerecht, BusFaelltAus
<1> QED BY <1>4, <1>5 DEF Gerecht

LEMMA BusKommtWiederGilt == ASSUME Gerecht, BusKommtWieder PROVE Gerecht'
<1> DEFINE b == TRUE f == elGeist.gestoert
<1>1. elGeist \in Geist BY DEF Gerecht, Stimmt, Fast, Art
<1>2. b \in BOOLEAN /\ f \in BOOLEAN /\ b BY <1>1, Geistteile
<1>3. elGeist = [elGeist EXCEPT !.gestoert = f] BY <1>1 DEF Geist
<1>4. elNetz' = [elNetz EXCEPT !.bus = b] /\ elGeist' = elGeist /\ elSt' = elSt /\ elServer' = elServer /\ elRest' = elRest
  BY DEF BusKommtWieder
<1> HIDE DEF b
<1>5. Stimmt(elSt, elNetz', elServer, elGeist)
  <2>1. elGeist.gestoert => f OBVIOUS
  <2> HIDE DEF f
  <2> QED BY <1>2, <1>3, <1>4, <2>1, BusGilt DEF Gerecht
<1>6. Stimmt(elSt', elNetz', elServer', elGeist') BY <1>4, <1>5
<1> QED BY <1>4, <1>6 DEF Gerecht

(* The connection is closed or lost. *)
LEMMA GeschlossenGilt ==
    ASSUME Gerecht, elNetz' \in Netz, ~elNetz'.offen, elNetz'.hin \in {elNetz.hin, << >>},
           elNetz'.her \in {elNetz.her, << >>}, elNetz'.bus = elNetz.bus,
           elSt' = elSt, elServer' = elServer, elGeist' = elGeist,
           elRest' = elRest \/ (elRest.stoerungen > 0 /\ elRest' = [elRest EXCEPT !.stoerungen = @ - 1])
    PROVE  Gerecht'
<1>1. elSt \in Station BY DEF Gerecht, Stimmt, Fast, Art
<1>2. Gekappt(elSt, elNetz, elSt, elNetz') BY <1>1 DEF Gekappt, Zu
<1>3. Stimmt(elSt, elNetz', elServer, elGeist) BY <1>2, GekapptGilt DEF Gerecht
<1>4. Stimmt(elSt', elNetz', elServer', elGeist') BY <1>3
<1>5. elRest' \in Rest0 /\ elRest'.getippt = elRest.getippt BY RestStoerung DEF Gerecht
<1> QED BY <1>4, <1>5 DEF Gerecht

LEMMA NetzGilt == ASSUME Gerecht, TcpFrist \/ ServerSchliesst \/ Verlust PROVE Gerecht'
<1> DEFINE e == << >>
<1>1. elNetz \in Netz BY DEF Gerecht, Stimmt, Fast, Art
<1>2. e \in Seq(Token) BY OhneAlles
<1>3. \/ elNetz' = [elNetz EXCEPT !.offen = FALSE]
      \/ elNetz' = [elNetz EXCEPT !.offen = FALSE, !.hin = e]
      \/ elNetz' = [elNetz EXCEPT !.offen = FALSE, !.hin = e, !.her = e]
  BY DEF TcpFrist, ServerSchliesst, Verlust
<1> HIDE DEF e
<1>4. elNetz' \in Netz BY <1>1, <1>2, <1>3 DEF Netz
<1>5. /\ ~elNetz'.offen /\ elNetz'.hin \in {elNetz.hin, e} /\ elNetz'.her \in {elNetz.her, e} /\ elNetz'.bus = elNetz.bus
  BY <1>1, <1>3 DEF Netz
<1>6. /\ elSt' = elSt /\ elServer' = elServer /\ elGeist' = elGeist
      /\ elRest' = elRest \/ (elRest.stoerungen > 0 /\ elRest' = [elRest EXCEPT !.stoerungen = @ - 1])
  BY DEF TcpFrist, ServerSchliesst, Verlust
<1> QED BY <1>4, <1>5, <1>6, GeschlossenGilt DEF e

(***************************************************************************)
(* The server answers.                                                     *)
(***************************************************************************)
LEMMA AntwortenGilt ==
    ASSUME elServer \in Server, NEW k, NEW a \in Antworten(k)
    PROVE  /\ a \in Seq(Token)
           /\ ~elServer.imText /\ k \notin Fruehe => Len(a) <= 1
           /\ ~elServer.imText /\ k = "RETR" => a \in Antwort(elServer)
<1> DEFINE e == << >> x == "ok" y == "err" z == "mails" w == "keine"
<1>1. x \in Token /\ y \in Token /\ z \in Token /\ w \in Token BY DEF Token
<1>2. \/ a \in {e, <<x>>, <<y>>, <<z>>, <<w>>}
      \/ a = <<"ok", "ok">> /\ k = "EHLO"
      \/ a \in Antwort(elServer) /\ k = "RETR"
  BY DEF Antworten, Antwort
<1>3. ~elServer.imText /\ k = "RETR" => a \in Antwort(elServer) BY DEF Antworten, Antwort
<1>4. "EHLO" \in Fruehe /\ "RETR" \in Fruehe BY DEF Fruehe
<1>5. CASE a \in {e, <<x>>, <<y>>, <<z>>, <<w>>}
  <2> HIDE DEF x, y, z, w
  <2>1. \A u \in Token : <<u>> \in Seq(Token) /\ Len(<<u>>) = 1 BY Eines
  <2>2. e \in Seq(Token) /\ Len(e) = 0 BY EmptySeq
  <2> HIDE DEF e
  <2>3. a \in Seq(Token) /\ Len(a) <= 1
    <3>1. CASE a = e BY <2>2, <3>1
    <3>2. CASE a # e
      <4>1. PICK u \in Token : a = <<u>> BY <1>1, <1>5, <3>2
      <4>2. a \in Seq(Token) /\ Len(a) = 1 BY <4>1, Eines
      <4> QED BY <4>2
    <3> QED BY <3>1, <3>2
  <2> QED BY <1>3, <2>3
<1>6. CASE a = <<"ok", "ok">> /\ k = "EHLO"
  <2>1. <<x, x>> \in Seq(Token)
    <3> HIDE DEF x
    <3> QED BY <1>1
  <2> QED BY <1>3, <1>4, <1>6, <2>1
<1>7. CASE a \in Antwort(elServer) /\ k = "RETR"
  <2>1. a \in Seq(Token) BY <1>7, AntwortGilt
  <2> QED BY <1>3, <1>4, <1>7, <2>1
<1> QED BY <1>2, <1>5, <1>6, <1>7

(* What becomes of the server and of the net. *)
Genommener(v, q, w, ja) ==
    /\ w \in Server /\ w.mail = v.mail
    /\ w.imText = (IF v.imText THEN Head(q) # "PUNKT" ELSE Head(q) = "DATA" /\ ja)
    /\ w.text = (IF v.imText /\ Head(q) # "PUNKT" THEN Angehaengt(v.text, <<Head(q)>>) ELSE v.text)
    /\ w.angenommen = v.angenommen \/ (w.angenommen = v.text /\ w.text = v.text)
    /\ w.markiert => v.markiert \/ Head(q) = "DELE"
    /\ w.geloescht => v.geloescht \/ v.markiert

LEMMA StandNimmt ==
    ASSUME NEW v \in Server, NEW w, NEW q \in Seq(Token), q # << >>, NEW ja \in BOOLEAN, Genommener(v, q, w, ja)
    PROVE  /\ Abgelehnt(v, q) => Abgelehnt(w, Tail(q))
           /\ \A zu, x : Stand(zu, q, v, x) => Abgelehnt(w, Tail(q)) \/ Stand(zu, Tail(q), w, x)
           /\ \A y : Fluss(v, q) /\ Vor(Angekommen(v, q), y)
                         => Abgelehnt(w, Tail(q)) \/ (Fluss(w, Tail(q)) /\ Vor(Angekommen(w, Tail(q)), y))
           /\ \A X : Ohne(q, X) => Ohne(Tail(q), X) /\ Head(q) \notin X
           /\ Leer(v) /\ Ohne(q, {"DATA"}) => Leer(w)
<1> DEFINE k == Head(q) r == Tail(q) o == <<k>>
<1>1. k \in Token /\ r \in Seq(Token) /\ q = o \o r /\ q[1] = k BY Kopf
<1>2. Fluss(v, q) => \/ Abgelehnt(w, r)
                     \/ /\ Fluss(w, r) /\ Angekommen(w, r) = Angekommen(v, q)
                        /\ Empfaenglich(v, q) => Empfaenglich(w, r)
  BY ServerNimmt DEF Genommener
<1> HIDE DEF k, r
<1>3. o \in Seq(Token) /\ Len(o) = 1 /\ o[1] = k BY <1>1, Eines
<1>4. ASSUME NEW X, Ohne(q, X) PROVE Ohne(r, X) /\ k \notin X
  <2>1. Ohne(o, X) /\ Ohne(r, X)
    <3> HIDE DEF o
    <3> QED BY <1>1, <1>3, <1>4, OhneVerkettet
  <2> QED BY <1>3, <2>1 DEF Ohne
<1>5. ~v.imText /\ Ohne(q, {"DATA"}) => ~w.imText /\ w.text = v.text
  <2>1. Ohne(q, {"DATA"}) => k # "DATA" BY <1>4
  <2> QED BY <2>1 DEF Genommener, k
<1>6. Abgelehnt(v, q) => Abgelehnt(w, r) BY <1>4, <1>5 DEF Abgelehnt
<1>7. ASSUME NEW zu, NEW x, Stand(zu, q, v, x), ~Abgelehnt(w, r) PROVE Stand(zu, r, w, x)
  <2>1. Fluss(w, r) /\ Angekommen(w, r) = Angekommen(v, q) /\ (Empfaenglich(v, q) => Empfaenglich(w, r)) BY <1>2, <1>7 DEF Stand
  <2> QED BY <1>7, <2>1 DEF Stand
<1>8. ASSUME NEW y, Fluss(v, q), Vor(Angekommen(v, q), y), ~Abgelehnt(w, r) PROVE Fluss(w, r) /\ Vor(Angekommen(w, r), y)
  BY <1>2, <1>8
<1>9. Leer(v) /\ Ohne(q, {"DATA"}) => Leer(w) BY <1>5 DEF Leer
<1> QED BY <1>4, <1>6, <1>7, <1>8, <1>9 DEF k, r

LEMMA SmtpNimmt ==
    ASSUME NEW s \in Station, NEW n \in Netz, NEW v \in Server, NEW g \in Geist, Smtp(s, n, v, g), n.hin # << >>,
           NEW ja \in BOOLEAN, NEW m, m.hin = Tail(n.hin), m.offen = n.offen, NEW w, Genommener(v, n.hin, w, ja)
    PROVE  Smtp(s, m, w, g)
<1> DEFINE h == n.hin o == s.out k == Head(h) u == <<k>> r == Tail(h) q == Post(s, n) p == Post(s, m)
<1>1. h \in Seq(Token) /\ o \in Seq(Token) /\ h # << >> BY Stationsteile, Netzteile
<1>2. Zu(s, m) = Zu(s, n) BY DEF Zu
<1>3. q = (IF Zu(s, n) THEN h ELSE h \o o) /\ p = IF Zu(s, n) THEN r ELSE r \o o BY <1>2 DEF Post
<1> HIDE DEF h, o, q, p
<1>4. k \in Token /\ r \in Seq(Token) /\ h = u \o r BY <1>1, Kopf
<1> HIDE DEF k, r
<1>5. u \in Seq(Token) /\ Len(u) = 1 /\ u[1] = k BY <1>4, Eines
<1> HIDE DEF u
<1>6. q = u \o p /\ p \in Seq(Token)
  <2>0. u \in Seq(Token) /\ r \in Seq(Token) /\ o \in Seq(Token) BY <1>1, <1>4, <1>5
  <2>1. (u \o r) \o o = u \o (r \o o) BY <2>0, ConcatAssociative
  <2>2. r \o o \in Seq(Token) BY <2>0, ConcatProperties
  <2> QED BY <1>3, <1>4, <2>0, <2>1, <2>2
<1>7. q \in Seq(Token) /\ Len(q) = 1 + Len(p) /\ Len(p) \in Nat /\ q[1] = k
  <2> DEFINE l == Len(u)
  <2>1. /\ u \o p \in Seq(Token) /\ Len(u \o p) = l + Len(p) /\ Len(p) \in Nat
        /\ \A i \in 1 .. l + Len(p) : (u \o p)[i] = IF i <= l THEN u[i] ELSE p[i - l]
    BY <1>5, <1>6, ConcatProperties, LenProperties
  <2>2. l = 1 BY <1>5
  <2> HIDE DEF l
  <2>3. 1 \in 1 .. l + Len(p) /\ 1 <= l BY <2>1, <2>2
  <2>4. (u \o p)[1] = u[1] BY <2>1, <2>3
  <2> QED BY <1>5, <1>6, <2>1, <2>2, <2>4
<1>8. q # << >> BY <1>7, EmptySeq
<1>9. Head(q) = k /\ Tail(q) = p
  <2>1. Tail(q) \in Seq(Token) /\ Len(Tail(q)) = Len(q) - 1 /\ \A i \in 1 .. Len(Tail(q)) : Tail(q)[i] = q[i + 1]
    BY <1>7, <1>8, HeadTailProperties
  <2>2. Head(q) = k BY <1>7, <1>8, Kopf
  <2>3. \A i \in 1 .. Len(u) + Len(p) : (u \o p)[i] = IF i <= Len(u) THEN u[i] ELSE p[i - Len(u)]
    BY <1>5, <1>6, ConcatProperties
  <2>4. Len(Tail(q)) = Len(p) BY <1>7, <2>1
  <2>5. ASSUME NEW i \in 1 .. Len(p) PROVE Tail(q)[i] = p[i]
    <3>1. i + 1 \in 1 .. Len(u) + Len(p) /\ ~(i + 1 <= Len(u)) /\ (i + 1) - Len(u) = i BY <1>5, <1>7
    <3>2. q[i + 1] = p[i] BY <1>6, <2>3, <3>1
    <3> QED BY <2>1, <2>4, <3>2
  <2>6. Tail(q) = p BY <1>6, <2>1, <2>4, <2>5, SeqEqual
  <2> QED BY <2>2, <2>6
<1>10. Genommener(v, q, w, ja) BY <1>9 DEF Genommener, k, h
<1>11. /\ Abgelehnt(v, q) => Abgelehnt(w, p)
       /\ \A zu, x : Stand(zu, q, v, x) => Abgelehnt(w, p) \/ Stand(zu, p, w, x)
       /\ \A y : Fluss(v, q) /\ Vor(Angekommen(v, q), y)
                     => Abgelehnt(w, p) \/ (Fluss(w, p) /\ Vor(Angekommen(w, p), y))
       /\ \A X : Ohne(q, X) => Ohne(p, X)
       /\ Leer(v) /\ Ohne(q, {"DATA"}) => Leer(w)
  <2>1. q \in Seq(Token) /\ q # << >> BY <1>7, <1>8
  <2>2. /\ Abgelehnt(v, q) => Abgelehnt(w, Tail(q))
        /\ \A zu, x : Stand(zu, q, v, x) => Abgelehnt(w, Tail(q)) \/ Stand(zu, Tail(q), w, x)
    BY <1>10, <2>1, StandNimmt
  <2>3. \A y : Fluss(v, q) /\ Vor(Angekommen(v, q), y)
                   => Abgelehnt(w, Tail(q)) \/ (Fluss(w, Tail(q)) /\ Vor(Angekommen(w, Tail(q)), y))
    BY <1>10, <2>1, StandNimmt
  <2>4. ASSUME NEW X, Ohne(q, X) PROVE Ohne(Tail(q), X)
    <3>1. Ohne(u \o p, X) <=> Ohne(u, X) /\ Ohne(p, X) BY <1>5, <1>6, OhneVerkettet
    <3>2. Ohne(p, X) BY <1>6, <2>4, <3>1
    <3> QED BY <1>9, <3>2
  <2>5. Leer(v) /\ Ohne(q, {"DATA"}) => Leer(w) BY <1>10, <2>1, StandNimmt
  <2> QED BY <1>9, <2>2, <2>3, <2>4, <2>5
<1>12. Smtp(s, n, v, g) /\ q = Post(s, n) /\ p = Post(s, m) BY DEF q, p
<1>13. Vor(Buchstaben(w.angenommen), Buchstaben(w.text))
  <2> DEFINE a == v.angenommen t == v.text
  <2>1. a \in Seq(Token) /\ t \in Seq(Token) BY Serverteile
  <2>2. Buchstaben(a) \in Seq(Token) /\ Buchstaben(t) \in Seq(Token) /\ Vor(Buchstaben(a), Buchstaben(t))
    BY <1>12, <2>1, BuchstabenGilt DEF Smtp
  <2>3. w.angenommen = a \/ (w.angenommen = t /\ w.text = t) BY DEF Genommener
  <2>4. w.text = t \/ w.text = Angehaengt(t, u) BY <1>9, <1>10 DEF Genommener, u
  <2> HIDE DEF a, t
  <2>5. Buchstaben(Angehaengt(t, u)) = Buchstaben(t) \o Buchstaben(u) /\ Buchstaben(u) \in Seq(Token)
    <3>1. Buchstaben(Angehaengt(t, u)) = Buchstaben(t \o u) BY <1>5, <2>1, AngehaengtGilt
    <3>2. Buchstaben(t \o u) = Buchstaben(t) \o Buchstaben(u) /\ Buchstaben(u) \in Seq(Token)
      BY <1>5, <2>1, BuchstabenGilt
    <3> QED BY <3>1, <3>2
  <2>6. Vor(Buchstaben(a), Buchstaben(t) \o Buchstaben(u)) BY <2>2, <2>5, VorMehr
  <2>7. Vor(Buchstaben(t), Buchstaben(t)) BY <2>2, VorSelbst
  <2> QED BY <2>2, <2>3, <2>4, <2>5, <2>6, <2>7
<1>14. s.prot = "POP3" => Leer(w) /\ Ohne(p, Text \cup {"DATA"})
  <2> SUFFICES ASSUME s.prot = "POP3" PROVE Leer(w) /\ Ohne(p, Text \cup {"DATA"}) OBVIOUS
  <2>1. Leer(v) /\ Ohne(q, Text \cup {"DATA"}) BY <1>12 DEF Smtp
  <2>2. Ohne(q, {"DATA"}) BY <2>1, OhneWeniger
  <2> QED BY <1>11, <2>1, <2>2
<1>15. Unbegonnen(s, n, v, g) => Unbegonnen(s, m, w, g)
  <2> SUFFICES ASSUME Unbegonnen(s, n, v, g) PROVE Unbegonnen(s, m, w, g) OBVIOUS
  <2>1. Leer(v) /\ Ohne(q, Text \cup {"DATA", "PUNKT"}) BY <1>12 DEF Unbegonnen
  <2>2. Ohne(q, {"DATA"}) BY <2>1, OhneWeniger
  <2> QED BY <1>11, <1>12, <2>1, <2>2 DEF Unbegonnen
<1>16. ImGange(s, n, v, g) => Abgelehnt(w, p) \/ ImGange(s, m, w, g) BY <1>2, <1>11, <1>12 DEF ImGange
<1>17. Beendet(s, n, v, g) => Abgelehnt(w, p) \/ Beendet(s, m, w, g) BY <1>11, <1>12 DEF Beendet
<1> QED BY <1>11, <1>12, <1>13, <1>14, <1>15, <1>16, <1>17 DEF Smtp

(* What the server answers goes on its way; the first lines of the mail    *)
(* are the answer to RETR.                                                 *)
LEMMA BeantwortetGilt ==
    ASSUME NEW s, NEW n, NEW g, Stimmt(s, n, elServer, g), n.hin # << >>, NEW a \in Antworten(Head(n.hin)), NEW ja \in BOOLEAN,
           NEW w, Genommener(elServer, n.hin, w, ja), NEW m,
           m = [n EXCEPT !.hin = Tail(@), !.her = IF n.offen THEN @ \o a ELSE @]
    PROVE  Stimmt(s, m, w, g)
<1> DEFINE v == elServer h == n.hin k == Head(h) u == <<k>> r == Tail(h) x == n.her \o a
           y == IF n.offen THEN x ELSE n.her e == << >>
<1>1. s \in Station /\ n \in Netz /\ v \in Server /\ g \in Geist /\ Passend(s) BY DEF Stimmt, Fast, Art
<1>2. h \in Seq(Token) /\ n.her \in Seq(Token) /\ s.out \in Seq(Token) /\ h # e BY <1>1, Netzteile, Stationsteile
<1>3. /\ a \in Seq(Token)
      /\ ~v.imText /\ k \notin Fruehe => Len(a) <= 1
      /\ ~v.imText /\ k = "RETR" => a \in Antwort(v)
  BY <1>1, AntwortenGilt
<1> HIDE DEF h, e
<1>4. k \in Token /\ r \in Seq(Token) /\ h = u \o r BY <1>2, Kopf DEF e
<1>5. m = [n EXCEPT !.hin = r, !.her = y] BY DEF h
<1> HIDE DEF k, r
<1>6. x \in Seq(Token) BY <1>2, <1>3, ConcatProperties
<1>7. u \in Seq(Token) /\ Len(u) = 1 /\ u[1] = k BY <1>4, Eines
<1> HIDE DEF u, x
<1>8. y \in Seq(Token) BY <1>2, <1>6
<1> HIDE DEF y
<1>9. m \in Netz BY <1>1, <1>4, <1>5, <1>8 DEF Netz
<1>10. m.offen = n.offen /\ m.hin = r /\ m.her = y /\ m.bus = n.bus BY <1>1, <1>5 DEF Netz
<1>11. w \in Server /\ w.mail = v.mail BY DEF Genommener
<1>12. Genommener(v, h, w, ja) BY DEF h
<1>13. Smtp(s, m, w, g)
  <2>1. Smtp(s, n, v, g) /\ n.hin # << >> BY DEF Stimmt, Fast
  <2>2. m.hin = Tail(n.hin) /\ m.offen = n.offen BY <1>10 DEF r, h
  <2>3. Genommener(v, n.hin, w, ja) OBVIOUS
  <2> HIDE DEF v
  <2> QED BY <1>1, <2>1, <2>2, <2>3, SmtpNimmt
<1>14. \A X : Ohne(h, X) => Ohne(r, X) /\ k \notin X
  <2> SUFFICES ASSUME NEW X, Ohne(h, X) PROVE Ohne(r, X) /\ k \notin X OBVIOUS
  <2>1. Ohne(u, X) /\ Ohne(r, X) BY <1>4, <1>7, OhneVerkettet
  <2> QED BY <1>7, <2>1 DEF Ohne
<1>15. Loeschen(s, m, w, g)
  <2>1. Bestellt(s, m, w) => Bestellt(s, n, v)
    <3>1. w.markiert => v.markiert \/ k = "DELE" BY <1>12 DEF Genommener, k
    <3>2. w.geloescht => v.geloescht \/ v.markiert BY <1>12 DEF Genommener
    <3>3. Ohne(h, {"DELE"}) => Ohne(r, {"DELE"}) /\ k # "DELE" BY <1>14
    <3> QED BY <1>10, <3>1, <3>2, <3>3 DEF Bestellt, h
  <2>2. Gut(s, v, g) => Gut(s, w, g) BY <1>11 DEF Gut
  <2> QED BY <2>1, <2>2 DEF Loeschen, Stimmt, Fast
<1>16. Bus(s, m, g) BY <1>10 DEF Bus, Stimmt, Fast
<1>17. Len(h) = 1 + Len(r) /\ Len(r) \in Nat
  <2> DEFINE l == Len(u)
  <2>1. Len(u \o r) = l + Len(r) /\ Len(r) \in Nat BY <1>4, <1>7, ConcatProperties, LenProperties
  <2>2. l = 1 BY <1>7
  <2> HIDE DEF l
  <2> QED BY <1>4, <2>1, <2>2
<1>18. Holt(s) => ~v.imText BY DEF Holt, Stimmt, Fast, Smtp, Leer
<1>19. Frueh(s, n, g) /\ Holt(s) => Frueh(s, m, g)
  <2> SUFFICES ASSUME Frueh(s, n, g), Holt(s) PROVE Frueh(s, m, g) OBVIOUS
  <2>1. Ohne(h, Fruehe) /\ Einer(s, n) BY DEF Frueh, h
  <2>2. k \notin Fruehe /\ Ohne(r, Fruehe) BY <1>14, <2>1
  <2>3. Len(a) <= 1 /\ Len(a) \in Nat BY <1>3, <1>18, <2>2, LenProperties
  <2>4. s.in \in {<< >>, <<"halb">>} /\ Len(s.out) + Len(h) + Len(n.her) <= 1 BY <1>2, <2>1 DEF Einer, h, e
  <2>5. Len(r) = 0 /\ Len(s.out) = 0 /\ Len(n.her) = 0
    <3> DEFINE c == Len(s.out) d == Len(n.her) f == Len(r) i == Len(h)
    <3>1. c \in Nat /\ d \in Nat /\ f \in Nat /\ i = 1 + f /\ c + i + d <= 1 BY <1>2, <1>17, <2>4, LenProperties
    <3> HIDE DEF c, d, f, i
    <3>2. f = 0 /\ c = 0 /\ d = 0 BY <3>1
    <3> QED BY <3>2 DEF c, d, f
  <2>6. n.her = e BY <1>2, <2>5, EmptySeq DEF e
  <2>7. x = a
    <3>1. e \o a = a BY <1>3, ConcatEmptySeq DEF e
    <3> QED BY <2>6, <3>1 DEF x
  <2>8. Len(y) <= 1 BY <2>3, <2>5, <2>7 DEF y
  <2>9. Len(s.out) + Len(r) + Len(y) <= 1
    <3> DEFINE c == Len(s.out) d == Len(y) f == Len(r)
    <3>1. c = 0 /\ f = 0 /\ d \in Nat /\ d <= 1 BY <1>8, <2>5, <2>8, LenProperties
    <3> HIDE DEF c, d, f
    <3>2. c + f + d <= 1 BY <3>1
    <3> QED BY <3>2 DEF c, d, f
  <2>10. Einer(s, m) BY <1>10, <2>4, <2>9 DEF Einer
  <2> QED BY <1>10, <2>2, <2>10 DEF Frueh
<1>20. Wartet(s, n, g) => Wartet(s, m, g)
  <2>1. ~Stille(s, n) BY <1>2 DEF Stille, h, e
  <2> QED BY <2>1 DEF Wartet
<1>21. Angefordert(s, n, g) /\ Holt(s) => Kommt(s, m, w, g)
  <2> SUFFICES ASSUME Angefordert(s, n, g), Holt(s) PROVE Kommt(s, m, w, g) OBVIOUS
  <2> DEFINE o == s.out z == "RETR" c == <<z>>
  <2>1. h \o o = c /\ s.in = e /\ n.her = e /\ g.gedruckt = e BY DEF Angefordert, h, e
  <2>2. o \in Seq(Token) /\ z \in Token BY <1>2 DEF Token, Marken
  <2> HIDE DEF o, z
  <2>3. Len(c) = 1 /\ c[1] = z BY <2>2, Eines
  <2>4. Len(h \o o) = Len(h) + Len(o) /\ Len(o) \in Nat BY <1>2, <2>2, ConcatProperties, LenProperties
  <2>5. Len(r) = 0 /\ Len(o) = 0
    <3> DEFINE i == Len(h \o o) f == Len(r) d == Len(o) j == Len(h)
    <3>1. i = 1 /\ i = j + d /\ j = 1 + f /\ f \in Nat /\ d \in Nat BY <1>17, <2>1, <2>3, <2>4
    <3> HIDE DEF i, f, d, j
    <3>2. f = 0 /\ d = 0 BY <3>1
    <3> QED BY <3>2 DEF f, d
  <2>6. r = e /\ o = e BY <1>4, <2>2, <2>5, EmptySeq DEF e
  <2>7. k = z
    <3>1. h \o e = h /\ u \o e = u BY <1>2, <1>7, ConcatEmptySeq DEF e
    <3>2. u = c BY <1>4, <2>1, <2>6, <3>1
    <3> QED BY <1>7, <2>3, <3>2
  <2>8. a \in Antwort(v) BY <1>3, <1>18, <2>7 DEF z
  <2>9. e \o a = a /\ e \in Seq(Token) BY <1>3, ConcatEmptySeq, EmptySeq DEF e
  <2>10. x = a BY <2>1, <2>9 DEF x
  <2>11. y = a \/ y = e BY <2>1, <2>10 DEF y
  <2>12. CASE y = e BY <1>10, <1>11, <2>1, <2>6, <2>12, AnfangKommt DEF e, o
  <2>13. CASE y = a
    <3>1. a \in Antwort(w) BY <1>11, <2>8 DEF Antwort
    <3>2. Len(a) \in Nat BY <1>3, LenProperties
    <3>3. Passt(e \o y, a, 0) BY <2>9, <2>13, <3>2 DEF Passt
    <3>4. Gepuffert(e, e, a, 0) BY DEF Gepuffert
    <3>5. SubSeq(a, 1, 0) = e
      <4>1. 0 \in 0 .. Len(a) BY <3>2
      <4>2. SubSeq(a, 1, 0) \in Seq(Token) /\ Len(SubSeq(a, 1, 0)) = 0 BY <1>3, <4>1, Geteilt
      <4> QED BY <4>2, EmptySeq DEF e
    <3>6. Auswahl(e, Zeilen) = e BY AuswahlLeer DEF e
    <3>7. Gelesen(s.in, m.her, a, 0, g.gedruckt)
      <4>1. Gelesen(e, y, a, 0, e) BY <2>9, <3>3, <3>4, <3>5, <3>6 DEF Gelesen
      <4> QED BY <1>10, <2>1, <4>1
    <3>8. 0 \in 0 .. Len(a) BY <3>2
    <3>9. \E j \in 0 .. Len(a) : Gelesen(s.in, m.her, a, j, g.gedruckt) BY <3>7, <3>8
    <3>10. m.hin = << >> /\ s.out = << >> BY <1>10, <2>6 DEF o, e
    <3> QED BY <3>1, <3>9, <3>10 DEF Kommt
  <2> QED BY <2>11, <2>12, <2>13
<1>22. ~Kommt(s, n, v, g) BY <1>2 DEF Kommt, h, e
<1>23. Pop(s, m, w, g)
  <2>1. Holt(s) /\ Druckt(s, n, v, g) => Druckt(s, m, w, g) BY <1>21, <1>22 DEF Druckt
  <2> QED BY <1>19, <1>20, <2>1 DEF Stimmt, Pop
<1> QED BY <1>1, <1>9, <1>11, <1>13, <1>15, <1>16, <1>23 DEF Stimmt, Fast, Art

LEMMA AntwortetGilt == ASSUME Gerecht, Antwortet PROVE Gerecht'
<1> DEFINE n == elNetz v == elServer w == elServer' k == Head(n.hin) u == <<k>>
<1>1. Stimmt(elSt, n, v, elGeist) /\ n \in Netz /\ v \in Server BY DEF Gerecht, Stimmt, Fast, Art
<1>2. n.hin # << >> /\ elSt' = elSt /\ elGeist' = elGeist /\ elRest' = elRest BY DEF Antwortet
<1>3. PICK a \in Antworten(k) :
          /\ elNetz' = [elNetz EXCEPT !.hin = Tail(@), !.her = IF elNetz.offen THEN @ \o a ELSE @]
          /\ elServer' = [elServer EXCEPT
                !.imText = IF @ THEN k # "PUNKT" ELSE k = "DATA" /\ a = <<"ok">>,
                !.text = IF elServer.imText /\ k # "PUNKT" THEN Angehaengt(@, <<k>>) ELSE @,
                !.angenommen = IF elServer.imText /\ k = "PUNKT" /\ a = <<"ok">> THEN elServer.text ELSE @,
                !.markiert = @ \/ (k = "DELE" /\ a = <<"ok">>),
                !.geloescht = @ \/ (k = "QUIT" /\ elServer.markiert)]
  BY DEF Antwortet
<1> DEFINE ja == a = <<"ok">>
           i == IF v.imText THEN k # "PUNKT" ELSE k = "DATA" /\ ja
           t == IF v.imText /\ k # "PUNKT" THEN Angehaengt(v.text, u) ELSE v.text
           b == IF v.imText /\ k = "PUNKT" /\ ja THEN v.text ELSE v.angenommen
           c == v.markiert \/ (k = "DELE" /\ ja)
           d == v.geloescht \/ (k = "QUIT" /\ v.markiert)
<1>4. k \in Token BY <1>1, <1>2, Netzteile, Kopf
<1>5. v.text \in Seq(Token) /\ v.angenommen \in Seq(Token) /\ v.markiert \in BOOLEAN /\ v.geloescht \in BOOLEAN /\ v.imText \in BOOLEAN
  BY <1>1, Serverteile
<1>6. w = [v EXCEPT !.imText = i, !.text = t, !.angenommen = b, !.markiert = c, !.geloescht = d] BY <1>3
<1>7. ja \in BOOLEAN OBVIOUS
<1> HIDE DEF k, ja
<1>8. u \in Seq(Token) BY <1>4, Eines
<1>9. Angehaengt(v.text, u) \in Seq(Token)
  <2> DEFINE z == v.text
  <2>1. z \in Seq(Token) BY <1>5
  <2> HIDE DEF z, u
  <2>2. Angehaengt(z, u) \in Seq(Token) BY <1>8, <2>1, AngehaengtGilt
  <2> QED BY <2>2 DEF z
<1>10. i \in BOOLEAN /\ t \in Seq(Token) /\ b \in Seq(Token) /\ c \in BOOLEAN /\ d \in BOOLEAN BY <1>5, <1>7, <1>9
<1>11. /\ i = (IF v.imText THEN k # "PUNKT" ELSE k = "DATA" /\ ja)
       /\ t = (IF v.imText /\ k # "PUNKT" THEN Angehaengt(v.text, u) ELSE v.text)
       /\ b = v.angenommen \/ (b = v.text /\ t = v.text)
       /\ c => v.markiert \/ k = "DELE"
       /\ d => v.geloescht \/ v.markiert
  OBVIOUS
<1> HIDE DEF i, t, b, c, d, w
<1>12. w \in Server BY <1>1, <1>6, <1>10 DEF Server
<1>13. w.mail = v.mail /\ w.imText = i /\ w.text = t /\ w.angenommen = b /\ w.markiert = c /\ w.geloescht = d
  BY <1>1, <1>6 DEF Server
<1>14. Genommener(v, n.hin, w, ja) BY <1>11, <1>12, <1>13 DEF Genommener, k
<1>15. Stimmt(elSt, elNetz', w, elGeist)
  <2>1. a \in Antworten(Head(elNetz.hin)) BY DEF k
  <2>2. elNetz' = [elNetz EXCEPT !.hin = Tail(@), !.her = IF elNetz.offen THEN @ \o a ELSE @] BY <1>3
  <2> QED BY <1>1, <1>2, <1>7, <1>14, <2>1, <2>2, BeantwortetGilt
<1>16. Stimmt(elSt', elNetz', elServer', elGeist') BY <1>2, <1>15 DEF w
<1> QED BY <1>2, <1>16 DEF Gerecht

(***************************************************************************)
(* The invariant holds.                                                    *)
(***************************************************************************)
LEMMA AnfangGilt == ASSUME ElInit PROVE Gerecht
<1> DEFINE e == << >> u == {}
<1>1. e \in Seq(Token) /\ e \in Seq(ElZeichen) /\ u \in SUBSET ElUhren BY OhneAlles
<1>2. "WarteEnde" \in Phasen /\ "WarteEnde" \in Spaet /\ "Ruhe" \in ElModi BY DEF Phasen, Spaet, ElModi
<1>3. elSt = [modus |-> "Ruhe", verb |-> FALSE, handle |-> FALSE, geplant |-> FALSE, prot |-> "POP3",
              phase |-> "WarteEnde", ok |-> FALSE, in |-> e, out |-> e, druck |-> 0, ein |-> e,
              anfang |-> TRUE, weg |-> FALSE, frage |-> FALSE, um |-> u, verworfen |-> FALSE]
  BY DEF ElInit
<1>4. elNetz = [offen |-> FALSE, hin |-> e, her |-> e, bus |-> TRUE] BY DEF ElInit
<1>5. Len(e) = 0 BY EmptySeq
<1> HIDE DEF e, u
<1>6. elSt \in Station BY <1>1, <1>2, <1>3 DEF Station
<1>7. elNetz \in Netz BY <1>1, <1>4 DEF Netz
<1>8. Passend(elSt)
  <2>1. /\ elSt.modus = "Ruhe" /\ elSt.verb = FALSE /\ elSt.handle = FALSE /\ elSt.prot = "POP3" /\ elSt.phase = "WarteEnde"
        /\ elSt.in = e /\ elSt.druck = 0
    BY <1>3
  <2> QED BY <1>2, <1>5, <2>1, Groessen DEF Passend, Phasengerecht
<1>9. Pop(elSt, elNetz, elServer, elGeist) BY <1>3 DEF Pop, Holt
<1>10. elSt.out = << >> /\ elSt.modus # "EmailPOPDruckend" /\ elSt.prot # "SMTP" /\ elNetz.hin = << >> BY <1>3, <1>4 DEF e
<1>11. << >> \in ElMails \cup {<< >>} OBVIOUS
<1>12. /\ elServer = [imText |-> FALSE, text |-> << >>, angenommen |-> << >>, mail |-> << >>, markiert |-> FALSE,
                      geloescht |-> FALSE]
       /\ elGeist = [getippt |-> << >>, gedruckt |-> << >>, gekuerzt |-> FALSE, gestoert |-> FALSE]
  BY DEF ElInit
<1>13. Stimmt(elSt, elNetz, elServer, elGeist) BY <1>6, <1>7, <1>8, <1>9, <1>10, <1>11, <1>12, NeuGilt
<1>14. elRest \in Rest0 /\ elRest.getippt <= Len(ElText) BY Groessen DEF ElInit, Rest0
<1> QED BY <1>13, <1>14 DEF Gerecht

LEMMA SchrittBleibt == ASSUME Gerecht, [ElNext]_elVars PROVE Gerecht'
<1>1. CASE ElDurchlauf BY <1>1, ElDurchlaufGilt
<1>2. CASE POP3Einleiten BY <1>2, POP3EinleitenGilt
<1>3. CASE SMTPOeffnen BY <1>3, SMTPOeffnenGilt
<1>4. ASSUME NEW u \in ElUhren, ElUhr(u) PROVE Gerecht' BY <1>4, ElUhrGilt
<1>5. CASE Drucken BY <1>5, DruckenGilt
<1>6. CASE Tippen BY <1>6, TippenGilt
<1>7. CASE BusFaelltAus BY <1>7, BusFaelltAusGilt
<1>8. CASE BusKommtWieder BY <1>8, BusKommtWiederGilt
<1>9. CASE TcpFrist \/ ServerSchliesst \/ Verlust BY <1>9, NetzGilt
<1>10. CASE Antwortet BY <1>10, AntwortetGilt
<1>11. CASE UNCHANGED elVars
  <2>1. elSt' = elSt /\ elNetz' = elNetz /\ elServer' = elServer /\ elGeist' = elGeist /\ elRest' = elRest BY <1>11 DEF elVars
  <2>2. Stimmt(elSt', elNetz', elServer', elGeist') BY <2>1 DEF Gerecht
  <2> QED BY <2>1, <2>2 DEF Gerecht
<1> QED BY <1>1, <1>2, <1>3, <1>4, <1>5, <1>6, <1>7, <1>8, <1>9, <1>10, <1>11 DEF ElNext

LEMMA ImmerGerecht == ElSpec => []Gerecht
<1>1. ElInit => Gerecht BY AnfangGilt
<1>2. Gerecht /\ [ElNext]_elVars => Gerecht' BY SchrittBleibt
<1> QED BY <1>1, <1>2, PTL DEF ElSpec

(* The types and bounds: the buffers of the socket and of the printer are  *)
(* never overfilled, there is no handle without a connection, and no       *)
(* connection while the line is free.                                      *)
THEOREM ElTypGilt == ElSpec => []ElTyp
<1>1. Gerecht => ElTyp
  <2> SUFFICES ASSUME Gerecht PROVE ElTyp OBVIOUS
  <2>1. elSt \in Station /\ Passend(elSt) BY DEF Gerecht, Stimmt, Fast, Art
  <2>2. elSt.modus \in ElModi /\ elSt.druck \in Nat /\ elSt.um \subseteq ElUhren BY <2>1, Stationsteile
  <2>3. elSt.druck \in 0 .. ElDruckMax + 1 BY <2>1, <2>2, Groessen DEF Passend
  <2> QED BY <2>1, <2>2, <2>3 DEF ElTyp, Passend
<1> QED BY <1>1, ImmerGerecht, PTL

(* What an SMTP server accepts is the beginning of what was typed, for any *)
(* text, wherever the session is interrupted (SMTPDatenVerarbeiten,        *)
(* eMail.c).                                                               *)
THEOREM AngenommenIstAnfangGilt == ElSpec => []AngenommenIstAnfang
<1>1. Gerecht => AngenommenIstAnfang
  <2> SUFFICES ASSUME Gerecht PROVE AngenommenIstAnfang OBVIOUS
  <2> DEFINE s == elSt n == elNetz v == elServer g == elGeist
             a == Buchstaben(v.angenommen) b == Buchstaben(v.text) c == Buchstaben(g.getippt)
  <2>1. Art(s, n, v, g) /\ Smtp(s, n, v, g) /\ s \in Station /\ n \in Netz /\ v \in Server /\ g \in Geist
    BY DEF Gerecht, Stimmt, Fast, Art
  <2>2. v.angenommen \in Seq(Token) /\ v.text \in Seq(Token) /\ g.getippt \in Seq(Token) BY <2>1, Serverteile, Geistteile
  <2>3. a \in Seq(Token) /\ b \in Seq(Token) /\ c \in Seq(Token) BY <2>2, BuchstabenGilt
  <2>4. Vor(a, b) BY <2>1 DEF Smtp
  <2>5. Vor(b, c)
    <3> DEFINE q == Post(s, n)
    <3>1. b = << >> => Vor(b, c) BY <2>3, VorLeer
    <3>2. s.prot = "POP3" => b = << >> BY <2>1 DEF Smtp, Leer
    <3>3. s.prot = "SMTP" => Abgelehnt(v, q) \/ Beendet(s, n, v, g) BY <2>1, SmtpStand
    <3>4. Abgelehnt(v, q) => b = << >> BY DEF Abgelehnt
    <3>5. ASSUME Beendet(s, n, v, g) PROVE Vor(b, c)
      <4>1. q \in Seq(Token) BY <2>1, PostGilt
      <4> DEFINE d == Buchstaben(q)
      <4>2. d \in Seq(Token) BY <4>1, BuchstabenGilt
      <4>3. Vor(b \o d, c) BY <3>5 DEF Beendet, Angekommen
      <4> HIDE DEF a, b, c, d
      <4> QED BY <2>3, <4>2, <4>3, VorWeniger
    <3>6. s.prot \in {"POP3", "SMTP"} BY <2>1, Stationsteile
    <3> QED BY <3>1, <3>2, <3>3, <3>4, <3>5, <3>6
  <2> HIDE DEF a, b, c
  <2>6. Vor(a, c) BY <2>3, <2>4, <2>5, VorDurch
  <2>7. IsPrefix(a, c) BY <2>3, <2>6, VorIstPrefix
  <2> QED BY <2>7 DEF AngenommenIstAnfang, a, c
<1> QED BY <1>1, ImmerGerecht, PTL

(* A mail is only deleted when it has gone into the print buffer as a      *)
(* whole, for any mail, buffers of any size and any interruption           *)
(* (POP3DatenVerarbeiten, eMail.c), except as GeloeschtNurGelesen says.    *)
THEOREM GeloeschtNurGelesenGilt == ElSpec => []GeloeschtNurGelesen
<1>1. Gerecht => GeloeschtNurGelesen
  <2> SUFFICES ASSUME Gerecht, elServer.geloescht PROVE Gut(elSt, elServer, elGeist)
    BY DEF GeloeschtNurGelesen, Gut, Gestoert, Zeilen
  <2>1. Loeschen(elSt, elNetz, elServer, elGeist) BY DEF Gerecht, Stimmt, Fast
  <2> QED BY <2>1 DEF Loeschen, Bestellt
<1> QED BY <1>1, ImmerGerecht, PTL
=============================================================================
