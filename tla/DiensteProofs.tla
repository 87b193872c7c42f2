--------------------------- MODULE DiensteProofs ---------------------------
(***************************************************************************)
(* Theorems about the components of MCDienste, which share no state: the   *)
(* directory (part 1) and the byte stream (part 2).                        *)
(***************************************************************************)
EXTENDS TlnBuch, TcpStrom, SequenceTheorems, FiniteSetTheorems,
        NaturalsInduction, WellFoundedInduction, TLAPS

(***************************************************************************)
(* Part 1.  The directory: whatever is stored, evicted, sorted or loaded,  *)
(* it fits its memory and has every number once; a listing that is not     *)
(* disturbed is complete; the sum is right two rounds after the last       *)
(* change; a saved directory is whole.                                     *)
(*                                                                         *)
(* The loops of the source are recursive functions.  What a loop keeps is  *)
(* proved once, for the set of states in which it may be (Lauf, Bleibt).   *)
(***************************************************************************)

Eintrag == [nr : TbNummer, gr : Nat \ {0}, lokal : BOOLEAN, geloescht : BOOLEAN, datum : Datum]
Eindeutig(b) == \A i, j \in DOMAIN b : b[i].nr = b[j].nr => i = j
Gut(b) == b \in Seq(Eintrag) /\ Eindeutig(b) /\ (MemUsed(b) < TlnBuchMemMax \/ b = << >>)

(***************************************************************************)
(* Numbers and loops.                                                      *)
(***************************************************************************)
LEMMA Groessen ==
    /\ TlnBuchMemMax \in Nat /\ TbMaxZeit \in Nat /\ TbMaxAenderungen \in Nat
    /\ TbFassung \subseteq Fassung /\ TbNummer \subseteq Nat /\ IsFiniteSet(TbNummer)
<1>1. TbFassung \subseteq Fassung /\ IsFiniteSet(TbFassung) BY TbAnnahme
<1>2. TbNummer \subseteq Nat BY <1>1 DEF TbNummer, Fassung
<1>3. IsFiniteSet(TbNummer)
  <2> DEFINE F == [f \in TbFassung |-> f.nr]
  <2>1. F \in Surjection(TbFassung, TbNummer) BY DEF Surjection, TbNummer
  <2> HIDE DEF F
  <2> QED BY <1>1, <2>1, FS_Surjection
<1> QED BY <1>1, <1>2, <1>3, TbAnnahme

(* Every set of numbers has a least one. *)
LEMMA Kleinste ==
    ASSUME NEW T, T \subseteq Nat, T # {}
    PROVE  \E x \in T : \A y \in T : x <= y
<1> DEFINE R == {p \in Nat \X Nat : p[1] < p[2]}
<1>1. IsWellFoundedOn(R, Nat) BY NatLessThanWellFounded DEF OpToRel
<1>2. PICK x \in T : \A y \in T : ~(<<y, x>> \in R) BY <1>1, WFMin
<1>3. \A y \in T : ~(y < x) BY <1>2
<1> QED BY <1>3

(* Induction, said of a set. *)
LEMMA AlleZahlen ==
    ASSUME NEW T, 0 \in T, \A n \in Nat : n \in T => n + 1 \in T
    PROVE  Nat \subseteq T
<1> SUFFICES ASSUME Nat \ T # {} PROVE FALSE OBVIOUS
<1>1. PICK x \in Nat \ T : \A y \in Nat \ T : x <= y BY Kleinste
<1>2. x # 0 BY <1>1
<1>3. x - 1 \in Nat /\ ~(x <= x - 1) BY <1>1, <1>2
<1>4. x - 1 \in T BY <1>1, <1>3
<1>5. (x - 1) + 1 = x BY <1>1
<1> QED BY <1>1, <1>3, <1>4, <1>5

(* What the steps of a loop keep holds after each of them. *)
LEMMA Bleibt ==
    ASSUME NEW S, NEW f, NEW N \in Nat, f[0] \in S,
           \A i \in 1 .. N : f[i - 1] \in S => f[i] \in S
    PROVE  \A i \in 0 .. N : f[i] \in S
<1> DEFINE T == {n \in Nat : n <= N => f[n] \in S}
<1>1. 0 \in T OBVIOUS
<1>2. ASSUME NEW n \in Nat, n \in T PROVE n + 1 \in T
  <2> SUFFICES ASSUME n + 1 <= N PROVE f[n + 1] \in S OBVIOUS
  <2>1. n <= N /\ n + 1 \in 1 .. N /\ (n + 1) - 1 = n OBVIOUS
  <2> QED BY <1>2, <2>1
<1>3. Nat \subseteq T
  <2> HIDE DEF T
  <2> QED BY <1>1, <1>2, AlleZahlen
<1> QED BY <1>3

(* F gives the state after step i from the state before it. *)
IstLauf(f, N, a, F) == f = [i \in 0 .. N |-> IF i = 0 THEN a ELSE F[<<i, f[i - 1]>>]]

LEMMA LaufVorhanden ==
    ASSUME NEW a, NEW F, NEW N \in Nat
    PROVE  \E f : IstLauf(f, N, a, F)
<1> DEFINE T == {n \in Nat : \E f : IstLauf(f, n, a, F)}
<1>1. 0 \in T
  <2> DEFINE f == [i \in 0 .. 0 |-> a]
  <2>1. f = [i \in 0 .. 0 |-> IF i = 0 THEN a ELSE F[<<i, f[i - 1]>>]] OBVIOUS
  <2>2. IstLauf(f, 0, a, F) BY <2>1 DEF IstLauf
  <2> QED BY <2>2
<1>2. ASSUME NEW n \in Nat, n \in T PROVE n + 1 \in T
  <2>1. PICK f : IstLauf(f, n, a, F) BY <1>2
  <2> DEFINE g == [i \in 0 .. n + 1 |-> IF i <= n THEN f[i] ELSE F[<<n + 1, f[n]>>]]
             h == [i \in 0 .. n + 1 |-> IF i = 0 THEN a ELSE F[<<i, g[i - 1]>>]]
  <2>2. ASSUME NEW i \in 0 .. n + 1 PROVE g[i] = h[i]
    <3>1. CASE i = 0
      <4>1. g[i] = f[0] /\ h[i] = a BY <3>1
      <4>2. f[0] = a BY <2>1 DEF IstLauf
      <4> QED BY <4>1, <4>2
    <3>2. CASE i \in 1 .. n
      <4>1. i # 0 /\ i <= n /\ i - 1 \in 0 .. n + 1 /\ i - 1 <= n /\ i \in 0 .. n BY <3>2
      <4>2. g[i] = f[i] /\ g[i - 1] = f[i - 1] BY <4>1
      <4>3. h[i] = F[<<i, g[i - 1]>>] BY <4>1
      <4>4. f[i] = F[<<i, f[i - 1]>>] BY <2>1, <4>1 DEF IstLauf
      <4> QED BY <4>2, <4>3, <4>4
    <3>3. CASE i = n + 1
      <4>1. i # 0 /\ ~(i <= n) /\ i - 1 = n /\ n \in 0 .. n + 1 /\ n <= n BY <3>3
      <4>2. g[i] = F[<<n + 1, f[n]>>] /\ g[n] = f[n] BY <4>1
      <4>3. h[i] = F[<<i, g[n]>>] BY <4>1
      <4> QED BY <3>3, <4>2, <4>3
    <3> QED BY <3>1, <3>2, <3>3
  <2>3. g = h
    <3>1. DOMAIN g = 0 .. n + 1 /\ DOMAIN h = 0 .. n + 1 OBVIOUS
    <3>2. g = [i \in 0 .. n + 1 |-> g[i]] /\ h = [i \in 0 .. n + 1 |-> h[i]] OBVIOUS
    <3> HIDE DEF g, h
    <3> QED BY <2>2, <3>1, <3>2
  <2> HIDE DEF g
  <2>4. IstLauf(g, n + 1, a, F) BY <2>3 DEF IstLauf
  <2> QED BY <2>4
<1> HIDE DEF T
<1>3. N \in T BY <1>1, <1>2, AlleZahlen
<1> QED BY <1>3 DEF T

(* The first of the least: there is one wherever there are entries. *)
LEMMA ErsterKleinster ==
    ASSUME NEW a \in Nat, NEW L \in Nat, a <= L, NEW K, \A i \in a .. L : K[i] \in Int
    PROVE  \E i \in a .. L : /\ \A j \in a .. L : ~(K[j] < K[i])
                             /\ \A j \in a .. i - 1 : K[i] < K[j]
<1> DEFINE Erster(i, n) == /\ \A j \in a .. n : ~(K[j] < K[i])
                           /\ \A j \in a .. i - 1 : K[i] < K[j]
           T == {d \in Nat : a + d <= L => \E i \in a .. a + d : Erster(i, a + d)}
<1>1. 0 \in T
  <2> SUFFICES ASSUME a + 0 <= L PROVE \E i \in a .. a + 0 : Erster(i, a + 0) OBVIOUS
  <2>1. a \in a .. a + 0 /\ a \in a .. L /\ a .. a + 0 = {a} /\ a .. a - 1 = {} OBVIOUS
  <2>2. ~(K[a] < K[a]) BY <2>1
  <2>3. Erster(a, a + 0) BY <2>1, <2>2
  <2> QED BY <2>1, <2>3
<1>2. ASSUME NEW d \in Nat, d \in T PROVE d + 1 \in T
  <2> SUFFICES ASSUME a + (d + 1) <= L PROVE \E i \in a .. a + (d + 1) : Erster(i, a + (d + 1)) OBVIOUS
  <2> DEFINE z == a + (d + 1)
  <2>1. z \in a .. L /\ a + d <= L /\ z - 1 = a + d OBVIOUS
  <2>2. PICK i \in a .. a + d : Erster(i, a + d) BY <1>2, <2>1
  <2>3. i \in a .. z /\ i \in a .. L BY <2>2
  <2>4. \A j \in a .. z : j \in a .. a + d \/ j = z OBVIOUS
  <2>5. CASE K[z] < K[i]
    <3>1. ASSUME NEW j \in a .. a + d PROVE K[z] < K[j]
      <4>1. ~(K[j] < K[i]) BY <2>2
      <4>2. K[j] \in Int /\ K[i] \in Int /\ K[z] \in Int BY <2>1, <2>3
      <4> QED BY <2>5, <4>1, <4>2
    <3>2. \A j \in a .. z : ~(K[j] < K[z])
      <4>1. ASSUME NEW j \in a .. z PROVE ~(K[j] < K[z])
        <5>1. K[j] \in Int /\ K[z] \in Int BY <2>1
        <5> QED BY <2>4, <3>1, <5>1
      <4> QED BY <4>1
    <3>3. Erster(z, z) BY <2>1, <3>1, <3>2
    <3>4. z \in a .. z OBVIOUS
    <3> QED BY <3>3, <3>4
  <2>6. CASE ~(K[z] < K[i])
    <3>1. Erster(i, z) BY <2>2, <2>4, <2>6
    <3> QED BY <2>3, <3>1
  <2> QED BY <2>5, <2>6
<1>3. L - a \in Nat /\ a + (L - a) = L OBVIOUS
<1>4. L - a \in T
  <2> HIDE DEF T
  <2> QED BY <1>1, <1>2, <1>3, AlleZahlen
<1>5. \E i \in a .. L : Erster(i, L) BY <1>3, <1>4
<1> QED BY <1>5

(***************************************************************************)
(* The memory: sums of the sizes of entries.                               *)
(***************************************************************************)
Seitenweise(f, b) == f = [i \in 0 .. Len(b) |-> IF i = 0 THEN 0 ELSE f[i - 1] + b[i].gr]

LEMMA EintragGroesse == \A e \in Eintrag : e.gr \in Nat /\ e.gr > 0
BY DEF Eintrag

LEMMA SummeGilt ==
    ASSUME NEW b \in Seq(Eintrag)
    PROVE  Seitenweise(Summe(b), b)
<1> DEFINE N == Len(b)
           F == [p \in (1 .. N) \X Nat |-> p[2] + b[p[1]].gr]
<1>1. N \in Nat OBVIOUS
<1>2. PICK f : IstLauf(f, N, 0, F) BY <1>1, LaufVorhanden
<1>3. f[0] = 0 /\ \A i \in 1 .. N : f[i] = F[<<i, f[i - 1]>>]
  <2>1. \A i \in 0 .. N : f[i] = IF i = 0 THEN 0 ELSE F[<<i, f[i - 1]>>] BY <1>2 DEF IstLauf
  <2>2. 0 \in 0 .. N /\ \A i \in 1 .. N : i \in 0 .. N /\ i # 0 BY <1>1
  <2> HIDE DEF F, N
  <2> QED BY <2>1, <2>2
<1>4. ASSUME NEW i \in 1 .. N, NEW x \in Nat PROVE F[<<i, x>>] = x + b[i].gr /\ F[<<i, x>>] \in Nat
  <2>1. b[i] \in Eintrag BY <1>1
  <2> QED BY <2>1, EintragGroesse
<1>5. \A i \in 1 .. N : f[i - 1] \in Nat => f[i] \in Nat
  <2> HIDE DEF F
  <2> QED BY <1>3, <1>4
<1>6. \A i \in 0 .. N : f[i] \in Nat
  <2>1. f[0] \in Nat BY <1>3
  <2> HIDE DEF F, N
  <2> QED BY <1>1, <1>5, <2>1, Bleibt
<1>7. \A i \in 0 .. N : f[i] = IF i = 0 THEN 0 ELSE f[i - 1] + b[i].gr
  <2>1. ASSUME NEW i \in 1 .. N PROVE f[i] = f[i - 1] + b[i].gr
    <3>1. i - 1 \in 0 .. N BY <1>1
    <3> HIDE DEF F
    <3> QED BY <1>3, <1>4, <1>6, <3>1
  <2>2. \A i \in 0 .. N : i = 0 \/ i \in 1 .. N BY <1>1
  <2> HIDE DEF F
  <2> QED BY <1>3, <2>1, <2>2
<1>8. Seitenweise(f, b)
  <2> DEFINE h == [i \in 0 .. N |-> IF i = 0 THEN 0 ELSE f[i - 1] + b[i].gr]
  <2>1. f = [i \in 0 .. N |-> f[i]] BY <1>2 DEF IstLauf
  <2>2. \A i \in 0 .. N : f[i] = h[i] BY <1>7
  <2>3. h = [i \in 0 .. N |-> h[i]] OBVIOUS
  <2>4. f = h
    <3> HIDE DEF h, F
    <3> QED BY <2>1, <2>2, <2>3
  <2> HIDE DEF F
  <2> QED BY <2>4 DEF Seitenweise
<1> HIDE DEF F, N
<1>9. \E g : Seitenweise(g, b) BY <1>8
<1>10. Summe(b) = CHOOSE g : Seitenweise(g, b) BY DEF Summe, Seitenweise
<1> QED BY <1>9, <1>10

(* The sum up to i is a number, and the next one has one entry more. *)
LEMMA SummeBis ==
    ASSUME NEW b \in Seq(Eintrag)
    PROVE  /\ Summe(b)[0] = 0
           /\ \A i \in 1 .. Len(b) : Summe(b)[i] = Summe(b)[i - 1] + b[i].gr
           /\ \A i \in 0 .. Len(b) : Summe(b)[i] \in Nat
           /\ MemUsed(b) \in Nat
<1> DEFINE f == Summe(b)
<1>1. f = [i \in 0 .. Len(b) |-> IF i = 0 THEN 0 ELSE f[i - 1] + b[i].gr]
  BY SummeGilt DEF Seitenweise
<1> HIDE DEF f
<1>2. Len(b) \in Nat OBVIOUS
<1>3. f[0] = 0 BY <1>1, <1>2
<1>4. \A i \in 1 .. Len(b) : f[i] = f[i - 1] + b[i].gr BY <1>1, <1>2
<1>5. \A i \in 1 .. Len(b) : f[i - 1] \in Nat => f[i] \in Nat
  <2>1. \A i \in 1 .. Len(b) : b[i] \in Eintrag OBVIOUS
  <2> QED BY <1>4, <2>1, EintragGroesse
<1>6. \A i \in 0 .. Len(b) : f[i] \in Nat
  <2>1. f[0] \in Nat BY <1>3
  <2> QED BY <1>2, <1>5, <2>1, Bleibt
<1>7. Len(b) \in 0 .. Len(b) BY <1>2
<1> QED BY <1>3, <1>4, <1>6, <1>7 DEF f, MemUsed

(* Whatever grows by the sizes of the entries is the sum of them. *)
LEMMA SummeIst ==
    ASSUME NEW b \in Seq(Eintrag), NEW h, h[0] = 0, \A i \in 1 .. Len(b) : h[i] = h[i - 1] + b[i].gr
    PROVE  MemUsed(b) = h[Len(b)]
<1> DEFINE f == Summe(b)
           T == {n \in Nat : n <= Len(b) => f[n] = h[n]}
<1>1. Len(b) \in Nat OBVIOUS
<1>2. f[0] = 0 /\ \A i \in 1 .. Len(b) : f[i] = f[i - 1] + b[i].gr BY SummeBis
<1> HIDE DEF f
<1>3. 0 \in T BY <1>2
<1>4. ASSUME NEW n \in Nat, n \in T PROVE n + 1 \in T
  <2> SUFFICES ASSUME n + 1 <= Len(b) PROVE f[n + 1] = h[n + 1] OBVIOUS
  <2>1. n <= Len(b) /\ n + 1 \in 1 .. Len(b) /\ (n + 1) - 1 = n BY <1>1
  <2>2. f[n + 1] = f[n] + b[n + 1].gr /\ h[n + 1] = h[n] + b[n + 1].gr BY <1>2, <2>1
  <2> QED BY <1>4, <2>1, <2>2
<1>5. Nat \subseteq T
  <2> HIDE DEF T
  <2> QED BY <1>3, <1>4, AlleZahlen
<1>6. f[Len(b)] = h[Len(b)] BY <1>1, <1>5
<1> QED BY <1>6 DEF f, MemUsed

(* No entry is empty: the sums grow. *)
LEMMA SummeWaechst ==
    ASSUME NEW b \in Seq(Eintrag), NEW k \in 0 .. Len(b), NEW m \in k .. Len(b)
    PROVE  Summe(b)[k] + (m - k) <= Summe(b)[m]
<1> DEFINE f == Summe(b)
           T == {n \in Nat : k + n <= Len(b) => f[k] + n <= f[k + n]}
<1>1. Len(b) \in Nat /\ k \in Nat OBVIOUS
<1>2. /\ \A i \in 1 .. Len(b) : f[i] = f[i - 1] + b[i].gr
      /\ \A i \in 0 .. Len(b) : f[i] \in Nat
  BY SummeBis
<1> HIDE DEF f
<1>3. 0 \in T
  <2>1. f[k] \in Nat /\ k + 0 = k BY <1>2
  <2> QED BY <2>1
<1>4. ASSUME NEW n \in Nat, n \in T PROVE n + 1 \in T
  <2> SUFFICES ASSUME k + (n + 1) <= Len(b) PROVE f[k] + (n + 1) <= f[k + (n + 1)] OBVIOUS
  <2> DEFINE z == k + n
  <2>1. z <= Len(b) /\ z + 1 \in 1 .. Len(b) /\ (z + 1) - 1 = z /\ z \in 0 .. Len(b) /\ k + (n + 1) = z + 1
    BY <1>1
  <2>2. f[k] + n <= f[z] BY <1>4, <2>1
  <2> HIDE DEF z
  <2>3. f[z + 1] = f[z] + b[z + 1].gr BY <1>2, <2>1
  <2>4. b[z + 1] \in Eintrag BY <2>1
  <2>5. b[z + 1].gr \in Nat /\ b[z + 1].gr > 0 BY <2>4, EintragGroesse
  <2>6. f[z] \in Nat /\ f[k] \in Nat BY <1>2, <2>1
  <2>7. f[z + 1] >= f[z] + 1 BY <2>3, <2>5, <2>6
  <2>8. f[z + 1] \in Nat BY <2>3, <2>5, <2>6
  <2>9. f[z + 1] >= f[k] + n + 1 BY <2>2, <2>6, <2>7, <2>8
  <2>10. f[k] + (n + 1) <= f[z + 1] BY <2>6, <2>8, <2>9
  <2> QED BY <2>1, <2>10
<1>5. Nat \subseteq T
  <2> HIDE DEF T
  <2> QED BY <1>3, <1>4, AlleZahlen
<1>6. m - k \in Nat /\ k + (m - k) = m /\ m <= Len(b) BY <1>1
<1>7. f[k] + (m - k) <= f[m] BY <1>5, <1>6
<1> QED BY <1>7 DEF f

(* There are no more entries than bytes. *)
LEMMA LenMemUsed ==
    ASSUME NEW b \in Seq(Eintrag)
    PROVE  Len(b) <= MemUsed(b)
<1>1. Len(b) \in Nat /\ 0 \in 0 .. Len(b) /\ Len(b) \in 0 .. Len(b) OBVIOUS
<1>2. Summe(b)[0] + (Len(b) - 0) <= Summe(b)[Len(b)] BY <1>1, SummeWaechst
<1> QED BY <1>1, <1>2, SummeBis DEF MemUsed

LEMMA MemLeer == << >> \in Seq(Eintrag) /\ MemUsed(<< >>) = 0
<1>1. << >> \in Seq(Eintrag) /\ Len(<< >>) = 0 OBVIOUS
<1> QED BY <1>1, SummeBis DEF MemUsed

(* An entry ends in the memory; where the last one ends, the memory ends. *)
LEMMA Ende ==
    ASSUME NEW b \in Seq(Eintrag), NEW i \in DOMAIN b
    PROVE  /\ Anfang(b, i) \in Nat /\ Anfang(b, i) + b[i].gr \in Nat
           /\ Anfang(b, i) + b[i].gr <= MemUsed(b)
           /\ Anfang(b, i) + b[i].gr = MemUsed(b) => i = Len(b)
<1>1. Len(b) \in Nat /\ i \in 1 .. Len(b) OBVIOUS
<1>2. i \in 0 .. Len(b) /\ i - 1 \in 0 .. Len(b) /\ Len(b) \in i .. Len(b) /\ Len(b) \in 0 .. Len(b)
  BY <1>1
<1>3. Anfang(b, i) + b[i].gr = Summe(b)[i] BY <1>1, SummeBis DEF Anfang
<1>4. Summe(b)[i] \in Nat /\ Summe(b)[i - 1] \in Nat /\ Summe(b)[Len(b)] \in Nat BY <1>2, SummeBis
<1>5. Summe(b)[i] + (Len(b) - i) <= Summe(b)[Len(b)] BY <1>2, SummeWaechst
<1>6. i \in Nat /\ i <= Len(b) BY <1>1
<1> QED BY <1>1, <1>3, <1>4, <1>5, <1>6 DEF Anfang, MemUsed

LEMMA MemAnhang ==
    ASSUME NEW b \in Seq(Eintrag), NEW e \in Eintrag
    PROVE  /\ Append(b, e) \in Seq(Eintrag) /\ Len(Append(b, e)) = Len(b) + 1
           /\ MemUsed(Append(b, e)) = MemUsed(b) + e.gr
<1> DEFINE c == Append(b, e)
           f == Summe(b)
           N == Len(b)
           h == [k \in 0 .. N + 1 |-> IF k <= N THEN f[k] ELSE f[N] + e.gr]
<1>1. N \in Nat /\ c \in Seq(Eintrag) /\ Len(c) = N + 1 /\ c[N + 1] = e OBVIOUS
<1>2. \A i \in 1 .. N : c[i] = b[i] OBVIOUS
<1>3. f[0] = 0 /\ \A i \in 1 .. N : f[i] = f[i - 1] + b[i].gr BY SummeBis
<1>4. MemUsed(b) = f[N] BY DEF MemUsed
<1> HIDE DEF c, f, N
<1>5. h[0] = 0 BY <1>1, <1>3
<1>6. ASSUME NEW i \in 1 .. Len(c) PROVE h[i] = h[i - 1] + c[i].gr
  <2>1. CASE i <= N
    <3>1. i \in 1 .. N /\ i \in 0 .. N + 1 /\ i - 1 \in 0 .. N + 1 /\ i - 1 <= N BY <1>1, <2>1
    <3>2. h[i] = f[i] /\ h[i - 1] = f[i - 1] BY <2>1, <3>1
    <3> QED BY <1>2, <1>3, <3>1, <3>2
  <2>2. CASE ~(i <= N)
    <3>1. i = N + 1 /\ N + 1 \in 0 .. N + 1 /\ N \in 0 .. N + 1 /\ (N + 1) - 1 = N /\ ~(N + 1 <= N) /\ N <= N
      BY <1>1, <2>2
    <3>2. h[N + 1] = f[N] + e.gr /\ h[N] = f[N] BY <3>1
    <3> QED BY <1>1, <3>1, <3>2
  <2> QED BY <2>1, <2>2
<1>7. h[N + 1] = f[N] + e.gr BY <1>1
<1>8. MemUsed(c) = h[Len(c)]
  <2> HIDE DEF h
  <2> QED BY <1>1, <1>5, <1>6, SummeIst
<1> QED BY <1>1, <1>4, <1>7, <1>8 DEF c, N

LEMMA MemErsetzt ==
    ASSUME NEW b \in Seq(Eintrag), NEW x \in DOMAIN b, NEW e \in Eintrag
    PROVE  /\ [b EXCEPT ![x] = e] \in Seq(Eintrag) /\ Len([b EXCEPT ![x] = e]) = Len(b)
           /\ MemUsed([b EXCEPT ![x] = e]) = MemUsed(b) - b[x].gr + e.gr
<1> DEFINE c == [b EXCEPT ![x] = e]
           f == Summe(b)
           N == Len(b)
           h == [k \in 0 .. N |-> IF k < x THEN f[k] ELSE f[k] - b[x].gr + e.gr]
<1>1. /\ N \in Nat /\ x \in 1 .. N /\ c \in Seq(Eintrag) /\ Len(c) = N /\ c[x] = e
      /\ b[x] \in Eintrag
  BY ExceptSeq
<1>2. \A i \in 1 .. N : i # x => c[i] = b[i] OBVIOUS
<1>3. f[0] = 0 /\ \A i \in 1 .. N : f[i] = f[i - 1] + b[i].gr BY SummeBis
<1>4. MemUsed(b) = f[N] BY DEF MemUsed
<1>5. \A i \in 0 .. N : f[i] \in Nat BY SummeBis
<1>6. b[x].gr \in Nat /\ e.gr \in Nat BY <1>1, EintragGroesse
<1> HIDE DEF c, f, N
<1>7. h[0] = 0 BY <1>1, <1>3
<1>8. ASSUME NEW i \in 1 .. N PROVE h[i] = h[i - 1] + c[i].gr
  <2>1. i \in 0 .. N /\ i - 1 \in 0 .. N BY <1>1
  <2>2. f[i] = f[i - 1] + b[i].gr /\ f[i] \in Nat /\ f[i - 1] \in Nat BY <1>3, <1>5, <2>1
  <2>3. h[i] = (IF i < x THEN f[i] ELSE f[i] - b[x].gr + e.gr) BY <2>1
  <2>4. h[i - 1] = (IF i - 1 < x THEN f[i - 1] ELSE f[i - 1] - b[x].gr + e.gr) BY <2>1
  <2> HIDE DEF h
  <2>5. b[i].gr \in Nat
    <3>1. b[i] \in Eintrag BY DEF N
    <3> QED BY <3>1, EintragGroesse
  <2>6. CASE i < x
    <3>1. i - 1 < x /\ i # x BY <1>1, <2>6
    <3> QED BY <1>2, <2>2, <2>3, <2>4, <2>6, <3>1
  <2>7. CASE i = x
    <3>1. i - 1 < x /\ ~(i < x) BY <1>1, <2>7
    <3>2. h[i] = f[i] - b[x].gr + e.gr /\ h[i - 1] = f[i - 1] BY <2>3, <2>4, <3>1
    <3> QED BY <1>1, <1>6, <2>2, <2>7, <3>2
  <2>8. CASE i > x
    <3>1. ~(i - 1 < x) /\ ~(i < x) /\ i # x BY <1>1, <2>8
    <3>2. h[i] = f[i] - b[x].gr + e.gr /\ h[i - 1] = f[i - 1] - b[x].gr + e.gr BY <2>3, <2>4, <3>1
    <3>3. c[i].gr = b[i].gr BY <1>2, <3>1
    <3> DEFINE p == f[i - 1] q == f[i] u == b[x].gr v == b[i].gr w == e.gr
    <3>4. q - u + w = p - u + w + v
      <4>1. q = p + v BY <2>2
      <4>2. p \in Int /\ q \in Int /\ v \in Int BY <2>2, <2>5
      <4>3. u \in Int /\ w \in Int BY <1>6, <2>5
      <4> HIDE DEF p, q, u, v, w
      <4> QED BY <4>1, <4>2, <4>3
    <3> QED BY <3>2, <3>3, <3>4
  <2> QED BY <1>1, <2>6, <2>7, <2>8
<1>9. h[N] = f[N] - b[x].gr + e.gr BY <1>1
<1>10. MemUsed(c) = h[Len(c)]
  <2> HIDE DEF h
  <2> QED BY <1>1, <1>7, <1>8, SummeIst
<1> QED BY <1>1, <1>4, <1>9, <1>10 DEF c, N

LEMMA MemEntfernt ==
    ASSUME NEW b \in Seq(Eintrag), NEW x \in DOMAIN b
    PROVE  /\ Entfernt(b, x) \in Seq(Eintrag) /\ Len(Entfernt(b, x)) = Len(b) - 1
           /\ MemUsed(Entfernt(b, x)) = MemUsed(b) - b[x].gr
           /\ \A n \in DOMAIN Entfernt(b, x) : Entfernt(b, x)[n] = b[IF n < x THEN n ELSE n + 1]
<1> DEFINE N == Len(b)
           c == [n \in 1 .. N - 1 |-> b[IF n < x THEN n ELSE n + 1]]
           f == Summe(b)
           h == [k \in 0 .. N - 1 |-> IF k < x THEN f[k] ELSE f[k + 1] - b[x].gr]
<1>1. N \in Nat /\ x \in 1 .. N /\ N - 1 \in Nat /\ \A i \in 1 .. N : b[i] \in Eintrag OBVIOUS
<1>2. c \in Seq(Eintrag) /\ Len(c) = N - 1 /\ DOMAIN c = 1 .. N - 1
  <2>1. \A n \in 1 .. N - 1 : (IF n < x THEN n ELSE n + 1) \in 1 .. N BY <1>1
  <2>2. \A n \in 1 .. N - 1 : c[n] \in Eintrag BY <1>1, <2>1
  <2>3. c \in [1 .. N - 1 -> Eintrag] BY <2>2
  <2> HIDE DEF c
  <2> QED BY <1>1, <2>3
<1>3. \A n \in 1 .. N - 1 : c[n] = b[IF n < x THEN n ELSE n + 1] OBVIOUS
<1>4. c = Entfernt(b, x) BY DEF Entfernt
<1>5. f[0] = 0 /\ \A i \in 1 .. N : f[i] = f[i - 1] + b[i].gr BY SummeBis
<1>6. MemUsed(b) = f[N] BY DEF MemUsed
<1>7. \A i \in 0 .. N : f[i] \in Nat BY SummeBis
<1>8. \A i \in 1 .. N : b[i].gr \in Nat BY <1>1, EintragGroesse
<1> HIDE DEF c, f, N
<1>9. h[0] = 0 BY <1>1, <1>5
<1>10. ASSUME NEW i \in 1 .. N - 1 PROVE h[i] = h[i - 1] + c[i].gr
  <2>1. /\ i \in 0 .. N - 1 /\ i - 1 \in 0 .. N - 1 /\ i \in 1 .. N /\ i + 1 \in 1 .. N
        /\ i \in 0 .. N /\ i - 1 \in 0 .. N /\ i + 1 \in 0 .. N /\ (i + 1) - 1 = i /\ (i - 1) + 1 = i
    BY <1>1
  <2>2. h[i] = (IF i < x THEN f[i] ELSE f[i + 1] - b[x].gr) BY <2>1
  <2>3. h[i - 1] = (IF i - 1 < x THEN f[i - 1] ELSE f[i] - b[x].gr) BY <2>1
  <2> HIDE DEF h
  <2>4. f[i] = f[i - 1] + b[i].gr /\ f[i + 1] = f[i] + b[i + 1].gr BY <1>5, <2>1
  <2>5. f[i] \in Nat /\ f[i - 1] \in Nat /\ f[i + 1] \in Nat BY <1>7, <2>1
  <2>6. b[i].gr \in Nat /\ b[i + 1].gr \in Nat /\ b[x].gr \in Nat BY <1>1, <1>8, <2>1
  <2>7. CASE i < x
    <3>1. i - 1 < x BY <1>1, <2>7
    <3> QED BY <1>3, <2>2, <2>3, <2>4, <2>7, <3>1
  <2>8. CASE i = x
    <3>1. i - 1 < x /\ ~(i < x) BY <1>1, <2>8
    <3>2. h[i] = f[i + 1] - b[x].gr /\ h[i - 1] = f[i - 1] /\ c[i].gr = b[i + 1].gr
      BY <1>3, <2>2, <2>3, <3>1
    <3> DEFINE p == f[i - 1] q == f[i] r == f[i + 1] u == b[i].gr v == b[i + 1].gr
    <3>3. r - u = p + v
      <4>1. q = p + u /\ r = q + v BY <2>4
      <4>2. p \in Int /\ q \in Int /\ r \in Int /\ u \in Int /\ v \in Int BY <2>5, <2>6
      <4> HIDE DEF p, q, r, u, v
      <4> QED BY <4>1, <4>2
    <3> QED BY <2>8, <3>2, <3>3
  <2>9. CASE i > x
    <3>1. ~(i - 1 < x) /\ ~(i < x) BY <1>1, <2>9
    <3>2. h[i] = f[i + 1] - b[x].gr /\ h[i - 1] = f[i] - b[x].gr /\ c[i].gr = b[i + 1].gr
      BY <1>3, <2>2, <2>3, <3>1
    <3> DEFINE q == f[i] r == f[i + 1] u == b[x].gr v == b[i + 1].gr
    <3>3. r - u = q - u + v
      <4>1. r = q + v BY <2>4
      <4>2. q \in Int /\ r \in Int BY <2>5, <2>6
      <4>3. u \in Int /\ v \in Int BY <2>5, <2>6
      <4> HIDE DEF q, r, u, v
      <4> QED BY <4>1, <4>2, <4>3
    <3> QED BY <3>2, <3>3
  <2> QED BY <1>1, <2>7, <2>8, <2>9
<1>11. h[N - 1] = f[N] - b[x].gr
  <2>1. N - 1 \in 0 .. N - 1 /\ (N - 1) + 1 = N BY <1>1
  <2>2. h[N - 1] = IF N - 1 < x THEN f[N - 1] ELSE f[N] - b[x].gr BY <2>1
  <2> HIDE DEF h
  <2>3. CASE N - 1 < x
    <3>1. x = N /\ N \in 1 .. N /\ N - 1 \in 0 .. N BY <1>1, <2>3
    <3>2. f[N] = f[N - 1] + b[N].gr /\ f[N - 1] \in Nat /\ b[N].gr \in Nat BY <1>5, <1>7, <1>8, <3>1
    <3> QED BY <2>2, <2>3, <3>1, <3>2
  <2> QED BY <2>2, <2>3
<1>12. MemUsed(c) = h[Len(c)]
  <2>1. \A i \in 1 .. Len(c) : h[i] = h[i - 1] + c[i].gr BY <1>2, <1>10
  <2> HIDE DEF h
  <2> QED BY <1>2, <1>9, <2>1, SummeIst
<1> HIDE DEF h
<1>13. MemUsed(c) = MemUsed(b) - b[x].gr BY <1>2, <1>6, <1>11, <1>12
<1> QED BY <1>2, <1>3, <1>4, <1>13 DEF N

(* Entry i is taken out and put in at kopf; the others between them move.  *)
LEMMA MemVorgeholt ==
    ASSUME NEW b \in Seq(Eintrag), NEW kopf \in 1 .. Len(b), NEW x \in kopf .. Len(b)
    PROVE  /\ Vorgeholt(b, kopf, x) \in Seq(Eintrag)
           /\ MemUsed(Vorgeholt(b, kopf, x)) = MemUsed(b)
           /\ Eindeutig(b) => Eindeutig(Vorgeholt(b, kopf, x))
<1> DEFINE N == Len(b)
           von(n) == IF n = kopf THEN x ELSE IF n \in kopf + 1 .. x THEN n - 1 ELSE n
           c == [n \in DOMAIN b |-> b[von(n)]]
           f == Summe(b)
           h == [k \in 0 .. N |-> IF k < kopf \/ k > x THEN f[k] ELSE f[k - 1] + b[x].gr]
<1>1. /\ N \in Nat /\ kopf \in Nat /\ x \in Nat /\ 1 <= kopf /\ kopf <= x /\ x <= N /\ x \in 1 .. N
      /\ DOMAIN b = 1 .. N /\ \A i \in 1 .. N : b[i] \in Eintrag
  OBVIOUS
<1>2. \A n \in 1 .. N : von(n) \in 1 .. N BY <1>1
<1>3. \A n \in 1 .. N : c[n] = b[von(n)] BY <1>1
<1>4. c \in Seq(Eintrag) /\ Len(c) = N /\ DOMAIN c = 1 .. N
  <2>1. \A n \in 1 .. N : c[n] \in Eintrag
    <3> HIDE DEF c, von
    <3> QED BY <1>1, <1>2, <1>3
  <2>2. c = [n \in 1 .. N |-> c[n]] BY <1>1
  <2>3. c \in [1 .. N -> Eintrag]
    <3> HIDE DEF c
    <3> QED BY <2>1, <2>2
  <2> HIDE DEF c
  <2> QED BY <1>1, <2>3
<1>5. c = Vorgeholt(b, kopf, x) BY DEF Vorgeholt
<1>6. ASSUME Eindeutig(b) PROVE Eindeutig(c)
  <2> SUFFICES ASSUME NEW i \in 1 .. N, NEW j \in 1 .. N, c[i].nr = c[j].nr PROVE i = j
    <3> HIDE DEF c
    <3> QED BY <1>4 DEF Eindeutig
  <2>1. b[von(i)].nr = b[von(j)].nr
    <3> HIDE DEF c, von
    <3> QED BY <1>3
  <2>2. von(i) \in 1 .. N /\ von(j) \in 1 .. N BY <1>2
  <2>3. von(i) = von(j)
    <3> HIDE DEF von
    <3> QED BY <1>1, <1>6, <2>1, <2>2 DEF Eindeutig
  <2> HIDE DEF c
  <2> QED BY <1>1, <2>3
<1>7. f[0] = 0 /\ \A i \in 1 .. N : f[i] = f[i - 1] + b[i].gr BY SummeBis
<1>8. MemUsed(b) = f[N] BY DEF MemUsed
<1>9. \A i \in 0 .. N : f[i] \in Nat BY SummeBis
<1>10. \A i \in 1 .. N : b[i].gr \in Nat BY <1>1, EintragGroesse
<1> HIDE DEF c, f, N
<1>11. h[0] = 0 BY <1>1, <1>7
<1>12. ASSUME NEW i \in 1 .. N PROVE h[i] = h[i - 1] + c[i].gr
  <2>1. i \in 0 .. N /\ i - 1 \in 0 .. N BY <1>1
  <2>2. h[i] = (IF i < kopf \/ i > x THEN f[i] ELSE f[i - 1] + b[x].gr) BY <2>1
  <2>3. h[i - 1] = (IF i - 1 < kopf \/ i - 1 > x THEN f[i - 1] ELSE f[(i - 1) - 1] + b[x].gr) BY <2>1
  <2> HIDE DEF h
  <2>4. f[i] = f[i - 1] + b[i].gr BY <1>7
  <2>5. f[i] \in Nat /\ f[i - 1] \in Nat /\ b[i].gr \in Nat /\ b[x].gr \in Nat BY <1>1, <1>9, <1>10, <2>1
  <2>6. CASE i < kopf
    <3>1. i - 1 < kopf /\ von(i) = i BY <1>1, <2>6
    <3>2. c[i].gr = b[i].gr
      <4> HIDE DEF von
      <4> QED BY <1>3, <3>1
    <3> HIDE DEF von
    <3> QED BY <2>2, <2>3, <2>4, <2>6, <3>1, <3>2
  <2>7. CASE i = kopf
    <3>1. i - 1 < kopf /\ ~(i < kopf \/ i > x) /\ von(i) = x BY <1>1, <2>7
    <3>2. c[i].gr = b[x].gr
      <4> HIDE DEF von
      <4> QED BY <1>3, <3>1
    <3> HIDE DEF von
    <3> QED BY <2>2, <2>3, <3>1, <3>2
  <2>8. CASE i > kopf /\ i <= x
    <3>1. ~(i - 1 < kopf \/ i - 1 > x) /\ ~(i < kopf \/ i > x) /\ von(i) = i - 1 BY <1>1, <2>8
    <3>2. c[i].gr = b[i - 1].gr
      <4> HIDE DEF von
      <4> QED BY <1>3, <3>1
    <3> HIDE DEF von
    <3>3. i - 1 \in 1 .. N /\ (i - 1) - 1 \in 0 .. N BY <1>1, <2>8
    <3>4. f[i - 1] = f[(i - 1) - 1] + b[i - 1].gr /\ f[(i - 1) - 1] \in Nat /\ b[i - 1].gr \in Nat
      BY <1>7, <1>9, <1>10, <3>3
    <3>5. h[i] = f[i - 1] + b[x].gr /\ h[i - 1] = f[(i - 1) - 1] + b[x].gr BY <2>2, <2>3, <3>1
    <3> DEFINE p == f[(i - 1) - 1] q == f[i - 1] u == b[x].gr v == b[i - 1].gr
    <3>6. q + u = p + u + v
      <4>1. q = p + v /\ p \in Int /\ q \in Int /\ u \in Int /\ v \in Int BY <2>5, <3>4
      <4> HIDE DEF p, q, u, v
      <4> QED BY <4>1
    <3> QED BY <3>2, <3>5, <3>6
  <2>9. CASE i > x
    <3>1. ~(i - 1 < kopf) /\ i # kopf /\ i \notin kopf + 1 .. x /\ von(i) = i BY <1>1, <2>9
    <3>2. c[i].gr = b[i].gr
      <4> HIDE DEF von
      <4> QED BY <1>3, <3>1
    <3> HIDE DEF von
    <3>3. CASE i - 1 > x BY <2>2, <2>3, <2>4, <2>9, <3>2, <3>3
    <3>4. CASE ~(i - 1 > x)
      <4>1. i - 1 = x BY <1>1, <2>9, <3>4
      <4>2. h[i - 1] = f[x - 1] + b[x].gr BY <2>3, <3>1, <3>4, <4>1
      <4>3. f[x] = f[x - 1] + b[x].gr BY <1>1, <1>7
      <4> QED BY <2>2, <2>4, <2>9, <3>2, <4>1, <4>2, <4>3
    <3> QED BY <3>3, <3>4
  <2> QED BY <1>1, <2>6, <2>7, <2>8, <2>9
<1>13. h[N] = f[N]
  <2>1. N \in 0 .. N BY <1>1
  <2>2. h[N] = IF N < kopf \/ N > x THEN f[N] ELSE f[N - 1] + b[x].gr BY <2>1
  <2> HIDE DEF h
  <2>3. CASE N > x BY <2>2, <2>3
  <2>4. CASE ~(N > x)
    <3>1. N = x BY <1>1, <2>4
    <3>2. f[x] = f[x - 1] + b[x].gr BY <1>1, <1>7
    <3> QED BY <2>2, <3>1, <3>2
  <2> QED BY <2>3, <2>4
<1>14. MemUsed(c) = h[Len(c)]
  <2>1. \A i \in 1 .. Len(c) : h[i] = h[i - 1] + c[i].gr BY <1>4, <1>12
  <2> HIDE DEF h, von
  <2> QED BY <1>4, <1>11, <2>1, SummeIst
<1> HIDE DEF h, von
<1> QED BY <1>4, <1>5, <1>6, <1>8, <1>13, <1>14

(***************************************************************************)
(* Making room.                                                            *)
(***************************************************************************)
Teilbuch(c, b) ==
    /\ c \in Seq(Eintrag) /\ Eindeutig(c)
    /\ \A i \in DOMAIN c : \E j \in DOMAIN b : c[i] = b[j]
    /\ MemUsed(c) <= MemUsed(b)

LEMMA AeltesterGilt ==
    ASSUME NEW b \in Seq(Eintrag), Fremd(b) # {}
    PROVE  Aeltester(b) \in DOMAIN b
<1> DEFINE A(i) == \A j \in Fremd(b) \ {i} : b[i].datum < b[j].datum \/ (b[i].datum = b[j].datum /\ i < j)
           T == {b[j].datum : j \in Fremd(b)}
<1>1. Fremd(b) \subseteq DOMAIN b /\ DOMAIN b \subseteq Nat BY DEF Fremd
<1>2. \A i \in Fremd(b) : b[i].datum \in Nat
  <2>1. \A i \in DOMAIN b : b[i] \in Eintrag OBVIOUS
  <2> QED BY <1>1, <2>1, Groessen DEF Eintrag, Datum
<1>3. T # {} /\ T \subseteq Nat BY <1>2
<1>4. PICK d \in T : \A y \in T : d <= y
  <2> HIDE DEF T
  <2> QED BY <1>3, Kleinste
<1> DEFINE U == {j \in Fremd(b) : b[j].datum = d}
<1>5. U # {} /\ U \subseteq Nat BY <1>1, <1>4
<1>6. PICK i \in U : \A y \in U : i <= y
  <2> HIDE DEF U
  <2> QED BY <1>5, Kleinste
<1>7. A(i)
  <2> SUFFICES ASSUME NEW j \in Fremd(b) \ {i}
               PROVE  b[i].datum < b[j].datum \/ (b[i].datum = b[j].datum /\ i < j)
    OBVIOUS
  <2>1. b[i].datum = d /\ d <= b[j].datum /\ b[j].datum \in Nat /\ d \in Nat BY <1>2, <1>3, <1>4, <1>6
  <2>2. i \in Nat /\ j \in Nat /\ i # j BY <1>1, <1>6
  <2>3. CASE b[j].datum = d
    <3>1. i <= j BY <1>6, <2>3
    <3> QED BY <2>1, <2>2, <2>3, <3>1
  <2> QED BY <2>1, <2>3
<1>8. i \in Fremd(b) BY <1>6
<1> HIDE DEF A
<1>9. \E k \in Fremd(b) : A(k) BY <1>7, <1>8
<1>10. Aeltester(b) = CHOOSE k \in Fremd(b) : A(k) BY DEF Aeltester, A
<1>11. Aeltester(b) \in Fremd(b) BY <1>9, <1>10
<1> QED BY <1>1, <1>11

LEMMA EinerWenigerGilt ==
    ASSUME NEW b, NEW c, Teilbuch(c, b), b \in Seq(Eintrag), NEW n
    PROVE  Teilbuch(EinerWeniger(c, n), b)
<1>1. CASE Passt(c, n) \/ Fremd(c) = {} BY <1>1 DEF EinerWeniger
<1>2. CASE ~(Passt(c, n) \/ Fremd(c) = {})
  <2> DEFINE x == Aeltester(c)
             d == Entfernt(c, x)
             von(i) == IF i < x THEN i ELSE i + 1
  <2>1. EinerWeniger(c, n) = d BY <1>2 DEF EinerWeniger
  <2>2. c \in Seq(Eintrag) BY DEF Teilbuch
  <2>3. x \in DOMAIN c BY <1>2, <2>2, AeltesterGilt
  <2> HIDE DEF x
  <2>4. /\ d \in Seq(Eintrag) /\ Len(d) = Len(c) - 1 /\ MemUsed(d) = MemUsed(c) - c[x].gr
        /\ \A i \in DOMAIN d : d[i] = c[von(i)]
    BY <2>2, <2>3, MemEntfernt
  <2> HIDE DEF d
  <2>5. \A i \in DOMAIN d : i \in Int /\ von(i) \in DOMAIN c
    <3>1. DOMAIN d = 1 .. Len(c) - 1 /\ DOMAIN c = 1 .. Len(c) /\ Len(c) \in Nat BY <2>2, <2>4
    <3> QED BY <2>3, <3>1
  <2>6. Eindeutig(d)
    <3> SUFFICES ASSUME NEW i \in DOMAIN d, NEW j \in DOMAIN d, d[i].nr = d[j].nr PROVE i = j
      BY DEF Eindeutig
    <3>1. von(i) = von(j)
      <4> HIDE DEF von
      <4> QED BY <2>4, <2>5 DEF Eindeutig, Teilbuch
    <3>2. i \in Int /\ j \in Int /\ x \in Int BY <2>2, <2>3, <2>5
    <3> QED BY <3>1, <3>2
  <2>7. \A i \in DOMAIN d : \E j \in DOMAIN b : d[i] = b[j]
    <3> HIDE DEF von
    <3> QED BY <2>4, <2>5 DEF Teilbuch
  <2>8. MemUsed(d) <= MemUsed(b)
    <3>1. c[x] \in Eintrag BY <2>2, <2>3
    <3>2. c[x].gr \in Nat /\ MemUsed(c) \in Nat /\ MemUsed(b) \in Nat BY <2>2, <3>1, EintragGroesse, SummeBis
    <3>3. MemUsed(c) <= MemUsed(b) BY DEF Teilbuch
    <3> QED BY <2>4, <3>2, <3>3
  <2> QED BY <2>1, <2>4, <2>6, <2>7, <2>8 DEF Teilbuch
<1> QED BY <1>1, <1>2

LEMMA PlatzschaffenGilt ==
    ASSUME NEW b \in Seq(Eintrag), Eindeutig(b), NEW n
    PROVE  /\ Teilbuch(TlnPlatzschaffen(b, n).buch, b)
           /\ TlnPlatzschaffen(b, n).ok <=> Passt(TlnPlatzschaffen(b, n).buch, n)
<1> DEFINE N == Len(b)
           S == {c \in Seq(Eintrag) : Teilbuch(c, b)}
           F == [p \in (1 .. N) \X S |-> EinerWeniger(p[2], n)]
           Rest(f) == f = [k \in 0 .. N |-> IF k = 0 THEN b ELSE EinerWeniger(f[k - 1], n)]
           r == CHOOSE f : Rest(f)
<1>1. N \in Nat OBVIOUS
<1>2. b \in S
  <2>1. MemUsed(b) \in Nat BY SummeBis
  <2> QED BY <2>1 DEF Teilbuch
<1>3. ASSUME NEW c \in S PROVE EinerWeniger(c, n) \in S
  <2>1. Teilbuch(EinerWeniger(c, n), b) BY EinerWenigerGilt
  <2> QED BY <2>1 DEF Teilbuch
<1>4. ASSUME NEW i \in 1 .. N, NEW c \in S PROVE F[<<i, c>>] = EinerWeniger(c, n)
  <2> HIDE DEF S
  <2> QED OBVIOUS
<1>5. PICK f : IstLauf(f, N, b, F)
  <2> HIDE DEF F, S
  <2> QED BY <1>1, LaufVorhanden
<1> HIDE DEF F, S
<1>6. f[0] = b /\ \A i \in 1 .. N : f[i] = F[<<i, f[i - 1]>>]
  <2>1. \A i \in 0 .. N : f[i] = IF i = 0 THEN b ELSE F[<<i, f[i - 1]>>] BY <1>5 DEF IstLauf
  <2>2. 0 \in 0 .. N /\ \A i \in 1 .. N : i \in 0 .. N /\ i # 0 BY <1>1
  <2> HIDE DEF N
  <2> QED BY <2>1, <2>2
<1>7. \A i \in 0 .. N : f[i] \in S
  <2>1. f[0] \in S BY <1>2, <1>6
  <2>2. \A i \in 1 .. N : f[i - 1] \in S => f[i] \in S BY <1>3, <1>4, <1>6
  <2> HIDE DEF N
  <2> QED BY <1>1, <2>1, <2>2, Bleibt
<1>8. Rest(f)
  <2> DEFINE h == [k \in 0 .. N |-> IF k = 0 THEN b ELSE EinerWeniger(f[k - 1], n)]
  <2>1. ASSUME NEW i \in 0 .. N PROVE f[i] = h[i]
    <3>1. CASE i = 0 BY <1>6, <3>1
    <3>2. CASE i # 0
      <4>1. i \in 1 .. N /\ i - 1 \in 0 .. N BY <1>1, <3>2
      <4>2. f[i] = F[<<i, f[i - 1]>>] /\ f[i - 1] \in S BY <1>6, <1>7, <4>1
      <4> QED BY <1>4, <3>2, <4>1, <4>2
    <3> QED BY <3>1, <3>2
  <2>2. f = [i \in 0 .. N |-> f[i]] BY <1>5 DEF IstLauf
  <2>3. h = [i \in 0 .. N |-> h[i]] OBVIOUS
  <2>4. f = h
    <3> HIDE DEF h
    <3> QED BY <2>1, <2>2, <2>3
  <2> QED BY <2>4
<1>9. Rest(r)
  <2> HIDE DEF Rest
  <2> QED BY <1>8
<1> HIDE DEF r
<1>10. r[0] = b /\ \A i \in 1 .. N : r[i] = EinerWeniger(r[i - 1], n)
  <2>1. \A i \in 0 .. N : r[i] = IF i = 0 THEN b ELSE EinerWeniger(r[i - 1], n) BY <1>9
  <2>2. 0 \in 0 .. N /\ \A i \in 1 .. N : i \in 0 .. N /\ i # 0 BY <1>1
  <2> HIDE DEF N, Rest
  <2> QED BY <2>1, <2>2
<1>11. r[N] \in S
  <2>1. r[0] \in S BY <1>2, <1>10
  <2>2. \A i \in 1 .. N : r[i - 1] \in S => r[i] \in S BY <1>3, <1>10
  <2>3. N \in 0 .. N BY <1>1
  <2> HIDE DEF N, Rest
  <2> QED BY <1>1, <2>1, <2>2, <2>3, Bleibt
<1>12. TlnPlatzschaffen(b, n) = [ok |-> Passt(r[N], n), buch |-> r[N]] BY DEF TlnPlatzschaffen, r
<1>13. Teilbuch(r[N], b) BY <1>11 DEF S
<1> HIDE DEF N, Rest
<1> QED BY <1>12, <1>13

(***************************************************************************)
(* Storing an entry.                                                       *)
(***************************************************************************)
LEMMA DatiertGilt ==
    ASSUME NEW e \in Eintrag, tbZeit \in Datum, NEW modus
    PROVE  Datiert(e, modus) \in Eintrag /\ Datiert(e, modus).nr = e.nr /\ Datiert(e, modus).gr = e.gr
BY DEF Datiert, Eintrag

(* A part of a good directory is good. *)
LEMMA TeilbuchGut ==
    ASSUME NEW b, Gut(b), NEW c, Teilbuch(c, b)
    PROVE  Gut(c)
<1>1. b \in Seq(Eintrag) /\ c \in Seq(Eintrag) /\ MemUsed(b) \in Nat /\ MemUsed(c) \in Nat
      /\ TlnBuchMemMax \in Nat /\ MemUsed(c) <= MemUsed(b)
  BY SummeBis, Groessen DEF Gut, Teilbuch
<1>2. CASE MemUsed(b) < TlnBuchMemMax BY <1>1, <1>2 DEF Gut, Teilbuch
<1>3. CASE b = << >>
  <2>1. DOMAIN c = {} BY <1>3 DEF Teilbuch
  <2>2. c = << >> BY <1>1, <2>1
  <2> QED BY <2>2, <1>1 DEF Gut, Teilbuch
<1> QED BY <1>2, <1>3 DEF Gut

LEMMA AnhaengenGut ==
    ASSUME NEW b, Gut(b), NEW e \in Eintrag, e.nr \notin Nummern(b), tbZeit \in Datum, NEW modus
    PROVE  Gut(Anhaengen(b, e, modus).buch)
<1> DEFINE c == TlnPlatzschaffen(b, e.gr).buch
           d == Datiert(e, modus)
<1>1. b \in Seq(Eintrag) /\ Eindeutig(b) BY DEF Gut
<1>2. Teilbuch(c, b) /\ (TlnPlatzschaffen(b, e.gr).ok <=> Passt(c, e.gr)) BY <1>1, PlatzschaffenGilt
<1>3. Anhaengen(b, e, modus).buch = IF TlnPlatzschaffen(b, e.gr).ok THEN Append(c, d) ELSE c
  BY DEF Anhaengen
<1>4. d \in Eintrag /\ d.nr = e.nr /\ d.gr = e.gr BY DatiertGilt
<1> HIDE DEF c, d
<1>5. Gut(c) BY <1>2, TeilbuchGut
<1>6. CASE TlnPlatzschaffen(b, e.gr).ok
  <2>1. c \in Seq(Eintrag) /\ Eindeutig(c) BY <1>2 DEF Teilbuch
  <2>2. Append(c, d) \in Seq(Eintrag) /\ MemUsed(Append(c, d)) = MemUsed(c) + d.gr BY <1>4, <2>1, MemAnhang
  <2>3. MemUsed(Append(c, d)) < TlnBuchMemMax
    <3>1. MemUsed(c) < TlnBuchMemMax - e.gr BY <1>2, <1>6 DEF Passt
    <3>2. MemUsed(c) \in Nat /\ e.gr \in Nat /\ TlnBuchMemMax \in Nat BY <2>1, SummeBis, EintragGroesse, Groessen
    <3> QED BY <1>4, <2>2, <3>1, <3>2
  <2>4. Eindeutig(Append(c, d))
    <3>1. \A i \in DOMAIN c : c[i].nr # d.nr
      <4>1. \A i \in DOMAIN c : c[i].nr \in Nummern(b) BY <1>2 DEF Teilbuch, Nummern
      <4> QED BY <1>4, <4>1
    <3>2. \A i \in DOMAIN Append(c, d) : \/ i \in DOMAIN c /\ Append(c, d)[i] = c[i]
                                         \/ i = Len(c) + 1 /\ Append(c, d)[i] = d
      BY <2>1
    <3>3. \A i \in DOMAIN c, j \in DOMAIN c : c[i].nr = c[j].nr => i = j BY <2>1 DEF Eindeutig
    <3> QED BY <3>1, <3>2, <3>3 DEF Eindeutig
  <2> QED BY <1>3, <1>6, <2>2, <2>3, <2>4 DEF Gut
<1> QED BY <1>3, <1>5, <1>6

LEMMA SucheGilt ==
    ASSUME NEW b \in Seq(Eintrag), NEW nr \in Nummern(b)
    PROVE  TlnMemSuche(b, nr) \in DOMAIN b /\ b[TlnMemSuche(b, nr)].nr = nr
<1> DEFINE T == {i \in DOMAIN b : b[i].nr = nr}
           A(i) == b[i].nr = nr /\ \A j \in 1 .. i - 1 : b[j].nr # nr
<1>1. T # {} /\ T \subseteq Nat /\ DOMAIN b = 1 .. Len(b) /\ Len(b) \in Nat BY DEF Nummern
<1>2. PICK i \in T : \A y \in T : i <= y
  <2> HIDE DEF T
  <2> QED BY <1>1, Kleinste
<1>3. \A j \in 1 .. i - 1 : j \in DOMAIN b /\ ~(i <= j) BY <1>1, <1>2
<1>4. i \in DOMAIN b /\ A(i) BY <1>2, <1>3
<1>5. TlnMemSuche(b, nr) = CHOOSE k \in DOMAIN b : A(k) BY DEF TlnMemSuche
<1>6. TlnMemSuche(b, nr) \in DOMAIN b /\ A(TlnMemSuche(b, nr))
  <2> HIDE DEF A
  <2> QED BY <1>4, <1>5
<1> QED BY <1>6

(* An entry is replaced by another of the same number, and there is room.  *)
LEMMA ErsetztGut ==
    ASSUME NEW c \in Seq(Eintrag), Eindeutig(c), NEW d \in Eintrag, d.nr \in Nummern(c),
           MemUsed(c) - c[TlnMemSuche(c, d.nr)].gr + d.gr < TlnBuchMemMax
    PROVE  Gut([c EXCEPT ![TlnMemSuche(c, d.nr)] = d])
<1> DEFINE x == TlnMemSuche(c, d.nr)
           k == [c EXCEPT ![x] = d]
<1>1. x \in DOMAIN c /\ c[x].nr = d.nr BY SucheGilt
<1>2. MemUsed(c) - c[x].gr + d.gr < TlnBuchMemMax OBVIOUS
<1> HIDE DEF x
<1>3. k \in Seq(Eintrag) /\ MemUsed(k) = MemUsed(c) - c[x].gr + d.gr BY <1>1, MemErsetzt
<1>4. DOMAIN k = DOMAIN c /\ \A i \in DOMAIN c : k[i].nr = c[i].nr BY <1>1
<1> HIDE DEF k
<1>5. Eindeutig(k) BY <1>4 DEF Eindeutig
<1> QED BY <1>2, <1>3, <1>5 DEF Gut, k, x

LEMMA HinzufuegenGut ==
    ASSUME NEW b, Gut(b), NEW e \in Eintrag, tbZeit \in Datum, NEW modus
    PROVE  Gut(TlnHinzufuegen(b, e, modus).buch)
<1>1. b \in Seq(Eintrag) /\ Eindeutig(b) BY DEF Gut
<1>2. CASE e.nr \notin Nummern(b)
  <2>1. TlnHinzufuegen(b, e, modus) = Anhaengen(b, e, modus) BY <1>2 DEF TlnHinzufuegen
  <2> QED BY <1>2, <2>1, AnhaengenGut
<1>3. CASE e.nr \in Nummern(b)
  <2> DEFINE i == TlnMemSuche(b, e.nr)
             alt == b[i]
             d == Datiert(e, modus)
             ersetzt(c) == [c EXCEPT ![TlnMemSuche(c, e.nr)] = d]
             n == e.gr - alt.gr
             p == TlnPlatzschaffen(b, n)
             r == TlnHinzufuegen(b, e, modus).buch
  <2> SUFFICES Gut(r) OBVIOUS
  <2>1. \/ r = b
        \/ r = ersetzt(b) /\ e.gr = alt.gr
        \/ r = p.buch
        \/ r = ersetzt(p.buch) /\ p.ok /\ e.nr \in Nummern(p.buch)
        \/ r = Anhaengen(p.buch, e, modus).buch /\ e.nr \notin Nummern(p.buch)
    BY <1>3 DEF TlnHinzufuegen
  <2>2. d \in Eintrag /\ d.nr = e.nr /\ d.gr = e.gr BY DatiertGilt
  <2>3. Teilbuch(p.buch, b) /\ (p.ok <=> Passt(p.buch, n)) BY <1>1, PlatzschaffenGilt
  <2>4. i \in DOMAIN b /\ alt.nr = e.nr BY <1>1, <1>3, SucheGilt
  <2>5. alt \in Eintrag BY <1>1, <2>4
  <2>6. alt.gr \in Nat /\ e.gr \in Nat /\ MemUsed(b) \in Nat /\ TlnBuchMemMax \in Nat
    BY <1>1, <2>5, EintragGroesse, SummeBis, Groessen
  <2> HIDE DEF d, p, r
  <2>7. CASE r = ersetzt(b) /\ e.gr = alt.gr
    <3>1. b # << >> BY <2>4
    <3>2. MemUsed(b) < TlnBuchMemMax BY <3>1 DEF Gut
    <3>3. MemUsed(b) - alt.gr + d.gr < TlnBuchMemMax BY <2>2, <2>6, <2>7, <3>2
    <3> QED BY <1>1, <1>3, <2>2, <2>7, <3>3, ErsetztGut
  <2>8. CASE r = ersetzt(p.buch) /\ p.ok /\ e.nr \in Nummern(p.buch)
    <3> DEFINE c == p.buch
               x == TlnMemSuche(c, e.nr)
    <3>1. c \in Seq(Eintrag) /\ Eindeutig(c) BY <2>3 DEF Teilbuch
    <3>2. x \in DOMAIN c /\ c[x].nr = e.nr BY <2>8, <3>1, SucheGilt
    <3>3. c[x] = alt
      <4>1. PICK j \in DOMAIN b : c[x] = b[j] BY <2>3, <3>2 DEF Teilbuch
      <4>2. b[j].nr = b[i].nr BY <2>4, <3>2, <4>1
      <4>3. j = i BY <1>1, <2>4, <4>1, <4>2 DEF Eindeutig
      <4> QED BY <4>1, <4>3
    <3>4. MemUsed(c) < TlnBuchMemMax - n BY <2>3, <2>8 DEF Passt
    <3>5. MemUsed(c) \in Nat BY <3>1, SummeBis
    <3> HIDE DEF i
    <3>6. MemUsed(c) - alt.gr + e.gr < TlnBuchMemMax BY <2>6, <3>4, <3>5
    <3>7. MemUsed(c) - c[x].gr + d.gr < TlnBuchMemMax BY <2>2, <3>3, <3>6
    <3> HIDE DEF alt
    <3> QED BY <2>2, <2>8, <3>1, <3>7, ErsetztGut
  <2>9. CASE r = p.buch BY <2>3, <2>9, TeilbuchGut
  <2>10. CASE r = Anhaengen(p.buch, e, modus).buch /\ e.nr \notin Nummern(p.buch)
    <3>1. Gut(p.buch) BY <2>3, TeilbuchGut
    <3> QED BY <2>10, <3>1, AnhaengenGut
  <2> HIDE DEF i, alt, n, ersetzt
  <2> QED BY <2>1, <2>7, <2>8, <2>9, <2>10
<1> QED BY <1>2, <1>3

(***************************************************************************)
(* Sorting.                                                                *)
(***************************************************************************)
LEMMA KleinsterGilt ==
    ASSUME NEW b \in Seq(Eintrag), NEW kopf \in 1 .. Len(b), NEW krit, NEW r \in BOOLEAN
    PROVE  Kleinster(b, kopf, krit, r) \in kopf .. Len(b)
<1> DEFINE N == Len(b)
           K == [i \in kopf .. N |-> IF r THEN 0 - Schluessel(b[i], krit) ELSE Schluessel(b[i], krit)]
           A(i) == /\ \A j \in kopf .. N : ~Davor(b[j], b[i], krit, r)
                   /\ \A j \in kopf .. i - 1 : Davor(b[i], b[j], krit, r)
<1>1. N \in Nat /\ kopf \in Nat /\ kopf <= N /\ \A i \in kopf .. N : b[i] \in Eintrag OBVIOUS
<1>2. \A i \in kopf .. N : Schluessel(b[i], krit) \in Int
  <2>1. ASSUME NEW e \in Eintrag PROVE e.nr \in Int /\ e.datum \in Int
    <3>1. e.nr \in TbNummer /\ e.datum \in Datum BY DEF Eintrag
    <3>2. TbNummer \subseteq Int /\ Datum \subseteq Int BY Groessen DEF Datum
    <3> QED BY <3>1, <3>2
  <2> QED BY <1>1, <2>1 DEF Schluessel
<1>3. \A i \in kopf .. N : K[i] \in Int
  <2> HIDE DEF N
  <2> QED BY <1>2
<1>4. \A i, j \in kopf .. N : Davor(b[i], b[j], krit, r) <=> K[i] < K[j]
  <2> HIDE DEF N
  <2> QED BY <1>2 DEF Davor
<1> HIDE DEF K, N
<1>5. PICK i \in kopf .. N : /\ \A j \in kopf .. N : ~(K[j] < K[i])
                             /\ \A j \in kopf .. i - 1 : K[i] < K[j]
  BY <1>1, <1>3, ErsterKleinster
<1>6. \A j \in kopf .. i - 1 : j \in kopf .. N BY <1>1
<1>7. A(i) BY <1>4, <1>5, <1>6
<1>8. Kleinster(b, kopf, krit, r) = CHOOSE k \in kopf .. N : A(k) BY DEF Kleinster, N
<1> HIDE DEF A
<1>9. Kleinster(b, kopf, krit, r) \in kopf .. N BY <1>7, <1>8
<1> QED BY <1>9 DEF N

Sortierstand == {s \in [buch : Seq(Eintrag), kopf : Nat \ {0}, ok : BOOLEAN] : Gut(s.buch)}

LEMMA SortierschrittGilt ==
    ASSUME NEW s \in Sortierstand, NEW krit, NEW r \in BOOLEAN
    PROVE  Sortierschritt(s, krit, r) \in Sortierstand
<1> DEFINE K == [buch : Seq(Eintrag), kopf : Nat \ {0}, ok : BOOLEAN]
           b == s.buch
           i == Kleinster(b, s.kopf, krit, r)
           p == TlnPlatzschaffen(b, b[i].gr)
           v == Vorgeholt(b, s.kopf, i)
<1>1. s \in K /\ Gut(b) BY DEF Sortierstand
<1>2. b \in Seq(Eintrag) /\ Eindeutig(b) BY <1>1 DEF Gut
<1>3. CASE ~s.ok \/ s.kopf > Len(b) BY <1>3 DEF Sortierschritt
<1>4. CASE ~(~s.ok \/ s.kopf > Len(b))
  <2>1. s.kopf \in 1 .. Len(b)
    <3>1. s.kopf \in Nat \ {0} /\ Len(b) \in Nat BY <1>1, <1>2
    <3> QED BY <1>4, <3>1
  <2>2. i \in s.kopf .. Len(b) BY <1>2, <2>1, KleinsterGilt
  <2>3. Sortierschritt(s, krit, r) = Umgeraeumt(s, i, p) BY <1>4 DEF Sortierschritt, MitHilfsplatz
  <2> HIDE DEF i
  <2>4. Teilbuch(p.buch, b) BY <1>2, PlatzschaffenGilt
  <2>5. Gut(p.buch) /\ p.buch \in Seq(Eintrag) BY <1>1, <2>4, TeilbuchGut DEF Gut
  <2>6. v \in Seq(Eintrag) /\ MemUsed(v) = MemUsed(b) /\ Eindeutig(v) BY <1>2, <2>1, <2>2, MemVorgeholt
  <2>7. Gut(v)
    <3>1. b # << >> BY <2>1
    <3> QED BY <1>1, <2>6, <3>1 DEF Gut
  <2> DEFINE s1 == [s EXCEPT !.buch = p.buch, !.ok = FALSE]
             s2 == [s EXCEPT !.buch = p.buch, !.kopf = 1]
             s3 == [s EXCEPT !.buch = v, !.kopf = s.kopf + 1]
  <2>8. s1 \in K /\ s1.buch = p.buch
    <3> HIDE DEF p
    <3> QED BY <1>1, <2>5
  <2>9. s2 \in K /\ s2.buch = p.buch
    <3> DEFINE t == [s EXCEPT !.buch = p.buch]
    <3>1. t \in K /\ t.buch = p.buch /\ t.kopf = s.kopf /\ t.ok = s.ok
      <4> HIDE DEF p
      <4> QED BY <1>1, <2>5
    <3>2. 1 \in Nat \ {0} BY <1>1
    <3>3. s2 = [t EXCEPT !.kopf = 1]
      <4> HIDE DEF p
      <4> QED BY <1>1
    <3> DEFINE w == 1
    <3> HIDE DEF t, w, s2
    <3>4. [t EXCEPT !.kopf = w] \in K /\ [t EXCEPT !.kopf = w].buch = t.buch BY <3>1, <3>2 DEF w
    <3> QED BY <3>1, <3>3, <3>4 DEF w
  <2>10. s3 \in K /\ s3.buch = v
    <3> DEFINE t == [s EXCEPT !.buch = v]
    <3>1. t \in K /\ t.buch = v /\ t.kopf = s.kopf /\ t.ok = s.ok
      <4> HIDE DEF v
      <4> QED BY <1>1, <2>6
    <3>2. s.kopf + 1 \in Nat \ {0} BY <1>1
    <3>3. s3 = [t EXCEPT !.kopf = s.kopf + 1]
      <4> HIDE DEF v
      <4> QED BY <1>1
    <3> DEFINE w == s.kopf + 1
    <3> HIDE DEF t, w, s3
    <3>4. [t EXCEPT !.kopf = w] \in K /\ [t EXCEPT !.kopf = w].buch = t.buch BY <3>1, <3>2 DEF w
    <3> QED BY <3>1, <3>3, <3>4 DEF w
  <2>11. Umgeraeumt(s, i, p) \in {s1, s2, s3}
    <3> HIDE DEF p
    <3> QED BY <1>1 DEF Umgeraeumt
  <2> HIDE DEF s1, s2, s3, p, v, K
  <2>12. s1 \in Sortierstand /\ s2 \in Sortierstand /\ s3 \in Sortierstand
    BY <2>5, <2>7, <2>8, <2>9, <2>10 DEF Sortierstand, K
  <2> QED BY <2>3, <2>11, <2>12
<1> QED BY <1>3, <1>4

LEMMA SortierenGut ==
    ASSUME NEW b, Gut(b), NEW krit, NEW r \in BOOLEAN
    PROVE  Gut(TlnBuchSortieren(b, krit, r).buch)
<1> DEFINE N == (Len(b) + 1) * (Len(b) + 1)
           a == [buch |-> b, kopf |-> 1, ok |-> TRUE]
           S == Sortierstand
           F == [p \in (1 .. N) \X S |-> Sortierschritt(p[2], krit, r)]
           Nach(f) == f = [n \in 0 .. N |-> IF n = 0 THEN a ELSE Sortierschritt(f[n - 1], krit, r)]
           v == CHOOSE f : Nach(f)
<1>1. N \in Nat
  <2>1. b \in Seq(Eintrag) BY DEF Gut
  <2>2. Len(b) + 1 \in Nat BY <2>1
  <2> QED BY <2>2
<1> HIDE DEF N
<1>2. a \in S BY DEF Gut, Sortierstand
<1>3. \A s \in S : Sortierschritt(s, krit, r) \in S BY SortierschrittGilt
<1> HIDE DEF a, S
<1>4. \A i \in 1 .. N, s \in S : F[<<i, s>>] = Sortierschritt(s, krit, r) OBVIOUS
<1> HIDE DEF F
<1>5. PICK f : IstLauf(f, N, a, F) BY <1>1, LaufVorhanden
<1>6. f[0] = a /\ \A i \in 1 .. N : f[i] = F[<<i, f[i - 1]>>]
  <2>1. \A i \in 0 .. N : f[i] = IF i = 0 THEN a ELSE F[<<i, f[i - 1]>>] BY <1>5 DEF IstLauf
  <2>2. 0 \in 0 .. N /\ \A i \in 1 .. N : i \in 0 .. N /\ i # 0 BY <1>1
  <2> QED BY <2>1, <2>2
<1>7. \A i \in 0 .. N : f[i] \in S
  <2>1. f[0] \in S BY <1>2, <1>6
  <2>2. \A i \in 1 .. N : f[i - 1] \in S => f[i] \in S BY <1>3, <1>4, <1>6
  <2> QED BY <1>1, <2>1, <2>2, Bleibt
<1>8. Nach(f)
  <2> DEFINE h == [n \in 0 .. N |-> IF n = 0 THEN a ELSE Sortierschritt(f[n - 1], krit, r)]
  <2>1. ASSUME NEW i \in 0 .. N PROVE f[i] = h[i]
    <3>1. CASE i = 0 BY <1>6, <3>1
    <3>2. CASE i # 0
      <4>1. i \in 1 .. N /\ i - 1 \in 0 .. N BY <1>1, <3>2
      <4>2. f[i] = F[<<i, f[i - 1]>>] /\ f[i - 1] \in S BY <1>6, <1>7, <4>1
      <4> QED BY <1>4, <3>2, <4>1, <4>2
    <3> QED BY <3>1, <3>2
  <2>2. f = [i \in 0 .. N |-> f[i]] BY <1>5 DEF IstLauf
  <2>3. h = [i \in 0 .. N |-> h[i]] OBVIOUS
  <2>4. f = h
    <3> HIDE DEF h
    <3> QED BY <2>1, <2>2, <2>3
  <2> QED BY <2>4
<1>9. Nach(v)
  <2> HIDE DEF Nach
  <2> QED BY <1>8
<1>10. TlnBuchSortieren(b, krit, r) = v[N] BY DEF TlnBuchSortieren, N, a
<1> HIDE DEF v
<1>11. v[0] = a /\ \A i \in 1 .. N : v[i] = Sortierschritt(v[i - 1], krit, r)
  <2>1. \A i \in 0 .. N : v[i] = IF i = 0 THEN a ELSE Sortierschritt(v[i - 1], krit, r) BY <1>9
  <2>2. 0 \in 0 .. N /\ \A i \in 1 .. N : i \in 0 .. N /\ i # 0 BY <1>1
  <2> HIDE DEF Nach
  <2> QED BY <2>1, <2>2
<1>12. v[N] \in S
  <2>1. v[0] \in S BY <1>2, <1>11
  <2>2. \A i \in 1 .. N : v[i - 1] \in S => v[i] \in S BY <1>3, <1>11
  <2>3. N \in 0 .. N BY <1>1
  <2> HIDE DEF Nach
  <2> QED BY <1>1, <2>1, <2>2, <2>3, Bleibt
<1> HIDE DEF Nach
<1> QED BY <1>10, <1>12 DEF S, Sortierstand

(***************************************************************************)
(* What is saved: the directory without the deleted entries.               *)
(***************************************************************************)
LEMMA AusgegebenGilt ==
    ASSUME NEW b \in Seq(Eintrag), Eindeutig(b)
    PROVE  Teilbuch(Ausgegeben(b), b)
<1> DEFINE N == Len(b)
           S == Seq(Eintrag)
           Danach(i, c) == IF b[i].geloescht THEN c ELSE Append(c, b[i])
           F == [p \in (1 .. N) \X S |-> Danach(p[1], p[2])]
           Aus(f) == f = [i \in 0 .. N |-> IF i = 0 THEN << >> ELSE
                                           IF b[i].geloescht THEN f[i - 1] ELSE Append(f[i - 1], b[i])]
           v == CHOOSE f : Aus(f)
           P(n, c) == /\ c \in Seq(Eintrag) /\ Eindeutig(c)
                      /\ \A i \in DOMAIN c : \E j \in 1 .. n : c[i] = b[j]
                      /\ MemUsed(c) <= Summe(b)[n]
           T == {n \in Nat : n <= N => P(n, v[n])}
<1>1. N \in Nat /\ DOMAIN b = 1 .. N /\ \A i \in 1 .. N : b[i] \in Eintrag OBVIOUS
<1>2. << >> \in S OBVIOUS
<1>3. ASSUME NEW i \in 1 .. N, NEW c \in S PROVE F[<<i, c>>] = Danach(i, c) /\ Danach(i, c) \in S
  <2>1. b[i] \in Eintrag BY <1>1
  <2>2. Danach(i, c) \in S BY <2>1
  <2>3. F[<<i, c>>] = Danach(i, c)
    <3> HIDE DEF N, S, Danach
    <3> QED OBVIOUS
  <2> QED BY <2>2, <2>3
<1> HIDE DEF F, N
<1>4. PICK f : IstLauf(f, N, << >>, F) BY <1>1, LaufVorhanden
<1>5. f[0] = << >> /\ \A i \in 1 .. N : f[i] = F[<<i, f[i - 1]>>]
  <2>1. \A i \in 0 .. N : f[i] = IF i = 0 THEN << >> ELSE F[<<i, f[i - 1]>>] BY <1>4 DEF IstLauf
  <2>2. 0 \in 0 .. N /\ \A i \in 1 .. N : i \in 0 .. N /\ i # 0 BY <1>1
  <2> QED BY <2>1, <2>2
<1>6. \A i \in 0 .. N : f[i] \in S
  <2>1. f[0] \in S BY <1>2, <1>5
  <2>2. \A i \in 1 .. N : f[i - 1] \in S => f[i] \in S
    <3> HIDE DEF S, Danach
    <3> QED BY <1>3, <1>5
  <2> HIDE DEF S
  <2> QED BY <1>1, <2>1, <2>2, Bleibt
<1>7. Aus(f)
  <2> DEFINE h == [i \in 0 .. N |-> IF i = 0 THEN << >> ELSE
                                    IF b[i].geloescht THEN f[i - 1] ELSE Append(f[i - 1], b[i])]
  <2>1. ASSUME NEW i \in 0 .. N PROVE f[i] = h[i]
    <3>1. CASE i = 0 BY <1>5, <3>1
    <3>2. CASE i # 0
      <4>1. i \in 1 .. N /\ i - 1 \in 0 .. N BY <1>1, <3>2
      <4>2. f[i] = F[<<i, f[i - 1]>>] /\ f[i - 1] \in S BY <1>5, <1>6, <4>1
      <4>3. f[i] = Danach(i, f[i - 1])
        <5> HIDE DEF S, Danach
        <5> QED BY <1>3, <4>1, <4>2
      <4> QED BY <3>2, <4>3
    <3> QED BY <3>1, <3>2
  <2>2. f = [i \in 0 .. N |-> f[i]] BY <1>4 DEF IstLauf
  <2>3. h = [i \in 0 .. N |-> h[i]] OBVIOUS
  <2>4. f = h
    <3> HIDE DEF h
    <3> QED BY <2>1, <2>2, <2>3
  <2> QED BY <2>4
<1>8. Aus(v)
  <2> HIDE DEF Aus
  <2> QED BY <1>7
<1>9. Ausgegeben(b) = v[N] BY DEF Ausgegeben, N
<1> HIDE DEF v
<1>10. v[0] = << >> /\ \A i \in 1 .. N : v[i] = Danach(i, v[i - 1])
  <2>1. \A i \in 0 .. N : v[i] = IF i = 0 THEN << >> ELSE
                                 IF b[i].geloescht THEN v[i - 1] ELSE Append(v[i - 1], b[i])
    BY <1>8
  <2>2. 0 \in 0 .. N /\ \A i \in 1 .. N : i \in 0 .. N /\ i # 0 BY <1>1
  <2> HIDE DEF Aus
  <2> QED BY <2>1, <2>2
<1> HIDE DEF Aus, S, Danach
<1>11. /\ Summe(b)[0] = 0
       /\ \A i \in 1 .. N : Summe(b)[i] = Summe(b)[i - 1] + b[i].gr
       /\ \A i \in 0 .. N : Summe(b)[i] \in Nat
  BY SummeBis DEF N
<1>12. P(0, v[0])
  <2>1. << >> \in Seq(Eintrag) /\ MemUsed(<< >>) = 0 BY MemLeer
  <2>2. DOMAIN << >> = {} OBVIOUS
  <2> QED BY <1>10, <1>11, <2>1, <2>2 DEF Eindeutig
<1>13. ASSUME NEW n \in Nat, n + 1 <= N, P(n, v[n]) PROVE P(n + 1, v[n + 1])
  <2> DEFINE c == v[n]
             e == b[n + 1]
  <2>1. n \in 0 .. N /\ n + 1 \in 1 .. N /\ n + 1 \in 0 .. N /\ (n + 1) - 1 = n BY <1>1, <1>13
  <2>2. e \in Eintrag /\ c \in Seq(Eintrag) /\ Eindeutig(c) BY <1>1, <1>13, <2>1
  <2>3. /\ Summe(b)[n + 1] = Summe(b)[n] + e.gr /\ Summe(b)[n] \in Nat /\ MemUsed(c) \in Nat
        /\ e.gr \in Nat /\ MemUsed(c) <= Summe(b)[n]
    BY <1>11, <1>13, <2>1, <2>2, EintragGroesse, SummeBis
  <2>4. v[n + 1] = Danach(n + 1, c) BY <1>10, <2>1
  <2>5. \A i \in DOMAIN c : \E j \in 1 .. n : c[i] = b[j] BY <1>13
  <2>6. \A j \in 1 .. n : j \in 1 .. n + 1 /\ j \in 1 .. N /\ j # n + 1 BY <1>1, <2>1
  <2> HIDE DEF c, e
  <2>7. CASE e.geloescht
    <3>1. v[n + 1] = c BY <2>4, <2>7 DEF Danach, e
    <3>2. MemUsed(c) <= Summe(b)[n + 1] BY <2>3
    <3>3. \A i \in DOMAIN c : \E j \in 1 .. n + 1 : c[i] = b[j] BY <2>5, <2>6
    <3> QED BY <2>2, <3>1, <3>2, <3>3
  <2>8. CASE ~e.geloescht
    <3> DEFINE d == Append(c, e)
    <3>1. v[n + 1] = d BY <2>4, <2>8 DEF Danach, e
    <3>2. d \in Seq(Eintrag) /\ MemUsed(d) = MemUsed(c) + e.gr BY <2>2, MemAnhang
    <3>3. MemUsed(d) <= Summe(b)[n + 1] BY <2>3, <3>2
    <3>4. \A i \in DOMAIN d : \/ i \in DOMAIN c /\ d[i] = c[i]
                              \/ i = Len(c) + 1 /\ d[i] = e
      BY <2>2
    <3> HIDE DEF d
    <3>5. \A i \in DOMAIN d : \E j \in 1 .. n + 1 : d[i] = b[j]
      <4>1. n + 1 \in 1 .. n + 1 OBVIOUS
      <4> QED BY <2>5, <2>6, <3>4, <4>1 DEF e
    <3>6. \A i \in DOMAIN c : c[i].nr # e.nr BY <1>1, <2>1, <2>5, <2>6 DEF Eindeutig, e
    <3>7. Eindeutig(d)
      <4>1. \A i, j \in DOMAIN c : c[i].nr = c[j].nr => i = j BY <2>2 DEF Eindeutig
      <4> QED BY <3>4, <3>6, <4>1 DEF Eindeutig
    <3> QED BY <3>1, <3>2, <3>3, <3>5, <3>7
  <2> QED BY <2>7, <2>8
<1> HIDE DEF P
<1>14. 0 \in T BY <1>12
<1>15. ASSUME NEW n \in Nat, n \in T PROVE n + 1 \in T
  <2> SUFFICES ASSUME n + 1 <= N PROVE P(n + 1, v[n + 1]) OBVIOUS
  <2>1. n <= N BY <1>1
  <2> QED BY <1>13, <1>15, <2>1
<1>16. P(N, v[N])
  <2>1. N \in T
    <3> HIDE DEF T
    <3> QED BY <1>1, <1>14, <1>15, AlleZahlen
  <2> QED BY <1>1, <2>1
<1> QED BY <1>1, <1>9, <1>16 DEF P, Teilbuch, MemUsed, N

(***************************************************************************)
(* The inductive invariant.                                                *)
(***************************************************************************)
Koepfe == {<< >>} \cup (TbNummer \X (Nat \ {0}) \X BOOLEAN \X BOOLEAN)
Lister == [laeuft : BOOLEAN, pos : 0 .. TlnBuchMemMax, ref : Koepfe, soll : SUBSET TbNummer,
           geliefert : SUBSET TbNummer, gestoert : BOOLEAN]

(* Before the entry the lister expects everything has been found, and it   *)
(* has come to the end only after all.                                     *)
Vorher(b, l, i) == l.ref # << >> /\ l.ref[1] = b[i].nr /\ \A j \in 1 .. i - 1 : b[j].nr \in l.soll => b[j].nr \in l.geliefert
Unterwegs(b, l) ==
    /\ l.soll \subseteq Nummern(b)
    /\ l.pos <= MemUsed(b)
    /\ \E i \in DOMAIN b : Vorher(b, l, i)
    /\ l.pos = MemUsed(b) => l.soll \subseteq l.geliefert
ListerGut(b, l) ==
    /\ l \in Lister
    /\ l.gestoert \/ l.soll = {} \/ IF l.laeuft THEN Unterwegs(b, l) ELSE l.soll \subseteq l.geliefert

(* A sum that was begun after the last change is one of the bytes there.   *)
PruefGut(b, p) ==
    /\ p = [ist |-> p.ist, istGut |-> p.istGut, soll |-> p.soll, sollGut |-> p.sollGut, runden |-> p.runden]
    /\ p.runden \in 0 .. 2
    /\ p.runden >= 1 => /\ p.istGut /\ Len(p.ist) \in 0 .. MemUsed(b)
                        /\ p.ist = SubSeq(Bytes(b), 1, Len(p.ist))
    /\ p.runden = 2 => p.sollGut /\ p.soll = Bytes(b)

(* While it is being saved the directory is where it was, but for what is  *)
(* still to be written, and its head is not valid.                         *)
Gesichert(m) ==
    m.kopf >= 0 => /\ m.kopf <= Len(m.daten) /\ m.kopf <= TlnBuchMemMax
                   /\ SubSeq(m.daten, 1, m.kopf) = m.soll /\ Gut(m.soll)
Schreibend(b, m, rest) ==
    LET a == Ausgegeben(b)
    IN  /\ m.kopf = -1
        /\ m.stelle <= Len(a) /\ m.stelle <= Len(m.daten) /\ Len(rest) = Len(a) - m.stelle + 1
        /\ \A k \in 1 .. m.stelle : m.daten[k] = a[k]
        /\ \A k \in 1 .. Len(a) - m.stelle : rest[k] = a[m.stelle + k]
Eeprom == [kopf : Int, daten : Seq(Eintrag), stelle : Nat, soll : Seq(Eintrag)]
EepromGut(b, m, rest) ==
    /\ m \in Eeprom /\ m.kopf >= -1
    /\ Len(rest) \in Nat /\ rest = [k \in 1 .. Len(rest) |-> rest[k]]
    /\ IF rest = << >> THEN Gesichert(m) ELSE Schreibend(b, m, rest)

(* The invariant: the directory is good, and the lister, the sum and the    *)
(* EEPROM are where their procedures can be with this directory.           *)
TbInv ==
    /\ Gut(tb) /\ tbZeit \in Datum /\ tbAenderungen \in 0 .. TbMaxAenderungen
    /\ ListerGut(tb, tbLister)
    /\ PruefGut(tb, tbPruef)
    /\ EepromGut(tb, tbEeprom, tbSichern)

(***************************************************************************)
(* The lister.                                                             *)
(***************************************************************************)
LEMMA LeerGut == Gut(<< >>)
BY MemLeer DEF Gut, Eindeutig

LEMMA GutTeile ==
    ASSUME NEW b, Gut(b)
    PROVE  /\ b \in Seq(Eintrag) /\ Eindeutig(b) /\ Len(b) \in Nat /\ DOMAIN b = 1 .. Len(b)
           /\ MemUsed(b) \in Nat /\ TlnBuchMemMax \in Nat /\ MemUsed(b) <= TlnBuchMemMax
           /\ \A i \in DOMAIN b : b[i] \in Eintrag /\ b[i].nr \in TbNummer /\ b[i].nr \in Nummern(b)
           /\ Nummern(b) \subseteq TbNummer
<1>1. b \in Seq(Eintrag) /\ Eindeutig(b) BY DEF Gut
<1>2. Len(b) \in Nat /\ DOMAIN b = 1 .. Len(b) BY <1>1
<1>3. MemUsed(b) \in Nat /\ TlnBuchMemMax \in Nat BY <1>1, SummeBis, Groessen
<1>4. MemUsed(b) <= TlnBuchMemMax BY <1>3, MemLeer DEF Gut
<1>5. \A i \in DOMAIN b : b[i] \in Eintrag BY <1>1
<1>6. \A i \in DOMAIN b : b[i].nr \in TbNummer BY <1>5 DEF Eintrag
<1>7. \A i \in DOMAIN b : b[i].nr \in Nummern(b) BY DEF Nummern
<1>8. Nummern(b) \subseteq TbNummer BY <1>6 DEF Nummern
<1> QED BY <1>1, <1>2, <1>3, <1>4, <1>5, <1>6, <1>7, <1>8

LEMMA ListerGeaendert ==
    ASSUME NEW b, Gut(b), NEW c, Gut(c), NEW l, ListerGut(b, l)
    PROVE  ListerGut(c, [l EXCEPT !.soll = @ \cap Nummern(c),
                                  !.gestoert = @ \/ ~Verlaengert(b, c) \/ MemUsed(c) < MemUsed(b)])
<1> DEFINE g == l.gestoert \/ ~Verlaengert(b, c) \/ MemUsed(c) < MemUsed(b)
           s == l.soll \cap Nummern(c)
           m == [l EXCEPT !.soll = s, !.gestoert = g]
<1>1. l \in Lister BY DEF ListerGut
<1>2. g \in BOOLEAN OBVIOUS
<1>3. s \subseteq l.soll /\ s \subseteq Nummern(c) /\ s \subseteq TbNummer BY <1>1 DEF Lister
<1>4. m = [l EXCEPT !.soll = @ \cap Nummern(c),
                    !.gestoert = @ \/ ~Verlaengert(b, c) \/ MemUsed(c) < MemUsed(b)]
  BY <1>1 DEF Lister
<1> SUFFICES ListerGut(c, m) BY <1>4
<1> HIDE DEF g, s
<1>5. /\ m \in Lister /\ m.laeuft = l.laeuft /\ m.pos = l.pos /\ m.ref = l.ref /\ m.geliefert = l.geliefert
      /\ m.soll = s /\ m.gestoert = g
  BY <1>1, <1>2, <1>3 DEF Lister
<1> HIDE DEF m
<1>6. CASE g \/ s = {} BY <1>5, <1>6 DEF ListerGut
<1>7. CASE ~(g \/ s = {})
  <2>1. ~l.gestoert /\ Verlaengert(b, c) /\ ~(MemUsed(c) < MemUsed(b)) /\ l.soll # {}
    BY <1>3, <1>7 DEF g
  <2>2. CASE ~l.laeuft
    <3>1. l.soll \subseteq l.geliefert BY <2>1, <2>2 DEF ListerGut
    <3> QED BY <1>3, <1>5, <2>2, <3>1 DEF ListerGut
  <2>3. CASE l.laeuft
    <3>1. Unterwegs(b, l) BY <2>1, <2>3 DEF ListerGut
    <3>2. l.pos \in Nat /\ MemUsed(b) \in Nat /\ MemUsed(c) \in Nat BY <1>1, GutTeile DEF Lister
    <3>3. l.pos <= MemUsed(b) BY <3>1 DEF Unterwegs
    <3>4. l.pos <= MemUsed(c) BY <2>1, <3>2, <3>3
    <3>5. l.pos = MemUsed(c) => s \subseteq l.geliefert
      <4> SUFFICES ASSUME l.pos = MemUsed(c) PROVE s \subseteq l.geliefert OBVIOUS
      <4>1. l.pos = MemUsed(b) BY <2>1, <3>2, <3>3
      <4> QED BY <1>3, <3>1, <4>1 DEF Unterwegs
    <3>6. PICK i \in DOMAIN b : Vorher(b, l, i) BY <3>1 DEF Unterwegs
    <3>7. DOMAIN b = 1 .. Len(b) /\ DOMAIN c = 1 .. Len(c) /\ Len(b) \in Nat /\ Len(c) \in Nat BY GutTeile
    <3>8. Len(b) <= Len(c) /\ \A j \in DOMAIN b : c[j].nr = b[j].nr BY <2>1 DEF Verlaengert
    <3>9. i \in DOMAIN c /\ \A j \in 1 .. i - 1 : j \in DOMAIN b BY <3>7, <3>8
    <3>10. Vorher(c, m, i) BY <1>3, <1>5, <3>6, <3>8, <3>9 DEF Vorher
    <3>11. Unterwegs(c, m) BY <1>3, <1>5, <3>4, <3>5, <3>9, <3>10 DEF Unterwegs
    <3> QED BY <1>5, <2>3, <3>11 DEF ListerGut
  <2> QED BY <2>2, <2>3
<1> QED BY <1>6, <1>7

LEMMA KopfGilt ==
    ASSUME NEW e \in Eintrag
    PROVE  Kopf(e) \in Koepfe /\ Kopf(e) # << >> /\ Kopf(e)[1] = e.nr
<1>1. e.nr \in TbNummer /\ e.gr \in Nat \ {0} /\ e.lokal \in BOOLEAN /\ e.geloescht \in BOOLEAN BY DEF Eintrag
<1>2. Kopf(e) = <<e.nr, e.gr, e.lokal, e.geloescht>> BY DEF Kopf
<1>3. Len(Kopf(e)) = 4 BY <1>2
<1>4. Len(<< >>) = 0 OBVIOUS
<1> QED BY <1>1, <1>2, <1>3, <1>4 DEF Koepfe

LEMMA ListerWeiter ==
    ASSUME NEW b, Gut(b), NEW l, ListerGut(b, l), l.laeuft,
           NEW i \in DOMAIN b, Kopf(b[i]) = l.ref \/ i = 1
    PROVE  ListerGut(b, [l EXCEPT !.pos = Anfang(b, i) + b[i].gr,
                                  !.ref = IF i < Len(b) THEN Kopf(b[i + 1]) ELSE @,
                                  !.geliefert = @ \cup {b[i].nr}])
<1> DEFINE q == Anfang(b, i) + b[i].gr
           r == IF i < Len(b) THEN Kopf(b[i + 1]) ELSE l.ref
           d == l.geliefert \cup {b[i].nr}
           m == [l EXCEPT !.pos = q, !.ref = r, !.geliefert = d]
<1>1. l \in Lister BY DEF ListerGut
<1>2. m = [l EXCEPT !.pos = Anfang(b, i) + b[i].gr,
                    !.ref = IF i < Len(b) THEN Kopf(b[i + 1]) ELSE @,
                    !.geliefert = @ \cup {b[i].nr}]
  BY <1>1 DEF Lister
<1> SUFFICES ListerGut(b, m) BY <1>2
<1>3. /\ b \in Seq(Eintrag) /\ Eindeutig(b) /\ Len(b) \in Nat /\ DOMAIN b = 1 .. Len(b)
      /\ MemUsed(b) \in Nat /\ TlnBuchMemMax \in Nat /\ MemUsed(b) <= TlnBuchMemMax
      /\ \A j \in DOMAIN b : b[j] \in Eintrag /\ b[j].nr \in TbNummer
  BY GutTeile
<1>4. q \in Nat /\ q <= MemUsed(b) /\ (q = MemUsed(b) => i = Len(b)) BY <1>3, Ende
<1>5. q \in 0 .. TlnBuchMemMax
  <2> HIDE DEF q
  <2> QED BY <1>3, <1>4
<1>6. r \in Koepfe
  <2>1. i < Len(b) => b[i + 1] \in Eintrag BY <1>3
  <2>2. l.ref \in Koepfe BY <1>1 DEF Lister
  <2> QED BY <2>1, <2>2, KopfGilt
<1>7. d \in SUBSET TbNummer /\ l.geliefert \subseteq d /\ b[i].nr \in d BY <1>1, <1>3 DEF Lister
<1> HIDE DEF q, r, d
<1>8. m \in Lister
  <2>1. [l EXCEPT !.pos = q] \in Lister BY <1>1, <1>5 DEF Lister
  <2>2. [[l EXCEPT !.pos = q] EXCEPT !.ref = r] \in Lister BY <1>6, <2>1 DEF Lister
  <2>3. m = [[[l EXCEPT !.pos = q] EXCEPT !.ref = r] EXCEPT !.geliefert = d] BY <1>1 DEF Lister
  <2> DEFINE t == [[l EXCEPT !.pos = q] EXCEPT !.ref = r]
  <2> HIDE DEF t, m
  <2>4. [t EXCEPT !.geliefert = d] \in Lister BY <1>7, <2>2 DEF Lister, t
  <2> QED BY <2>3, <2>4 DEF t
<1>9. /\ m.laeuft = l.laeuft /\ m.soll = l.soll /\ m.gestoert = l.gestoert
      /\ m.pos = q /\ m.ref = r /\ m.geliefert = d
  BY <1>1 DEF Lister
<1> HIDE DEF m
<1>10. CASE l.gestoert \/ l.soll = {} BY <1>8, <1>9, <1>10 DEF ListerGut
<1>11. CASE ~(l.gestoert \/ l.soll = {})
  <2>1. Unterwegs(b, l) BY <1>11 DEF ListerGut
  <2>2. PICK k \in DOMAIN b : Vorher(b, l, k) BY <2>1 DEF Unterwegs
  <2>3. \A j \in 1 .. i - 1 : b[j].nr \in l.soll => b[j].nr \in l.geliefert
    <3>1. CASE i = 1 BY <3>1
    <3>2. CASE Kopf(b[i]) = l.ref
      <4>1. l.ref[1] = b[i].nr BY <1>3, <3>2, KopfGilt
      <4>2. l.ref[1] = b[k].nr BY <2>2 DEF Vorher
      <4>3. k = i BY <1>3, <4>1, <4>2 DEF Eindeutig
      <4> QED BY <2>2, <4>3 DEF Vorher
    <3> QED BY <3>1, <3>2
  <2>4. \A j \in 1 .. i : b[j].nr \in l.soll => b[j].nr \in d
    <3>1. \A j \in 1 .. i : j = i \/ j \in 1 .. i - 1 BY <1>3
    <3> QED BY <1>7, <2>3, <3>1
  <2>5. CASE i < Len(b)
    <3>1. i + 1 \in DOMAIN b /\ (i + 1) - 1 = i BY <1>3, <2>5
    <3>2. r = Kopf(b[i + 1]) BY <2>5 DEF r
    <3>3. r # << >> /\ r[1] = b[i + 1].nr BY <1>3, <3>1, <3>2, KopfGilt
    <3>4. Vorher(b, m, i + 1) BY <1>9, <2>4, <3>1, <3>3 DEF Vorher
    <3>5. q # MemUsed(b) BY <1>3, <1>4, <2>5
    <3>6. Unterwegs(b, m) BY <1>4, <1>9, <2>1, <3>1, <3>4, <3>5 DEF Unterwegs
    <3> QED BY <1>8, <1>9, <3>6 DEF ListerGut
  <2>6. CASE ~(i < Len(b))
    <3>1. i = Len(b) BY <1>3, <2>6
    <3>2. r = l.ref BY <2>6 DEF r
    <3>3. Vorher(b, m, k) BY <1>7, <1>9, <2>2, <3>2 DEF Vorher
    <3>4. l.soll \subseteq d
      <4>1. l.soll \subseteq Nummern(b) BY <2>1 DEF Unterwegs
      <4>2. \A n \in Nummern(b) : \E j \in 1 .. i : n = b[j].nr BY <1>3, <3>1 DEF Nummern
      <4> QED BY <2>4, <4>1, <4>2
    <3>5. Unterwegs(b, m) BY <1>4, <1>9, <2>1, <2>2, <3>3, <3>4 DEF Unterwegs
    <3> QED BY <1>8, <1>9, <3>5 DEF ListerGut
  <2> QED BY <2>5, <2>6
<1> QED BY <1>10, <1>11

(***************************************************************************)
(* The sum.                                                                *)
(***************************************************************************)
LEMMA BytesGilt ==
    ASSUME NEW b, Gut(b)
    PROVE  \E S : Bytes(b) \in Seq(S) /\ Len(Bytes(b)) = MemUsed(b)
<1> DEFINE N == MemUsed(b)
           f == Bytes(b)
           S == {f[p] : p \in 1 .. N}
<1>1. N \in Nat BY GutTeile
<1> DEFINE E(p) == LET i == CHOOSE i \in Hierin(b, p) : TRUE IN <<b[i], p - Anfang(b, i)>>
<1>2. f = [p \in 1 .. N |-> f[p]]
  <2>1. f = [p \in 1 .. N |-> E(p)] BY DEF Bytes
  <2> HIDE DEF E, f, N
  <2> QED BY <2>1
<1> HIDE DEF f, N
<1>3. f \in [1 .. N -> S] BY <1>2
<1> HIDE DEF S
<1>4. f \in Seq(S) /\ Len(f) = N BY <1>1, <1>3
<1> QED BY <1>4 DEF f, N

LEMMA PruefWeiter ==
    ASSUME NEW b, Gut(b), NEW p, PruefGut(b, p), ~(Len(p.ist) >= MemUsed(b))
    PROVE  PruefGut(b, [p EXCEPT !.ist = Append(@, Bytes(b)[Len(@) + 1])])
<1> DEFINE x == Append(p.ist, Bytes(b)[Len(p.ist) + 1])
           q == [p EXCEPT !.ist = x]
<1>1. q = [ist |-> x, istGut |-> p.istGut, soll |-> p.soll, sollGut |-> p.sollGut, runden |-> p.runden]
  <2>1. p = [ist |-> p.ist, istGut |-> p.istGut, soll |-> p.soll, sollGut |-> p.sollGut, runden |-> p.runden]
    BY DEF PruefGut
  <2> HIDE DEF x
  <2> QED BY <2>1
<1> SUFFICES PruefGut(b, q) OBVIOUS
<1>2. ASSUME p.runden >= 1 PROVE Len(x) \in 0 .. MemUsed(b) /\ x = SubSeq(Bytes(b), 1, Len(x))
  <2> DEFINE f == Bytes(b)
             n == Len(p.ist)
  <2>1. n \in Nat /\ MemUsed(b) \in Nat /\ n < MemUsed(b) /\ p.ist = SubSeq(f, 1, n)
    <3>1. MemUsed(b) \in Nat BY GutTeile
    <3>2. n \in 0 .. MemUsed(b) /\ p.ist = SubSeq(f, 1, n) BY <1>2 DEF PruefGut
    <3> QED BY <3>1, <3>2
  <2>2. PICK S : f \in Seq(S) /\ Len(f) = MemUsed(b) BY BytesGilt
  <2> HIDE DEF f, n
  <2>3. n + 1 \in 1 .. Len(f) BY <2>1, <2>2
  <2>4. Append(SubSeq(f, 1, n), f[n + 1]) = SubSeq(f, 1, n + 1) /\ Len(SubSeq(f, 1, n + 1)) = n + 1
    BY <2>1, <2>2, <2>3
  <2>5. x = Append(SubSeq(f, 1, n), f[n + 1]) BY <2>1 DEF f, n
  <2>6. Len(x) = n + 1 /\ x = SubSeq(f, 1, Len(x)) BY <2>4, <2>5
  <2> HIDE DEF x
  <2>7. Len(x) \in 0 .. MemUsed(b) BY <2>1, <2>6
  <2> QED BY <2>6, <2>7 DEF f
<1> HIDE DEF x, q
<1>3. q.ist = x /\ q.istGut = p.istGut /\ q.soll = p.soll /\ q.sollGut = p.sollGut /\ q.runden = p.runden
  BY <1>1
<1>4. q = [ist |-> q.ist, istGut |-> q.istGut, soll |-> q.soll, sollGut |-> q.sollGut, runden |-> q.runden]
  BY <1>1, <1>3
<1> QED BY <1>2, <1>3, <1>4 DEF PruefGut

LEMMA PruefRunde ==
    ASSUME NEW b, Gut(b), NEW p, PruefGut(b, p), Len(p.ist) >= MemUsed(b)
    PROVE  PruefGut(b, [ist |-> << >>, soll |-> p.ist, istGut |-> TRUE, sollGut |-> p.istGut,
                        runden |-> IF p.runden < 2 THEN p.runden + 1 ELSE 2])
<1> DEFINE f == Bytes(b)
           n == IF p.runden < 2 THEN p.runden + 1 ELSE 2
           q == [ist |-> << >>, soll |-> p.ist, istGut |-> TRUE, sollGut |-> p.istGut, runden |-> n]
<1>1. p.runden \in 0 .. 2 BY DEF PruefGut
<1>2. n \in 0 .. 2 /\ (n = 2 => p.runden >= 1) BY <1>1
<1>3. MemUsed(b) \in Nat BY GutTeile
<1>4. PICK S : f \in Seq(S) /\ Len(f) = MemUsed(b) BY BytesGilt
<1>5. ASSUME p.runden >= 1 PROVE p.istGut /\ p.ist = f
  <2>1. p.istGut /\ Len(p.ist) \in 0 .. MemUsed(b) /\ p.ist = SubSeq(f, 1, Len(p.ist)) BY <1>5 DEF PruefGut
  <2> HIDE DEF f
  <2>2. Len(p.ist) = Len(f) BY <1>3, <1>4, <2>1
  <2>3. SubSeq(f, 1, Len(f)) = f BY <1>4, SubSeqFull
  <2> QED BY <2>1, <2>2, <2>3
<1>6. Len(<< >>) \in 0 .. MemUsed(b) /\ << >> = SubSeq(f, 1, Len(<< >>))
  <2> HIDE DEF f
  <2>1. Len(<< >>) = 0 /\ SubSeq(f, 1, 0) = << >> BY <1>4
  <2> QED BY <1>3, <2>1
<1> HIDE DEF n
<1>7. PruefGut(b, q)
  <2>1. q.ist = << >> /\ q.istGut = TRUE /\ q.soll = p.ist /\ q.sollGut = p.istGut /\ q.runden = n OBVIOUS
  <2>2. q = [ist |-> q.ist, istGut |-> q.istGut, soll |-> q.soll, sollGut |-> q.sollGut, runden |-> q.runden]
    OBVIOUS
  <2> HIDE DEF q
  <2>3. q.runden \in 0 .. 2 BY <1>2, <2>1
  <2>4. q.runden >= 1 => q.istGut /\ Len(q.ist) \in 0 .. MemUsed(b) /\ q.ist = SubSeq(Bytes(b), 1, Len(q.ist))
    BY <1>6, <2>1
  <2>5. q.runden = 2 => q.sollGut /\ q.soll = Bytes(b) BY <1>2, <1>5, <2>1
  <2> QED BY <2>2, <2>3, <2>4, <2>5 DEF PruefGut
<1> QED BY <1>7 DEF n

LEMMA PruefVonVorn ==
    ASSUME NEW b, NEW p, PruefGut(b, p), NEW c
    PROVE  PruefGut(c, [p EXCEPT !.runden = 0])
<1> DEFINE q == [p EXCEPT !.runden = 0]
<1>1. p = [ist |-> p.ist, istGut |-> p.istGut, soll |-> p.soll, sollGut |-> p.sollGut, runden |-> p.runden]
  BY DEF PruefGut
<1>2. q = [ist |-> p.ist, istGut |-> p.istGut, soll |-> p.soll, sollGut |-> p.sollGut, runden |-> 0] BY <1>1
<1> HIDE DEF q
<1>3. q.ist = p.ist /\ q.istGut = p.istGut /\ q.soll = p.soll /\ q.sollGut = p.sollGut /\ q.runden = 0 BY <1>2
<1>4. q = [ist |-> q.ist, istGut |-> q.istGut, soll |-> q.soll, sollGut |-> q.sollGut, runden |-> q.runden]
  BY <1>2, <1>3
<1>5. PruefGut(c, q) BY <1>3, <1>4 DEF PruefGut
<1> QED BY <1>5 DEF q

(* Any change of the directory, if what comes of it is good. *)
LEMMA GeaendertErhaelt ==
    ASSUME TbInv, NEW b, Gut(b), Geaendert(b)
    PROVE  tb' = b /\ Gut(tb') /\ ListerGut(tb', tbLister') /\ PruefGut(tb', tbPruef')
<1>1. tb' = b /\ Gut(tb) /\ ListerGut(tb, tbLister) /\ PruefGut(tb, tbPruef) BY DEF TbInv, Geaendert
<1>2. ListerGut(b, tbLister') BY <1>1, ListerGeaendert DEF Geaendert
<1>3. PruefGut(b, tbPruef')
  <2>1. CASE b = tb BY <1>1, <2>1 DEF Geaendert
  <2>2. CASE b # tb
    <3>1. tbPruef' = [tbPruef EXCEPT !.runden = 0] BY <2>2 DEF Geaendert
    <3> QED BY <1>1, <3>1, PruefVonVorn
  <2> QED BY <2>1, <2>2
<1> QED BY <1>1, <1>2, <1>3

(***************************************************************************)
(* The EEPROM.                                                             *)
(***************************************************************************)
LEMMA AusgegebenGut ==
    ASSUME NEW b, Gut(b)
    PROVE  /\ Gut(Ausgegeben(b)) /\ Ausgegeben(b) \in Seq(Eintrag) /\ Len(Ausgegeben(b)) \in Nat
           /\ Len(Ausgegeben(b)) <= TlnBuchMemMax
<1> DEFINE a == Ausgegeben(b)
<1>1. Teilbuch(a, b) BY GutTeile, AusgegebenGilt
<1> HIDE DEF a
<1>2. Gut(a) BY <1>1, TeilbuchGut
<1>3. a \in Seq(Eintrag) /\ MemUsed(a) \in Nat /\ MemUsed(a) <= TlnBuchMemMax /\ TlnBuchMemMax \in Nat
  BY <1>2, GutTeile
<1>4. Len(a) \in Nat /\ Len(a) <= MemUsed(a) BY <1>3, LenMemUsed
<1> QED BY <1>2, <1>3, <1>4 DEF a

LEMMA EepromTeile ==
    ASSUME NEW m \in Eeprom
    PROVE  m.kopf \in Int /\ m.daten \in Seq(Eintrag) /\ m.stelle \in Nat /\ m.soll \in Seq(Eintrag)
BY DEF Eeprom

LEMMA EepromKopf ==
    ASSUME NEW m \in Eeprom, NEW x \in Int
    PROVE  /\ [m EXCEPT !.kopf = x] \in Eeprom /\ [m EXCEPT !.kopf = x].kopf = x
           /\ [m EXCEPT !.kopf = x].daten = m.daten /\ [m EXCEPT !.kopf = x].stelle = m.stelle
BY DEF Eeprom

LEMMA EepromStelle ==
    ASSUME NEW m \in Eeprom, NEW n \in Nat
    PROVE  /\ [m EXCEPT !.stelle = n] \in Eeprom /\ [m EXCEPT !.stelle = n].stelle = n
           /\ [m EXCEPT !.stelle = n].kopf = m.kopf /\ [m EXCEPT !.stelle = n].daten = m.daten
BY DEF Eeprom

LEMMA EepromDaten ==
    ASSUME NEW m \in Eeprom, NEW d \in Seq(Eintrag)
    PROVE  /\ [m EXCEPT !.daten = d] \in Eeprom /\ [m EXCEPT !.daten = d].daten = d
           /\ [m EXCEPT !.daten = d].kopf = m.kopf /\ [m EXCEPT !.daten = d].stelle = m.stelle
BY DEF Eeprom

LEMMA EepromSoll ==
    ASSUME NEW m \in Eeprom, NEW a \in Seq(Eintrag)
    PROVE  /\ [m EXCEPT !.soll = a] \in Eeprom /\ [m EXCEPT !.soll = a].soll = a
           /\ [m EXCEPT !.soll = a].kopf = m.kopf /\ [m EXCEPT !.soll = a].daten = m.daten
BY DEF Eeprom

LEMMA AlsFunktion ==
    ASSUME NEW S, NEW r \in Seq(S)
    PROVE  Len(r) \in Nat /\ r = [i \in 1 .. Len(r) |-> r[i]]
<1>1. Len(r) \in Nat /\ r \in [1 .. Len(r) -> S] BY LenProperties
<1> QED BY <1>1

LEMMA BeginntGut ==
    ASSUME NEW b, Gut(b), NEW m, EepromGut(b, m, << >>)
    PROVE  EepromGut(b, [m EXCEPT !.kopf = -1, !.stelle = 0], Append(Ausgegeben(b), "Kopf"))
<1> DEFINE a == Ausgegeben(b)
           r == Append(a, "Kopf")
           k == [m EXCEPT !.kopf = -1, !.stelle = 0]
           W == Eintrag \cup {"Kopf"}
<1>1. a \in Seq(Eintrag) /\ Len(a) \in Nat BY AusgegebenGut
<1>2. m \in Eeprom BY DEF EepromGut
<1>3. k \in Eeprom /\ k.kopf = -1 /\ k.stelle = 0 /\ k.daten = m.daten
  <2> DEFINE t == [m EXCEPT !.kopf = -1]
  <2>1. t \in Eeprom /\ t.kopf = -1 /\ t.daten = m.daten
    <3> DEFINE x == -1
    <3>1. x \in Int OBVIOUS
    <3> HIDE DEF x
    <3>2. /\ [m EXCEPT !.kopf = x] \in Eeprom /\ [m EXCEPT !.kopf = x].kopf = x
          /\ [m EXCEPT !.kopf = x].daten = m.daten
      BY <1>2, <3>1, EepromKopf
    <3> QED BY <3>2 DEF x
  <2>2. k = [t EXCEPT !.stelle = 0] BY <1>2 DEF Eeprom
  <2> HIDE DEF t, k
  <2>3. /\ [t EXCEPT !.stelle = 0] \in Eeprom /\ [t EXCEPT !.stelle = 0].kopf = t.kopf
        /\ [t EXCEPT !.stelle = 0].daten = t.daten /\ [t EXCEPT !.stelle = 0].stelle = 0
    BY <2>1, EepromStelle
  <2> QED BY <2>1, <2>2, <2>3
<1> HIDE DEF a, k
<1>4. a \in Seq(W) /\ "Kopf" \in W BY <1>1
<1> HIDE DEF W
<1>5. r \in Seq(W) /\ Len(r) = Len(a) + 1 /\ \A i \in 1 .. Len(a) : r[i] = a[i] BY <1>4
<1>6. r = [i \in 1 .. Len(r) |-> r[i]] /\ Len(r) \in Nat /\ r # << >>
  <2>1. Len(r) \in Nat /\ r = [i \in 1 .. Len(r) |-> r[i]] BY <1>5, AlsFunktion
  <2>2. Len(<< >>) = 0 /\ Len(r) # 0 BY <1>1, <1>5
  <2> QED BY <2>1, <2>2
<1> HIDE DEF r
<1>7. Schreibend(b, k, r)
  <2>1. Len(k.daten) \in Nat BY <1>3, EepromTeile
  <2>2. Schreibend(b, k, r) <=>
          /\ k.kopf = -1
          /\ k.stelle <= Len(a) /\ k.stelle <= Len(k.daten) /\ Len(r) = Len(a) - k.stelle + 1
          /\ \A i \in 1 .. k.stelle : k.daten[i] = a[i]
          /\ \A i \in 1 .. Len(a) - k.stelle : r[i] = a[k.stelle + i]
    BY DEF Schreibend, a
  <2>3. Len(a) - 0 = Len(a) /\ \A i \in 1 .. Len(a) : 0 + i = i BY <1>1
  <2> QED BY <1>1, <1>3, <1>5, <2>1, <2>2, <2>3
<1>8. EepromGut(b, k, r) BY <1>3, <1>6, <1>7 DEF EepromGut
<1> QED BY <1>8 DEF a, k, r

(* What is left when the first has been written. *)
LEMMA RestGilt ==
    ASSUME NEW r, Len(r) \in Nat, r = [i \in 1 .. Len(r) |-> r[i]], Len(r) > 1
    PROVE  /\ Head(r) = r[1] /\ Len(Tail(r)) = Len(r) - 1 /\ Tail(r) # << >>
           /\ Tail(r) = [i \in 1 .. Len(Tail(r)) |-> Tail(r)[i]]
           /\ \A i \in 1 .. Len(r) - 1 : Tail(r)[i] = r[i + 1]
<1> DEFINE S == {r[i] : i \in 1 .. Len(r)}
<1>1. r \in Seq(S)
  <2>1. r \in [1 .. Len(r) -> S] OBVIOUS
  <2> HIDE DEF S
  <2> QED BY <2>1
<1> HIDE DEF S
<1>2. r # << >> BY <1>1
<1>3. /\ Head(r) = r[1] /\ Tail(r) \in Seq(S) /\ Len(Tail(r)) = Len(r) - 1
      /\ \A i \in 1 .. Len(Tail(r)) : Tail(r)[i] = r[i + 1]
  BY <1>1, <1>2, HeadTailProperties
<1>4. Tail(r) # << >> /\ Tail(r) = [i \in 1 .. Len(Tail(r)) |-> Tail(r)[i]]
  <2>1. Tail(r) = [i \in 1 .. Len(Tail(r)) |-> Tail(r)[i]] BY <1>3, AlsFunktion
  <2>2. Len(<< >>) = 0 /\ Len(Tail(r)) # 0 BY <1>3
  <2> QED BY <2>1, <2>2
<1> QED BY <1>3, <1>4

LEMMA GeschriebenGut ==
    ASSUME NEW b, Gut(b), NEW m, NEW r, EepromGut(b, m, r), Len(r) > 1
    PROVE  EepromGut(b, [m EXCEPT !.stelle = m.stelle + 1,
                                  !.daten = IF m.stelle + 1 <= Len(@) THEN [@ EXCEPT ![m.stelle + 1] = Head(r)]
                                            ELSE Append(@, Head(r))], Tail(r))
<1> DEFINE a == Ausgegeben(b)
           n == m.stelle
           e == Head(r)
           d == IF n + 1 <= Len(m.daten) THEN [m.daten EXCEPT ![n + 1] = e] ELSE Append(m.daten, e)
           k == [m EXCEPT !.stelle = n + 1, !.daten = d]
           z == Tail(r)
<1>1. a \in Seq(Eintrag) /\ Len(a) \in Nat BY AusgegebenGut
<1>2. m \in Eeprom /\ Len(r) \in Nat /\ r = [i \in 1 .. Len(r) |-> r[i]] BY DEF EepromGut
<1>3. Schreibend(b, m, r)
  <2>1. r # << >>
    <3>1. Len(<< >>) = 0 OBVIOUS
    <3> QED BY <3>1
  <2> QED BY <2>1 DEF EepromGut
<1>4. /\ m.kopf = -1
      /\ n <= Len(a) /\ n <= Len(m.daten) /\ Len(r) = Len(a) - n + 1
      /\ \A i \in 1 .. n : m.daten[i] = a[i]
      /\ \A i \in 1 .. Len(a) - n : r[i] = a[n + i]
  BY <1>3 DEF Schreibend
<1>5. /\ e = r[1] /\ Len(z) = Len(r) - 1 /\ z # << >> /\ z = [i \in 1 .. Len(z) |-> z[i]]
      /\ \A i \in 1 .. Len(r) - 1 : z[i] = r[i + 1]
  BY <1>2, RestGilt
<1>6. n \in Nat /\ m.daten \in Seq(Eintrag) /\ Len(m.daten) \in Nat BY <1>2, EepromTeile
<1> HIDE DEF a, e, z
<1>7. 1 \in 1 .. Len(a) - n /\ n + 1 \in 1 .. Len(a) BY <1>1, <1>2, <1>4, <1>6
<1>8. e = a[n + 1] /\ e \in Eintrag BY <1>1, <1>4, <1>5, <1>7
<1> HIDE DEF n
<1>9. /\ d \in Seq(Eintrag) /\ n + 1 <= Len(d) /\ d[n + 1] = e
      /\ \A i \in 1 .. n : d[i] = m.daten[i]
  <2> DEFINE u == m.daten
  <2> HIDE DEF u
  <2>1. CASE n + 1 <= Len(m.daten)
    <3>1. n + 1 \in 1 .. Len(u) /\ u \in Seq(Eintrag) BY <1>6, <2>1 DEF u
    <3>2. d = [u EXCEPT ![n + 1] = e] BY <2>1 DEF u
    <3>3. [u EXCEPT ![n + 1] = e] \in Seq(Eintrag) /\ Len([u EXCEPT ![n + 1] = e]) = Len(u)
          /\ [u EXCEPT ![n + 1] = e][n + 1] = e
      BY <1>8, <3>1
    <3>4. \A i \in 1 .. n : i \in 1 .. Len(u) /\ i # n + 1 BY <1>4, <1>6 DEF u
    <3>5. \A i \in 1 .. n : [u EXCEPT ![n + 1] = e][i] = u[i] BY <3>1, <3>4
    <3> HIDE DEF d
    <3> QED BY <2>1, <3>2, <3>3, <3>5 DEF u
  <2>2. CASE ~(n + 1 <= Len(m.daten))
    <3>1. n = Len(u) /\ u \in Seq(Eintrag) BY <1>4, <1>6, <2>2 DEF u
    <3>2. d = Append(u, e) BY <2>2 DEF u
    <3>3. /\ Append(u, e) \in Seq(Eintrag) /\ Len(Append(u, e)) = n + 1 /\ Append(u, e)[n + 1] = e
          /\ \A i \in 1 .. n : Append(u, e)[i] = u[i]
      BY <1>8, <3>1
    <3> HIDE DEF d
    <3> QED BY <1>6, <3>2, <3>3 DEF u
  <2> QED BY <2>1, <2>2
<1> HIDE DEF d
<1>10. k \in Eeprom /\ k.kopf = m.kopf /\ k.stelle = n + 1 /\ k.daten = d
  <2> DEFINE t == [m EXCEPT !.stelle = n + 1]
  <2>1. n + 1 \in Nat BY <1>6
  <2>2. t \in Eeprom /\ t.kopf = m.kopf /\ t.stelle = n + 1 BY <1>2, <2>1, EepromStelle
  <2>3. k = [t EXCEPT !.daten = d] BY <1>2 DEF Eeprom
  <2> HIDE DEF t, k
  <2>4. /\ [t EXCEPT !.daten = d] \in Eeprom /\ [t EXCEPT !.daten = d].kopf = t.kopf
        /\ [t EXCEPT !.daten = d].stelle = t.stelle /\ [t EXCEPT !.daten = d].daten = d
    BY <1>9, <2>2, EepromDaten
  <2> QED BY <2>2, <2>3, <2>4
<1>11. k = [m EXCEPT !.stelle = m.stelle + 1,
                     !.daten = IF m.stelle + 1 <= Len(@) THEN [@ EXCEPT ![m.stelle + 1] = Head(r)]
                               ELSE Append(@, Head(r))]
  BY <1>2 DEF d, n, e, Eeprom
<1> HIDE DEF k
<1>12. Schreibend(b, k, z)
  <2>1. Schreibend(b, k, z) <=>
          /\ k.kopf = -1
          /\ k.stelle <= Len(a) /\ k.stelle <= Len(k.daten) /\ Len(z) = Len(a) - k.stelle + 1
          /\ \A i \in 1 .. k.stelle : k.daten[i] = a[i]
          /\ \A i \in 1 .. Len(a) - k.stelle : z[i] = a[k.stelle + i]
    BY DEF Schreibend, a
  <2>2. n + 1 <= Len(a) BY <1>1, <1>6, <1>7
  <2>3. Len(z) = Len(a) - (n + 1) + 1 BY <1>1, <1>4, <1>5, <1>6
  <2>4. \A i \in 1 .. n + 1 : d[i] = a[i]
    <3>1. \A i \in 1 .. n + 1 : i \in 1 .. n \/ i = n + 1 BY <1>6
    <3> QED BY <1>4, <1>8, <1>9, <3>1
  <2>5. ASSUME NEW i \in 1 .. Len(a) - (n + 1) PROVE z[i] = a[(n + 1) + i]
    <3>1. i \in 1 .. Len(r) - 1 /\ i + 1 \in 1 .. Len(a) - n /\ n + (i + 1) = (n + 1) + i
      BY <1>1, <1>4, <1>6
    <3> QED BY <1>4, <1>5, <3>1
  <2> QED BY <1>4, <1>9, <1>10, <2>1, <2>2, <2>3, <2>4, <2>5
<1>13. Len(z) \in Nat BY <1>2, <1>5
<1>14. EepromGut(b, k, z) BY <1>4, <1>5, <1>10, <1>12, <1>13 DEF EepromGut
<1> QED BY <1>11, <1>14 DEF z

LEMMA FertigGut ==
    ASSUME NEW b, Gut(b), NEW m, NEW r, EepromGut(b, m, r), Len(r) = 1
    PROVE  EepromGut(b, [m EXCEPT !.kopf = m.stelle, !.soll = Ausgegeben(b)], << >>)
<1> DEFINE a == Ausgegeben(b)
           n == m.stelle
           k == [m EXCEPT !.kopf = n, !.soll = a]
<1>1. a \in Seq(Eintrag) /\ Len(a) \in Nat /\ Gut(a) /\ Len(a) <= TlnBuchMemMax BY AusgegebenGut
<1>2. m \in Eeprom BY DEF EepromGut
<1>3. Schreibend(b, m, r)
  <2>1. r # << >>
    <3>1. Len(<< >>) = 0 OBVIOUS
    <3> QED BY <3>1
  <2> QED BY <2>1 DEF EepromGut
<1>4. n <= Len(a) /\ n <= Len(m.daten) /\ Len(r) = Len(a) - n + 1 /\ \A i \in 1 .. n : m.daten[i] = a[i]
  BY <1>3 DEF Schreibend
<1>5. n \in Nat /\ m.daten \in Seq(Eintrag) BY <1>2, EepromTeile
<1> HIDE DEF a
<1>6. n = Len(a) BY <1>1, <1>4, <1>5
<1>7. SubSeq(m.daten, 1, n) = a
  <2> DEFINE u == SubSeq(m.daten, 1, n)
  <2> HIDE DEF n
  <2>1. u \in Seq(Eintrag) /\ Len(u) = n /\ \A i \in 1 .. n : u[i] = m.daten[i]
    BY <1>4, <1>5
  <2> HIDE DEF u
  <2>2. \A i \in 1 .. Len(a) : u[i] = a[i] BY <1>4, <1>6, <2>1
  <2>3. u = a BY <1>1, <1>6, <2>1, <2>2, SeqEqual
  <2> QED BY <2>3 DEF u
<1>8. k \in Eeprom /\ k.kopf = n /\ k.daten = m.daten /\ k.soll = a
  <2> DEFINE t == [m EXCEPT !.kopf = n]
  <2>1. k = [t EXCEPT !.soll = a] BY <1>2 DEF Eeprom
  <2> HIDE DEF n
  <2>2. t \in Eeprom /\ t.kopf = n /\ t.daten = m.daten BY <1>2, <1>5, EepromKopf
  <2> HIDE DEF t, k
  <2>3. /\ [t EXCEPT !.soll = a] \in Eeprom /\ [t EXCEPT !.soll = a].kopf = t.kopf
        /\ [t EXCEPT !.soll = a].daten = t.daten /\ [t EXCEPT !.soll = a].soll = a
    BY <1>1, <2>2, EepromSoll
  <2> QED BY <2>1, <2>2, <2>3
<1> HIDE DEF k, n
<1>9. Gesichert(k) BY <1>1, <1>4, <1>6, <1>7, <1>8 DEF Gesichert
<1>10. << >> = [i \in 1 .. Len(<< >>) |-> << >>[i]] /\ Len(<< >>) \in Nat OBVIOUS
<1>11. EepromGut(b, k, << >>) BY <1>5, <1>8, <1>9, <1>10 DEF EepromGut
<1> QED BY <1>11 DEF k, a, n

(* While nothing is written the EEPROM does not depend on the directory,   *)
(* and what is given up leaves a head that is not valid.                   *)
LEMMA EepromRuht ==
    ASSUME NEW b, NEW c, NEW m, NEW r, EepromGut(b, m, r)
    PROVE  EepromGut(c, m, << >>)
<1>1. Gesichert(m)
  <2>1. CASE r = << >> BY <2>1 DEF EepromGut
  <2>2. CASE r # << >>
    <3>1. m.kopf = -1 BY <2>2 DEF EepromGut, Schreibend
    <3> QED BY <3>1 DEF Gesichert
  <2> QED BY <2>1, <2>2
<1>2. << >> = [i \in 1 .. Len(<< >>) |-> << >>[i]] /\ Len(<< >>) \in Nat OBVIOUS
<1> QED BY <1>1, <1>2 DEF EepromGut

LEMMA GeladenGut ==
    ASSUME NEW b, Gut(b), NEW c, NEW r, EepromGut(c, tbEeprom, r), NEW x \in Geladen(b)
    PROVE  Gut(x)
<1>1. CASE tbEeprom.kopf <= 0 BY <1>1 DEF Geladen
<1>2. CASE ~(tbEeprom.kopf <= 0)
  <2>1. tbEeprom.kopf \in Int BY EepromTeile DEF EepromGut
  <2>2. Gesichert(tbEeprom)
    <3>1. EepromGut(b, tbEeprom, << >>) BY EepromRuht
    <3> QED BY <3>1 DEF EepromGut
  <2>3. Gut(SubSeq(tbEeprom.daten, 1, tbEeprom.kopf))
    <3>1. tbEeprom.kopf >= 0 BY <1>2, <2>1
    <3>2. SubSeq(tbEeprom.daten, 1, tbEeprom.kopf) = tbEeprom.soll /\ Gut(tbEeprom.soll)
      BY <2>2, <3>1 DEF Gesichert
    <3> QED BY <3>2
  <2>4. x = SubSeq(tbEeprom.daten, 1, tbEeprom.kopf) \/ x = << >> BY <1>2 DEF Geladen
  <2> QED BY <2>3, <2>4, LeerGut
<1> QED BY <1>1, <1>2

(***************************************************************************)
(* The steps.                                                              *)
(***************************************************************************)
LEMMA MitGilt ==
    ASSUME NEW f \in TbFassung, NEW d \in Datum
    PROVE  Mit(f, d) \in Eintrag /\ Mit(f, d).nr = f.nr
<1>1. f \in Fassung /\ f.nr \in TbNummer BY Groessen DEF TbNummer
<1>2. f.gr \in Nat \ {0} /\ f.lokal \in BOOLEAN /\ f.geloescht \in BOOLEAN BY <1>1 DEF Fassung
<1> QED BY <1>1, <1>2 DEF Mit, Eintrag

LEMMA GeloeschtGilt ==
    ASSUME NEW nr \in TbNummer, NEW l \in BOOLEAN, NEW d \in Datum
    PROVE  Mit(Geloescht(nr, l), d) \in Eintrag
BY DEF Mit, Geloescht, Eintrag

(* The invariant holds at the start, *)
THEOREM TbInvAnfang == TbInit => TbInv
<1> SUFFICES ASSUME TbInit PROVE TbInv OBVIOUS
<1>1. Gut(tb)
  <2>1. tb \in TbAnfang BY DEF TbInit
  <2>2. MemUsed(tb) < TlnBuchMemMax /\ Eindeutig(tb) BY <2>1 DEF TbAnfang, Eindeutig
  <2>3. PICK n \in 0 .. Cardinality(TbNummer) : tb \in [1 .. n -> {Mit(f, d) : f \in TbFassung, d \in Datum}]
    BY <2>1 DEF TbAnfang
  <2>4. n \in Nat
    <3>1. Cardinality(TbNummer) \in Nat BY Groessen, FS_CardinalityType
    <3> QED BY <3>1
  <2>5. {Mit(f, d) : f \in TbFassung, d \in Datum} \subseteq Eintrag BY MitGilt
  <2>6. tb \in [1 .. n -> Eintrag] BY <2>3, <2>5
  <2>7. tb \in Seq(Eintrag) BY <2>4, <2>6
  <2> QED BY <2>2, <2>7 DEF Gut
<1>2. tbZeit \in Datum /\ tbAenderungen \in 0 .. TbMaxAenderungen BY Groessen DEF TbInit, Datum
<1>3. ListerGut(tb, tbLister)
  <2>1. tbLister = KeinLister BY DEF TbInit
  <2>2. KeinLister \in Lister BY Groessen DEF KeinLister, Lister, Koepfe
  <2> QED BY <2>1, <2>2 DEF ListerGut, KeinLister
<1>4. PruefGut(tb, tbPruef) BY DEF TbInit, PruefGut
<1>5. EepromGut(tb, tbEeprom, tbSichern)
  <2>1. tbEeprom = [kopf |-> -1, daten |-> << >>, stelle |-> 0, soll |-> << >>] /\ tbSichern = << >>
    BY DEF TbInit
  <2>2. tbEeprom \in Eeprom /\ tbEeprom.kopf = -1
    <3>1. << >> \in Seq(Eintrag) /\ -1 \in Int OBVIOUS
    <3> QED BY <2>1, <3>1 DEF Eeprom
  <2>3. Gesichert(tbEeprom) BY <2>2 DEF Gesichert
  <2>4. << >> = [i \in 1 .. Len(<< >>) |-> << >>[i]] /\ Len(<< >>) \in Nat OBVIOUS
  <2> QED BY <2>1, <2>2, <2>3, <2>4 DEF EepromGut
<1> QED BY <1>1, <1>2, <1>3, <1>4, <1>5 DEF TbInv

LEMMA ZaehlerErhaelt ==
    ASSUME TbInv, tbAenderungen > 0, tbAenderungen' = tbAenderungen - 1
    PROVE  tbAenderungen' \in 0 .. TbMaxAenderungen
BY Groessen DEF TbInv

LEMMA AenderungErhaelt ==
    ASSUME TbInv, Aenderung, NEW b, Gut(b), Geaendert(b), UNCHANGED <<tbEeprom, tbSichern, tbTeil, tbZeit>>
    PROVE  TbInv'
<1>1. Gut(tb') /\ ListerGut(tb', tbLister') /\ PruefGut(tb', tbPruef') BY GeaendertErhaelt
<1>2. tbAenderungen' \in 0 .. TbMaxAenderungen BY ZaehlerErhaelt DEF Aenderung
<1>3. tbZeit' \in Datum BY DEF TbInv
<1>4. EepromGut(tb', tbEeprom', tbSichern')
  <2>1. EepromGut(tb, tbEeprom, tbSichern) BY DEF TbInv
  <2>2. EepromGut(tb', tbEeprom, << >>) BY <2>1, EepromRuht
  <2>3. tbSichern' = << >> /\ tbEeprom' = tbEeprom BY DEF Aenderung, Ruhig
  <2> QED BY <2>2, <2>3
<1> QED BY <1>1, <1>2, <1>3, <1>4 DEF TbInv

LEMMA SpeichernErhaelt ==
    ASSUME TbInv, NEW f \in TbFassung, NEW d \in Datum, NEW modus, Speichern(f, d, modus)
    PROVE  TbInv'
<1>1. Gut(tb) /\ tbZeit \in Datum BY DEF TbInv
<1>2. Mit(f, d) \in Eintrag BY MitGilt
<1>3. Gut(TlnHinzufuegen(tb, Mit(f, d), modus).buch) BY <1>1, <1>2, HinzufuegenGut
<1> QED BY <1>3, AenderungErhaelt DEF Speichern

LEMMA UmbenennenErhaelt ==
    ASSUME TbInv, NEW f \in TbFassung, NEW alt \in TbNummer, Umbenennen(alt, f)
    PROVE  TbInv'
<1> DEFINE M == "DatumAktualisieren"
           neu == TlnHinzufuegen(tb, Mit(f, 0), M)
           e == Mit(Geloescht(alt, f.lokal), tbZeit)
           c == IF neu.res < 0 THEN neu.buch ELSE TlnHinzufuegen(neu.buch, e, M).buch
<1>1. Gut(tb) /\ tbZeit \in Datum /\ 0 \in Datum BY Groessen DEF TbInv, Datum
<1>2. Mit(f, 0) \in Eintrag BY <1>1, MitGilt
<1>3. f.lokal \in BOOLEAN BY Groessen DEF Fassung
<1>4. e \in Eintrag BY <1>1, <1>3, GeloeschtGilt
<1>5. Gut(neu.buch) BY <1>1, <1>2, HinzufuegenGut
<1>6. Geaendert(c) BY DEF Umbenennen
<1>7. Aenderung /\ UNCHANGED <<tbEeprom, tbSichern, tbTeil, tbZeit>> BY DEF Umbenennen
<1> HIDE DEF neu, e
<1>8. Gut(TlnHinzufuegen(neu.buch, e, M).buch) BY <1>1, <1>4, <1>5, HinzufuegenGut
<1>9. Gut(c) BY <1>5, <1>8
<1> HIDE DEF c
<1> QED BY <1>6, <1>7, <1>9, AenderungErhaelt

LEMMA SortierenErhaelt ==
    ASSUME TbInv, NEW krit, NEW r \in BOOLEAN, Sortieren(krit, r)
    PROVE  TbInv'
<1>1. Gut(TlnBuchSortieren(tb, krit, r).buch) BY SortierenGut DEF TbInv
<1> QED BY <1>1, AenderungErhaelt DEF Sortieren

LEMMA LadenErhaelt ==
    ASSUME TbInv, Laden
    PROVE  TbInv'
<1>1. PICK b \in Geladen(tb) : Geaendert(b) BY DEF Laden
<1>2. Gut(b) BY GeladenGut DEF TbInv
<1> QED BY <1>1, <1>2, AenderungErhaelt DEF Laden

LEMMA ListerStartErhaelt ==
    ASSUME TbInv, TlnListerStart
    PROVE  TbInv'
<1> DEFINE l == [laeuft |-> TRUE, pos |-> 0, ref |-> IF tb = << >> THEN << >> ELSE Kopf(tb[1]),
                 soll |-> Nummern(tb), geliefert |-> {}, gestoert |-> FALSE]
<1>1. tbLister' = l /\ UNCHANGED <<tb, tbPruef, tbEeprom, tbSichern, tbZeit, tbAenderungen>> BY DEF TlnListerStart
<1>2. Gut(tb) BY DEF TbInv
<1>3. /\ Len(tb) \in Nat /\ DOMAIN tb = 1 .. Len(tb) /\ MemUsed(tb) \in Nat /\ TlnBuchMemMax \in Nat
      /\ \A i \in DOMAIN tb : tb[i] \in Eintrag
      /\ Nummern(tb) \subseteq TbNummer /\ tb \in Seq(Eintrag)
  BY <1>2, GutTeile
<1>4. tb # << >> => 1 \in DOMAIN tb BY <1>3
<1>5. l.ref \in Koepfe /\ (tb # << >> => l.ref # << >> /\ l.ref[1] = tb[1].nr)
  <2>1. CASE tb = << >> BY <2>1 DEF Koepfe
  <2>2. CASE tb # << >>
    <3>1. l.ref = Kopf(tb[1]) BY <2>2
    <3>2. tb[1] \in Eintrag BY <1>3, <1>4, <2>2
    <3> QED BY <3>1, <3>2, KopfGilt
  <2> QED BY <2>1, <2>2
<1>6. /\ l.laeuft = TRUE /\ l.pos = 0 /\ l.soll = Nummern(tb) /\ l.geliefert = {} /\ l.gestoert = FALSE
      /\ l = [laeuft |-> l.laeuft, pos |-> l.pos, ref |-> l.ref, soll |-> l.soll, geliefert |-> l.geliefert,
              gestoert |-> l.gestoert]
  OBVIOUS
<1> HIDE DEF l
<1>7. l \in Lister
  <2>1. 0 \in 0 .. TlnBuchMemMax BY <1>3
  <2>2. Nummern(tb) \in SUBSET TbNummer BY <1>3
  <2>3. l.laeuft \in BOOLEAN /\ l.pos \in 0 .. TlnBuchMemMax /\ l.ref \in Koepfe /\ l.soll \in SUBSET TbNummer
        /\ l.geliefert \in SUBSET TbNummer /\ l.gestoert \in BOOLEAN
    BY <1>5, <1>6, <2>1, <2>2
  <2> QED BY <1>6, <2>3 DEF Lister
<1>8. ListerGut(tb, l)
  <2>1. CASE tb = << >>
    <3>1. Nummern(tb) = {} BY <2>1 DEF Nummern
    <3> QED BY <1>6, <1>7, <3>1 DEF ListerGut
  <2>2. CASE tb # << >>
    <3>1. Vorher(tb, l, 1) BY <1>5, <2>2 DEF Vorher
    <3>2. l.pos <= MemUsed(tb) BY <1>3, <1>6
    <3>3. l.pos # MemUsed(tb)
      <4>1. Len(tb) > 0 BY <1>3, <1>4, <2>2
      <4>2. Len(tb) <= MemUsed(tb) BY <1>3, LenMemUsed
      <4> QED BY <1>3, <1>6, <4>1, <4>2
    <3>4. Unterwegs(tb, l) BY <1>4, <1>6, <2>2, <3>1, <3>2, <3>3 DEF Unterwegs
    <3> QED BY <1>6, <1>7, <3>4 DEF ListerGut
  <2> QED BY <2>1, <2>2
<1> QED BY <1>1, <1>8 DEF TbInv

LEMMA NaechsterErhaelt ==
    ASSUME TbInv, TlnListerNaechster
    PROVE  TbInv'
<1> DEFINE l == tbLister
<1>1. UNCHANGED <<tb, tbPruef, tbEeprom, tbSichern, tbZeit, tbAenderungen>> /\ l.laeuft BY DEF TlnListerNaechster
<1>2. Gut(tb) /\ ListerGut(tb, l) BY DEF TbInv
<1>3. l \in Lister BY <1>2 DEF ListerGut
<1>4. ListerGut(tb, tbLister')
  <2>1. CASE l.pos >= MemUsed(tb)
    <3> DEFINE m == [l EXCEPT !.laeuft = FALSE]
    <3>1. tbLister' = m BY <2>1 DEF TlnListerNaechster
    <3>2. /\ m \in Lister /\ m.laeuft = FALSE /\ m.soll = l.soll /\ m.geliefert = l.geliefert
          /\ m.gestoert = l.gestoert
      BY <1>3 DEF Lister
    <3> HIDE DEF m
    <3>3. l.gestoert \/ l.soll = {} \/ l.soll \subseteq l.geliefert
      <4> SUFFICES ASSUME ~l.gestoert, l.soll # {} PROVE l.soll \subseteq l.geliefert OBVIOUS
      <4>1. Unterwegs(tb, l) BY <1>1, <1>2 DEF ListerGut
      <4>2. l.pos \in Nat /\ MemUsed(tb) \in Nat BY <1>2, <1>3, GutTeile DEF Lister
      <4>3. l.pos <= MemUsed(tb) BY <4>1 DEF Unterwegs
      <4>4. l.pos = MemUsed(tb) BY <2>1, <4>2, <4>3
      <4> QED BY <4>1, <4>4 DEF Unterwegs
    <3> QED BY <3>1, <3>2, <3>3 DEF ListerGut
  <2>2. CASE ~(l.pos >= MemUsed(tb))
    <3> DEFINE hier == {i \in AnStelle(tb, l.pos) : Kopf(tb[i]) = l.ref}
               i == IF hier = {} THEN 1 ELSE CHOOSE j \in hier : TRUE
    <3>1. tbLister' = [l EXCEPT !.pos = Anfang(tb, i) + tb[i].gr,
                                !.ref = IF i < Len(tb) THEN Kopf(tb[i + 1]) ELSE @,
                                !.geliefert = @ \cup {tb[i].nr}]
      BY <2>2 DEF TlnListerNaechster
    <3>2. i \in DOMAIN tb /\ (Kopf(tb[i]) = l.ref \/ i = 1)
      <4>1. CASE hier = {}
        <5>1. tb # << >>
          <6>1. l.pos \in Nat BY <1>3 DEF Lister
          <6> QED BY <2>2, <6>1, MemLeer
        <5>2. 1 \in DOMAIN tb BY <1>2, <5>1, GutTeile
        <5> QED BY <4>1, <5>2
      <4>2. CASE hier # {}
        <5>1. i \in hier BY <4>2
        <5> QED BY <5>1 DEF AnStelle
      <4> QED BY <4>1, <4>2
    <3> HIDE DEF i
    <3> QED BY <1>1, <1>2, <3>1, <3>2, ListerWeiter
  <2> QED BY <2>1, <2>2
<1> QED BY <1>1, <1>4 DEF TbInv

LEMMA PruefsummeErhaelt ==
    ASSUME TbInv, PruefsummeSchritt
    PROVE  TbInv'
<1>1. UNCHANGED <<tb, tbLister, tbEeprom, tbSichern, tbZeit, tbAenderungen>> BY DEF PruefsummeSchritt
<1>2. Gut(tb) /\ PruefGut(tb, tbPruef) BY DEF TbInv
<1>3. PruefGut(tb, tbPruef')
  <2>1. CASE Len(tbPruef.ist) >= MemUsed(tb)
    <3>1. tbPruef' = [ist |-> << >>, soll |-> tbPruef.ist, istGut |-> TRUE, sollGut |-> tbPruef.istGut,
                      runden |-> IF tbPruef.runden < 2 THEN tbPruef.runden + 1 ELSE 2]
      BY <2>1 DEF PruefsummeSchritt
    <3> QED BY <1>2, <2>1, <3>1, PruefRunde
  <2>2. CASE ~(Len(tbPruef.ist) >= MemUsed(tb))
    <3>1. tbPruef' = [tbPruef EXCEPT !.ist = Append(@, Bytes(tb)[Len(@) + 1])] BY <2>2 DEF PruefsummeSchritt
    <3> QED BY <1>2, <2>2, <3>1, PruefWeiter
  <2> QED BY <2>1, <2>2
<1> QED BY <1>1, <1>3 DEF TbInv

LEMMA SichernErhaelt ==
    ASSUME TbInv, SichernBeginnen \/ SichernEintrag \/ SichernKopf \/ SichernFehler
    PROVE  TbInv'
<1>1. UNCHANGED <<tb, tbLister, tbPruef, tbZeit, tbAenderungen>>
  BY DEF SichernBeginnen, SichernEintrag, SichernKopf, SichernFehler
<1>2. Gut(tb) /\ EepromGut(tb, tbEeprom, tbSichern) BY DEF TbInv
<1>3. EepromGut(tb, tbEeprom', tbSichern')
  <2>1. CASE SichernBeginnen
    <3>1. tbSichern = << >> BY <2>1 DEF SichernBeginnen, Ruhig
    <3>2. EepromGut(tb, [tbEeprom EXCEPT !.kopf = -1, !.stelle = 0], Append(Ausgegeben(tb), "Kopf"))
      BY <1>2, <3>1, BeginntGut
    <3> QED BY <2>1, <3>2 DEF SichernBeginnen
  <2>2. CASE SichernEintrag
    <3> DEFINE k == [tbEeprom EXCEPT !.stelle = tbEeprom.stelle + 1,
                        !.daten = IF tbEeprom.stelle + 1 <= Len(@) THEN [@ EXCEPT ![tbEeprom.stelle + 1] = Head(tbSichern)]
                                  ELSE Append(@, Head(tbSichern))]
    <3>1. tbEeprom' = k /\ tbSichern' = Tail(tbSichern) /\ Len(tbSichern) > 1 BY <2>2 DEF SichernEintrag
    <3>2. EepromGut(tb, k, Tail(tbSichern)) BY <1>2, <3>1, GeschriebenGut
    <3> HIDE DEF k
    <3> QED BY <3>1, <3>2
  <2>3. CASE SichernKopf
    <3>1. EepromGut(tb, [tbEeprom EXCEPT !.kopf = tbEeprom.stelle, !.soll = Ausgegeben(tb)], << >>)
      BY <1>2, <2>3, FertigGut DEF SichernKopf
    <3> QED BY <2>3, <3>1 DEF SichernKopf
  <2>4. CASE SichernFehler BY <1>2, <2>4, EepromRuht DEF SichernFehler
  <2> QED BY <2>1, <2>2, <2>3, <2>4
<1> QED BY <1>1, <1>3 DEF TbInv

LEMMA NeubeginnErhaelt ==
    ASSUME TbInv, NEW kalt, NEW taste, Neubeginn(kalt, taste)
    PROVE  TbInv'
<1>1. /\ tbAenderungen > 0 /\ tbAenderungen' = tbAenderungen - 1 /\ tbSichern' = << >>
      /\ tbLister' = KeinLister /\ tbEeprom' = tbEeprom /\ tbZeit' = tbZeit
  BY DEF Neubeginn
<1>2. Gut(tb) /\ EepromGut(tb, tbEeprom, tbSichern) BY DEF TbInv
<1>3. Gut(tb')
  <2>1. tb' \in {<< >>} \/ tb' \in {tb} \/ tb' \in Geladen(<< >>) BY DEF Neubeginn
  <2>2. \A b \in Geladen(<< >>) : Gut(b) BY <1>2, LeerGut, GeladenGut
  <2> QED BY <1>2, <2>1, <2>2, LeerGut
<1>4. ListerGut(tb', tbLister')
  <2>1. KeinLister \in Lister BY Groessen DEF KeinLister, Lister, Koepfe
  <2> QED BY <1>1, <2>1 DEF ListerGut, KeinLister
<1>5. PruefGut(tb', tbPruef')
  <2>1. PICK ist : tbPruef' = [ist |-> ist, istGut |-> ~kalt /\ ~taste, soll |-> tbPruef.soll,
                               sollGut |-> tbPruef.sollGut /\ ~kalt, runden |-> 0]
    BY DEF Neubeginn
  <2> DEFINE q == tbPruef'
  <2>2. q.runden = 0 BY <2>1
  <2>3. q = [ist |-> q.ist, istGut |-> q.istGut, soll |-> q.soll, sollGut |-> q.sollGut, runden |-> q.runden]
    BY <2>1
  <2> HIDE DEF q
  <2>4. PruefGut(tb', q) BY <2>2, <2>3 DEF PruefGut
  <2> QED BY <2>4 DEF q
<1>6. EepromGut(tb', tbEeprom', tbSichern')
  <2>1. EepromGut(tb', tbEeprom, << >>) BY <1>2, EepromRuht
  <2> QED BY <1>1, <2>1
<1>7. tbAenderungen' \in 0 .. TbMaxAenderungen BY <1>1, ZaehlerErhaelt
<1>8. tbZeit' \in Datum BY <1>1 DEF TbInv
<1> QED BY <1>3, <1>4, <1>5, <1>6, <1>7, <1>8 DEF TbInv

(* every step keeps it, *)
THEOREM TbInvSchritt == TbInv /\ [TbNext]_tbVars => TbInv'
<1> SUFFICES ASSUME TbInv, [TbNext]_tbVars PROVE TbInv' OBVIOUS
<1>1. ASSUME NEW f \in TbFassung, NEW d \in Datum, NEW modus \in Modus, Speichern(f, d, modus) PROVE TbInv'
  BY <1>1, SpeichernErhaelt
<1>2. ASSUME NEW f \in TbFassung, NEW alt \in TbNummer, Umbenennen(alt, f) PROVE TbInv'
  BY <1>2, UmbenennenErhaelt
<1>3. CASE KomplettLoeschen BY <1>3, LeerGut, AenderungErhaelt DEF KomplettLoeschen
<1>4. ASSUME NEW krit \in {"Nummer", "Datum"}, NEW r \in BOOLEAN, Sortieren(krit, r) PROVE TbInv'
  BY <1>4, SortierenErhaelt
<1>5. CASE TlnListerStart BY <1>5, ListerStartErhaelt
<1>6. CASE TlnListerNaechster BY <1>6, NaechsterErhaelt
<1>7. CASE PruefsummeSchritt BY <1>7, PruefsummeErhaelt
<1>8. CASE SichernBeginnen \/ SichernEintrag \/ SichernKopf \/ SichernFehler BY <1>8, SichernErhaelt
<1>9. CASE Laden BY <1>9, LadenErhaelt
<1>10. ASSUME NEW kalt \in BOOLEAN, NEW taste \in BOOLEAN, Neubeginn(kalt, taste) PROVE TbInv'
  BY <1>10, NeubeginnErhaelt
<1>11. CASE Uhr
  <2>1. UNCHANGED <<tb, tbLister, tbPruef, tbEeprom, tbSichern, tbAenderungen>> BY <1>11 DEF Uhr
  <2>2. tbZeit' \in Datum BY <1>11, Groessen DEF Uhr, TbInv, Datum
  <2> QED BY <2>1, <2>2 DEF TbInv
<1>12. CASE UNCHANGED tbVars BY <1>12 DEF TbInv, tbVars
<1> QED BY <1>1, <1>2, <1>3, <1>4, <1>5, <1>6, <1>7, <1>8, <1>9, <1>10, <1>11, <1>12 DEF TbNext

(***************************************************************************)
(* The theorems.                                                           *)
(***************************************************************************)
(* and so it always holds. *)
THEOREM TbInvGilt == TbSpec => []TbInv
<1>1. TbInit => TbInv BY TbInvAnfang
<1>2. TbInv /\ [TbNext]_tbVars => TbInv' BY TbInvSchritt
<1> QED BY <1>1, <1>2, PTL DEF TbSpec

(* The memory of the directory, the lister, the sum and the EEPROM keep    *)
(* their kinds; no position and no head leaves the memory.                 *)
THEOREM TbTypKorrekt == TbSpec => []TbTyp
<1>1. TbInv => TbTyp
  <2> SUFFICES ASSUME TbInv PROVE TbTyp OBVIOUS
  <2>1. tb \in Seq(Eintrag) BY DEF TbInv, Gut
  <2>2. Eintrag \subseteq [nr : TbNummer, gr : Nat, lokal : BOOLEAN, geloescht : BOOLEAN, datum : Datum]
    BY DEF Eintrag
  <2>3. tb \in Seq([nr : TbNummer, gr : Nat, lokal : BOOLEAN, geloescht : BOOLEAN, datum : Datum])
    BY <2>1, <2>2, SeqMonotonic
  <2>4. tbLister \in Lister BY DEF TbInv, ListerGut
  <2>5. /\ tbLister.soll \subseteq TbNummer /\ tbLister.geliefert \subseteq TbNummer
        /\ tbLister.pos \in 0 .. TlnBuchMemMax
    BY <2>4 DEF Lister
  <2>6. tbPruef.runden \in 0 .. 2 BY DEF TbInv, PruefGut
  <2>7. tbEeprom.kopf \in -1 .. TlnBuchMemMax
    <3>1. EepromGut(tb, tbEeprom, tbSichern) BY DEF TbInv
    <3>2. EepromGut(tb, tbEeprom, << >>) BY <3>1, EepromRuht
    <3>3. tbEeprom.kopf \in Int /\ tbEeprom.kopf >= -1 BY <3>1, EepromTeile DEF EepromGut
    <3>4. tbEeprom.kopf >= 0 => tbEeprom.kopf <= TlnBuchMemMax BY <3>2 DEF EepromGut, Gesichert
    <3> QED BY <3>3, <3>4, Groessen
  <2>8. tbZeit \in 0 .. TbMaxZeit /\ tbAenderungen \in 0 .. TbMaxAenderungen BY DEF TbInv, Datum
  <2> QED BY <2>3, <2>5, <2>6, <2>7, <2>8 DEF TbTyp
<1> QED BY <1>1, TbInvGilt, PTL

(* Inserting, replacing, evicting, sorting and loading (293 to 414, 574 to *)
(* 622, 735 to 847) leave a directory that fits and has no number twice.   *)
THEOREM EindeutigUndPassendGilt == TbSpec => []EindeutigUndPassend
<1>1. TbInv => EindeutigUndPassend BY DEF TbInv, Gut, Eindeutig, EindeutigUndPassend
<1> QED BY <1>1, TbInvGilt, PTL

(* A lister that was not disturbed ends (421 to 456) when it has found     *)
(* every number that was there from its beginning to its end.              *)
THEOREM ListeVollstaendigGilt == TbSpec => []ListeVollstaendig
<1>1. TbInv => ListeVollstaendig BY DEF TbInv, ListerGut, ListeVollstaendig
<1> QED BY <1>1, TbInvGilt, PTL

(* Two rounds of the sum (641 to 693) after the last change the sum a      *)
(* reset compares with is one of the bytes that are there.                 *)
THEOREM SummeStimmtGilt == TbSpec => []SummeStimmt
<1>1. TbInv => SummeStimmt BY DEF TbInv, PruefGut, SummeStimmt, SollStimmt
<1> QED BY <1>1, TbInvGilt, PTL

(* Whatever fails while saving (853 to 1012): a head that is valid stands  *)
(* before all the entries of one state of the directory.                   *)
THEOREM SicherungGanzGilt == TbSpec => []SicherungGanz
<1>1. TbInv => SicherungGanz
  <2> SUFFICES ASSUME TbInv PROVE SicherungGanz OBVIOUS
  <2>1. EepromGut(tb, tbEeprom, tbSichern) BY DEF TbInv
  <2>2. EepromGut(tb, tbEeprom, << >>) BY <2>1, EepromRuht
  <2> QED BY <2>2 DEF EepromGut, Gesichert, SicherungGanz
<1> QED BY <1>1, TbInvGilt, PTL

(***************************************************************************)
(* Part 2.  The byte stream: the three indices of the FIFO agree; what the *)
(* application reads is the stream, each byte once and in order; and       *)
(* success is reported only for bytes that have arrived.  The first holds  *)
(* as it is, the others while packets are as between two stations: see     *)
(* Regelmaessig.                                                           *)
(***************************************************************************)

(***************************************************************************)
(* Types.                                                                  *)
(***************************************************************************)
Sender == [art : StAbsender, lauf : {"Ruhe", "Wartet", "Erneut", "Zu"}, seq : Nat, von : Nat,
           laenge : Nat, bis : Nat, zaehler : 0 .. MAX_TCP_RETRANSMISSIONS, sendet : BOOLEAN,
           bestaetigt : Nat, fenster : Nat]
Fifo == [puffer : [Platz -> Nat], readpointer : Platz, writepointer : Platz,
         byteinbuffer : 0 .. MAX_RECIVEBUFFER_LENGHT]
Empfaenger == [ack : Nat, unsort : Paket, gelesen : Seq(Nat)]
Antwort == [ack : Nat \cup {Verdreht}, fenster : Nat]

(* The packet under way ends where the sequence number is, and is one.     *)
PaketUnterwegs(s) ==
    /\ s.von + s.laenge <= s.bis /\ s.laenge <= MAX_TCP_Datalenght
    /\ s.lauf = "Wartet" => s.laenge <= s.seq /\ s.zaehler < MAX_TCP_RETRANSMISSIONS

Sendbar(s) == s \in Sender /\ PaketUnterwegs(s)

Typ ==
    /\ Sendbar(stSender) /\ stFifo \in Fifo /\ stEmpf \in Empfaenger
    /\ stHin \subseteq Paket /\ stHer \subseteq Antwort

LEMMA TypIstStTyp == Typ => StTyp
BY DEF Typ, Sendbar, Sender, Fifo, Empfaenger, Antwort, StTyp

LEMMA StromGroessen ==
    MAX_RECIVEBUFFER_LENGHT \in Nat \ {0} /\ MAX_TCP_Datalenght \in Nat \ {0} /\ MAX_TCP_RETRANSMISSIONS \in Nat \ {0}
BY StAnnahme

(* A pointer into the ring, n bytes further. *)
LEMMA WeiterTyp ==
    ASSUME NEW p \in Platz, NEW n \in 0 .. MAX_RECIVEBUFFER_LENGHT
    PROVE  Weiter(p, n) \in Platz
BY StromGroessen DEF Weiter, Platz

LEMMA WeiterSumme ==
    ASSUME NEW p \in Platz, NEW m \in Nat, NEW n \in Nat, m + n <= MAX_RECIVEBUFFER_LENGHT
    PROVE  Weiter(Weiter(p, m), n) = Weiter(p, m + n)
BY StromGroessen DEF Weiter, Platz

Ring(f) == f.writepointer = Weiter(f.readpointer, f.byteinbuffer)

LEMMA PutTyp ==
    ASSUME NEW f \in Fifo, NEW von \in Nat, NEW n \in Nat
    PROVE  /\ Put_Block_in_FIFO(f, von, n) \in Fifo
           /\ Ring(f) => Ring(Put_Block_in_FIFO(f, von, n))
<1> DEFINE g == Put_Block_in_FIFO(f, von, n)
<1>1. CASE MAX_RECIVEBUFFER_LENGHT - f.byteinbuffer < n
  BY <1>1 DEF Put_Block_in_FIFO
<1>2. CASE ~(MAX_RECIVEBUFFER_LENGHT - f.byteinbuffer < n)
  <2>1. n \in 0 .. MAX_RECIVEBUFFER_LENGHT /\ f.byteinbuffer + n \in 0 .. MAX_RECIVEBUFFER_LENGHT
    BY <1>2, StromGroessen DEF Fifo
  <2>2. /\ g.puffer = [k \in Platz |-> IF Abstand(k, f.writepointer) < n
                                       THEN von + Abstand(k, f.writepointer) ELSE f.puffer[k]]
        /\ g.readpointer = f.readpointer /\ g.writepointer = Weiter(f.writepointer, n)
        /\ g.byteinbuffer = f.byteinbuffer + n
    BY <1>2 DEF Put_Block_in_FIFO
  <2>3. g = [puffer |-> g.puffer, readpointer |-> g.readpointer, writepointer |-> g.writepointer,
             byteinbuffer |-> g.byteinbuffer]
    BY <1>2 DEF Put_Block_in_FIFO
  <2>4. \A k \in Platz : Abstand(k, f.writepointer) \in Nat
    BY StromGroessen DEF Abstand, Platz, Fifo
  <2>5. g.puffer \in [Platz -> Nat]
    BY <2>2, <2>4 DEF Fifo
  <2>6. g.writepointer \in Platz
    BY <2>1, <2>2, WeiterTyp DEF Fifo
  <2>7. g \in Fifo
    <3> HIDE DEF g
    <3> QED BY <2>1, <2>2, <2>3, <2>5, <2>6 DEF Fifo
  <2>8. Ring(f) => Ring(g)
    <3>1. f.readpointer \in Platz /\ f.byteinbuffer \in Nat /\ f.byteinbuffer + n <= MAX_RECIVEBUFFER_LENGHT
      BY <2>1, StromGroessen DEF Fifo
    <3>2. Weiter(Weiter(f.readpointer, f.byteinbuffer), n) = Weiter(f.readpointer, f.byteinbuffer + n)
      BY <3>1, WeiterSumme
    <3> HIDE DEF g
    <3> QED BY <2>2, <3>2 DEF Ring
  <2> QED BY <2>7, <2>8
<1> QED BY <1>1, <1>2

LEMMA GetTyp ==
    ASSUME NEW f \in Fifo, NEW n \in 0 .. f.byteinbuffer
    PROVE  /\ Get_Block_from_FIFO(f, n) \in Fifo
           /\ Ring(f) => Ring(Get_Block_from_FIFO(f, n))
           /\ Inhalt(f, n) \in Seq(Nat) /\ Len(Inhalt(f, n)) = n
<1>1. n \in 0 .. MAX_RECIVEBUFFER_LENGHT /\ n \in Nat /\ f.byteinbuffer - n \in 0 .. MAX_RECIVEBUFFER_LENGHT
  BY StromGroessen DEF Fifo
<1>2. Weiter(f.readpointer, n) \in Platz
  BY <1>1, WeiterTyp DEF Fifo
<1>3. Get_Block_from_FIFO(f, n) \in Fifo
  BY <1>1, <1>2 DEF Get_Block_from_FIFO, Fifo
<1>4. Ring(f) => f.writepointer = Weiter(Weiter(f.readpointer, n), f.byteinbuffer - n)
  <2>1. f.readpointer \in Platz /\ f.byteinbuffer - n \in Nat /\ n + (f.byteinbuffer - n) = f.byteinbuffer
        /\ f.byteinbuffer <= MAX_RECIVEBUFFER_LENGHT
    BY <1>1, StromGroessen DEF Fifo
  <2>2. Weiter(Weiter(f.readpointer, n), f.byteinbuffer - n) = Weiter(f.readpointer, n + (f.byteinbuffer - n))
    BY <1>1, <2>1, WeiterSumme
  <2> QED BY <2>1, <2>2 DEF Ring
<1>5. /\ Get_Block_from_FIFO(f, n).writepointer = f.writepointer
      /\ Get_Block_from_FIFO(f, n).readpointer = Weiter(f.readpointer, n)
      /\ Get_Block_from_FIFO(f, n).byteinbuffer = f.byteinbuffer - n
  BY DEF Get_Block_from_FIFO, Fifo
<1>6. \A i \in 1 .. n : f.puffer[Weiter(f.readpointer, i - 1)] \in Nat
  <2> SUFFICES ASSUME NEW i \in 1 .. n PROVE f.puffer[Weiter(f.readpointer, i - 1)] \in Nat
    OBVIOUS
  <2>1. i - 1 \in 0 .. MAX_RECIVEBUFFER_LENGHT BY <1>1, StromGroessen
  <2>2. Weiter(f.readpointer, i - 1) \in Platz BY <2>1, WeiterTyp DEF Fifo
  <2> QED BY <2>2 DEF Fifo
<1>7. Inhalt(f, n) \in [1 .. n -> Nat]
  BY <1>6 DEF Inhalt
<1>8. Inhalt(f, n) \in Seq(Nat) /\ Len(Inhalt(f, n)) = n
  BY <1>1, <1>7
<1> QED BY <1>3, <1>4, <1>5, <1>8 DEF Ring

LEMMA SendDataTyp ==
    ASSUME Typ, NEW s \in Sender, NEW von \in Nat, NEW z \in 0 .. MAX_TCP_RETRANSMISSIONS - 1,
           von <= s.bis, SendData(s, von, z)
    PROVE  Typ'
<1> DEFINE n == IF s.bis - von < MAX_TCP_Datalenght THEN s.bis - von ELSE MAX_TCP_Datalenght
<1>1. s.bis \in Nat /\ s.seq \in Nat BY DEF Sender
<1>2. n \in Nat /\ von + n <= s.bis /\ n <= MAX_TCP_Datalenght
  BY <1>1, StromGroessen
<1>3. /\ stHin' = stHin \cup {[seq |-> s.seq, von |-> von, laenge |-> n]}
      /\ stSender' = [s EXCEPT !.lauf = "Wartet", !.von = von, !.laenge = n, !.zaehler = z,
                               !.seq = @ + n, !.sendet = TRUE]
      /\ UNCHANGED <<stFifo, stEmpf, stHer>>
  BY DEF SendData
<1> HIDE DEF n
<1>4. z \in 0 .. MAX_TCP_RETRANSMISSIONS /\ z < MAX_TCP_RETRANSMISSIONS BY StromGroessen
<1>5. stSender' \in Sender
  <2>1. s.seq + n \in Nat BY <1>1, <1>2
  <2>2. stSender' = [s EXCEPT !.lauf = "Wartet", !.von = von, !.laenge = n, !.zaehler = z,
                              !.seq = s.seq + n, !.sendet = TRUE]
    BY <1>3 DEF Sender
  <2> DEFINE r == s.seq + n
  <2> HIDE DEF r
  <2>3. stSender' = [s EXCEPT !.lauf = "Wartet", !.von = von, !.laenge = n, !.zaehler = z,
                              !.seq = r, !.sendet = TRUE] /\ r \in Nat
    BY <2>1, <2>2 DEF r
  <2> QED BY <1>2, <1>4, <2>3 DEF Sender
<1>6. /\ stSender'.von = von /\ stSender'.laenge = n /\ stSender'.bis = s.bis /\ stSender'.seq = s.seq + n
      /\ stSender'.zaehler = z
  BY <1>3 DEF Sender
<1>7. PaketUnterwegs(stSender') BY <1>1, <1>2, <1>4, <1>6 DEF PaketUnterwegs
<1>8. stHin' \subseteq Paket BY <1>1, <1>2, <1>3 DEF Typ, Paket
<1> QED BY <1>3, <1>5, <1>7, <1>8 DEF Typ, Sendbar

LEMMA InFolgeTyp ==
    ASSUME Typ, NEW p \in stHin, InFolge(p), UNCHANGED <<stSender, stHin>>
    PROVE  Typ' /\ (Ring(stFifo) => Ring(stFifo'))
<1> DEFINE f == Put_Block_in_FIFO(stFifo, p.von, p.laenge)
           u == stEmpf.unsort
           passt == u.laenge # 0 /\ u.seq = p.seq + p.laenge
           g == IF passt THEN Put_Block_in_FIFO(f, u.von, u.laenge) ELSE f
           ack == IF passt THEN u.seq + p.laenge ELSE p.seq + p.laenge
<1>1. /\ stFifo' = g /\ stEmpf' = [stEmpf EXCEPT !.ack = ack, !.unsort = KeinPaket]
      /\ stHer' = stHer \cup {Bestaetigung(p.seq + p.laenge, f), Bestaetigung(ack, g)}
  BY DEF InFolge
<1>2. p \in Paket /\ u \in Paket BY DEF Typ, Empfaenger
<1>3. p.von \in Nat /\ p.laenge \in Nat /\ p.seq \in Nat /\ u.von \in Nat /\ u.laenge \in Nat /\ u.seq \in Nat
  BY <1>2 DEF Paket
<1>4. f \in Fifo /\ (Ring(stFifo) => Ring(f)) BY <1>3, PutTyp DEF Typ
<1> HIDE DEF f, u
<1>5. g \in Fifo /\ (Ring(stFifo) => Ring(g)) BY <1>3, <1>4, PutTyp
<1>6. ack \in Nat BY <1>3
<1> HIDE DEF g, ack
<1>7. stEmpf' \in Empfaenger
  <2>1. KeinPaket \in Paket BY DEF KeinPaket, Paket
  <2> QED BY <1>1, <1>6, <2>1 DEF Typ, Empfaenger
<1>8. Bestaetigung(p.seq + p.laenge, f) \in Antwort /\ Bestaetigung(ack, g) \in Antwort
  BY <1>3, <1>4, <1>5, <1>6, StromGroessen DEF Bestaetigung, Antwort, Fifo
<1> QED BY <1>1, <1>5, <1>7, <1>8 DEF Typ

(* Every step keeps the types and the ring. *)
LEMMA TypSchritt ==
    ASSUME Typ, Ring(stFifo), [StNext]_stVars
    PROVE  Typ' /\ Ring(stFifo)'
<1>1. CASE PaketKommt
  <2>1. PICK p \in stHin : /\ p.laenge <= Restsize
                           /\ InFolge(p) \/ Alt(p) \/ Verfrueht(p)
                           /\ UNCHANGED <<stSender, stHin>>
    BY <1>1 DEF PaketKommt
  <2>2. CASE InFolge(p) BY <2>1, <2>2, InFolgeTyp
  <2>3. CASE Alt(p)
    <3>1. Bestaetigung(Verdreht, stFifo) \in Antwort
      BY StromGroessen DEF Bestaetigung, Antwort, Typ, Fifo
    <3> QED BY <2>1, <2>3, <3>1 DEF Alt, Typ
  <2>4. CASE Verfrueht(p)
    <3>1. stEmpf' \in Empfaenger BY <2>1, <2>4 DEF Verfrueht, Typ, Empfaenger
    <3> QED BY <2>1, <2>4, <3>1 DEF Verfrueht, Typ
  <2> QED BY <2>1, <2>2, <2>3, <2>4
<1>2. CASE AndereVerbindung
  <2>1. KeinPaket \in Paket BY DEF KeinPaket, Paket
  <2>2. stEmpf' = [ack |-> stEmpf.ack, unsort |-> KeinPaket, gelesen |-> stEmpf.gelesen]
    BY <1>2 DEF AndereVerbindung, Typ, Empfaenger
  <2>3. stEmpf.ack \in Nat /\ stEmpf.gelesen \in Seq(Nat) BY DEF Typ, Empfaenger
  <2>5. stEmpf' \in Empfaenger BY <2>1, <2>2, <2>3 DEF Empfaenger
  <2> QED BY <1>2, <2>5, <2>2 DEF AndereVerbindung, Typ
<1>3. ASSUME NEW b \in StLesen, GetSocketData(b) PROVE Typ' /\ Ring(stFifo)'
  <2> DEFINE n == IF stFifo.byteinbuffer > b THEN b ELSE stFifo.byteinbuffer
             f == Get_Block_from_FIFO(stFifo, n)
  <2>1. stFifo \in Fifo /\ stFifo.byteinbuffer \in Nat /\ b \in Nat BY StAnnahme DEF Typ, Fifo
  <2>2. n \in 0 .. stFifo.byteinbuffer BY <2>1
  <2>3. /\ stFifo' = f /\ stEmpf' = [stEmpf EXCEPT !.gelesen = @ \o Inhalt(stFifo, n)]
        /\ stHer' \subseteq stHer \cup {Bestaetigung(stEmpf.ack, f)}
        /\ UNCHANGED <<stSender, stHin>>
    BY <1>3 DEF GetSocketData
  <2> HIDE DEF n
  <2>4. f \in Fifo /\ Ring(f) /\ Inhalt(stFifo, n) \in Seq(Nat) BY <2>1, <2>2, GetTyp
  <2> HIDE DEF f
  <2> DEFINE t == stEmpf.gelesen \o Inhalt(stFifo, n)
  <2>a. stEmpf.gelesen \in Seq(Nat) BY DEF Typ, Empfaenger
  <2>b. t \in Seq(Nat) BY <2>4, <2>a
  <2>c. stEmpf' = [ack |-> stEmpf.ack, unsort |-> stEmpf.unsort, gelesen |-> t]
    BY <2>3 DEF Typ, Empfaenger
  <2> HIDE DEF t
  <2>5. stEmpf' \in Empfaenger BY <2>b, <2>c DEF Typ, Empfaenger
  <2>6. Bestaetigung(stEmpf.ack, f) \in Antwort
    BY <2>4, StromGroessen DEF Bestaetigung, Antwort, Typ, Fifo, Empfaenger
  <2> QED BY <2>3, <2>4, <2>5, <2>6 DEF Typ
<1>4. CASE Lebenszeichen
  <2>1. Bestaetigung(stEmpf.ack, stFifo) \in Antwort
    BY StromGroessen DEF Bestaetigung, Antwort, Typ, Fifo, Empfaenger
  <2> QED BY <1>4, <2>1 DEF Lebenszeichen, Typ
<1>5. ASSUME NEW n \in StTelegramme, PutSocketData(n) PROVE Typ' /\ Ring(stFifo)'
  <2>1. n \in Nat /\ stSender.bis \in Nat /\ stSender.seq \in Nat BY StAnnahme DEF Typ, Sendbar, Sender
  <2> DEFINE s == [stSender EXCEPT !.bis = @ + n]
  <2>2. s \in Sender /\ s.bis = stSender.bis + n BY <2>1 DEF Typ, Sendbar, Sender
  <2>3. SendData(s, stSender.bis, 0) BY <1>5 DEF PutSocketData
  <2>4. 0 \in 0 .. MAX_TCP_RETRANSMISSIONS - 1 BY StromGroessen
  <2>5. stFifo' = stFifo BY <2>3 DEF SendData
  <2> HIDE DEF s
  <2> QED BY <2>1, <2>2, <2>3, <2>4, <2>5, SendDataTyp
<1>6. CASE ZeitUm
  <2>1. stSender' = [stSender EXCEPT !.lauf = "Erneut", !.zaehler = @ + 1, !.seq = @ - stSender.laenge]
        /\ stSender.lauf = "Wartet" /\ UNCHANGED <<stFifo, stEmpf, stHin, stHer>>
    BY <1>6 DEF ZeitUm
  <2>2. stSender.laenge <= stSender.seq /\ stSender.zaehler < MAX_TCP_RETRANSMISSIONS
    BY <2>1 DEF Typ, Sendbar, PaketUnterwegs
  <2>3. stSender.seq - stSender.laenge \in Nat /\ stSender.zaehler + 1 \in 0 .. MAX_TCP_RETRANSMISSIONS
    BY <2>2, StromGroessen DEF Typ, Sendbar, Sender
  <2>4. stSender' \in Sender BY <2>1, <2>3 DEF Typ, Sendbar, Sender
  <2>5. stSender'.von = stSender.von /\ stSender'.laenge = stSender.laenge /\ stSender'.bis = stSender.bis
        /\ stSender'.lauf = "Erneut"
    BY <2>1 DEF Typ, Sendbar, Sender
  <2> QED BY <2>1, <2>4, <2>5 DEF Typ, Sendbar, PaketUnterwegs
<1>7. CASE Wiederholen
  <2>1. SendData(stSender, stSender.von, stSender.zaehler) BY <1>7 DEF Wiederholen
  <2>2. stSender.von <= stSender.bis /\ stSender.von \in Nat /\ stSender.zaehler \in 0 .. MAX_TCP_RETRANSMISSIONS - 1
    BY <1>7, StromGroessen DEF Wiederholen, Typ, Sendbar, Sender, PaketUnterwegs
  <2>3. stSender \in Sender /\ stFifo' = stFifo BY <2>1 DEF Typ, Sendbar, SendData
  <2> QED BY <2>1, <2>2, <2>3, SendDataTyp
<1>8. CASE Aufgeben \/ Fertig
  <2>1. CASE SendData(stSender, stSender.von + stSender.laenge, 0)
    <3>1. stSender.von + stSender.laenge \in Nat /\ stSender.von + stSender.laenge <= stSender.bis
      BY DEF Typ, Sendbar, Sender, PaketUnterwegs
    <3>2. 0 \in 0 .. MAX_TCP_RETRANSMISSIONS - 1 BY StromGroessen
    <3>3. stSender \in Sender /\ stFifo' = stFifo BY <2>1 DEF Typ, Sendbar, SendData
    <3> QED BY <2>1, <3>1, <3>2, <3>3, SendDataTyp
  <2>2. CASE \/ stSender' = [stSender EXCEPT !.lauf = "Zu"] /\ UNCHANGED <<stFifo, stEmpf, stHin, stHer>>
            \/ /\ stSender' = [stSender EXCEPT !.lauf = "Ruhe", !.bestaetigt = stSender.bis]
               /\ UNCHANGED <<stFifo, stEmpf, stHin, stHer>>
    <3>1. stSender' \in Sender /\ stSender'.lauf # "Wartet" BY <2>2 DEF Typ, Sendbar, Sender
    <3>2. stSender'.von = stSender.von /\ stSender'.laenge = stSender.laenge /\ stSender'.bis = stSender.bis
      BY <2>2 DEF Typ, Sendbar, Sender
    <3> QED BY <2>2, <3>1, <3>2 DEF Typ, Sendbar, PaketUnterwegs
  <2> QED BY <1>8, <2>1, <2>2 DEF Aufgeben, Fertig
<1>9. CASE AckKommt
  <2>1. stSender' = [stSender EXCEPT !.sendet = FALSE] /\ UNCHANGED <<stFifo, stEmpf, stHin, stHer>>
    BY <1>9 DEF AckKommt
  <2> QED BY <2>1 DEF Typ, Sendbar, Sender, PaketUnterwegs
<1>10. ASSUME NEW n \in StSegmente, PartnerSendet(n) \/ PartnerWiederholt(n) PROVE Typ' /\ Ring(stFifo)'
  <2>1. n \in Nat /\ stSender.seq \in Nat /\ stSender.bestaetigt \in Nat BY StAnnahme DEF Typ, Sendbar, Sender
  <2>2. CASE PartnerSendet(n)
    <3>1. stHin' \subseteq Paket BY <2>1, <2>2 DEF PartnerSendet, Typ, Paket
    <3>2. Sendbar(stSender') BY <2>1, <2>2 DEF PartnerSendet, Typ, Sendbar, Sender, PaketUnterwegs
    <3> QED BY <2>2, <3>1, <3>2 DEF PartnerSendet, Typ
  <2>3. CASE PartnerWiederholt(n)
    <3>1. stHin' \subseteq Paket BY <2>1, <2>3 DEF PartnerWiederholt, Typ, Paket
    <3> QED BY <2>3, <3>1 DEF PartnerWiederholt, Typ
  <2> QED BY <1>10, <2>2, <2>3
<1>11. CASE PartnerAck
  <2>1. PICK q \in stHer : /\ q.ack >= stSender.bestaetigt
                           /\ stSender' = [stSender EXCEPT !.bestaetigt = q.ack, !.fenster = q.fenster]
                           /\ UNCHANGED <<stFifo, stEmpf, stHin, stHer>>
    BY <1>11 DEF PartnerAck
  <2>2. q.ack \in Nat /\ q.fenster \in Nat BY <2>1 DEF Typ, Antwort, Verdreht, Sendbar, Sender
  <2> QED BY <2>1, <2>2 DEF Typ, Sendbar, Sender, PaketUnterwegs
<1>12. CASE UNCHANGED stVars BY <1>12 DEF stVars, Typ
<1> QED BY <1>1, <1>2, <1>3, <1>4, <1>5, <1>6, <1>7, <1>8, <1>9, <1>10, <1>11, <1>12 DEF StNext

LEMMA TypAnfang == StInit => Typ /\ Ring(stFifo)
<1> SUFFICES ASSUME StInit PROVE Typ /\ Ring(stFifo)
  OBVIOUS
<1>1. Sendbar(stSender)
  <2>a. 0 \in 0 .. MAX_TCP_RETRANSMISSIONS /\ MAX_RECIVEBUFFER_LENGHT \in Nat BY StromGroessen
  <2>b. PICK a \in StAbsender :
          stSender = [art |-> a, lauf |-> "Ruhe", seq |-> 0, von |-> 0, laenge |-> 0, bis |-> 0, zaehler |-> 0,
                      sendet |-> FALSE, bestaetigt |-> 0, fenster |-> MAX_RECIVEBUFFER_LENGHT]
    BY DEF StInit
  <2>1. stSender \in Sender BY <2>a, <2>b DEF Sender
  <2>2. stSender.von = 0 /\ stSender.laenge = 0 /\ stSender.bis = 0 /\ stSender.lauf = "Ruhe" BY DEF StInit
  <2> QED BY <2>1, <2>2, StromGroessen DEF Sendbar, PaketUnterwegs
<1>2. stFifo \in Fifo /\ Ring(stFifo) BY StromGroessen DEF StInit, Fifo, Platz, Ring, Weiter
<1>3. stEmpf \in Empfaenger
  <2>1. << >> \in Seq(Nat) OBVIOUS
  <2> QED BY <2>1 DEF StInit, Empfaenger, KeinPaket, Paket
<1> QED BY <1>1, <1>2, <1>3 DEF StInit, Typ

(* Every variable of the connection keeps its range: the pointers of the   *)
(* FIFO stay inside its buffer (fifo.c, 136 to 185 and 304 to 384), no     *)
(* sequence number gets negative by the repetitions (tcp.c, 1003), and a   *)
(* packet is sent no more than MAX_TCP_RETRANSMISSIONS times.              *)
THEOREM StTypKorrekt == StSpec => []StTyp
<1>1. Typ /\ Ring(stFifo) /\ [StNext]_stVars => Typ' /\ Ring(stFifo)' BY TypSchritt
<1> QED BY TypAnfang, TypIstStTyp, <1>1, PTL DEF StSpec

(* The write pointer of a FIFO is always byteinbuffer places ahead of its  *)
(* read pointer (fifo.c, 149 to 171 and 317 to 338), for any size of the   *)
(* buffer, of the packets and of the reader's buffer.                      *)
THEOREM RingPasstGilt == StSpec => []RingPasst
<1>1. Typ /\ Ring(stFifo) /\ [StNext]_stVars => Typ' /\ Ring(stFifo)' BY TypSchritt
<1>2. Ring(stFifo) => RingPasst BY DEF Ring, RingPasst
<1> QED BY TypAnfang, <1>1, <1>2, PTL DEF StSpec

(***************************************************************************)
(* The stream.  Two defects of tcp.c are outside: a packet put aside is    *)
(* confirmed with the length of the packet before it (tcp.c, 271), which   *)
(* is the same number only if all packets are of one size; and of a call   *)
(* of PutSocketData with more than a packet still to come, the packet that *)
(* was sent in vain is left out (989).                                     *)
(***************************************************************************)
Regelmaessig ==
    /\ \A m, n \in StSegmente : m = n
    /\ \A n \in StTelegramme : n < 2 * MAX_TCP_Datalenght

(* How many bytes have arrived, and how many can have at most. *)
Da == Len(stEmpf.gelesen) + stFifo.byteinbuffer
Rand == Len(stEmpf.gelesen) + MAX_RECIVEBUFFER_LENGHT

(* What was read and what is in the FIFO is the beginning of the stream. *)
AlsStrom(g, f) ==
    /\ \A i \in 1 .. Len(g) : g[i] = i - 1
    /\ \A i \in 0 .. f.byteinbuffer - 1 : f.puffer[Weiter(f.readpointer, i)] = Len(g) + i

(* The receiver, and what is on the way. *)
Strom ==
    /\ Ring(stFifo) /\ stEmpf.ack = Da /\ AlsStrom(stEmpf.gelesen, stFifo)
    /\ \A p \in stHin : p.von = p.seq
    /\ \A q \in stHer : q.ack <= Da /\ q.ack + q.fenster <= Rand
    /\ stSender.bestaetigt <= Da

(* A station as sender: one packet on the way, and none is early. *)
Station ==
    /\ stEmpf.unsort = KeinPaket
    /\ \A p \in stHin : p.seq <= Da
    /\ stSender.von <= Da /\ stSender.bis < stSender.von + 2 * MAX_TCP_Datalenght
    /\ stSender.lauf = "Ruhe" => stSender.seq = stSender.bis /\ stSender.seq <= Da
    /\ stSender.lauf = "Wartet" => /\ stSender.seq = stSender.von + stSender.laenge
                                   /\ ~stSender.sendet => stSender.seq <= Da
    /\ stSender.lauf = "Erneut" => stSender.seq = stSender.von

(* Another partner: what it has sent fits into the window. *)
Fremder ==
    /\ stSender.lauf = "Ruhe"
    /\ stEmpf.unsort = KeinPaket \/ stEmpf.unsort \in stHin
    /\ \A p \in stHin : p.laenge \in StSegmente /\ p.seq + p.laenge <= stSender.seq
    /\ stSender.seq <= Rand /\ stSender.bestaetigt + stSender.fenster <= Rand

StromInv ==
    /\ Typ /\ Strom
    /\ stSender.art = "tcp" => Station
    /\ stSender.art = "fremd" => Fremder

(* Places before and behind a pointer, seen from it. *)
LEMMA AbstandVor ==
    ASSUME NEW p \in Platz, NEW i \in Nat, NEW m \in Nat, i < m, m <= MAX_RECIVEBUFFER_LENGHT
    PROVE  Abstand(Weiter(p, i), Weiter(p, m)) = MAX_RECIVEBUFFER_LENGHT - (m - i)
BY StromGroessen DEF Abstand, Weiter, Platz

LEMMA AbstandNach ==
    ASSUME NEW p \in Platz, NEW i \in Nat, NEW m \in Nat, m <= i, i < MAX_RECIVEBUFFER_LENGHT
    PROVE  Abstand(Weiter(p, i), Weiter(p, m)) = i - m
BY StromGroessen DEF Abstand, Weiter, Platz

(* AlsStrom that come next and fit are stored behind the others. *)
LEMMA PutStrom ==
    ASSUME NEW f \in Fifo, Ring(f), NEW g \in Seq(Nat), AlsStrom(g, f), NEW von \in Nat, NEW n \in Nat,
           von = Len(g) + f.byteinbuffer, n <= MAX_RECIVEBUFFER_LENGHT - f.byteinbuffer
    PROVE  /\ AlsStrom(g, Put_Block_in_FIFO(f, von, n))
           /\ Put_Block_in_FIFO(f, von, n).byteinbuffer = f.byteinbuffer + n
<1> DEFINE h == Put_Block_in_FIFO(f, von, n)
<1>1. /\ f.readpointer \in Platz /\ f.byteinbuffer \in Nat /\ f.byteinbuffer <= MAX_RECIVEBUFFER_LENGHT
      /\ Len(g) \in Nat
  BY StromGroessen DEF Fifo
<1>2. ~(MAX_RECIVEBUFFER_LENGHT - f.byteinbuffer < n) BY <1>1, StromGroessen
<1>3. /\ h.puffer = [k \in Platz |-> IF Abstand(k, f.writepointer) < n
                                     THEN von + Abstand(k, f.writepointer) ELSE f.puffer[k]]
      /\ h.readpointer = f.readpointer /\ h.byteinbuffer = f.byteinbuffer + n
  BY <1>2 DEF Put_Block_in_FIFO
<1>4. f.writepointer = Weiter(f.readpointer, f.byteinbuffer) BY DEF Ring
<1> HIDE DEF h
<1>5. ASSUME NEW i \in 0 .. h.byteinbuffer - 1 PROVE h.puffer[Weiter(h.readpointer, i)] = Len(g) + i
  <2>1. i \in Nat /\ i < f.byteinbuffer + n /\ i < MAX_RECIVEBUFFER_LENGHT /\ i \in 0 .. MAX_RECIVEBUFFER_LENGHT
    BY <1>1, <1>3, StromGroessen
  <2> DEFINE k == Weiter(f.readpointer, i)
             d == Abstand(k, f.writepointer)
  <2>2. k \in Platz BY <1>1, <2>1, WeiterTyp
  <2>3. h.puffer[k] = IF d < n THEN von + d ELSE f.puffer[k] BY <1>3, <2>2
  <2>4. CASE i < f.byteinbuffer
    <3>1. d = MAX_RECIVEBUFFER_LENGHT - (f.byteinbuffer - i) BY <1>1, <1>4, <2>1, <2>4, AbstandVor
    <3>2. ~(d < n) BY <1>1, <2>1, <2>4, <3>1, StromGroessen
    <3>3. f.puffer[k] = Len(g) + i BY <1>1, <2>1, <2>4 DEF AlsStrom
    <3> QED BY <1>3, <2>3, <3>2, <3>3
  <2>5. CASE ~(i < f.byteinbuffer)
    <3>1. d = i - f.byteinbuffer BY <1>1, <1>4, <2>1, <2>5, AbstandNach
    <3>2. d < n /\ von + d = Len(g) + i BY <1>1, <2>1, <2>5, <3>1
    <3> QED BY <1>3, <2>3, <3>2
  <2> QED BY <2>4, <2>5
<1> QED BY <1>3, <1>5 DEF AlsStrom, h

(* What is read goes on where the reader had come to. *)
LEMMA GetStrom ==
    ASSUME NEW f \in Fifo, NEW g \in Seq(Nat), AlsStrom(g, f), NEW n \in 0 .. f.byteinbuffer
    PROVE  /\ AlsStrom(g \o Inhalt(f, n), Get_Block_from_FIFO(f, n))
           /\ Len(g \o Inhalt(f, n)) = Len(g) + n
           /\ Get_Block_from_FIFO(f, n).byteinbuffer = f.byteinbuffer - n
<1> DEFINE h == Get_Block_from_FIFO(f, n)
           t == Inhalt(f, n)
<1>1. /\ f.readpointer \in Platz /\ f.byteinbuffer \in Nat /\ f.byteinbuffer <= MAX_RECIVEBUFFER_LENGHT
      /\ Len(g) \in Nat /\ n \in Nat /\ n <= f.byteinbuffer
  BY StromGroessen DEF Fifo
<1>2. h.puffer = f.puffer /\ h.readpointer = Weiter(f.readpointer, n) /\ h.byteinbuffer = f.byteinbuffer - n
  BY DEF Get_Block_from_FIFO, Fifo
<1>3. t \in Seq(Nat) /\ Len(t) = n BY GetTyp
<1>4. ASSUME NEW i \in 1 .. n PROVE t[i] = Len(g) + i - 1
  <2>1. i - 1 \in 0 .. f.byteinbuffer - 1 BY <1>1
  <2>2. t[i] = f.puffer[Weiter(f.readpointer, i - 1)] BY DEF Inhalt
  <2>3. f.puffer[Weiter(f.readpointer, i - 1)] = Len(g) + (i - 1) BY <2>1 DEF AlsStrom
  <2> QED BY <1>1, <2>2, <2>3
<1> HIDE DEF h, t
<1>5. Len(g \o t) = Len(g) + n /\ g \o t \in Seq(Nat) BY SMTT(60), <1>3
<1>6. ASSUME NEW i \in 1 .. Len(g \o t) PROVE (g \o t)[i] = i - 1
  <2>1. CASE i <= Len(g)
    <3>1. (g \o t)[i] = g[i] BY <1>1, <1>3, <1>5, <2>1
    <3> QED BY <1>1, <2>1, <3>1 DEF AlsStrom
  <2>2. CASE i > Len(g)
    <3>1. i - Len(g) \in 1 .. n BY <1>1, <1>5, <2>2
    <3>2. (g \o t)[i] = t[i - Len(g)] BY <1>1, <1>3, <1>5, <2>2
    <3> QED BY <1>1, <1>4, <3>1, <3>2
  <2> QED BY <1>1, <1>5, <2>1, <2>2
<1>7. ASSUME NEW i \in 0 .. h.byteinbuffer - 1 PROVE h.puffer[Weiter(h.readpointer, i)] = Len(g \o t) + i
  <2>0. i \in 0 .. (f.byteinbuffer - n) - 1 BY <1>2
  <2>1. i \in Nat /\ n + i \in 0 .. f.byteinbuffer - 1 /\ n + i <= MAX_RECIVEBUFFER_LENGHT
    BY <1>1, <2>0, StromGroessen
  <2>a. Weiter(Weiter(f.readpointer, n), i) = Weiter(f.readpointer, n + i) BY <1>1, <2>1, WeiterSumme
  <2>2. Weiter(h.readpointer, i) = Weiter(f.readpointer, n + i) BY <1>2, <2>a
  <2>3. f.puffer[Weiter(f.readpointer, n + i)] = Len(g) + (n + i) BY <2>1 DEF AlsStrom
  <2> QED BY <1>1, <1>2, <1>5, <2>1, <2>2, <2>3
<1> QED BY <1>2, <1>5, <1>6, <1>7 DEF AlsStrom, h, t

(* The numbers the next proofs reckon with. *)
LEMMA Zahlen ==
    ASSUME Typ
    PROVE  /\ Da \in Nat /\ Rand \in Nat /\ Da <= Rand /\ stEmpf.ack \in Nat /\ stEmpf.gelesen \in Seq(Nat)
           /\ Rand = Da + Restsize /\ Restsize \in Nat
           /\ stFifo.byteinbuffer \in Nat /\ Len(stEmpf.gelesen) \in Nat
           /\ stSender.seq \in Nat /\ stSender.von \in Nat /\ stSender.laenge \in Nat /\ stSender.bis \in Nat
           /\ stSender.bestaetigt \in Nat /\ stSender.fenster \in Nat
           /\ \A p \in stHin : p.seq \in Nat /\ p.von \in Nat /\ p.laenge \in Nat
<1>1. stEmpf.gelesen \in Seq(Nat) /\ stEmpf.ack \in Nat BY DEF Typ, Empfaenger
<1>2. Len(stEmpf.gelesen) \in Nat BY <1>1
<1>3. stFifo.byteinbuffer \in Nat /\ stFifo.byteinbuffer <= MAX_RECIVEBUFFER_LENGHT BY StromGroessen DEF Typ, Fifo
<1>4. \A p \in stHin : p.seq \in Nat /\ p.von \in Nat /\ p.laenge \in Nat BY DEF Typ, Paket
<1>5. /\ stSender.seq \in Nat /\ stSender.von \in Nat /\ stSender.laenge \in Nat /\ stSender.bis \in Nat
      /\ stSender.bestaetigt \in Nat /\ stSender.fenster \in Nat
  BY DEF Typ, Sendbar, Sender
<1>6. Da \in Nat /\ Rand \in Nat /\ Da <= Rand /\ Rand = Da + Restsize /\ Restsize \in Nat
  <2>1. ASSUME NEW l \in Nat, NEW b \in Nat, NEW m \in Nat, b <= m
        PROVE  l + b \in Nat /\ l + m \in Nat /\ l + b <= l + m /\ l + m = (l + b) + (m - b) /\ m - b \in Nat
    BY <2>1
  <2>2. MAX_RECIVEBUFFER_LENGHT \in Nat BY StromGroessen
  <2> QED BY <1>2, <1>3, <2>1, <2>2 DEF Da, Rand, Restsize
<1> QED BY <1>1, <1>2, <1>3, <1>4, <1>5, <1>6

(* A confirmation of what there is never promises more than there is room. *)
LEMMA AntwortStrom ==
    ASSUME NEW a \in Int, NEW f \in Fifo, NEW g \in Seq(Nat), a <= Len(g) + f.byteinbuffer
    PROVE  Bestaetigung(a, f).ack = a
           /\ Bestaetigung(a, f).ack + Bestaetigung(a, f).fenster <= Len(g) + MAX_RECIVEBUFFER_LENGHT
<1>1. f.byteinbuffer \in Nat /\ Len(g) \in Nat BY StromGroessen DEF Fifo
<1> QED BY <1>1, StromGroessen DEF Bestaetigung

(* SendData_RPE sends what comes next, or again: nothing that is early. *)
LEMMA SendDataStrom ==
    ASSUME StromInv, Typ', stSender.art = "tcp", NEW s \in Sender, s.art = "tcp", s.bestaetigt = stSender.bestaetigt,
           NEW von \in Nat, NEW z \in 0 .. MAX_TCP_RETRANSMISSIONS - 1, von = s.seq, von <= Da, von <= s.bis,
           s.bis < von + 2 * MAX_TCP_Datalenght, SendData(s, von, z)
    PROVE  StromInv'
<1> DEFINE n == IF s.bis - von < MAX_TCP_Datalenght THEN s.bis - von ELSE MAX_TCP_Datalenght
           p == [seq |-> s.seq, von |-> von, laenge |-> n]
<1>1. /\ stHin' = stHin \cup {p}
      /\ stSender' = [s EXCEPT !.lauf = "Wartet", !.von = von, !.laenge = n, !.zaehler = z,
                               !.seq = @ + n, !.sendet = TRUE]
      /\ UNCHANGED <<stFifo, stEmpf, stHer>>
  BY DEF SendData
<1>2. p.seq = von /\ p.von = von OBVIOUS
<1> HIDE DEF n, p
<1>3. /\ stSender'.art = "tcp" /\ stSender'.lauf = "Wartet" /\ stSender'.von = von /\ stSender'.laenge = n
      /\ stSender'.seq = von + n /\ stSender'.sendet = TRUE /\ stSender'.bis = s.bis
      /\ stSender'.bestaetigt = stSender.bestaetigt
  BY <1>1 DEF Sender
<1>4. Da' = Da /\ Rand' = Rand BY <1>1 DEF Da, Rand
<1>5. Strom' BY <1>1, <1>2, <1>3, <1>4 DEF StromInv, Strom
<1>6. Station' BY <1>1, <1>2, <1>3, <1>4 DEF StromInv, Station
<1> QED BY <1>3, <1>5, <1>6 DEF StromInv

LEMMA InFolgeStrom ==
    ASSUME Regelmaessig, StromInv, NEW p \in stHin, p.laenge <= Restsize, InFolge(p),
           UNCHANGED <<stSender, stHin>>
    PROVE  StromInv'
<1> DEFINE f == Put_Block_in_FIFO(stFifo, p.von, p.laenge)
           u == stEmpf.unsort
           passt == u.laenge # 0 /\ u.seq = p.seq + p.laenge
           g == IF passt THEN Put_Block_in_FIFO(f, u.von, u.laenge) ELSE f
           ack == IF passt THEN u.seq + p.laenge ELSE p.seq + p.laenge
           t == stEmpf.gelesen
<1>1. Typ /\ Strom /\ stFifo \in Fifo BY DEF StromInv, Typ
<1>2. /\ stFifo' = g /\ stEmpf' = [stEmpf EXCEPT !.ack = ack, !.unsort = KeinPaket]
      /\ stHer' = stHer \cup {Bestaetigung(p.seq + p.laenge, f), Bestaetigung(ack, g)}
      /\ p.seq = stEmpf.ack
  BY DEF InFolge
<1>3. stEmpf'.ack = ack /\ stEmpf'.unsort = KeinPaket /\ stEmpf'.gelesen = t
  BY <1>1, <1>2 DEF Typ, Empfaenger
<1>4. Typ' /\ Ring(stFifo') BY <1>1, InFolgeTyp DEF Strom
<1>5. p.seq = Da /\ p.von = Da /\ Da = Len(t) + stFifo.byteinbuffer /\ p.laenge \in Nat
      /\ Da \in Nat /\ Len(t) \in Nat /\ t \in Seq(Nat)
  BY <1>1, <1>2, Zahlen DEF Strom, Da
<1>6. f \in Fifo /\ Ring(f) /\ AlsStrom(t, f) /\ f.byteinbuffer = stFifo.byteinbuffer + p.laenge
  <2>1. Ring(stFifo) /\ AlsStrom(t, stFifo) BY <1>1 DEF Strom
  <2>2. p.laenge <= MAX_RECIVEBUFFER_LENGHT - stFifo.byteinbuffer BY DEF Restsize
  <2>3. p.von = Len(t) + stFifo.byteinbuffer /\ p.von \in Nat BY <1>5
  <2> HIDE DEF t
  <2>4. f \in Fifo /\ Ring(f) BY <1>1, <1>5, <2>1, <2>3, PutTyp
  <2>5. AlsStrom(t, f) /\ f.byteinbuffer = stFifo.byteinbuffer + p.laenge
    BY <1>1, <1>5, <2>1, <2>2, <2>3, PutStrom
  <2> QED BY <2>4, <2>5
<1> HIDE DEF f
<1>7. u \in Paket /\ u.laenge \in Nat /\ u.von \in Nat /\ u.seq \in Nat
  <2>1. u \in Paket BY <1>1 DEF Typ, Empfaenger
  <2> QED BY <2>1 DEF Paket
<1>8. ASSUME passt
      PROVE  /\ stSender.art = "fremd" /\ u \in stHin /\ u.laenge = p.laenge
             /\ u.von = Da + p.laenge /\ u.von = Len(t) + f.byteinbuffer
             /\ u.laenge <= MAX_RECIVEBUFFER_LENGHT - f.byteinbuffer
  <2>1. u # KeinPaket BY <1>8 DEF KeinPaket
  <2>2. stSender.art = "fremd" /\ Fremder
    <3>1. stSender.art \in {"tcp", "fremd"} BY <1>1, StAnnahme DEF Typ, Sendbar, Sender
    <3>2. stSender.art # "tcp" BY <2>1 DEF StromInv, Station
    <3> QED BY <3>1, <3>2 DEF StromInv
  <2>3. u \in stHin BY <2>1, <2>2 DEF Fremder
  <2>4. u.laenge = p.laenge BY <2>2, <2>3 DEF Fremder, Regelmaessig
  <2>5. u.von = Da + p.laenge BY <1>1, <1>5, <1>8, <2>3 DEF Strom
  <2>6. u.seq + u.laenge <= stSender.seq /\ stSender.seq <= Rand BY <2>2, <2>3 DEF Fremder
  <2>7. u.laenge <= MAX_RECIVEBUFFER_LENGHT - f.byteinbuffer
    <3>1. /\ Rand = Len(t) + MAX_RECIVEBUFFER_LENGHT /\ stSender.seq \in Nat /\ stFifo.byteinbuffer \in Nat
          /\ MAX_RECIVEBUFFER_LENGHT \in Nat
      BY <1>1, Zahlen, StromGroessen DEF Rand
    <3>2. u.seq = Da + p.laenge BY <1>2, <1>5, <1>8
    <3>3. ASSUME NEW l \in Nat, NEW b \in Nat, NEW n \in Nat, NEW k \in Nat, NEW m \in Nat, NEW q \in Nat,
                 ((l + b) + n) + k <= q, q <= l + m
          PROVE  k <= m - (b + n)
      BY <3>3
    <3> HIDE DEF u, t
    <3>4. u.laenge <= MAX_RECIVEBUFFER_LENGHT - (stFifo.byteinbuffer + p.laenge)
      BY <1>5, <1>7, <2>6, <3>1, <3>2, <3>3
    <3> QED BY <1>6, <3>4
  <2>8. u.von = Len(t) + f.byteinbuffer
    <3>1. stFifo.byteinbuffer \in Nat BY <1>1, Zahlen
    <3> QED BY <1>5, <1>6, <2>5, <3>1
  <2> QED BY <2>2, <2>3, <2>4, <2>5, <2>7, <2>8
<1>9. g \in Fifo /\ AlsStrom(t, g) /\ ack = Len(t) + g.byteinbuffer /\ p.seq + p.laenge = Len(t) + f.byteinbuffer
      /\ Da + p.laenge <= ack
  <2>0. stFifo.byteinbuffer \in Nat /\ f.byteinbuffer \in Nat BY SMTT(60), <1>1, <1>5, <1>6, Zahlen
  <2>1. CASE passt
    <3>1. g = Put_Block_in_FIFO(f, u.von, u.laenge) /\ ack = u.seq + p.laenge BY <2>1
    <3>2. /\ u.von = Len(t) + f.byteinbuffer /\ u.laenge <= MAX_RECIVEBUFFER_LENGHT - f.byteinbuffer
          /\ u.laenge = p.laenge /\ u.seq = p.seq + p.laenge
      BY <1>8, <2>1
    <3> HIDE DEF u, t, g, ack
    <3>3. g \in Fifo /\ AlsStrom(t, g) /\ g.byteinbuffer = f.byteinbuffer + u.laenge
      BY <1>5, <1>6, <1>7, <3>1, <3>2, PutTyp, PutStrom
    <3>4. p.seq + p.laenge = Len(t) + f.byteinbuffer BY <1>5, <1>6, <2>0
    <3>5. ack = Len(t) + g.byteinbuffer /\ Da + p.laenge <= ack
      <4>1. ack = (p.seq + p.laenge) + p.laenge BY <3>1, <3>2
      <4>2. g.byteinbuffer = f.byteinbuffer + p.laenge BY <3>2, <3>3
      <4>3. p.seq = Da /\ p.laenge \in Nat /\ Da \in Nat /\ Len(t) \in Nat BY <1>5
      <4>4. ASSUME NEW d \in Nat, NEW n \in Nat, NEW l \in Nat, NEW b \in Nat, d + n = l + b
            PROVE  (d + n) + n = l + (b + n) /\ d + n <= (d + n) + n
        BY <4>4
      <4> QED BY <2>0, <3>4, <4>1, <4>2, <4>3, <4>4
    <3> QED BY <3>3, <3>4, <3>5
  <2>2. CASE ~passt
    <3>1. g = f /\ ack = p.seq + p.laenge BY <2>2
    <3>2. stFifo.byteinbuffer \in Nat BY <1>1, Zahlen
    <3> HIDE DEF u, t, g, ack
    <3>3. p.seq + p.laenge = Len(t) + f.byteinbuffer /\ Da + p.laenge = p.seq + p.laenge
      BY <1>5, <1>6, <3>2
    <3>4. ack <= ack BY <1>5, <3>1
    <3> QED BY <1>6, <3>1, <3>3, <3>4
  <2> QED BY <2>1, <2>2
<1>10. f.byteinbuffer <= g.byteinbuffer
  <2>1. f.byteinbuffer \in Nat /\ g.byteinbuffer \in Nat BY <1>6, <1>9, StromGroessen DEF Fifo
  <2>2. stFifo.byteinbuffer \in Nat BY <1>1, Zahlen
  <2> QED BY SMTT(60), <1>5, <1>6, <1>9, <2>1, <2>2
<1> HIDE DEF u, passt, g, ack
<1>11. Da' = ack /\ Da <= Da' /\ Rand' = Rand /\ Da' \in Nat
  <2>1. stFifo.byteinbuffer \in Nat /\ g.byteinbuffer \in Nat BY <1>1, <1>9, Zahlen, StromGroessen DEF Fifo
  <2>2. Da' = Len(t) + g.byteinbuffer BY <1>2, <1>3 DEF Da
  <2>3. Rand' = Rand BY <1>3 DEF Rand
  <2> QED BY <1>5, <1>9, <2>1, <2>2, <2>3
<1>12. \A q \in stHer' : q.ack <= Da' /\ q.ack + q.fenster <= Rand'
  <2> SUFFICES ASSUME NEW q \in stHer' PROVE q.ack <= Da' /\ q.ack + q.fenster <= Rand'
    OBVIOUS
  <2>1. CASE q \in stHer
    <3>1. q.ack <= Da /\ q.ack + q.fenster <= Rand BY <1>1, <2>1 DEF Strom
    <3>2. q.ack \in Int BY <1>1, <2>1 DEF Typ, Antwort, Verdreht
    <3> QED BY <1>5, <1>11, <3>1, <3>2
  <2>2. CASE q = Bestaetigung(p.seq + p.laenge, f)
    <3>1. f.byteinbuffer \in Nat /\ g.byteinbuffer \in Nat BY <1>6, <1>9, StromGroessen DEF Fifo
    <3>2. p.seq + p.laenge \in Int /\ p.seq + p.laenge <= Len(t) + f.byteinbuffer BY <1>5, <1>9, <3>1
    <3>3. q.ack = p.seq + p.laenge /\ q.ack + q.fenster <= Len(t) + MAX_RECIVEBUFFER_LENGHT
      BY <1>5, <1>6, <2>2, <3>2, AntwortStrom
    <3> QED BY <1>5, <1>9, <1>11, <3>3 DEF Rand
  <2>3. CASE q = Bestaetigung(ack, g)
    <3>1. g.byteinbuffer \in Nat BY <1>9, StromGroessen DEF Fifo
    <3>2. ack \in Int /\ ack <= Len(t) + g.byteinbuffer BY <1>5, <1>9, <3>1
    <3>3. q.ack = ack /\ q.ack + q.fenster <= Len(t) + MAX_RECIVEBUFFER_LENGHT
      BY <1>5, <1>9, <2>3, <3>2, AntwortStrom
    <3> QED BY <1>11, <3>2, <3>3 DEF Rand
  <2> QED BY <1>2, <2>1, <2>2, <2>3
<1>13. Strom'
  <2>1. AlsStrom(stEmpf'.gelesen, stFifo') BY <1>2, <1>3, <1>9
  <2>2. stSender'.bestaetigt <= Da'
    <3>1. stSender.bestaetigt \in Nat /\ stSender.bestaetigt <= Da BY <1>1, Zahlen DEF Strom
    <3> QED BY <1>5, <1>11, <3>1
  <2> QED BY <1>1, <1>3, <1>4, <1>11, <1>12, <2>1, <2>2 DEF Strom
<1>14. ASSUME stSender.art = "tcp" PROVE Station'
  <2>1. Station BY <1>14 DEF StromInv
  <2>2. \A n \in Nat : n <= Da => n <= Da' BY <1>5, <1>11
  <2>3. stSender.von \in Nat /\ stSender.seq \in Nat /\ \A r \in stHin : r.seq \in Nat BY <1>1, Zahlen
  <2> QED BY <1>3, <2>1, <2>2, <2>3 DEF Station
<1>15. ASSUME stSender.art = "fremd" PROVE Fremder'
  BY <1>3, <1>11, <1>15 DEF StromInv, Fremder
<1> QED BY <1>4, <1>13, <1>14, <1>15 DEF StromInv

(* Every step of two regular partners keeps the stream. *)
LEMMA StromSchritt ==
    ASSUME Regelmaessig, StromInv, [StNext]_stVars
    PROVE  StromInv'
<1>0. Typ /\ Strom /\ Typ' /\ Ring(stFifo)' BY TypSchritt DEF StromInv, Strom
<1>1. CASE PaketKommt
  <2>1. PICK p \in stHin : /\ p.laenge <= Restsize
                           /\ InFolge(p) \/ Alt(p) \/ Verfrueht(p)
                           /\ UNCHANGED <<stSender, stHin>>
    BY <1>1 DEF PaketKommt
  <2>2. CASE InFolge(p) BY <2>1, <2>2, InFolgeStrom
  <2>3. CASE Alt(p)
    <3>1. /\ stHer' = stHer \cup {Bestaetigung(Verdreht, stFifo)} /\ UNCHANGED <<stFifo, stEmpf, stSender, stHin>>
      BY <2>1, <2>3 DEF Alt
    <3>2. /\ Bestaetigung(Verdreht, stFifo).ack <= Da
          /\ Bestaetigung(Verdreht, stFifo).ack + Bestaetigung(Verdreht, stFifo).fenster <= Rand
      <4>1. Verdreht \in Int /\ Verdreht <= Da BY <1>0, Zahlen DEF Verdreht
      <4> QED BY <1>0, <4>1, Zahlen, AntwortStrom DEF Da, Rand, Typ
    <3>3. Da' = Da /\ Rand' = Rand BY <3>1 DEF Da, Rand
    <3> QED BY <1>0, <3>1, <3>2, <3>3 DEF StromInv, Strom, Station, Fremder
  <2>4. CASE Verfrueht(p)
    <3>1. /\ stEmpf.ack < p.seq /\ stEmpf' = [stEmpf EXCEPT !.unsort = IF @.laenge = 0 THEN p ELSE @]
          /\ UNCHANGED <<stFifo, stHer, stSender, stHin>>
      BY <2>1, <2>4 DEF Verfrueht
    <3>2. stEmpf'.ack = stEmpf.ack /\ stEmpf'.gelesen = stEmpf.gelesen
          /\ (stEmpf'.unsort = p \/ stEmpf'.unsort = stEmpf.unsort)
      BY <1>0, <3>1 DEF Typ, Empfaenger
    <3>3. Da' = Da /\ Rand' = Rand BY <3>1, <3>2 DEF Da, Rand
    <3>4. stSender.art # "tcp"
      <4>1. ~(p.seq <= Da) BY <1>0, <2>1, <3>1, Zahlen DEF Strom
      <4> QED BY <2>1, <4>1 DEF StromInv, Station
    <3>5. stSender.art = "fremd" => Fremder' BY <2>1, <3>1, <3>2, <3>3 DEF StromInv, Fremder
    <3> QED BY <1>0, <3>1, <3>2, <3>3, <3>4, <3>5 DEF StromInv, Strom
  <2> QED BY <2>1, <2>2, <2>3, <2>4
<1>2. CASE AndereVerbindung
  <2>1. /\ stEmpf.unsort # KeinPaket /\ stEmpf' = [stEmpf EXCEPT !.unsort = KeinPaket]
        /\ UNCHANGED <<stSender, stFifo, stHin, stHer>>
    BY <1>2 DEF AndereVerbindung
  <2>2. stEmpf'.ack = stEmpf.ack /\ stEmpf'.gelesen = stEmpf.gelesen /\ stEmpf'.unsort = KeinPaket
    BY <1>0, <2>1 DEF Typ, Empfaenger
  <2>3. Da' = Da /\ Rand' = Rand BY <2>1, <2>2 DEF Da, Rand
  <2> QED BY <1>0, <2>1, <2>2, <2>3 DEF StromInv, Strom, Station, Fremder
<1>3. ASSUME NEW b \in StLesen, GetSocketData(b) PROVE StromInv'
  <2> DEFINE n == IF stFifo.byteinbuffer > b THEN b ELSE stFifo.byteinbuffer
             f == Get_Block_from_FIFO(stFifo, n)
             t == stEmpf.gelesen \o Inhalt(stFifo, n)
  <2>1. stFifo \in Fifo /\ stFifo.byteinbuffer \in Nat /\ b \in Nat BY StAnnahme DEF StromInv, Typ, Fifo
  <2>2. n \in 0 .. stFifo.byteinbuffer BY <2>1
  <2>3. /\ stFifo' = f /\ stEmpf' = [stEmpf EXCEPT !.gelesen = t]
        /\ stHer' \subseteq stHer \cup {Bestaetigung(stEmpf.ack, f)}
        /\ UNCHANGED <<stSender, stHin>>
    BY <1>3 DEF GetSocketData
  <2> HIDE DEF n
  <2>4. stEmpf'.gelesen = t /\ stEmpf'.ack = stEmpf.ack /\ stEmpf'.unsort = stEmpf.unsort
    BY <1>0, <2>3 DEF Typ, Empfaenger
  <2>5. /\ AlsStrom(t, f) /\ Len(t) = Len(stEmpf.gelesen) + n /\ f.byteinbuffer = stFifo.byteinbuffer - n
        /\ f \in Fifo /\ t \in Seq(Nat)
    <3>1. stEmpf.gelesen \in Seq(Nat) /\ AlsStrom(stEmpf.gelesen, stFifo) BY <1>0, Zahlen DEF Strom
    <3>2. Inhalt(stFifo, n) \in Seq(Nat) /\ f \in Fifo BY <2>1, <2>2, GetTyp
    <3>3. t \in Seq(Nat) BY <3>1, <3>2
    <3>4. /\ AlsStrom(t, f) /\ Len(t) = Len(stEmpf.gelesen) + n /\ f.byteinbuffer = stFifo.byteinbuffer - n
      BY <2>1, <2>2, <3>1, GetStrom
    <3> QED BY <3>2, <3>3, <3>4
  <2> HIDE DEF f, t
  <2>6. Da' = Da /\ Rand <= Rand' /\ Rand' = Len(t) + MAX_RECIVEBUFFER_LENGHT /\ Da = Len(t) + f.byteinbuffer
        /\ Rand' \in Nat
    <3>1. Len(stEmpf.gelesen) \in Nat /\ n \in Nat BY <1>0, <2>1, <2>2, Zahlen
    <3>2. Da' = Len(t) + f.byteinbuffer /\ Rand' = Len(t) + MAX_RECIVEBUFFER_LENGHT
      BY <2>3, <2>4 DEF Da, Rand
    <3>3. Len(t) = Len(stEmpf.gelesen) + n /\ f.byteinbuffer = stFifo.byteinbuffer - n
          /\ MAX_RECIVEBUFFER_LENGHT \in Nat
      BY <2>5, StromGroessen
    <3> QED BY SMTT(60), <2>1, <3>1, <3>2, <3>3 DEF Da, Rand
  <2>7. /\ Bestaetigung(stEmpf.ack, f).ack <= Da'
        /\ Bestaetigung(stEmpf.ack, f).ack + Bestaetigung(stEmpf.ack, f).fenster <= Rand'
    <3>1. stEmpf.ack \in Int /\ stEmpf.ack <= Len(t) + f.byteinbuffer /\ stEmpf.ack = Da /\ Da \in Nat
      BY <1>0, <2>6, Zahlen DEF Strom
    <3>2. /\ Bestaetigung(stEmpf.ack, f).ack = stEmpf.ack
          /\ Bestaetigung(stEmpf.ack, f).ack + Bestaetigung(stEmpf.ack, f).fenster <= Len(t) + MAX_RECIVEBUFFER_LENGHT
      BY <2>5, <3>1, AntwortStrom
    <3> QED BY <2>6, <3>1, <3>2
  <2>8. ASSUME NEW q \in stHer' PROVE q.ack <= Da' /\ q.ack + q.fenster <= Rand'
    <3>1. CASE q \in stHer
      <4>1. q.ack <= Da /\ q.ack + q.fenster <= Rand BY <1>0, <3>1 DEF Strom
      <4>2. q.ack \in Int /\ q.fenster \in Nat BY <1>0, <3>1 DEF Typ, Antwort, Verdreht
      <4>3. Rand \in Nat BY <1>0, Zahlen
      <4> QED BY <2>6, <4>1, <4>2, <4>3
    <3>2. CASE q = Bestaetigung(stEmpf.ack, f) BY <2>7, <3>2
    <3> QED BY <2>3, <3>1, <3>2
  <2>9. Strom' BY <1>0, <2>3, <2>4, <2>5, <2>6, <2>8 DEF Strom
  <2>10. stSender.art = "tcp" => Station' BY <2>3, <2>4, <2>6 DEF StromInv, Station
  <2>11. stSender.art = "fremd" => Fremder'
    <3>1. stSender.seq \in Nat /\ stSender.bestaetigt \in Nat /\ stSender.fenster \in Nat /\ Rand \in Nat
      BY <1>0, Zahlen
    <3> QED BY <2>3, <2>4, <2>6, <3>1 DEF StromInv, Fremder
  <2> QED BY <1>0, <2>3, <2>9, <2>10, <2>11 DEF StromInv
<1>4. CASE Lebenszeichen
  <2>1. stHer' = stHer \cup {Bestaetigung(stEmpf.ack, stFifo)} /\ UNCHANGED <<stSender, stFifo, stEmpf, stHin>>
    BY <1>4 DEF Lebenszeichen
  <2>2. /\ Bestaetigung(stEmpf.ack, stFifo).ack <= Da
        /\ Bestaetigung(stEmpf.ack, stFifo).ack + Bestaetigung(stEmpf.ack, stFifo).fenster <= Rand
    <3>1. stEmpf.ack \in Int /\ stEmpf.ack <= Da BY <1>0, Zahlen DEF Strom
    <3> QED BY <1>0, <3>1, Zahlen, AntwortStrom DEF Da, Rand, Typ
  <2>3. Da' = Da /\ Rand' = Rand BY <2>1 DEF Da, Rand
  <2> QED BY <1>0, <2>1, <2>2, <2>3 DEF StromInv, Strom, Station, Fremder
<1>5. ASSUME NEW n \in StTelegramme, PutSocketData(n) PROVE StromInv'
  <2>1. n \in Nat /\ n < 2 * MAX_TCP_Datalenght /\ stSender.bis \in Nat /\ stSender.seq \in Nat
    BY <1>0, Zahlen, StAnnahme DEF Regelmaessig
  <2> DEFINE s == [stSender EXCEPT !.bis = @ + n]
  <2>2. stSender.art = "tcp" /\ stSender.lauf = "Ruhe" /\ SendData(s, stSender.bis, 0)
    BY <1>5 DEF PutSocketData
  <2>3. s \in Sender /\ s.bis = stSender.bis + n /\ s.art = "tcp" /\ s.bestaetigt = stSender.bestaetigt
        /\ s.seq = stSender.seq
    BY <1>0, <2>1, <2>2 DEF Typ, Sendbar, Sender
  <2> HIDE DEF s
  <2>4. stSender.bis = s.seq /\ stSender.bis <= Da BY <2>2, <2>3 DEF StromInv, Station
  <2>5. stSender.bis <= s.bis /\ s.bis < stSender.bis + 2 * MAX_TCP_Datalenght BY <2>1, <2>3, StromGroessen
  <2>6. 0 \in 0 .. MAX_TCP_RETRANSMISSIONS - 1 BY StromGroessen
  <2> QED BY <1>0, <2>1, <2>2, <2>3, <2>4, <2>5, <2>6, SendDataStrom
<1>6. CASE ZeitUm
  <2>1. /\ stSender.lauf = "Wartet" /\ UNCHANGED <<stFifo, stEmpf, stHin, stHer>>
        /\ stSender' = [stSender EXCEPT !.lauf = "Erneut", !.zaehler = @ + 1, !.seq = @ - stSender.laenge]
    BY <1>6 DEF ZeitUm
  <2>2. /\ stSender'.lauf = "Erneut" /\ stSender'.seq = stSender.seq - stSender.laenge /\ stSender'.art = stSender.art
        /\ stSender'.von = stSender.von /\ stSender'.bis = stSender.bis
        /\ stSender'.bestaetigt = stSender.bestaetigt
    BY <1>0, <2>1 DEF Typ, Sendbar, Sender
  <2>3. Da' = Da /\ Rand' = Rand BY <2>1 DEF Da, Rand
  <2>4. stSender.art # "fremd" BY <2>1 DEF StromInv, Fremder
  <2>5. stSender.art = "tcp" => stSender'.seq = stSender.von BY <1>0, <2>1, <2>2, Zahlen DEF StromInv, Station
  <2> QED BY <1>0, <2>1, <2>2, <2>3, <2>4, <2>5 DEF StromInv, Strom, Station
<1>7. CASE Wiederholen
  <2>1. /\ stSender.lauf = "Erneut" /\ stSender.zaehler < MAX_TCP_RETRANSMISSIONS
        /\ SendData(stSender, stSender.von, stSender.zaehler)
    BY <1>7 DEF Wiederholen
  <2>2. stSender.art = "tcp" /\ Station
    <3>1. stSender.art \in {"tcp", "fremd"} BY <1>0, StAnnahme DEF Typ, Sendbar, Sender
    <3> QED BY <2>1, <3>1 DEF StromInv, Fremder
  <2>3. stSender \in Sender /\ stSender.von \in Nat /\ stSender.zaehler \in 0 .. MAX_TCP_RETRANSMISSIONS - 1
        /\ stSender.von <= stSender.bis
    BY <1>0, <2>1, StromGroessen DEF Typ, Sendbar, Sender, PaketUnterwegs
  <2> QED BY <1>0, <2>1, <2>2, <2>3, SendDataStrom DEF Station
<1>8. CASE Aufgeben
  <2>1. stSender.lauf = "Erneut" BY <1>8 DEF Aufgeben
  <2>2. stSender.art = "tcp" /\ Station
    <3>1. stSender.art \in {"tcp", "fremd"} BY <1>0, StAnnahme DEF Typ, Sendbar, Sender
    <3> QED BY <2>1, <3>1 DEF StromInv, Fremder
  <2>3. ~(stSender.bis - stSender.von >= 2 * MAX_TCP_Datalenght)
    BY <1>0, <2>2, Zahlen, StromGroessen DEF Station
  <2>4. stSender' = [stSender EXCEPT !.lauf = "Zu"] /\ UNCHANGED <<stFifo, stEmpf, stHin, stHer>>
    BY <1>8, <2>3 DEF Aufgeben
  <2>5. /\ stSender'.lauf = "Zu" /\ stSender'.art = "tcp" /\ stSender'.von = stSender.von
        /\ stSender'.bis = stSender.bis /\ stSender'.bestaetigt = stSender.bestaetigt
    BY <1>0, <2>2, <2>4 DEF Typ, Sendbar, Sender
  <2>6. Da' = Da /\ Rand' = Rand BY <2>4 DEF Da, Rand
  <2> QED BY <1>0, <2>2, <2>4, <2>5, <2>6 DEF StromInv, Strom, Station
<1>9. CASE Fertig
  <2>1. stSender.lauf = "Wartet" /\ ~stSender.sendet BY <1>9 DEF Fertig
  <2>2. stSender.art = "tcp" /\ Station
    <3>1. stSender.art \in {"tcp", "fremd"} BY <1>0, StAnnahme DEF Typ, Sendbar, Sender
    <3> QED BY <2>1, <3>1 DEF StromInv, Fremder
  <2>3. stSender.seq = stSender.von + stSender.laenge /\ stSender.seq <= Da BY <2>1, <2>2 DEF Station
  <2>4. stSender \in Sender /\ stSender.von + stSender.laenge <= stSender.bis BY <1>0 DEF Typ, Sendbar, PaketUnterwegs
  <2>5. CASE SendData(stSender, stSender.von + stSender.laenge, 0)
    <3>1. 0 \in 0 .. MAX_TCP_RETRANSMISSIONS - 1 BY StromGroessen
    <3>2. stSender.bis < (stSender.von + stSender.laenge) + 2 * MAX_TCP_Datalenght
          /\ stSender.von + stSender.laenge \in Nat
      <4>1. stSender.bis < stSender.von + 2 * MAX_TCP_Datalenght BY <2>2 DEF Station
      <4>2. stSender.von \in Nat /\ stSender.laenge \in Nat /\ stSender.bis \in Nat /\ MAX_TCP_Datalenght \in Nat
        BY <1>0, Zahlen, StromGroessen
      <4> QED BY <4>1, <4>2
    <3> QED BY <1>0, <2>2, <2>3, <2>4, <2>5, <3>1, <3>2, SendDataStrom
  <2>6. CASE /\ ~(stSender.von + stSender.laenge < stSender.bis)
             /\ stSender' = [stSender EXCEPT !.lauf = "Ruhe", !.bestaetigt = stSender.bis]
             /\ UNCHANGED <<stFifo, stEmpf, stHin, stHer>>
    <3>1. /\ stSender'.lauf = "Ruhe" /\ stSender'.art = "tcp" /\ stSender'.von = stSender.von
          /\ stSender'.bis = stSender.bis /\ stSender'.bestaetigt = stSender.bis /\ stSender'.seq = stSender.seq
      BY <1>0, <2>2, <2>6 DEF Typ, Sendbar, Sender
    <3>2. stSender.seq = stSender.bis BY <1>0, <2>3, <2>4, <2>6, Zahlen
    <3>3. Da' = Da /\ Rand' = Rand BY <2>6 DEF Da, Rand
    <3> QED BY <1>0, <2>2, <2>3, <2>6, <3>1, <3>2, <3>3 DEF StromInv, Strom, Station
  <2> QED BY <1>9, <2>5, <2>6 DEF Fertig
<1>10. CASE AckKommt
  <2>1. PICK q \in stHer : /\ stSender.art = "tcp" /\ q.ack = stSender.seq
                           /\ stSender' = [stSender EXCEPT !.sendet = FALSE]
                           /\ UNCHANGED <<stFifo, stEmpf, stHin, stHer>>
    BY <1>10 DEF AckKommt
  <2>2. stSender.seq <= Da BY <1>0, <2>1 DEF Strom
  <2>3. /\ stSender'.lauf = stSender.lauf /\ stSender'.art = "tcp" /\ stSender'.von = stSender.von
        /\ stSender'.bis = stSender.bis /\ stSender'.bestaetigt = stSender.bestaetigt
        /\ stSender'.seq = stSender.seq /\ stSender'.laenge = stSender.laenge
    BY <1>0, <2>1 DEF Typ, Sendbar, Sender
  <2>4. Da' = Da /\ Rand' = Rand BY <2>1 DEF Da, Rand
  <2> QED BY <1>0, <2>1, <2>2, <2>3, <2>4 DEF StromInv, Strom, Station
<1>11. ASSUME NEW n \in StSegmente, PartnerSendet(n) PROVE StromInv'
  <2> DEFINE p == [seq |-> stSender.seq, von |-> stSender.seq, laenge |-> n]
  <2>1. /\ stSender.art = "fremd" /\ stSender.seq + n <= stSender.bestaetigt + stSender.fenster
        /\ stHin' = stHin \cup {p} /\ stSender' = [stSender EXCEPT !.seq = @ + n]
        /\ UNCHANGED <<stFifo, stEmpf, stHer>>
    BY <1>11 DEF PartnerSendet
  <2>2. p.seq = stSender.seq /\ p.von = stSender.seq /\ p.laenge = n OBVIOUS
  <2> HIDE DEF p
  <2>3. /\ stSender'.art = "fremd" /\ stSender'.lauf = stSender.lauf /\ stSender'.seq = stSender.seq + n
        /\ stSender'.bestaetigt = stSender.bestaetigt /\ stSender'.fenster = stSender.fenster
    BY <1>0, <2>1 DEF Typ, Sendbar, Sender
  <2>4. Da' = Da /\ Rand' = Rand BY <2>1 DEF Da, Rand
  <2>5. Strom' BY <1>0, <2>1, <2>2, <2>3, <2>4 DEF Strom
  <2>6. Fremder'
    <3>1. Fremder /\ n \in Nat BY <2>1, StAnnahme DEF StromInv
    <3>2. ASSUME NEW r \in stHin' PROVE r.laenge \in StSegmente /\ r.seq + r.laenge <= stSender'.seq
      <4>0. stSender.seq \in Nat BY <1>0, Zahlen
      <4>1. CASE r = p
        <5>1. r.laenge = n /\ r.seq = stSender.seq BY <2>2, <4>1
        <5> QED BY <2>3, <3>1, <4>0, <5>1
      <4>2. CASE r \in stHin
        <5>1. r.laenge \in StSegmente /\ r.seq + r.laenge <= stSender.seq BY <3>1, <4>2 DEF Fremder
        <5>2. r.seq \in Nat /\ r.laenge \in Nat BY <1>0, <4>2, Zahlen
        <5> QED BY <2>3, <3>1, <4>0, <5>1, <5>2
      <4> QED BY <2>1, <4>1, <4>2
    <3>3. stSender'.seq <= Rand' BY <1>0, <2>1, <2>3, <2>4, <3>1, Zahlen DEF Fremder
    <3> QED BY <2>1, <2>3, <2>4, <3>1, <3>2, <3>3 DEF Fremder
  <2> QED BY <1>0, <2>3, <2>5, <2>6 DEF StromInv
<1>12. ASSUME NEW n \in StSegmente, PartnerWiederholt(n) PROVE StromInv'
  <2> DEFINE p == [seq |-> stSender.bestaetigt, von |-> stSender.bestaetigt, laenge |-> n]
  <2>1. /\ stSender.art = "fremd" /\ stSender.bestaetigt + n <= stSender.seq /\ stHin' = stHin \cup {p}
        /\ UNCHANGED <<stSender, stFifo, stEmpf, stHer>>
    BY <1>12 DEF PartnerWiederholt
  <2>2. p.seq = stSender.bestaetigt /\ p.von = stSender.bestaetigt /\ p.laenge = n OBVIOUS
  <2> HIDE DEF p
  <2>3. Da' = Da /\ Rand' = Rand BY <2>1 DEF Da, Rand
  <2>4. Strom' BY <1>0, <2>1, <2>2, <2>3 DEF Strom
  <2>5. Fremder' BY <2>1, <2>2, <2>3 DEF StromInv, Fremder
  <2> QED BY <1>0, <2>1, <2>4, <2>5 DEF StromInv
<1>13. CASE PartnerAck
  <2>1. PICK q \in stHer : /\ stSender.art = "fremd" /\ q.ack >= stSender.bestaetigt
                           /\ stSender' = [stSender EXCEPT !.bestaetigt = q.ack, !.fenster = q.fenster]
                           /\ UNCHANGED <<stFifo, stEmpf, stHin, stHer>>
    BY <1>13 DEF PartnerAck
  <2>2. q.ack <= Da /\ q.ack + q.fenster <= Rand BY <1>0, <2>1 DEF Strom
  <2>3. /\ stSender'.art = "fremd" /\ stSender'.lauf = stSender.lauf /\ stSender'.seq = stSender.seq
        /\ stSender'.bestaetigt = q.ack /\ stSender'.fenster = q.fenster
    BY <1>0, <2>1 DEF Typ, Sendbar, Sender
  <2>4. Da' = Da /\ Rand' = Rand BY <2>1 DEF Da, Rand
  <2>5. Strom' BY <1>0, <2>1, <2>2, <2>3, <2>4 DEF Strom
  <2>6. Fremder' BY <2>1, <2>2, <2>3, <2>4 DEF StromInv, Fremder
  <2> QED BY <1>0, <2>3, <2>5, <2>6 DEF StromInv
<1>14. CASE UNCHANGED stVars
  <2>1. Da' = Da /\ Rand' = Rand BY <1>14 DEF stVars, Da, Rand
  <2> QED BY <1>0, <1>14, <2>1 DEF stVars, StromInv, Strom, Station, Fremder
<1> QED BY <1>1, <1>2, <1>3, <1>4, <1>5, <1>6, <1>7, <1>8, <1>9, <1>10, <1>11, <1>12, <1>13, <1>14 DEF StNext

LEMMA StromAnfang == StInit => StromInv
<1> SUFFICES ASSUME StInit PROVE StromInv
  OBVIOUS
<1>1. Typ /\ Ring(stFifo) BY TypAnfang
<1>2. /\ stFifo.byteinbuffer = 0 /\ stEmpf = [ack |-> 0, unsort |-> KeinPaket, gelesen |-> << >>]
      /\ stHin = {} /\ stHer = {}
      /\ stSender.lauf = "Ruhe" /\ stSender.seq = 0 /\ stSender.von = 0 /\ stSender.bis = 0
      /\ stSender.bestaetigt = 0 /\ stSender.fenster = MAX_RECIVEBUFFER_LENGHT
  BY DEF StInit
<1>3. stEmpf.ack = 0 /\ stEmpf.unsort = KeinPaket /\ stEmpf.gelesen = << >> /\ Len(stEmpf.gelesen) = 0
  BY <1>2
<1>4. Da = 0 /\ Rand = MAX_RECIVEBUFFER_LENGHT BY <1>2, <1>3, StromGroessen DEF Da, Rand
<1>5. Strom BY <1>1, <1>2, <1>3, <1>4 DEF Strom, AlsStrom
<1>6. Station BY <1>2, <1>3, <1>4, StromGroessen DEF Station
<1>7. Fremder BY <1>2, <1>3, <1>4, StromGroessen DEF Fremder
<1> QED BY <1>1, <1>5, <1>6, <1>7 DEF StromInv

LEMMA StromInvHaelt == Regelmaessig /\ StSpec => []StromInv
<1>1. Regelmaessig /\ StromInv /\ [StNext]_stVars => StromInv' BY StromSchritt
<1>2. CASE Regelmaessig
  <2>1. StromInv /\ [StNext]_stVars => StromInv' BY <1>1, <1>2
  <2> QED BY <2>1, StromAnfang, PTL DEF StSpec
<1> QED BY <1>2

(* What the application reads is the stream: each byte once and in order,  *)
(* whatever was lost, repeated or overtaken (tcp.c, 285 to 348; fifo.c),   *)
(* for buffers and packets of any size.                                    *)
THEOREM StromTreuGilt == Regelmaessig /\ StSpec => []StromTreu
<1>1. ASSUME StromInv PROVE StromTreu
  <2> DEFINE g == stEmpf.gelesen
             n == stFifo.byteinbuffer
             t == Inhalt(stFifo, n)
  <2>1. Typ /\ AlsStrom(g, stFifo) BY <1>1 DEF StromInv, Strom
  <2>2. g \in Seq(Nat) /\ stFifo \in Fifo /\ n \in Nat BY <2>1, Zahlen DEF Typ
  <2>3. n \in 0 .. stFifo.byteinbuffer BY <2>2
  <2> HIDE DEF g, n
  <2>4. AlsStrom(g \o t, Get_Block_from_FIFO(stFifo, n)) BY <2>1, <2>2, <2>3, GetStrom
  <2>5. t \in Seq(Nat) BY <2>2, <2>3, GetTyp
  <2>6. DOMAIN (g \o t) = 1 .. Len(g \o t) BY <2>2, <2>5
  <2>7. \A i \in DOMAIN (g \o t) : (g \o t)[i] = i - 1 BY <2>4, <2>6 DEF AlsStrom
  <2> QED BY <2>7 DEF StromTreu, g, n
<1> QED BY <1>1, StromInvHaelt, PTL

(* Nobody is told of success before the bytes are in the receiver's FIFO   *)
(* (tcp.c, 947 to 1012; 271).                                              *)
THEOREM ErfolgHeisstDaGilt == Regelmaessig /\ StSpec => []ErfolgHeisstDa
<1>1. StromInv => ErfolgHeisstDa BY DEF StromInv, Strom, Da, ErfolgHeisstDa
<1> QED BY <1>1, StromInvHaelt, PTL
=============================================================================
