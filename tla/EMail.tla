--------------------------------- MODULE EMail ---------------------------------
(***************************************************************************)
(* The e-mail client of a station: sending what is typed by SMTP and       *)
(* printing what a POP3 server holds (iTelex/eMail.c), with the part of    *)
(* the mode machine that carries it (iTelex/iTelex.c).                     *)
(*                                                                         *)
(* One pass of itelex_thread is one action: a code of the bus, the guard   *)
(* of the two-wire bus, SocketBearbeiten, the protocol, the time-outs and  *)
(* the transitions after them, in this order.                              *)
(*                                                                         *)
(* Abstracted: a command, a reply and a line of a mail are one token;      *)
(* "lang" is the part of a long line that fills more than MAXLINELEN and   *)
(* has no end yet, "halb" the beginning of a line that has not come        *)
(* completely.  Looking up names, the header lines that are left out,      *)
(* quoted-printable, the log are not modelled.  Drucken does not wait for  *)
(* the terminal to have started (WarteStartupQuitt, MachineStartupTimer):  *)
(* no fairness is asked of it, so it may come as late as in the code.      *)
(*                                                                         *)
(* Taken for granted: the terminal hangs up only when it takes part in a   *)
(* call and confirms the end only when asked to (GeraetKorrekt of          *)
(* Verbindung; the code takes both in any mode), and no rest of a long     *)
(* line is a "." alone: the code would take it for the end of the mail if  *)
(* the part before it had been used already (eMail.c 514, 528 to 542).     *)
(***************************************************************************)
EXTENDS Integers, Sequences, SequencesExt, FiniteSets

CONSTANTS
    ElInMax,          \* lines that SocketInBuf holds
    ElDruckMax,       \* lines that AsciiDruckPuffer holds
    ElMails,          \* mails a POP server may hold, without the final "." (another line with
                      \* nothing but "." is sent as ".."); after "lang" its line goes on,
                      \* with more than a "." alone
    ElText,           \* what is typed, in this order; "zl" is a line feed, all else is text
    ElMaxSitzungen,   \* bound: sessions
    ElMaxStoerungen,  \* bound: lost connections, failures of the bus
    ElZerrissen       \* may a connection be lost within a line of the log-in?

ASSUME ElAnnahme ==
    /\ {ElInMax, ElDruckMax} \subseteq Nat \ {0, 1}
    /\ {ElMaxSitzungen, ElMaxStoerungen} \subseteq Nat
    /\ ElZerrissen \in BOOLEAN
    /\ \A m \in ElMails :
          /\ m \in Seq({"kopf", "html", "lang", "zeile"})
          /\ \A i \in DOMAIN m : m[i] = "lang" => i < Len(m) /\ m[i + 1] \in {"lang", "zeile"}
    /\ ElText \in Seq(STRING)
    /\ \A i \in DOMAIN ElText :
          ElText[i] \notin {"EHLO", "AUTH", "NAME", "KENNWORT", "FROM", "RCPT", "DATA", "KOPF", "LEERZEILE", "PUNKT",
                           "QUIT", "USER", "PASS", "STAT", "RETR", "DELE", "ENDE", "BRUCH"}

VARIABLES
    elSt,     \* the station: modus (Modus), verb (iTelexSocketMode # SocketIdle), handle (is there
              \* one), geplant (iTelexSocketAbbauGeplant), prot, phase (ProtokollPhase), ok
              \* (POPOkEmpfangen), in and out (the socket buffers), druck (lines in
              \* AsciiDruckPuffer), ein (EmpfPuffer), anfang (nothing in this line yet), weg
              \* (MailUnterdruecken), frage (the recipient is asked for), um: times that are over;
              \* verworfen (history): the mail was given up before it had been asked for
    elNetz,   \* offen (as tcp.c sees the socket), hin and her (on the way), bus (it answers)
    elServer, \* imText (after DATA), text, angenommen (mails taken), mail, markiert, geloescht
    elGeist,  \* getippt (typed for this mail), gedruckt (lines of the mail that were given to
              \* the printer), gekuerzt (a full buffer was cut), gestoert (the bus has failed)
    elRest    \* bounds: sitzungen, stoerungen that are left; getippt, how much of ElText has been typed

elVars == <<elSt, elNetz, elServer, elGeist, elRest>>

ElZeichen == {ElText[i] : i \in DOMAIN ElText}

(* The members of S in a sequence, in their order. *)
Auswahl(q, S) ==
    LET f[i \in 0 .. Len(q)] ==
            IF i = 0 THEN << >> ELSE IF q[i] \in S THEN Append(f[i - 1], q[i]) ELSE f[i - 1]
    IN  f[Len(q)]

ElModi == {"Ruhe", "EmailPOPVerbunden", "EmailPOPWarteEinQuitt", "EmailPOPDruckend", "GehendVerbunden",
           "PufferDruckUndSchluss", "WarteSchlussQuitt", "WarteGrundstellung"}
ModusTwiVerbunden(s) == s.modus \in {"GehendVerbunden", "EmailPOPWarteEinQuitt", "EmailPOPDruckend",
                                     "PufferDruckUndSchluss"}

(***************************************************************************)
(* The mode machine.                                                       *)
(***************************************************************************)
ModusWechsel(s, m) ==
    LET ruhig == m \in {"GehendVerbunden", "EmailPOPWarteEinQuitt", "PufferDruckUndSchluss"}
    IN  [s EXCEPT !.modus = m,
                  !.um = @ \ ((IF ruhig THEN {"Ruhig"} ELSE {}) \cup (IF m = "WarteSchlussQuitt" THEN {"Quittung"} ELSE {})),
                  !.druck = IF m \in {"Ruhe", "WarteGrundstellung", "EmailPOPVerbunden"} THEN 0 ELSE @,
                  !.ein = IF m = "EmailPOPWarteEinQuitt" THEN << >> ELSE @]

InterneVerbindungBeenden(s) ==
    CASE s.modus \in {"EmailPOPVerbunden", "EmailPOPWarteEinQuitt"} -> ModusWechsel(s, "WarteGrundstellung")
      [] s.modus \in {"GehendVerbunden", "EmailPOPDruckend"} -> ModusWechsel(s, "PufferDruckUndSchluss")
      [] OTHER -> s

(* The end of a mail, if one is being written; what has not been sent yet  *)
(* is overwritten.                                                         *)
SMTPSchliessen(s) ==
    IF s.phase \in {"MailData", "MailSubject"}
    THEN [s EXCEPT !.out = <<"PUNKT">>, !.phase = "Abmelden"]
    ELSE [s EXCEPT !.out = <<"QUIT">>, !.phase = "WarteEnde", !.geplant = TRUE]

(* It writes a DELE but leaves SocketOutBufUsed as it is: nothing is sent  *)
(* if nothing is waiting; the DELE in the place of a RETR, which is as     *)
(* long; in the place of a shorter command the beginning of the DELE,      *)
(* without an end of the line.  Several wait only when none can be sent    *)
(* any more.                                                               *)
Ueberschrieben(k) == IF k = "RETR" THEN "DELE" ELSE "BRUCH"
POP3Abbrechen(s) ==
    IF s.phase = "Abmelden" THEN s
    ELSE [s EXCEPT !.in = << >>, !.druck = 0, !.phase = "Abmelden",
                   !.out = IF @ = << >> THEN @ ELSE <<Ueberschrieben(@[1])>>,
                   !.verworfen = @ \/ (s.out # << >> /\ s.out[1] = "RETR")]

ExterneVerbindungBeenden(s) ==
    [IF ~s.verb THEN s ELSE IF s.prot = "SMTP" THEN SMTPSchliessen(s) ELSE POP3Abbrechen(s)
        EXCEPT !.druck = 0]

(* SocketIdle and its companions. *)
Getrennt(s) == [s EXCEPT !.handle = FALSE, !.verb = FALSE, !.geplant = FALSE, !.in = << >>, !.out = << >>]
Begonnen(s, prot, phase, m) ==
    ModusWechsel([s EXCEPT !.verb = TRUE, !.handle = TRUE, !.geplant = FALSE, !.prot = prot, !.phase = phase,
                           !.ok = FALSE, !.in = << >>, !.out = << >>, !.um = {}, !.verworfen = FALSE], m)

(***************************************************************************)
(* Codes of the bus: what the terminal does, in the modes that expect it.  *)
(***************************************************************************)
BusQuittEin(s) == IF s.modus = "EmailPOPWarteEinQuitt" THEN {ModusWechsel(s, "EmailPOPDruckend")} ELSE {}
BusQuittSchluss(s) == IF s.modus = "WarteSchlussQuitt" THEN {ModusWechsel(s, "WarteGrundstellung")} ELSE {}
BusKdoSchluss(s) ==
    IF ModusTwiVerbunden(s) THEN {ModusWechsel(ExterneVerbindungBeenden(s), "WarteGrundstellung")} ELSE {}

(* Four seconds without the two-wire bus; the code of the i-Telex protocol *)
(* goes to a mail server as well, in every pass (many are one here).       *)
EndetMit(b, z) == b # << >> /\ Last(b) \in z
Angehaengt(q, r) == IF r = <<"ENDE">> /\ EndetMit(q, {"ENDE"}) THEN q ELSE q \o r
TwiWache(s) ==
    IF ModusTwiVerbunden(s) /\ ~elNetz.bus
    THEN [InterneVerbindungBeenden(s) EXCEPT !.geplant = TRUE, !.out = Angehaengt(@, <<"ENDE">>)]
    ELSE s

(***************************************************************************)
(* SocketBearbeiten.                                                       *)
(***************************************************************************)
EingangLoeschen(s) == IF s.modus = "WarteGrundstellung" THEN [s EXCEPT !.in = << >>] ELSE s

(* Closed by the other side, and everything received has been used. *)
IstVerloren(s) == s.handle /\ ~elNetz.offen /\ s.in = << >>
Verloren(s) ==
    [Getrennt(IF s.modus = "EmailPOPVerbunden" THEN ModusWechsel(s, "WarteGrundstellung") ELSE s)
        EXCEPT !.um = @ \ {"Abbruch"}]

IstAbzubauen(s) == s.handle /\ s.geplant /\ "Abbau" \in s.um /\ s.out = << >> /\ s.in = << >>

(* What may have come when we look: the next line, all that there is room  *)
(* for, or the beginning of the next line.  <<station, net>> each.         *)
Vorrat(s) == IF EndetMit(s.in, {"halb"}) THEN Front(s.in) ELSE s.in
Empfangen(s, n) ==
    LET da == Len(n.her)
        platz == ElInMax - Len(Vorrat(s))
        ganze == {k \in {1, da, platz} : k >= 1 /\ k <= da /\ k <= platz}
    IN  IF ~s.handle \/ ganze = {} THEN {<<s, n>>}
        ELSE {<<[s EXCEPT !.in = Vorrat(s) \o SubSeq(n.her, 1, k)], [n EXCEPT !.her = SubSeq(@, k + 1, da)]>> :
                 k \in ganze}
             \cup (IF EndetMit(s.in, {"halb", "lang"}) THEN {} ELSE {<<[s EXCEPT !.in = Append(@, "halb")], n>>})

(* Sent (text perhaps later; a command sent later is one answered later),  *)
(* or given up after ten failures; a mail session                          *)
(* cannot be resumed (the address to connect to again is not kept), so     *)
(* half a minute later it is over.                                         *)
Gesendet(s, n) ==
    CASE s.handle /\ s.out # << >> /\ n.offen ->
            {<<[s EXCEPT !.out = << >>, !.um = @ \ {"Abbau", "Fehler"}], [n EXCEPT !.hin = Angehaengt(@, s.out)]>>}
            \cup (IF s.prot = "SMTP" /\ s.phase \in {"MailSubject", "MailData"} THEN {<<s, n>>} ELSE {})
      [] s.handle /\ s.out # << >> /\ ~n.offen /\ "Fehler" \in s.um ->
            {<<IF s.geplant THEN Getrennt(s) ELSE [s EXCEPT !.handle = FALSE, !.um = @ \ {"Fehler", "Abbruch"}],
               [n EXCEPT !.her = << >>]>>}
      [] s.verb /\ ~s.handle /\ "Abbruch" \in s.um -> {<<Getrennt(s), n>>}
      [] OTHER -> {<<s, n>>}

SocketBearbeiten(s) ==
    IF IstVerloren(s) THEN {<<Verloren(s), [elNetz EXCEPT !.her = << >>]>>}
    ELSE IF IstAbzubauen(s) THEN {<<Getrennt(s), [elNetz EXCEPT !.offen = FALSE, !.her = << >>]>>}
    ELSE UNION {Gesendet(e[1], e[2]) : e \in Empfangen(s, elNetz)}

(***************************************************************************)
(* POP3DatenVerarbeiten.                                                   *)
(***************************************************************************)
(* The line a full SocketInBuf is cut by; the last ones are kept. *)
OhneVorletzte(b) == SubSeq(b, 1, Len(b) - 2) \o <<Last(b)>>

(* Lines are taken while there are complete ones and while the printer has *)
(* room for them; of the lines the first tells what it is.                 *)
Zeilenlaenge(b) == IF b[1] = "lang" /\ Len(b) > 1 THEN 2 ELSE 1
IstEnde(b) == b = <<"punkt">>
Fertig(b) == b = << >> \/ b = <<"halb">>

(* Mutant: a line that does not fit is dropped. *)
MailZeileOhnePruefung(z) ==
    LET n == Zeilenlaenge(z.b)
        zeilen == IF z.weg \/ z.b[1] \in {"kopf", "ok", "err"} THEN << >> ELSE SubSeq(z.b, 1, n)
    IN  [z EXCEPT !.b = SubSeq(@, n + 1, Len(@)),
                  !.gedruckt = IF z.druck < ElDruckMax THEN @ \o zeilen ELSE @,
                  !.druck = IF zeilen # << >> /\ @ < ElDruckMax THEN @ + 1 ELSE @,
                  !.weg = @ \/ z.b[1] = "html"]

MailZeile(z) ==
    LET n == Zeilenlaenge(z.b)
        zeilen == IF z.weg \/ z.b[1] \in {"kopf", "ok", "err"} THEN << >> ELSE SubSeq(z.b, 1, n)
    IN  IF zeilen # << >> /\ z.druck >= ElDruckMax
        THEN [z EXCEPT !.voll = TRUE]
        ELSE [z EXCEPT !.b = SubSeq(@, n + 1, Len(@)),
                       !.gedruckt = @ \o zeilen,
                       !.druck = IF zeilen # << >> THEN @ + 1 ELSE @,
                       !.weg = @ \/ z.b[1] = "html"]

Weiter(z) == IF z.voll \/ Fertig(z.b) \/ IstEnde(z.b) THEN z ELSE MailZeile(z)

MailZeilen(s) ==
    LET z[i \in 0 .. ElInMax] ==
            IF i = 0
            THEN [b |-> s.in, druck |-> s.druck, weg |-> s.weg, gedruckt |-> elGeist.gedruckt, voll |-> FALSE]
            ELSE Weiter(z[i - 1])
    IN  z[ElInMax]

Kommando(s, phase, k) == [s EXCEPT !.phase = phase, !.out = <<k>>, !.ok = FALSE, !.in = << >>]
PopAbmelden(s) == [Kommando(s, "WarteEnde", "QUIT") EXCEPT !.geplant = TRUE]

(* What becomes of the station and of the history. *)
MailData(s) ==
    {LET t == [s EXCEPT !.druck = z.druck, !.weg = z.weg]
         g == [elGeist EXCEPT !.gedruckt = z.gedruckt]
     IN  IF IstEnde(z.b) THEN <<[Kommando(t, "Abmelden", "DELE") EXCEPT !.druck = @ + 1], g>>
         ELSE IF z.voll /\ z.b = s.in /\ Len(s.in) >= ElInMax
              THEN <<[t EXCEPT !.in = OhneVorletzte(@)], [g EXCEPT !.gekuerzt = TRUE]>>
              ELSE <<[t EXCEPT !.in = z.b], g>> : z \in {MailZeilen(s)}}

(* s has a whole line, or half a buffer, in it. *)
POPZeile(s) ==
    LET o == [s EXCEPT !.ok = @ \/ s.in[1] \in {"ok", "mails", "keine"}]
        p == IF o.ok \/ o.phase = "WarteEnde" THEN o.phase ELSE "Abmelden"
    IN  CASE p = "AnmeldungName"     -> {<<Kommando(o, "AnmeldungKennwort", "USER"), elGeist>>}
          [] p = "AnmeldungKennwort" -> {<<Kommando(o, "StartData", "PASS"), elGeist>>}
          [] p = "StartData"         -> {<<Kommando(o, "WarteStart", "STAT"), elGeist>>}
          [] p = "WarteStart" ->
                {<<PopAbmelden(o), elGeist>>} \cup
                (IF s.in[1] # "mails" THEN {}
                 ELSE {<<ModusWechsel([o EXCEPT !.phase = "MailWarteEinschaltungDruck", !.in = << >>],
                                      "EmailPOPWarteEinQuitt"), elGeist>>})
          [] p = "MailData"  -> MailData(o)
          [] p = "Abmelden"  -> {<<PopAbmelden(o), elGeist>>}
          [] p = "WarteEnde" -> {<<[o EXCEPT !.in = << >>], elGeist>>}
          [] OTHER           -> {<<o, elGeist>>}

POP3DatenVerarbeiten(s) ==
    IF s.out # << >> \/ (s.phase = "MailWarteEinschaltungDruck" /\ s.modus = "EmailPOPWarteEinQuitt")
    THEN {<<s, elGeist>>}
    ELSE IF s.phase = "MailWarteEinschaltungDruck" /\ s.modus = "EmailPOPDruckend"
    THEN {<<[s EXCEPT !.druck = 1, !.weg = FALSE, !.out = <<"RETR">>, !.phase = "MailData"], elGeist>>}
    ELSE IF (\A i \in DOMAIN s.in : s.in[i] \in {"halb", "lang"}) /\ Len(s.in) <= ElInMax \div 2
    THEN {<<s, elGeist>>}
    ELSE POPZeile(s)

(***************************************************************************)
(* SMTPDatenVerarbeiten.                                                   *)
(***************************************************************************)
WartetAufAntwort(s) == s.phase \notin {"MailData", "MailSubject", "EingabeMailTo"}

(* The command sent in a phase and the phase after it. *)
SMTPFolge ==
    [HalloSagen        |-> <<"EHLO", "AnmeldungStarten">>, AnmeldungStarten |-> <<"AUTH", "AnmeldungName">>,
     AnmeldungName     |-> <<"NAME", "AnmeldungKennwort">>, AnmeldungKennwort |-> <<"KENNWORT", "MailFrom">>,
     MailFrom          |-> <<"FROM", "MailTo">>, MailTo |-> <<"RCPT", "StartData">>,
     StartData         |-> <<"DATA", "WarteStart">>, WarteStart |-> <<"KOPF", "MailSubject">>,
     Abmelden          |-> <<"QUIT", "WarteEnde">>]

(* The first line typed: up to the first line feed with a letter before it *)
(* (letters of the line may have been used already).                       *)
Zeilenende(s) == {i \in DOMAIN s.ein : s.ein[i] = "zl" /\ (~s.anfang \/ \E j \in 1 .. i - 1 : s.ein[j] # "zl")}
Bis(s) == IF Zeilenende(s) = {} THEN Len(s.ein) ELSE CHOOSE i \in Zeilenende(s) : \A j \in Zeilenende(s) : i <= j
Buchstaben(q) == Auswahl(q, ElZeichen \ {"zl"})
Rest(q, n) == SubSeq(q, n + 1, Len(q))

(* What is typed before one is asked for it is dropped. *)
OhneVorgriff(s, q) == SubSeq(q, 1, Len(q) - Len(s.ein))

SMTPSchritt(s) ==
    LET n == Bis(s)
        neu == Buchstaben(SubSeq(s.ein, 1, n))
        ganz == Zeilenende(s) # {}
        mehr == [s EXCEPT !.ein = Rest(@, n), !.anfang = @ /\ neu = << >>]
    IN  CASE s.phase = "WarteEnde" -> <<[s EXCEPT !.geplant = TRUE], elGeist>>
          [] s.phase = "EingabeMailTo" ->
                <<[mehr EXCEPT !.phase = IF ganz THEN "MailFrom" ELSE @],
                  [elGeist EXCEPT !.getippt = Rest(@, n)]>>
          [] s.phase = "MailSubject" /\ ~ganz -> <<[mehr EXCEPT !.out = neu], elGeist>>
          [] s.phase = "MailSubject" /\ ganz ->
                <<[mehr EXCEPT !.out = Append(neu, "LEERZEILE"), !.phase = "MailData", !.druck = 1, !.ein = << >>],
                  [elGeist EXCEPT !.getippt = OhneVorgriff(mehr, @)]>>
          [] s.phase = "MailData" -> <<[s EXCEPT !.out = s.ein, !.ein = << >>], elGeist>>
          [] s.phase = "AnmeldungKennwort" /\ s.frage ->
                <<[s EXCEPT !.out = <<"KENNWORT">>, !.phase = "EingabeMailTo", !.druck = 1, !.ein = << >>,
                            !.anfang = TRUE],
                  [elGeist EXCEPT !.getippt = OhneVorgriff(s, @)]>>
          [] OTHER ->
                <<[s EXCEPT !.out = <<SMTPFolge[s.phase][1]>>, !.phase = SMTPFolge[s.phase][2],
                            !.geplant = @ \/ s.phase = "Abmelden",
                            !.druck = IF s.phase = "WarteStart" THEN 1 ELSE @,
                            !.anfang = @ \/ s.phase = "WarteStart"], elGeist>>

(* No whole answer yet; that to EHLO is waited for two seconds more. *)
AntwortFehlt(s) ==
    /\ WartetAufAntwort(s)
    /\ \/ s.in = << >> \/ EndetMit(s.in, {"halb"})
       \/ s.phase = "AnmeldungStarten" /\ "Vollstaendig" \notin s.um

SMTPWeiter(s) ==
    IF WartetAufAntwort(s) /\ s.in[1] = "err"
    THEN <<[InterneVerbindungBeenden(s) EXCEPT !.geplant = TRUE, !.in = << >>], elGeist>>
    ELSE LET r == SMTPSchritt(IF WartetAufAntwort(s) THEN [s EXCEPT !.in = << >>] ELSE s)
         IN  <<[r[1] EXCEPT !.um = @ \ {"Vollstaendig"}], r[2]>>

(* Mutant: what has not been sent yet is overwritten by what is typed. *)
SMTPDatenVerarbeitenSofort(s) == IF AntwortFehlt(s) THEN <<s, elGeist>> ELSE SMTPWeiter(s)

SMTPDatenVerarbeiten(s) == IF s.out # << >> \/ AntwortFehlt(s) THEN <<s, elGeist>> ELSE SMTPWeiter(s)

(***************************************************************************)
(* The rest of a pass.                                                     *)
(***************************************************************************)
(* Mutant: the silence of ten minutes does not end a session. *)
FristenOhneStille(s) ==
    IF s.modus = "WarteSchlussQuitt" /\ "Quittung" \in s.um THEN ModusWechsel(s, "WarteGrundstellung") ELSE s

Fristen(s) ==
    LET a == IF s.modus = "WarteSchlussQuitt" /\ "Quittung" \in s.um THEN ModusWechsel(s, "WarteGrundstellung")
             ELSE s
    IN  IF ModusTwiVerbunden(a) /\ "Ruhig" \in a.um
        THEN ModusWechsel(ExterneVerbindungBeenden(InterneVerbindungBeenden(a)), "WarteGrundstellung")
        ELSE a

Grundstellung(s) ==
    LET a == IF s.modus = "PufferDruckUndSchluss" /\ s.druck = 0 THEN ModusWechsel(s, "WarteSchlussQuitt") ELSE s
    IN  IF a.modus = "WarteGrundstellung" /\ ~a.handle /\ ~a.verb THEN ModusWechsel(a, "Ruhe") ELSE a

Verarbeitet(s) ==
    IF ~s.verb
    THEN {<<IF s.modus \in {"GehendVerbunden", "EmailPOPVerbunden", "EmailPOPWarteEinQuitt", "EmailPOPDruckend"}
            THEN InterneVerbindungBeenden(s) ELSE s, elGeist>>}
    ELSE IF s.prot = "SMTP" THEN {SMTPDatenVerarbeiten(s)} ELSE POP3DatenVerarbeiten(s)

Codes ==
    {elSt} \cup (IF elNetz.bus THEN BusQuittEin(elSt) \cup BusQuittSchluss(elSt) \cup BusKdoSchluss(elSt) ELSE {})

ElDurchlauf ==
    /\ \E c \in Codes : \E s \in {EingangLoeschen(TwiWache(c))} : \E e \in SocketBearbeiten(s) :
          /\ elNetz' = e[2]
          /\ \E r \in Verarbeitet(e[1]) : elSt' = Grundstellung(Fristen(r[1])) /\ elGeist' = r[2]
    /\ UNCHANGED <<elServer, elRest>>

(* A session begins: POP3Einleiten at the end of a pass, or dialling an    *)
(* e-mail address (AnwahlHandler) in the codes of the next one.            *)
Angefangen(s, mail) ==
    /\ elSt' = s
    /\ elRest.sitzungen > 0 /\ elRest' = [elRest EXCEPT !.sitzungen = @ - 1]
    /\ elNetz.hin = << >> /\ elNetz' = [elNetz EXCEPT !.offen = TRUE, !.hin = << >>, !.her = <<"ok">>]
    /\ elServer' = [imText |-> FALSE, text |-> << >>, angenommen |-> << >>, mail |-> mail, markiert |-> FALSE,
                    geloescht |-> FALSE]
    /\ elGeist' = [getippt |-> << >>, gedruckt |-> << >>, gekuerzt |-> FALSE, gestoert |-> FALSE]

POP3Einleiten ==
    /\ elSt.modus = "Ruhe" /\ ~elSt.handle
    /\ \E m \in ElMails : Angefangen(Begonnen(elSt, "POP3", "AnmeldungName", "EmailPOPVerbunden"), m)

SMTPOeffnen ==
    /\ elSt.modus = "Ruhe" /\ elNetz.bus
    /\ \E f \in BOOLEAN :
          Angefangen(Begonnen([elSt EXCEPT !.frage = f, !.ein = << >>], "SMTP", "HalloSagen", "GehendVerbunden"),
                     << >>)

(***************************************************************************)
(* Time, the terminal, the net.                                            *)
(***************************************************************************)
Laeuft(u) ==
    CASE u = "Abbau"        -> elSt.geplant /\ elSt.handle
      [] u = "Abbruch"      -> elSt.verb /\ ~elSt.handle
      [] u = "Fehler"       -> elSt.handle /\ elSt.out # << >> /\ ~elNetz.offen
      [] u = "Quittung"     -> elSt.modus = "WarteSchlussQuitt"
      [] u = "Ruhig"        -> ModusTwiVerbunden(elSt)
      [] u = "Vollstaendig" -> elSt.verb /\ elSt.prot = "SMTP" /\ elSt.phase = "AnmeldungStarten"

ElUhr(u) ==
    /\ u \notin elSt.um /\ Laeuft(u)
    /\ elSt' = [elSt EXCEPT !.um = @ \cup {u}]
    /\ UNCHANGED <<elNetz, elServer, elGeist, elRest>>

Drucken ==
    /\ elNetz.bus /\ elSt.druck > 0
    /\ elSt.modus \in {"GehendVerbunden", "EmailPOPDruckend", "PufferDruckUndSchluss"}
    /\ elSt' = [elSt EXCEPT !.druck = @ - 1]
    /\ UNCHANGED <<elNetz, elServer, elGeist, elRest>>

Tippen ==
    /\ elNetz.bus /\ elSt.modus = "GehendVerbunden" /\ elRest.getippt < Len(ElText)
    /\ elRest' = [elRest EXCEPT !.getippt = @ + 1]
    /\ elSt' = [elSt EXCEPT !.ein = Append(@, ElText[elRest'.getippt])]
    /\ elGeist' = [elGeist EXCEPT !.getippt = Append(@, ElText[elRest'.getippt])]
    /\ UNCHANGED <<elNetz, elServer>>

BusFaelltAus ==
    /\ elNetz.bus /\ ModusTwiVerbunden(elSt) /\ elRest.stoerungen > 0
    /\ elNetz' = [elNetz EXCEPT !.bus = FALSE]
    /\ elGeist' = [elGeist EXCEPT !.gestoert = TRUE]
    /\ elRest' = [elRest EXCEPT !.stoerungen = @ - 1]
    /\ UNCHANGED <<elSt, elServer>>

BusKommtWieder ==
    /\ ~elNetz.bus
    /\ elNetz' = [elNetz EXCEPT !.bus = TRUE]
    /\ UNCHANGED <<elSt, elServer, elGeist, elRest>>

(* tcp.c closes a connection nothing comes over, unless the time is set    *)
(* back in every pass (SocketBearbeiten, with the terminal on); the server *)
(* closes; the connection is lost with what is on its way.                 *)
TcpFrist ==
    /\ elNetz.offen /\ ~ModusTwiVerbunden(elSt) /\ elNetz.her = << >>
    /\ elNetz' = [elNetz EXCEPT !.offen = FALSE]
    /\ UNCHANGED <<elSt, elServer, elGeist, elRest>>

ServerSchliesst ==
    /\ elNetz.offen /\ elRest.stoerungen > 0
    /\ elNetz' = [elNetz EXCEPT !.offen = FALSE, !.hin = << >>]
    /\ elRest' = [elRest EXCEPT !.stoerungen = @ - 1]
    /\ UNCHANGED <<elSt, elServer, elGeist>>

Verlust ==
    /\ elNetz.offen /\ elRest.stoerungen > 0
    /\ ElZerrissen \/ ~(elSt.modus = "EmailPOPVerbunden" /\ elSt.in # << >>)
    /\ elNetz' = [elNetz EXCEPT !.offen = FALSE, !.hin = << >>, !.her = << >>]
    /\ elRest' = [elRest EXCEPT !.stoerungen = @ - 1]
    /\ UNCHANGED <<elSt, elServer, elGeist>>

(* The server takes the next token: what it becomes, what it answers.      *)
(* After a refusal it goes on; text alone and the beginning of a command   *)
(* are not a line (external).                                              *)
Antworten(k) ==
    CASE elServer.imText -> IF k = "PUNKT" THEN {<<"ok">>, <<"err">>} ELSE {<< >>}
      [] k = "EHLO" -> {<<"ok", "ok">>, <<"err">>}
      [] k = "STAT" -> {<<"mails">>, <<"keine">>}
      [] k = "RETR" -> {<<"ok">> \o elServer.mail \o <<"punkt">>, <<"err">>}
      [] k \in {"USER", "PASS", "AUTH", "NAME", "KENNWORT", "FROM", "RCPT", "DATA", "DELE"} -> {<<"ok">>, <<"err">>}
      [] k = "QUIT" -> {<<"ok">>}
      [] k \in {"KOPF", "LEERZEILE", "PUNKT"} -> {<<"err">>}
      [] OTHER -> {<< >>}

Antwortet ==
    /\ elNetz.hin # << >>
    /\ LET k == Head(elNetz.hin)
       IN  \E a \in Antworten(k) :
              /\ elNetz' = [elNetz EXCEPT !.hin = Tail(@), !.her = IF elNetz.offen THEN @ \o a ELSE @]
              /\ elServer' = [elServer EXCEPT
                    !.imText = IF @ THEN k # "PUNKT" ELSE k = "DATA" /\ a = <<"ok">>,
                    !.text = IF elServer.imText /\ k # "PUNKT" THEN Angehaengt(@, <<k>>) ELSE @,
                    !.angenommen = IF elServer.imText /\ k = "PUNKT" /\ a = <<"ok">> THEN elServer.text ELSE @,
                    !.markiert = @ \/ (k = "DELE" /\ a = <<"ok">>),
                    !.geloescht = @ \/ (k = "QUIT" /\ elServer.markiert)]
    /\ UNCHANGED <<elSt, elGeist, elRest>>

(***************************************************************************)
(* The specification and its properties.                                   *)
(***************************************************************************)
ElInit ==
    /\ elSt = [modus |-> "Ruhe", verb |-> FALSE, handle |-> FALSE, geplant |-> FALSE, prot |-> "POP3",
               phase |-> "WarteEnde", ok |-> FALSE, in |-> << >>, out |-> << >>, druck |-> 0, ein |-> << >>,
               anfang |-> TRUE, weg |-> FALSE, frage |-> FALSE, um |-> {}, verworfen |-> FALSE]
    /\ elNetz = [offen |-> FALSE, hin |-> << >>, her |-> << >>, bus |-> TRUE]
    /\ elServer = [imText |-> FALSE, text |-> << >>, angenommen |-> << >>, mail |-> << >>, markiert |-> FALSE,
                   geloescht |-> FALSE]
    /\ elGeist = [getippt |-> << >>, gedruckt |-> << >>, gekuerzt |-> FALSE, gestoert |-> FALSE]
    /\ elRest = [sitzungen |-> ElMaxSitzungen, getippt |-> 0, stoerungen |-> ElMaxStoerungen]

ElUhren == {"Abbau", "Abbruch", "Fehler", "Quittung", "Ruhig", "Vollstaendig"}
ElNext ==
    \/ ElDurchlauf \/ POP3Einleiten \/ SMTPOeffnen
    \/ \E u \in ElUhren : ElUhr(u)
    \/ Drucken \/ Tippen
    \/ BusFaelltAus \/ BusKommtWieder
    \/ TcpFrist \/ ServerSchliesst \/ Verlust \/ Antwortet

(* The main loop goes round, clocks run. *)
ElFair ==
    /\ WF_elVars(ElDurchlauf) /\ WF_elVars(TcpFrist)
    /\ WF_elVars(ElUhr("Ruhig")) /\ WF_elVars(\E u \in ElUhren \ {"Ruhig"} : ElUhr(u))
ElSpec == ElInit /\ [][ElNext]_elVars
ElFairSpec == ElSpec /\ ElFair

ElTyp ==
    /\ elSt.modus \in ElModi
    /\ Len(elSt.in) <= ElInMax /\ elSt.druck \in 0 .. ElDruckMax + 1
    /\ (elSt.handle => elSt.verb) /\ (elSt.verb => elSt.modus # "Ruhe")
    /\ elSt.um \subseteq ElUhren

(* A mail that a POP3 server deletes has gone into the print buffer as a   *)
(* whole, unless it is one that is not printed (MailUnterdruecken), the    *)
(* buffer had to be cut, the two-wire bus failed, or the session was given *)
(* up while RETR had not been sent yet (612 to 628: DELE takes its place): *)
(* whatever else was torn, lost or stopped on the way, at any later time,  *)
(* no mail is deleted with lines missing.                                  *)
GeloeschtNurGelesen ==
    elServer.geloescht => \/ elGeist.gekuerzt \/ elGeist.gestoert \/ elSt.weg \/ elSt.verworfen
                          \/ elGeist.gedruckt = Auswahl(elServer.mail, {"html", "lang", "zeile"})

(* What an SMTP server accepts is what was typed from its beginning and    *)
(* without a gap, though the end of it may be missing.                     *)
AngenommenIstAnfang == IsPrefix(Buchstaben(elServer.angenommen), Buchstaben(elGeist.getippt))

(* A session with a mail server ends, whatever becomes of the server, the  *)
(* connection, the terminal and the two-wire bus; the line is free again.  *)
ElSitzungEndet == (elSt.modus # "Ruhe") ~> (elSt.modus = "Ruhe")
=============================================================================
